------------------------- MODULE TasteProfilesProofs -------------------------
(***************************************************************************)
(* Proofs about TasteProfiles.  The rows of the builds and the jobs with   *)
(* the coordinator's cursor are sound together (Sound); reconciling and    *)
(* closing keep them so whatever rows they start from, which is what the   *)
(* two lemmas say; every action is one of these, or changes a single row   *)
(* in a way that cannot hurt.                                              *)
(*                                                                         *)
(* What became of scheduled evidence needs more (Story): a build that ended *)
(* well has seen the publication move on, so a build of the generation that *)
(* is served has not; a publication a transaction read before it was        *)
(* replaced has a successor whose build is in flight or shown as failed.    *)
(* Forward says what no transaction on the rows undoes.                     *)
(***************************************************************************)
EXTENDS TasteProfiles, FiniteSetTheorems, TLAPS

One(bs, infl) == \A i \in Job : InFlight(bs, i) <=> infl = i

Chained(bs, js) ==
  \A i \in Job : bs[i].state # "none" /\ bs[i].of # 0 =>
    /\ bs[bs[i].of].state \in {"failed", "cancelled"}
    /\ js[bs[i].of].rev = js[i].rev /\ js[bs[i].of].gen = js[i].gen

Tried(bs, js) ==
  \A i, k \in Job :
    (/\ bs[i].state # "none" /\ bs[k].state # "none" /\ i # k
     /\ js[i].rev = js[k].rev /\ js[i].gen = js[k].gen)
    => bs[i].of # 0 \/ bs[k].of # 0

Unborn(bs, js) == \A i \in Job : js[i].phase = "unborn" => bs[i].state = "none"

Sound(bs, js, infl) ==
  /\ bs \in [Job -> BuildRow] /\ js \in [Job -> JobRow] /\ infl \in 0..MaxJob
  /\ One(bs, infl) /\ Chained(bs, js) /\ Tried(bs, js) /\ Unborn(bs, js)

\* The rows of the jobs after a change that leaves their requests alone.
SameRequests(js, ks) ==
  /\ ks \in [Job -> JobRow]
  /\ \A i \in Job : /\ ks[i].rev = js[i].rev /\ ks[i].gen = js[i].gen
                    /\ ks[i].phase = "unborn" => js[i].phase = "unborn"

LEMMA SameRequestsSound ==
  ASSUME NEW bs, NEW js, NEW ks, NEW infl, Sound(bs, js, infl), SameRequests(js, ks)
  PROVE  Sound(bs, ks, infl)
<1>1. \A i \in Job : bs[i].of \in 0..MaxJob
  BY DEF Sound, BuildRow
<1>2. Chained(bs, ks)
  BY <1>1 DEF Sound, SameRequests, Chained, Job
<1>3. Tried(bs, ks)
  BY DEF Sound, SameRequests, Tried
<1>4. Unborn(bs, ks)
  BY DEF Sound, SameRequests, Unborn
<1> QED
  BY <1>2, <1>3, <1>4 DEF Sound, SameRequests

\* A build in flight that ends, with the cursor cleared if it pointed there.
LEMMA EndedSound ==
  ASSUME NEW bs, NEW js, NEW infl, Sound(bs, js, infl),
         NEW i \in Job, InFlight(bs, i), NEW verdict \in EndState
  PROVE  Sound([bs EXCEPT ![i].state = verdict], js, 0)
<1> DEFINE cs == [bs EXCEPT ![i].state = verdict]
<1>1. cs \in [Job -> BuildRow] /\ cs[i].state = verdict /\ cs[i].of = bs[i].of
  BY DEF Sound, BuildRow
<1>2. \A k \in Job \ {i} : cs[k] = bs[k]
  BY DEF Sound
<1>3. verdict \notin InFlightState /\ verdict # "none"
  BY DEF EndState, InFlightState
<1>4. bs[i].state \in InFlightState /\ bs[i].state \notin {"failed", "cancelled", "none"}
  BY DEF InFlight, InFlightState
<1>5. infl = i /\ \A k \in Job : InFlight(bs, k) => k = i
  BY DEF Sound, One
<1>6. One(cs, 0)
  BY <1>1, <1>2, <1>3, <1>5 DEF One, InFlight, Job
<1>7. \A k \in Job : cs[k].of = bs[k].of /\ (cs[k].state # "none" <=> bs[k].state # "none")
  BY <1>1, <1>2, <1>3, <1>4
<1>8. \A k \in Job : bs[k].of # 0 => bs[k].of \in Job
  BY DEF Sound, BuildRow, Job
<1>9. Chained(cs, js)
  <2> SUFFICES ASSUME NEW k \in Job, cs[k].state # "none", cs[k].of # 0
               PROVE  /\ cs[cs[k].of].state \in {"failed", "cancelled"}
                      /\ js[cs[k].of].rev = js[k].rev /\ js[cs[k].of].gen = js[k].gen
    BY DEF Chained
  <2>1. bs[bs[k].of].state \in {"failed", "cancelled"} /\ bs[k].of \in Job
    BY <1>7, <1>8 DEF Sound, Chained
  <2>2. cs[bs[k].of] = bs[bs[k].of]
    BY <2>1, <1>2, <1>4
  <2> QED
    BY <2>1, <2>2, <1>7 DEF Sound, Chained
<1>10. Tried(cs, js)
  BY <1>7 DEF Sound, Tried
<1>11. Unborn(cs, js)
  BY <1>7 DEF Sound, Unborn
<1>12. 0 \in 0..MaxJob
  BY TasteProfilesAssumption
<1> QED
  BY <1>1, <1>6, <1>9, <1>10, <1>11, <1>12 DEF Sound

\* A new build, of a revision nobody tried against that generation, or the
\* retry of one that failed.
LEMMA SubmittedSound ==
  ASSUME NEW bs, NEW js, Sound(bs, js, 0),
         NEW n \in Fresh(js), NEW rev \in {None} \cup Revision, NEW gen \in Nat,
         NEW of \in 0..MaxJob,
         \/ of = 0 /\ Prior(bs, js, rev, gen) = {}
         \/ /\ of # 0 /\ bs[of].state \in {"failed", "cancelled"}
            /\ js[of].rev = rev /\ js[of].gen = gen
  PROVE  Sound([bs EXCEPT ![n] = [state |-> "queued", of |-> of]],
               [js EXCEPT ![n] = Queued(rev, gen)], n)
<1> DEFINE cs == [bs EXCEPT ![n] = [state |-> "queued", of |-> of]]
           ks == [js EXCEPT ![n] = Queued(rev, gen)]
<1>0. n \in Job /\ js[n].phase = "unborn" /\ bs[n].state = "none"
  BY DEF Fresh, Sound, Unborn
<1>1. Queued(rev, gen) \in JobRow /\ Queued(rev, gen).rev = rev /\ Queued(rev, gen).gen = gen
      /\ Queued(rev, gen).phase = "queued"
  <2>1. 0 \in 0..MaxAttempt
    BY TasteProfilesAssumption
  <2> QED
    BY <2>1 DEF Queued, JobRow
<1>2. cs \in [Job -> BuildRow] /\ ks \in [Job -> JobRow]
  BY <1>0, <1>1 DEF Sound, BuildRow, InFlightState
<1>3. cs[n].state = "queued" /\ cs[n].of = of /\ ks[n].rev = rev /\ ks[n].gen = gen
      /\ ks[n].phase = "queued"
  BY <1>0, <1>1 DEF Sound
<1>4. \A k \in Job \ {n} : cs[k] = bs[k] /\ ks[k] = js[k]
  BY DEF Sound
<1>5. \A k \in Job : ~InFlight(bs, k)
  BY DEF Sound, One, Job
<1>6. One(cs, n)
  BY <1>3, <1>4, <1>5, <1>0 DEF One, InFlight, InFlightState
<1>7. \A k \in Job : bs[k].of # 0 => bs[k].of \in Job
  BY DEF Sound, BuildRow, Job
<1>8. Chained(cs, ks)
  <2> SUFFICES ASSUME NEW k \in Job, cs[k].state # "none", cs[k].of # 0
               PROVE  /\ cs[cs[k].of].state \in {"failed", "cancelled"}
                      /\ ks[cs[k].of].rev = ks[k].rev /\ ks[cs[k].of].gen = ks[k].gen
    BY DEF Chained
  <2>1. CASE k = n
    <3>1. of \in Job /\ of # n
      BY <2>1, <1>3, <1>0 DEF Job
    <3> QED
      BY <2>1, <3>1, <1>3, <1>4
  <2>2. CASE k # n
    <3>1. /\ bs[bs[k].of].state \in {"failed", "cancelled"} /\ bs[k].of \in Job
          /\ js[bs[k].of].rev = js[k].rev /\ js[bs[k].of].gen = js[k].gen
      BY <2>2, <1>4, <1>7 DEF Sound, Chained
    <3> QED
      BY <2>2, <3>1, <1>4, <1>0
  <2> QED
    BY <2>1, <2>2
<1>9. \A k \in Job : bs[k].state # "none" /\ js[k].rev = rev /\ js[k].gen = gen => of # 0
  BY DEF Prior
<1>10. Tried(cs, ks)
  BY <1>3, <1>4, <1>9 DEF Sound, Tried
<1>11. Unborn(cs, ks)
  BY <1>3, <1>4 DEF Sound, Unborn
<1> QED
  BY <1>0, <1>2, <1>6, <1>8, <1>10, <1>11 DEF Sound, Job

\* Reconciling keeps the rows sound.
LEMMA ReconcileSound ==
  ASSUME NEW rev \in Revision, NEW bs, NEW js, NEW infl, NEW p \in Publication,
         NEW force, NEW threshold,
         Sound(bs, js, infl), Reconcile(rev, bs, js, infl, p, force, threshold)
  PROVE  Sound(builds', jobs', inflight')
<1> DEFINE freed == Freed(bs, infl)
           prior == Prior(freed, js, rev, p.gen)
           due   == Due(rev, p, force, threshold)
<1>1. Sound(freed, js, 0)
  <2>1. CASE infl # 0 /\ InFlight(bs, infl)
    BY <2>1, EndedSound, infl \in Job, "failed" \in EndState DEF Freed, Sound, Job, EndState
  <2>2. CASE ~(infl # 0 /\ InFlight(bs, infl))
    <3>1. infl = 0
      BY <2>2 DEF Sound, One, Job
    <3> QED
      BY <3>1 DEF Freed
  <2> QED
    BY <2>1, <2>2
<1>2. \A i \in Job : ~InFlight(freed, i)
  BY <1>1 DEF Sound, One, Job
<1>3. CASE builds' = bs /\ jobs' = js /\ inflight' = infl
  BY <1>3
<1>4. CASE /\ builds' = freed /\ jobs' = js
           /\ inflight' = IF due /\ \E i \in prior : InFlight(freed, i)
                          THEN CHOOSE i \in prior : InFlight(freed, i) ELSE 0
  <2>1. ~\E i \in prior : InFlight(freed, i)
    BY <1>2 DEF Prior
  <2> QED
    BY <1>1, <1>4, <2>1
<1>5. ASSUME prior = {}, NEW n \in Fresh(js),
             builds' = [freed EXCEPT ![n] = [state |-> "queued", of |-> 0]],
             jobs' = [js EXCEPT ![n] = Queued(rev, p.gen)], inflight' = n
      PROVE  Sound(builds', jobs', inflight')
  <2>1. p.gen \in Nat /\ 0 \in 0..MaxJob
    BY TasteProfilesAssumption DEF Publication
  <2> QED
    BY <1>1, <1>5, <2>1, SubmittedSound
<1> QED
  BY <1>3, <1>4, <1>5 DEF Reconcile

-----------------------------------------------------------------------------

\* What a handler is about to record is a result.
Said == \A h \in handlers : h.at = "record" => h.verdict # "none"

IInv == TypeOK /\ Sound(builds, jobs, inflight) /\ Said

\* Closing a build keeps the rows sound, whatever becomes of its job.
LEMMA CloseSound ==
  ASSUME IInv, NEW i \in Job, NEW verdict \in EndState, NEW js,
         SameRequests(jobs, js), Close(i, verdict, js)
  PROVE  Sound(builds', jobs', inflight')
<1> DEFINE bs == [builds EXCEPT ![i].state = verdict]
           infl == IF inflight = i THEN 0 ELSE inflight
<1>1. Sound(builds, js, inflight)
  BY SameRequestsSound DEF IInv
<1>2. CASE ~InFlight(builds, i) /\ jobs' = js /\ UNCHANGED <<builds, inflight>>
  BY <1>1, <1>2
<1>3. CASE InFlight(builds, i)
  <2>1. infl = 0
    BY <1>1, <1>3 DEF Sound, One
  <2>2. Sound(bs, js, infl)
    BY <1>1, <1>3, <2>1, EndedSound
  <2>3. CASE builds' = bs /\ jobs' = js /\ inflight' = infl
    BY <2>2, <2>3
  <2>4. CASE desired # None
             /\ Reconcile(desired, bs, js, infl, active, verdict = "superseded", 1)
    <3>1. desired \in Revision /\ active \in Publication
      BY <2>4 DEF IInv, TypeOK
    <3> QED
      BY <3>1, <2>2, <2>4, ReconcileSound
  <2> QED
    BY <1>3, <2>3, <2>4 DEF Close
<1> QED
  BY <1>2, <1>3 DEF Close

\* What a handler does next is typed, and a result is known when it is recorded.
LEMMA MoveTyped ==
  ASSUME IInv, NEW h \in handlers,
         NEW at \in {"mark", "stage", "publish", "record", "return"},
         NEW verdict \in {"none"} \cup EndState, at = "record" => verdict # "none",
         Move(h, at, verdict)
  PROVE  handlers' \subseteq Handler /\ Said'
<1> DEFINE g == [h EXCEPT !.at = at, !.verdict = verdict]
<1>1. h \in Handler
  BY DEF IInv, TypeOK
<1>2. g \in Handler /\ g.at = at /\ g.verdict = verdict
  BY <1>1 DEF Handler
<1>3. handlers' = (handlers \ {h}) \cup {g}
  BY DEF Move
<1> QED
  BY <1>2, <1>3 DEF IInv, TypeOK, Said

LEMMA RaiseTyped ==
  ASSUME IInv, NEW h \in handlers, NEW verdict \in EndState, Raise(h, verdict)
  PROVE  handlers' \subseteq Handler /\ Said'
<1>1. verdict # "none"
  BY DEF EndState
<1>2. CASE Coordinated(h.job)
  BY <1>1, <1>2, MoveTyped DEF Raise
<1>3. CASE ~Coordinated(h.job)
  BY <1>1, <1>3, MoveTyped DEF Raise
<1> QED
  BY <1>2, <1>3

\* A handler that goes leaves the others as they are.
LEMMA LeaveTyped ==
  ASSUME IInv, NEW h \in handlers, handlers' = handlers \ {h}
  PROVE  handlers' \subseteq Handler /\ Said'
BY DEF IInv, TypeOK, Said

\* The evidence after a change.
LEMMA AfterTyped ==
  ASSUME IInv, NEW kind, NEW e
  PROVE  /\ After(kind, e) \in [Exemplar -> {"pending", "active", "revoked"}]
         /\ kind \in {"activate", "undo"} \/ After(kind, e) = evidence
<1>1. evidence \in [Exemplar -> {"pending", "active", "revoked"}]
  BY DEF IInv, TypeOK
<1>2. CASE kind = "activate"
  BY <1>1, <1>2 DEF After
<1>3. CASE kind = "undo"
  BY <1>1, <1>3 DEF After
<1>4. CASE kind \notin {"activate", "undo"}
  BY <1>1, <1>4 DEF After
<1> QED
  BY <1>2, <1>3, <1>4

\* A job leaves its request behind when it ends or is put back.
LEMMA LeftSame ==
  ASSUME IInv, NEW i \in Job, jobs[i].phase # "unborn",
         NEW phase \in {"queued", "done", "failed", "cancelled"}
  PROVE  SameRequests(jobs, [jobs EXCEPT ![i] = Left(jobs[i], phase)])
<1>1. jobs[i] \in JobRow /\ 0 \in 0..MaxAttempt
  BY TasteProfilesAssumption DEF IInv, TypeOK
<1>2. /\ Left(jobs[i], phase) \in JobRow
      /\ Left(jobs[i], phase).rev = jobs[i].rev /\ Left(jobs[i], phase).gen = jobs[i].gen
      /\ Left(jobs[i], phase).phase = phase
  <2>1. CASE phase = "queued"
    BY <1>1, <2>1 DEF Left, JobRow
  <2>2. CASE phase # "queued"
    BY <1>1, <2>2 DEF Left, JobRow
  <2> QED
    BY <2>1, <2>2
<1> QED
  BY <1>2 DEF SameRequests, IInv, TypeOK

-----------------------------------------------------------------------------

\* The parts of the type invariant that the rows' soundness does not carry.
OthersTyped ==
  /\ evidence \in [Exemplar -> {"pending", "active", "revoked"}]
  /\ active \in Publication
  /\ desired \in {None} \cup Revision
  /\ handlers \subseteq Handler
  /\ plan \in {Closed} \cup Plan

LEMMA Parts == IInv <=> OthersTyped /\ Sound(builds, jobs, inflight) /\ Said
BY DEF IInv, TypeOK, OthersTyped, Sound

LEMMA PartsNext == OthersTyped' /\ Sound(builds', jobs', inflight') /\ Said' => IInv'
BY DEF IInv, TypeOK, OthersTyped, Sound

LEMMA InitSound == Init => IInv
<1> SUFFICES ASSUME Init PROVE IInv
  OBVIOUS
<1>1. OthersTyped /\ Said
  BY DEF Init, OthersTyped, Said, Publication, Closed
<1>2. NoBuild \in BuildRow /\ NoJob \in JobRow /\ 0 \in 0..MaxJob
  BY TasteProfilesAssumption DEF NoBuild, NoJob, BuildRow, JobRow
<1>3. /\ builds \in [Job -> BuildRow] /\ jobs \in [Job -> JobRow] /\ inflight = 0
      /\ \A i \in Job : builds[i].state = "none" /\ builds[i].of = 0
  BY <1>2 DEF Init, NoBuild
<1>4. One(builds, inflight)
  BY <1>3 DEF One, InFlight, InFlightState, Job
<1>5. Chained(builds, jobs) /\ Tried(builds, jobs) /\ Unborn(builds, jobs)
  BY <1>3 DEF Chained, Tried, Unborn
<1> QED
  BY <1>1, <1>2, <1>3, <1>4, <1>5, Parts DEF Sound

\* What changes neither rows nor handlers keeps what is said of them.
LEMMA RowsAlone ==
  ASSUME IInv, UNCHANGED <<builds, jobs, inflight>>
  PROVE  Sound(builds', jobs', inflight')
BY DEF IInv

LEMMA HandlersAlone ==
  ASSUME IInv, UNCHANGED handlers
  PROVE  handlers' \subseteq Handler /\ Said'
BY DEF IInv, TypeOK, Said

LEMMA ScheduleStep ==
  ASSUME IInv,
         \/ \E kind \in {"activate", "undo"}, e \in Exemplar :
              ChangeQuietly(kind, e) \/ BeginSchedule(kind, e)
         \/ \E force, initial \in BOOLEAN : Ask(force, initial)
         \/ EndSchedule
         \/ \E g \in 0..active.gen : Seed(g)
  PROVE  IInv'
<1> USE DEF OthersTyped
<1>0. OthersTyped
  BY Parts
<1>1. ASSUME NEW kind \in {"activate", "undo"}, NEW e \in Exemplar, ChangeQuietly(kind, e)
      PROVE  IInv'
  BY <1>0, <1>1, AfterTyped, RowsAlone, HandlersAlone, PartsNext DEF ChangeQuietly
<1>2. ASSUME NEW kind, NEW e, NEW force, NEW initial, Open(kind, e, force, initial),
             kind \in {"none", "activate", "undo"}, e \in {None} \cup Exemplar,
             force \in BOOLEAN, initial \in BOOLEAN
      PROVE  IInv'
  <2>1. plan' \in Plan
    BY <1>0, <1>2 DEF Open, Plan, Publication
  <2> QED
    BY <1>0, <1>2, <2>1, RowsAlone, HandlersAlone, PartsNext DEF Open
<1>3. ASSUME NEW kind \in {"activate", "undo"}, NEW e \in Exemplar, BeginSchedule(kind, e)
      PROVE  IInv'
  BY <1>2, <1>3 DEF BeginSchedule
<1>4. ASSUME NEW force \in BOOLEAN, NEW initial \in BOOLEAN, Ask(force, initial)
      PROVE  IInv'
  BY <1>2, <1>4 DEF Ask
<1>5. CASE EndSchedule
  <2>1. evidence' \in [Exemplar -> {"pending", "active", "revoked"}]
    BY <1>5, AfterTyped DEF EndSchedule
  <2>2. Live(evidence') \in Revision
    BY DEF Live, Revision
  <2>3. CASE UNCHANGED <<desired, inflight, builds, jobs>>
    BY <1>0, <1>5, <2>1, <2>3, RowsAlone, HandlersAlone, PartsNext DEF EndSchedule
  <2>4. CASE /\ desired' = Live(evidence')
             /\ Reconcile(Live(evidence'), builds, jobs, inflight,
                  IF plan.seen.gen = 0 THEN active ELSE plan.seen, plan.force, Threshold)
    <3>1. (IF plan.seen.gen = 0 THEN active ELSE plan.seen) \in Publication
      <4>1. plan \in Plan
      BY <1>0, <1>5 DEF EndSchedule, Closed
    <4> QED
      BY <1>0, <4>1 DEF Plan
    <3>2. Sound(builds', jobs', inflight')
      BY <2>2, <2>4, <3>1, ReconcileSound DEF IInv
    <3> QED
      BY <1>0, <1>5, <2>1, <2>2, <2>4, <3>2, HandlersAlone, PartsNext DEF EndSchedule
  <2> QED
    BY <1>5, <2>3, <2>4 DEF EndSchedule
<1>6. ASSUME NEW g \in 0..active.gen, Seed(g)
      PROVE  IInv'
  <2>1. PICK n \in Fresh(jobs) : jobs' = [jobs EXCEPT ![n] = Queued(None, g)]
    BY <1>6 DEF Seed
  <2>2. g \in Nat /\ 0 \in 0..MaxAttempt
    BY <1>0, TasteProfilesAssumption DEF Publication
  <2>3. Queued(None, g) \in JobRow /\ Queued(None, g).phase = "queued"
    BY <2>2 DEF Queued, JobRow
  <2>4. n \in Job /\ builds[n].state = "none"
    BY <2>1 DEF Fresh, IInv, Sound, Unborn
  <2>5. jobs' \in [Job -> JobRow]
    BY <2>1, <2>3, <2>4 DEF IInv, TypeOK
  <2>6. \A k \in Job \ {n} : jobs'[k] = jobs[k]
    BY <2>1 DEF IInv, TypeOK
  <2>7. \A k \in Job : builds[k].state # "none" => jobs'[k] = jobs[k]
    BY <2>4, <2>6
  <2>8. \A k \in Job : builds[k].of # 0 => builds[k].of \in Job
    BY DEF IInv, TypeOK, BuildRow, Job
  <2>9. Chained(builds, jobs') /\ Tried(builds, jobs')
    BY <2>7, <2>8 DEF IInv, Sound, Chained, Tried
  <2>10. Unborn(builds, jobs')
    BY <2>1, <2>3, <2>4, <2>6 DEF IInv, Sound, Unborn
  <2>11. Sound(builds, jobs', inflight)
    BY <2>5, <2>9, <2>10 DEF IInv, Sound
  <2> QED
    BY <1>0, <1>6, <2>11, HandlersAlone, PartsNext DEF Seed
<1> QED
  BY <1>1, <1>3, <1>4, <1>5, <1>6

LEMMA MarkRunningStep ==
  ASSUME IInv, NEW h \in handlers, MarkRunning(h)
  PROVE  IInv'
<1> DEFINE i == h.job
<1>0. OthersTyped /\ i \in Job
  BY Parts DEF OthersTyped, Handler
<1>1. handlers' \subseteq Handler /\ Said'
  BY MoveTyped DEF MarkRunning, EndState
<1>2. CASE UNCHANGED builds
  BY <1>0, <1>1, <1>2, RowsAlone, PartsNext DEF MarkRunning, OthersTyped
<1>3. CASE MayRun(i) /\ builds' = [builds EXCEPT ![i].state = "running"]
  <2>1. /\ builds' \in [Job -> BuildRow] /\ builds'[i].state = "running"
        /\ builds'[i].of = builds[i].of /\ \A k \in Job \ {i} : builds'[k] = builds[k]
    BY <1>0, <1>3 DEF IInv, TypeOK, BuildRow, InFlightState
  <2>2. builds[i].state \in InFlightState
        /\ builds[i].state \notin {"failed", "cancelled", "none"}
    BY <1>3 DEF MayRun, InFlight, InFlightState
  <2>3. \A k \in Job : /\ builds'[k].of = builds[k].of
                       /\ builds'[k].state # "none" <=> builds[k].state # "none"
                       /\ InFlight(builds', k) <=> InFlight(builds, k)
    BY <2>1, <2>2 DEF InFlight, InFlightState
  <2>4. \A k \in Job : builds[k].state \in {"failed", "cancelled"} => builds'[k] = builds[k]
    BY <2>1, <2>2
  <2>5. One(builds', inflight)
    BY <2>3 DEF IInv, Sound, One
  <2>6. \A k \in Job : builds[k].of # 0 => builds[k].of \in Job
    BY DEF IInv, TypeOK, BuildRow, Job
  <2>7. Chained(builds', jobs)
    BY <2>3, <2>4, <2>6 DEF IInv, Sound, Chained
  <2>8. Tried(builds', jobs) /\ Unborn(builds', jobs)
    BY <2>3 DEF IInv, Sound, Tried, Unborn
  <2>9. Sound(builds', jobs, inflight)
    BY <2>1, <2>5, <2>7, <2>8 DEF IInv, Sound
  <2> QED
    BY <1>0, <1>1, <2>9, PartsNext DEF MarkRunning, OthersTyped
<1> QED
  BY <1>2, <1>3 DEF MarkRunning

LEMMA HandlerStep ==
  ASSUME IInv, NEW h \in handlers,
         \/ MarkRunning(h) \/ Stage(h) \/ Activate(h) \/ PublicationFails(h)
         \/ Record(h) \/ RecordFails(h) \/ Return(h) \/ Crash(h)
  PROVE  IInv'
<1>0. OthersTyped /\ h.job \in Job /\ h.verdict \in {"none"} \cup EndState
  BY Parts DEF OthersTyped, Handler
<1>1. CASE MarkRunning(h)
  BY <1>1, MarkRunningStep
<1>2. CASE Stage(h)
  <2>1. handlers' \subseteq Handler /\ Said'
    BY <1>2, MoveTyped, RaiseTyped DEF Stage, EndState
  <2> QED
    BY <1>0, <1>2, <2>1, RowsAlone, PartsNext DEF Stage, OthersTyped
<1>3. CASE Activate(h)
  <2>1. handlers' \subseteq Handler /\ Said'
    BY <1>3, RaiseTyped DEF Activate, EndState
  <2>2. jobs[h.job].rev \in {None} \cup Revision
    BY <1>0 DEF IInv, TypeOK, JobRow
  <2>3. active' \in Publication
    BY <1>0, <1>3, <2>2 DEF Activate, OthersTyped, Publication
  <2> QED
    BY <1>0, <1>3, <2>1, <2>3, RowsAlone, PartsNext DEF Activate, OthersTyped
<1>4. CASE PublicationFails(h)
  <2>1. handlers' \subseteq Handler /\ Said'
    BY <1>4, RaiseTyped DEF PublicationFails, EndState
  <2> QED
    BY <1>0, <1>4, <2>1, RowsAlone, PartsNext DEF PublicationFails, OthersTyped
<1>5. CASE Record(h)
  <2>1. h.verdict \in EndState
    BY <1>0, <1>5 DEF Record, IInv, Said
  <2>2. SameRequests(jobs, jobs)
    BY DEF SameRequests, IInv, TypeOK
  <2>3. Sound(builds', jobs', inflight')
    BY <1>0, <1>5, <2>1, <2>2, CloseSound DEF Record
  <2>4. handlers' \subseteq Handler /\ Said'
    BY <1>0, <1>5, MoveTyped DEF Record
  <2> QED
    BY <1>0, <1>5, <2>3, <2>4, PartsNext DEF Record, OthersTyped
<1>6. CASE RecordFails(h)
  <2>1. handlers' \subseteq Handler /\ Said'
    BY <1>0, <1>6, MoveTyped DEF RecordFails, SayAgain, EndState
  <2> QED
    BY <1>0, <1>6, <2>1, RowsAlone, PartsNext DEF RecordFails, OthersTyped
<1>7. CASE Return(h)
  <2>1. handlers' \subseteq Handler /\ Said'
    BY <1>7, LeaveTyped DEF Return
  <2>2. CASE UNCHANGED jobs
    BY <1>0, <1>7, <2>1, <2>2, RowsAlone, PartsNext DEF Return, OthersTyped
  <2>3. ASSUME Owns(h), NEW phase \in Outcomes(h),
               jobs' = [jobs EXCEPT ![h.job] = Left(jobs[h.job], phase)]
        PROVE  IInv'
    <3>1. phase \in {"queued", "done", "failed", "cancelled"}
      BY <2>3 DEF Outcomes
    <3>2. SameRequests(jobs, jobs')
      BY <1>0, <2>3, <3>1, LeftSame DEF Owns
    <3>3. Sound(builds, jobs', inflight)
      BY <3>2, SameRequestsSound DEF IInv
    <3> QED
      BY <1>0, <1>7, <2>1, <3>3, PartsNext DEF Return, OthersTyped
  <2> QED
    BY <1>7, <2>2, <2>3 DEF Return
<1>8. CASE Crash(h)
  BY <1>0, <1>8, LeaveTyped, RowsAlone, PartsNext DEF Crash, OthersTyped
<1> QED
  BY <1>1, <1>2, <1>3, <1>4, <1>5, <1>6, <1>7, <1>8

LEMMA JobStep ==
  ASSUME IInv, NEW i \in Job,
         Admit(i) \/ Interrupt(i) \/ CancelRunning(i) \/ CancelQueued(i) \/ Retry(i)
  PROVE  IInv'
<1>0. OthersTyped /\ jobs[i] \in JobRow /\ jobs \in [Job -> JobRow]
  BY Parts DEF OthersTyped, IInv, TypeOK
<1>1. CASE Admit(i)
  <2> DEFINE g == [job |-> i, attempt |-> jobs[i].attempt + 1, verdict |-> "none",
                   at |-> IF Coordinated(i) THEN "mark" ELSE "stage"]
  <2>1. jobs[i].attempt + 1 \in 1..MaxAttempt
    BY <1>0, <1>1, TasteProfilesAssumption DEF Admit, JobRow
  <2>2. g \in Handler /\ g.at # "record"
    BY <2>1 DEF Handler
  <2>3. handlers' \subseteq Handler /\ Said'
    BY <1>1, <2>2 DEF Admit, Said, IInv, TypeOK
  <2>4. SameRequests(jobs, jobs')
    BY <1>0, <1>1, <2>1 DEF Admit, SameRequests, JobRow
  <2>5. Sound(builds, jobs', inflight)
    BY <2>4, SameRequestsSound DEF IInv
  <2> QED
    BY <1>0, <1>1, <2>3, <2>5, PartsNext DEF Admit, OthersTyped
<1>2. CASE Interrupt(i)
  <2>1. SameRequests(jobs, jobs')
    BY <1>2, LeftSame DEF Interrupt
  <2>2. Sound(builds, jobs', inflight)
    BY <2>1, SameRequestsSound DEF IInv
  <2> QED
    BY <1>0, <1>2, <2>2, HandlersAlone, PartsNext DEF Interrupt, OthersTyped
<1>3. CASE CancelRunning(i)
  <2>1. SameRequests(jobs, jobs')
    BY <1>0, <1>3 DEF CancelRunning, SameRequests, JobRow
  <2>2. Sound(builds, jobs', inflight)
    BY <2>1, SameRequestsSound DEF IInv
  <2> QED
    BY <1>0, <1>3, <2>2, HandlersAlone, PartsNext DEF CancelRunning, OthersTyped
<1>4. CASE CancelQueued(i)
  <2>1. SameRequests(jobs, [jobs EXCEPT ![i] = Left(jobs[i], "cancelled")])
    BY <1>4, LeftSame DEF CancelQueued
  <2>2. Sound(builds', jobs', inflight')
    BY <1>4, <2>1, CloseSound DEF CancelQueued, EndState
  <2> QED
    BY <1>0, <1>4, <2>2, HandlersAlone, PartsNext DEF CancelQueued, OthersTyped
<1>5. CASE Retry(i)
  <2>1. PICK n \in Fresh(jobs) :
          /\ jobs' = [jobs EXCEPT ![n] = Queued(jobs[i].rev, jobs[i].gen)]
          /\ builds' = [builds EXCEPT ![n] = [state |-> "queued", of |-> i]]
          /\ inflight' = n
    BY <1>5 DEF Retry
  <2>2. /\ jobs[i].rev \in {None} \cup Revision /\ jobs[i].gen \in Nat
        /\ i \in 0..MaxJob /\ i # 0
    BY <1>0 DEF JobRow, Job
  <2>3. Sound(builds, jobs, 0) /\ builds[i].state \in {"failed", "cancelled"}
    BY <1>5 DEF Retry, Retryable, IInv
  <2>4. Sound(builds', jobs', inflight')
    BY <2>1, <2>2, <2>3, SubmittedSound
  <2> QED
    BY <1>0, <1>5, <2>4, HandlersAlone, PartsNext DEF Retry, OthersTyped
<1> QED
  BY <1>1, <1>2, <1>3, <1>4, <1>5

LEMMA StutterStep == ASSUME IInv, UNCHANGED vars PROVE IInv'
<1>1. OthersTyped'
  BY Parts DEF OthersTyped, vars
<1> QED
  BY <1>1, RowsAlone, HandlersAlone, PartsNext DEF vars

LEMMA NextSound == IInv /\ [Next]_vars => IInv'
BY ScheduleStep, HandlerStep, JobStep, StutterStep DEF Next

LEMMA SpecSound == Spec => []IInv
BY InitSound, NextSound, PTL DEF Spec

(* For any number of exemplars, jobs, attempts and faults, the coordinator   *)
(* waits for a build exactly if that build is in flight: taste_preferences.py *)
(* never inserts a second build in flight and never waits for an ended one.  *)
THEOREM OneBuildInFlightHolds == Spec => []OneBuildInFlight
<1>1. IInv => OneBuildInFlight
  BY DEF IInv, Sound, One, OneBuildInFlight
<1> QED
  BY <1>1, SpecSound, PTL

(* For any bounds, a revision is built once by itself against a generation,  *)
(* and a further build of it is a retry of one that failed or was cancelled. *)
THEOREM OneAutomaticBuildHolds == Spec => []OneAutomaticBuild
<1>1. IInv => OneAutomaticBuild
  BY DEF IInv, Sound, Chained, Tried, OneAutomaticBuild, Coordinated
<1> QED
  BY <1>1, SpecSound, PTL

-----------------------------------------------------------------------------
(* What builds and jobs have said so far.                                  *)

GoodEnd == {"succeeded", "superseded"}
BadEnd  == {"failed", "cancelled"}

\* Only the builds of the coordinator are of a revision.
Plain(bs, js) == \A i \in Job : bs[i].state = "none" => js[i].rev = None

\* No job asks for a publication still to come.
Known(js) == \A i \in Job : js[i].gen <= active.gen

\* A build that ended well has seen the publication move.
Beaten(bs, js) == \A i \in Job : bs[i].state \in GoodEnd => active.gen > js[i].gen

\* The profile is of no revision, or a build of its revision is in one of these states.
Shown(bs, js, states) ==
  active.rev = None \/ \E k \in Job : js[k].rev = active.rev /\ bs[k].state \in states

\* The answer to a revision, as EvidenceIsAnswered says it.
Answer(rev, bs, js) ==
  \/ active.gen > 0 /\ active.rev = None
  \/ rev = active.rev
  \/ active.gen > 0 /\ Cardinality(Difference(rev, active.rev)) < Threshold
  \/ \E i \in Job : bs[i].state \in BadEnd /\ js[i].rev \in {rev, active.rev}

\* What a handler knows: a result that returns was recorded, a good one found
\* the publication moved, and a success is the profile or outlived by one shown.
Told(h) ==
  /\ jobs[h.job].phase # "unborn"
  /\ h.at = "return" /\ h.verdict \in GoodEnd => ~InFlight(builds, h.job)
  /\ h.verdict \in GoodEnd => active.gen > jobs[h.job].gen
  /\ h.verdict = "succeeded" /\ InFlight(builds, h.job) =>
       active.rev = jobs[h.job].rev \/ Shown(builds, jobs, BadEnd)

\* A publication p that was read a while ago has been followed by another, whose
\* build is still in flight or shown as failed.
Overtaken(p, bs, js) ==
  p # active => active.gen > p.gen /\ Shown(bs, js, InFlightState \cup BadEnd)

Story ==
  /\ Plain(builds, jobs) /\ Known(jobs) /\ Beaten(builds, jobs) /\ DoneIsRecorded
  /\ \A h \in handlers : Told(h)
  /\ plan.open => Overtaken(plan.seen, builds, jobs)
  /\ inflight = 0 /\ desired # None => Answer(desired, builds, jobs)

\* What no transaction on the rows undoes.
Forward(bs, js, cs, ks) ==
  /\ \A i \in Job : js[i].phase # "unborn" =>
       /\ ks[i].phase # "unborn" /\ ks[i].rev = js[i].rev /\ ks[i].gen = js[i].gen
       /\ InFlight(cs, i) => InFlight(bs, i)
       /\ bs[i].state \in BadEnd => cs[i].state = bs[i].state
  /\ \A i \in Job : ks[i].phase = "done" => js[i].phase = "done"
  /\ Plain(bs, js) => Plain(cs, ks)
  /\ Known(js) => Known(ks)
  /\ Beaten(bs, js) => Beaten(cs, ks)

LEMMA ForwardOn ==
  ASSUME NEW bs, NEW js, NEW cs, NEW ks, NEW ds, NEW ls,
         Forward(bs, js, cs, ks), Forward(cs, ks, ds, ls)
  PROVE  Forward(bs, js, ds, ls)
BY DEF Forward

LEMMA ForwardSame ==
  ASSUME NEW bs, NEW js, NEW ks, SameRequests(js, ks), NEW infl, Sound(bs, js, infl),
         \A i \in Job : ks[i].phase = "done" => js[i].phase = "done"
  PROVE  Forward(bs, js, bs, ks)
<1>1. Plain(bs, js) => Plain(bs, ks)
  BY DEF Plain, SameRequests
<1>2. Beaten(bs, js) => Beaten(bs, ks)
  BY DEF Beaten, SameRequests
<1>3. Known(js) => Known(ks)
  BY DEF Known, SameRequests
<1> QED
  BY <1>1, <1>2, <1>3 DEF Forward, SameRequests

\* A build in flight ends.
LEMMA ForwardEnded ==
  ASSUME NEW bs, NEW js, NEW infl, Sound(bs, js, infl),
         NEW i \in Job, InFlight(bs, i), NEW verdict \in EndState,
         verdict \in GoodEnd => active.gen > js[i].gen
  PROVE  Forward(bs, js, [bs EXCEPT ![i].state = verdict], js)
<1> DEFINE cs == [bs EXCEPT ![i].state = verdict]
<1>1. cs[i].state = verdict /\ \A k \in Job \ {i} : cs[k] = bs[k]
  BY DEF Sound, BuildRow
<1>2. verdict \notin InFlightState /\ verdict # "none" /\ bs[i].state \notin BadEnd
  BY DEF EndState, InFlight, InFlightState, BadEnd
<1>3. Plain(bs, js) => Plain(cs, js)
  BY <1>1, <1>2 DEF Plain
<1>4. Beaten(bs, js) => Beaten(cs, js)
  BY <1>1 DEF Beaten
<1> QED
  BY <1>1, <1>2, <1>3, <1>4 DEF Forward, InFlight

\* A job nobody knew appears, with its build if it is of a revision.
LEMMA ForwardNew ==
  ASSUME NEW bs, NEW js, NEW infl, Sound(bs, js, infl),
         NEW n \in Fresh(js), NEW rev \in {None} \cup Revision, NEW gen \in Nat, NEW cs,
         gen <= active.gen,
         \/ \E of \in 0..MaxJob : cs = [bs EXCEPT ![n] = [state |-> "queued", of |-> of]]
         \/ cs = bs /\ rev = None
  PROVE  Forward(bs, js, cs, [js EXCEPT ![n] = Queued(rev, gen)])
<1> DEFINE ks == [js EXCEPT ![n] = Queued(rev, gen)]
<1>1. n \in Job /\ js[n].phase = "unborn" /\ bs[n].state = "none"
  BY DEF Fresh, Sound, Unborn
<1>2. ks[n].phase = "queued" /\ ks[n].rev = rev /\ ks[n].gen = gen
  BY <1>1 DEF Sound, Queued
<1>3. \A k \in Job \ {n} : cs[k] = bs[k] /\ ks[k] = js[k]
  BY DEF Sound
<1>4. cs[n].state = "queued" \/ (cs[n].state = "none" /\ rev = None)
  <2>1. ASSUME NEW of \in 0..MaxJob, cs = [bs EXCEPT ![n] = [state |-> "queued", of |-> of]]
        PROVE  cs[n].state = "queued"
    BY <1>1, <2>1 DEF Sound
  <2> QED
    BY <1>1, <2>1
<1>5. Plain(bs, js) => Plain(cs, ks)
  BY <1>2, <1>3, <1>4 DEF Plain
<1>6. Beaten(bs, js) => Beaten(cs, ks)
  BY <1>3, <1>4 DEF Beaten, GoodEnd
<1>7. Known(js) => Known(ks)
  BY <1>2, <1>3 DEF Known
<1> QED
  BY <1>1, <1>2, <1>3, <1>5, <1>6, <1>7 DEF Forward, InFlight

\* The rows with the build freed whose job has ended.
LEMMA FreedSound ==
  ASSUME NEW bs, NEW js, NEW infl, Sound(bs, js, infl)
  PROVE  /\ Sound(Freed(bs, infl), js, 0)
         /\ Forward(bs, js, Freed(bs, infl), js)
         /\ \A i \in Job : ~InFlight(Freed(bs, infl), i)
         /\ \A i \in Job : InFlight(bs, i) => Freed(bs, infl)[i].state = "failed"
<1>1. \A i \in Job : InFlight(bs, i) => i = infl
  BY DEF Sound, One
<1>2. CASE infl # 0 /\ InFlight(bs, infl)
  <2>1. infl \in Job /\ "failed" \in EndState /\ "failed" \notin GoodEnd
    BY <1>2 DEF Sound, Job, EndState, GoodEnd
  <2>2. Freed(bs, infl) = [bs EXCEPT ![infl].state = "failed"]
    BY <1>2 DEF Freed
  <2>3. Sound([bs EXCEPT ![infl].state = "failed"], js, 0)
    BY <1>2, <2>1, EndedSound
  <2>4. Forward(bs, js, [bs EXCEPT ![infl].state = "failed"], js)
    BY <1>2, <2>1, ForwardEnded
  <2>5. Freed(bs, infl)[infl].state = "failed"
    BY <2>1, <2>2 DEF Sound, BuildRow
  <2>6. Sound(Freed(bs, infl), js, 0) /\ Forward(bs, js, Freed(bs, infl), js)
    BY <2>2, <2>3, <2>4
  <2> QED
    BY <1>1, <2>5, <2>6 DEF Sound, One, Job
<1>3. CASE ~(infl # 0 /\ InFlight(bs, infl))
  <2>1. infl = 0 /\ Freed(bs, infl) = bs
    BY <1>3 DEF Sound, One, Job, Freed
  <2>2. Forward(bs, js, bs, js)
    BY DEF Forward
  <2> QED
    BY <2>1, <2>2 DEF Sound, One, Job
<1> QED
  BY <1>2, <1>3

LEMMA ReconcileForward ==
  ASSUME NEW rev \in Revision, NEW bs, NEW js, NEW infl, NEW p \in Publication,
         NEW force, NEW threshold, p.gen <= active.gen,
         Sound(bs, js, infl), Reconcile(rev, bs, js, infl, p, force, threshold)
  PROVE  Forward(bs, js, builds', jobs')
<1> DEFINE freed == Freed(bs, infl)
<1>1. Sound(freed, js, 0) /\ Forward(bs, js, freed, js)
  BY FreedSound
<1>2. CASE builds' = bs /\ jobs' = js
  BY <1>2 DEF Forward
<1>3. CASE builds' = freed /\ jobs' = js
  BY <1>1, <1>3
<1>4. ASSUME NEW n \in Fresh(js), builds' = [freed EXCEPT ![n] = [state |-> "queued", of |-> 0]],
             jobs' = [js EXCEPT ![n] = Queued(rev, p.gen)]
      PROVE  Forward(bs, js, builds', jobs')
  <2>1. p.gen \in Nat /\ 0 \in 0..MaxJob
    BY TasteProfilesAssumption DEF Publication
  <2>2. Forward(freed, js, builds', jobs')
    BY <1>1, <1>4, <2>1, ForwardNew
  <2> QED
    BY <1>1, <2>2, ForwardOn
<1> QED
  BY <1>2, <1>3, <1>4 DEF Reconcile

LEMMA CardinalityIsNumber ==
  \A r, s \in Revision :
    /\ IsFiniteSet(Difference(r, s))
    /\ Cardinality(Difference(r, s)) \in Nat
<1> SUFFICES ASSUME NEW r \in Revision, NEW s \in Revision
             PROVE  IsFiniteSet(Difference(r, s)) /\ Cardinality(Difference(r, s)) \in Nat
  OBVIOUS
<1>1. Difference(r, s) \subseteq Exemplar
  BY DEF Difference, Revision
<1>2. IsFiniteSet(Difference(r, s))
  BY <1>1, TasteProfilesAssumption, FS_Subset
<1> QED
  BY <1>2, FS_CardinalityType

\* Nothing differs in less than one exemplar.
LEMMA NoDifference ==
  ASSUME NEW r \in Revision, NEW s \in Revision, Cardinality(Difference(r, s)) < 1
  PROVE  r = s
<1>1. IsFiniteSet(Difference(r, s)) /\ Cardinality(Difference(r, s)) = 0
  BY CardinalityIsNumber
<1>2. Difference(r, s) = {}
  BY <1>1, FS_EmptySet
<1> QED
  BY <1>2 DEF Difference, Revision

\* Reconciling that leaves nothing in flight has an answer to the revision.
LEMMA ReconcileAnswers ==
  ASSUME NEW rev \in Revision, NEW bs, NEW js, NEW infl, NEW p \in Publication,
         NEW force, NEW threshold \in {1, Threshold}, active \in Publication,
         Sound(bs, js, infl), Beaten(bs, js), Overtaken(p, bs, js),
         Reconcile(rev, bs, js, infl, p, force, threshold), inflight' = 0
  PROVE  Answer(rev, builds', jobs')
<1> DEFINE freed == Freed(bs, infl)
           prior == Prior(freed, js, rev, p.gen)
           due   == Due(rev, p, force, threshold)
<1>1. /\ \A i \in Job : ~InFlight(freed, i)
      /\ \A i \in Job : InFlight(bs, i) => freed[i].state = "failed"
      /\ Forward(bs, js, freed, js) /\ Sound(freed, js, 0)
  BY FreedSound
<1>2. /\ ~due \/ prior # {}
      /\ builds' = freed /\ jobs' = js
  <2>1. ~Busy(bs, js, infl) \/ infl # 0
    BY DEF Busy
  <2>2. \A n \in Fresh(js) : n # 0
    BY DEF Fresh, Job
  <2> QED
    BY <2>1, <2>2 DEF Reconcile, Busy
<1>3. ASSUME p # active PROVE Answer(rev, builds', jobs')
  <2>1. active.gen > 0
    BY <1>3 DEF Overtaken, Publication
  <2>2. ASSUME NEW k \in Job, js[k].rev = active.rev, bs[k].state \in InFlightState \cup BadEnd
        PROVE  freed[k].state \in BadEnd
    <3>1. js[k].phase # "unborn"
      BY <2>2 DEF Sound, Unborn, InFlightState, BadEnd
    <3> QED
      BY <1>1, <2>2, <3>1 DEF Forward, InFlight, BadEnd
  <2> QED
    BY <1>2, <1>3, <2>1, <2>2 DEF Overtaken, Shown, Answer
<1>4. CASE ~due
  <2>1. p.gen # 0 /\ p.rev # None /\ (p.rev = rev \/ Cardinality(Difference(rev, p.rev)) < threshold)
    BY <1>4, CardinalityIsNumber DEF Due, Publication
  <2>2. CASE p = active /\ p.rev = rev
    BY <2>2 DEF Answer
  <2>3. CASE p = active /\ threshold = 1 /\ Cardinality(Difference(rev, p.rev)) < threshold
    BY <2>1, <2>3, NoDifference DEF Answer, Publication
  <2>4. CASE p = active /\ threshold = Threshold /\ Cardinality(Difference(rev, p.rev)) < threshold
    BY <2>1, <2>4 DEF Answer, Publication
  <2> QED
    BY <1>3, <2>1, <2>2, <2>3, <2>4
<1>5. CASE prior # {}
  <2>1. PICK i \in Job : freed[i].state # "none" /\ js[i].rev = rev /\ js[i].gen = p.gen
    BY <1>5 DEF Prior
  <2>2. freed[i].state \in GoodEnd \cup BadEnd
    BY <1>1, <2>1 DEF Sound, BuildRow, InFlight, GoodEnd, BadEnd, EndState
  <2>3. CASE freed[i].state \in BadEnd
    BY <1>2, <2>1, <2>3 DEF Answer
  <2>4. CASE freed[i].state \in GoodEnd
    <3>1. active.gen > p.gen
      BY <1>1, <2>1, <2>4 DEF Forward, Beaten
    <3>2. p # active
      BY <3>1 DEF Publication
    <3> QED
      BY <1>3, <3>2
  <2> QED
    BY <2>2, <2>3, <2>4
<1> QED
  BY <1>2, <1>4, <1>5

-----------------------------------------------------------------------------
(* The story is kept by every step.                                        *)

LEMMA ForwardStory ==
  ASSUME IInv, Story, Forward(builds, jobs, builds', jobs'), UNCHANGED active
  PROVE  /\ Plain(builds, jobs)' /\ Known(jobs)' /\ Beaten(builds, jobs)' /\ DoneIsRecorded'
         /\ \A h \in handlers : Told(h)'
<1>1. Plain(builds, jobs)' /\ Known(jobs)' /\ Beaten(builds, jobs)'
  BY DEF Story, Forward, Plain, Known, Beaten
<1>2. DoneIsRecorded'
  BY DEF Story, Forward, DoneIsRecorded, InFlight
<1>3. ASSUME NEW h \in handlers PROVE Told(h)'
  <2>1. h.job \in Job /\ Told(h)
    BY DEF IInv, TypeOK, Handler, Story
  <2>2. /\ (jobs[h.job].phase # "unborn")'
        /\ (InFlight(builds, h.job))' => InFlight(builds, h.job)
        /\ jobs'[h.job].rev = jobs[h.job].rev /\ jobs'[h.job].gen = jobs[h.job].gen
    BY <2>1 DEF Told, Forward, InFlight
  <2>3. Shown(builds, jobs, BadEnd) => Shown(builds, jobs, BadEnd)'
    <3>1. \A k \in Job : builds[k].state \in BadEnd => jobs[k].phase # "unborn"
      BY DEF IInv, Sound, Unborn, BadEnd
    <3> QED
      BY <3>1 DEF Shown, Forward
  <2> QED
    BY <2>1, <2>2, <2>3 DEF Told
<1> QED
  BY <1>1, <1>2, <1>3

LEMMA ForwardAlone ==
  ASSUME UNCHANGED <<builds, jobs>>
  PROVE  Forward(builds, jobs, builds', jobs')
BY DEF Forward

\* A handler that moves on without a good end knows no more than it did.
LEMMA MoveTold ==
  ASSUME IInv, Story, NEW h \in handlers, NEW at, NEW verdict,
         verdict \notin GoodEnd, Move(h, at, verdict), \A g \in handlers : Told(g)'
  PROVE  \A g \in handlers' : Told(g)'
<1> DEFINE m == [h EXCEPT !.at = at, !.verdict = verdict]
<1>1. h \in Handler
  BY DEF IInv, TypeOK
<1>2. m.job = h.job /\ m.verdict = verdict
  BY <1>1 DEF Handler
<1>3. Told(m)'
  BY <1>2 DEF Told, GoodEnd
<1>4. handlers' = (handlers \ {h}) \cup {m}
  BY DEF Move
<1> QED
  BY <1>3, <1>4

\* Where builds, coordinator, publication and plan stay, the rest follows.
LEMMA QuietStory ==
  ASSUME IInv, Story, UNCHANGED <<active, desired, inflight, builds, plan>>,
         Forward(builds, jobs, builds', jobs'), \A h \in handlers' : Told(h)'
  PROVE  Story'
<1>1. /\ Plain(builds, jobs)' /\ Known(jobs)' /\ Beaten(builds, jobs)' /\ DoneIsRecorded'
  BY ForwardStory
<1>2. \A k \in Job : builds[k].state # "none" => jobs'[k].rev = jobs[k].rev
  BY DEF IInv, Sound, Unborn, Forward
<1>3. (plan.open => Overtaken(plan.seen, builds, jobs))'
  BY <1>2 DEF Story, Overtaken, Shown, InFlightState, BadEnd
<1>4. (inflight = 0 /\ desired # None => Answer(desired, builds, jobs))'
  BY <1>2 DEF Story, Answer, BadEnd
<1> QED
  BY <1>1, <1>3, <1>4 DEF Story

LEMMA CloseForward ==
  ASSUME IInv, NEW i \in Job, NEW verdict \in EndState, NEW js,
         SameRequests(jobs, js), \A k \in Job : js[k].phase = "done" => jobs[k].phase = "done",
         verdict \in GoodEnd => active.gen > jobs[i].gen, jobs[i].phase # "unborn",
         Close(i, verdict, js)
  PROVE  Forward(builds, jobs, builds', jobs') /\ (~InFlight(builds, i))'
<1> DEFINE bs == [builds EXCEPT ![i].state = verdict]
           infl == IF inflight = i THEN 0 ELSE inflight
<1>1. Sound(builds, js, inflight) /\ Forward(builds, jobs, builds, js)
  BY SameRequestsSound, ForwardSame DEF IInv
<1>2. js[i].phase # "unborn" /\ js[i].gen = jobs[i].gen
  BY DEF SameRequests
<1>3. CASE ~InFlight(builds, i) /\ jobs' = js /\ UNCHANGED <<builds, inflight>>
  BY <1>1, <1>3 DEF InFlight
<1>4. CASE InFlight(builds, i)
  <2>1. infl = 0
    BY <1>1, <1>4 DEF Sound, One
  <2>2. Sound(bs, js, infl) /\ Forward(builds, js, bs, js)
    <3>1. Sound(bs, js, infl)
      BY <1>1, <1>4, <2>1, EndedSound
    <3>2. verdict \in GoodEnd => active.gen > js[i].gen
      BY <1>2
    <3>3. Forward(builds, js, bs, js)
      BY <1>1, <1>4, <3>2, ForwardEnded
    <3> QED
      BY <3>1, <3>3
  <2>3. Forward(builds, jobs, bs, js)
    BY <1>1, <2>2, ForwardOn
  <2>4. ~InFlight(bs, i)
    <3>1. Sound(bs, js, 0)
      BY <2>1, <2>2
    <3>2. One(bs, 0) /\ i # 0
      BY <3>1 DEF Sound, Job
    <3> QED
      BY <3>2 DEF One
  <2>5. CASE builds' = bs /\ jobs' = js
    BY <2>3, <2>4, <2>5 DEF InFlight
  <2>6. CASE desired # None
             /\ Reconcile(desired, bs, js, infl, active, verdict = "superseded", 1)
    <3>1. desired \in Revision /\ active \in Publication
      BY <2>6 DEF IInv, TypeOK
    <3>2. Forward(bs, js, builds', jobs')
      BY <3>1, <2>2, <2>6, ReconcileForward DEF Publication
    <3>3. Forward(builds, jobs, builds', jobs')
      BY <2>3, <3>2, ForwardOn
    <3> QED
      BY <1>2, <2>4, <3>2, <3>3 DEF Forward, InFlight
  <2> QED
    BY <1>4, <2>5, <2>6 DEF Close
<1> QED
  BY <1>3, <1>4 DEF Close

LEMMA CloseAnswers ==
  ASSUME IInv, Story, NEW i \in Job, NEW verdict \in EndState, NEW js,
         SameRequests(jobs, js),
         verdict \in GoodEnd => active.gen > jobs[i].gen,
         verdict = "succeeded" /\ InFlight(builds, i) =>
           active.rev = jobs[i].rev \/ Shown(builds, jobs, BadEnd),
         Close(i, verdict, js), inflight' = 0, desired # None
  PROVE  Answer(desired, builds', jobs')
<1> DEFINE bs == [builds EXCEPT ![i].state = verdict]
           infl == IF inflight = i THEN 0 ELSE inflight
<1>1. Sound(builds, js, inflight)
  BY SameRequestsSound DEF IInv
<1>2. \A k \in Job : js[k].gen = jobs[k].gen /\ js[k].rev = jobs[k].rev
  BY DEF SameRequests
<1>3. active \in Publication /\ active.gen \in Nat /\ jobs[i].gen \in Nat /\ desired \in Revision
  BY DEF IInv, TypeOK, Publication, JobRow
<1>4. CASE ~InFlight(builds, i) /\ jobs' = js /\ UNCHANGED <<builds, inflight>>
  BY <1>2, <1>4 DEF Story, Answer
<1>5. CASE InFlight(builds, i)
  <2>1. infl = 0
    BY <1>1, <1>5 DEF Sound, One
  <2>2. Sound(bs, js, infl)
    BY <1>1, <1>5, <2>1, EndedSound
  <2>3. bs[i].state = verdict /\ \A k \in Job \ {i} : bs[k] = builds[k]
    BY DEF IInv, TypeOK, BuildRow
  <2>4. CASE /\ ~(desired # None /\ Followed(verdict, js[i].rev))
             /\ builds' = bs /\ jobs' = js
    <3>1. verdict # "superseded" /\ desired = jobs[i].rev
      BY <1>2, <2>4 DEF Followed
    <3>2. CASE verdict = "succeeded"
      <4>1. active.gen > 0
        BY <1>3, <3>2 DEF GoodEnd
      <4>2. ASSUME NEW k \in Job, builds[k].state \in BadEnd
            PROVE  builds'[k].state \in BadEnd
        BY <1>5, <2>3, <2>4, <4>2 DEF BadEnd, InFlight, InFlightState
      <4> QED
        BY <1>2, <1>5, <2>4, <3>1, <3>2, <4>1, <4>2 DEF Answer, Shown
    <3>3. CASE verdict \in BadEnd
      BY <1>2, <2>3, <2>4, <3>1, <3>3 DEF Answer
    <3> QED
      BY <3>1, <3>2, <3>3 DEF EndState, BadEnd
  <2>5. CASE Reconcile(desired, bs, js, infl, active, verdict = "superseded", 1)
    <3>1. Beaten(bs, js)
      BY <1>2, <2>3 DEF Story, Beaten
    <3>2. Overtaken(active, bs, js)
      BY DEF Overtaken
    <3> QED
      BY <1>3, <2>2, <2>5, <3>1, <3>2, ReconcileAnswers
  <2> QED
    BY <1>5, <2>4, <2>5 DEF Close
<1> QED
  BY <1>4, <1>5 DEF Close

\* After a transaction that held the coordinator.
LEMMA HeldStory ==
  ASSUME IInv, Story, UNCHANGED active, (~plan.open)',
         Forward(builds, jobs, builds', jobs'), \A h \in handlers' : Told(h)',
         (inflight = 0 /\ desired # None => Answer(desired, builds, jobs))'
  PROVE  Story'
BY ForwardStory DEF Story

LEMMA InitStory == Init => Story
<1> SUFFICES ASSUME Init PROVE Story
  OBVIOUS
<1>1. /\ \A i \in Job :
           /\ builds[i].state = "none" /\ jobs[i].rev = None
           /\ jobs[i].phase = "unborn" /\ jobs[i].gen = 0
      /\ active.gen = 0
  BY DEF Init, NoBuild, NoJob
<1>2. handlers = {} /\ ~plan.open /\ desired = None
  BY DEF Init, Closed
<1>3. Plain(builds, jobs) /\ Known(jobs) /\ Beaten(builds, jobs) /\ DoneIsRecorded
  BY <1>1 DEF Plain, Known, Beaten, DoneIsRecorded, GoodEnd
<1> QED
  BY <1>2, <1>3 DEF Story

LEMMA ScheduleStory ==
  ASSUME IInv, Story,
         \/ \E kind \in {"activate", "undo"}, e \in Exemplar :
              ChangeQuietly(kind, e) \/ BeginSchedule(kind, e)
         \/ \E force, initial \in BOOLEAN : Ask(force, initial)
         \/ EndSchedule
         \/ \E g \in 0..active.gen : Seed(g)
  PROVE  Story'
<1>0. \A h \in handlers : Told(h)
  BY DEF Story
<1>1. ASSUME NEW kind, NEW e, ChangeQuietly(kind, e)
      PROVE  Story'
  <2>1. /\ UNCHANGED <<active, desired, inflight, builds, plan, jobs, handlers>>
    BY <1>1 DEF ChangeQuietly
  <2>2. \A h \in handlers' : Told(h)'
    BY <2>1, ForwardAlone, ForwardStory
  <2> QED
    BY <2>1, <2>2, ForwardAlone, QuietStory
<1>2. ASSUME NEW kind, NEW e, NEW force, NEW initial, Open(kind, e, force, initial)
      PROVE  Story'
  <2>1. /\ UNCHANGED <<active, desired, inflight, builds, jobs, handlers>>
        /\ plan'.seen = active
    BY <1>2 DEF Open
  <2>2. /\ Plain(builds, jobs)' /\ Known(jobs)' /\ Beaten(builds, jobs)' /\ DoneIsRecorded'
        /\ \A h \in handlers' : Told(h)'
    BY <2>1, ForwardAlone, ForwardStory
  <2>3. Overtaken(plan.seen, builds, jobs)'
    BY <2>1 DEF Overtaken
  <2>4. (inflight = 0 /\ desired # None => Answer(desired, builds, jobs))'
    BY <2>1 DEF Story, Answer
  <2> QED
    BY <2>2, <2>3, <2>4 DEF Story
<1>3. CASE EndSchedule
  <2>1. /\ UNCHANGED <<active, handlers>> /\ plan.open /\ (~plan.open)' /\ plan \in Plan
    BY <1>3 DEF EndSchedule, Closed, IInv, TypeOK
  <2>2. CASE UNCHANGED <<desired, inflight, builds, jobs>>
    <3>1. \A h \in handlers' : Told(h)'
      BY <2>1, <2>2, ForwardAlone, ForwardStory
    <3>2. (inflight = 0 /\ desired # None => Answer(desired, builds, jobs))'
      BY <2>1, <2>2 DEF Story, Answer
    <3> QED
      BY <2>1, <2>2, <3>1, <3>2, ForwardAlone, HeldStory
  <2>3. CASE /\ desired' = Live(evidence')
             /\ Reconcile(Live(evidence'), builds, jobs, inflight,
                  IF plan.seen.gen = 0 THEN active ELSE plan.seen, plan.force, Threshold)
    <3> DEFINE p == IF plan.seen.gen = 0 THEN active ELSE plan.seen
               r == Live(evidence')
    <3>1. p \in Publication /\ active \in Publication /\ r \in Revision
      BY <2>1 DEF Plan, IInv, TypeOK, Live, Revision
    <3>2. Sound(builds, jobs, inflight) /\ Beaten(builds, jobs) /\ Overtaken(p, builds, jobs)
      BY <2>1 DEF IInv, Story, Overtaken
    <3>9. p.gen <= active.gen
      BY <2>1, <3>1, <3>2 DEF Overtaken, Publication
    <3>3. Forward(builds, jobs, builds', jobs')
      BY <2>3, <3>1, <3>2, <3>9, ReconcileForward
    <3>4. inflight' = 0 => Answer(r, builds', jobs')
      BY <2>3, <3>1, <3>2, ReconcileAnswers
    <3>5. (inflight = 0 /\ desired # None => Answer(desired, builds, jobs))'
      BY <2>1, <2>3, <3>4 DEF Answer
    <3>6. \A h \in handlers' : Told(h)'
      BY <2>1, <3>3, ForwardStory
    <3> QED
      BY <2>1, <3>3, <3>5, <3>6, HeldStory
  <2> QED
    BY <1>3, <2>2, <2>3 DEF EndSchedule
<1>4. ASSUME NEW g \in 0..active.gen, Seed(g)
      PROVE  Story'
  <2>1. PICK n \in Fresh(jobs) : jobs' = [jobs EXCEPT ![n] = Queued(None, g)]
    BY <1>4 DEF Seed
  <2>2. UNCHANGED <<active, desired, inflight, builds, plan, handlers>>
    BY <1>4 DEF Seed
  <2>3. g \in Nat /\ g <= active.gen /\ Sound(builds, jobs, inflight)
    BY DEF IInv, TypeOK, Publication
  <2>4. Forward(builds, jobs, builds, jobs')
    BY <2>1, <2>3, ForwardNew
  <2>5. Forward(builds, jobs, builds', jobs')
    BY <2>2, <2>4
  <2>6. \A h \in handlers' : Told(h)'
    BY <2>2, <2>5, ForwardStory
  <2> QED
    BY <2>2, <2>5, <2>6, QuietStory
<1> QED
  BY <1>1, <1>2, <1>3, <1>4 DEF BeginSchedule, Ask

LEMMA RaiseTold ==
  ASSUME IInv, Story, NEW h \in handlers, NEW verdict,
         verdict \notin GoodEnd, Raise(h, verdict), \A g \in handlers : Told(g)'
  PROVE  \A g \in handlers' : Told(g)'
<1>1. CASE Coordinated(h.job)
  BY <1>1, MoveTold DEF Raise
<1>2. CASE ~Coordinated(h.job)
  BY <1>2, MoveTold DEF Raise
<1> QED
  BY <1>1, <1>2

LEMMA MarkRunningStory ==
  ASSUME IInv, Story, NEW h \in handlers, MarkRunning(h)
  PROVE  Story'
<1> DEFINE i == h.job
<1>0. i \in Job /\ UNCHANGED <<active, desired, inflight, jobs, plan>>
  BY DEF IInv, TypeOK, Handler, MarkRunning
<1>1. CASE UNCHANGED builds /\ Move(h, "record", "failed")
  <2>1. \A g \in handlers : Told(g)'
    BY <1>0, <1>1, ForwardAlone, ForwardStory
  <2>2. \A g \in handlers' : Told(g)'
    BY <1>1, <2>1, MoveTold, "failed" \notin GoodEnd DEF GoodEnd
  <2> QED
    BY <1>0, <1>1, <2>2, ForwardAlone, QuietStory
<1>2. CASE /\ MayRun(i) /\ builds' = [builds EXCEPT ![i].state = "running"]
           /\ Move(h, "stage", "none")
  <2>1. /\ builds'[i].state = "running" /\ \A k \in Job \ {i} : builds'[k] = builds[k]
    BY <1>0, <1>2 DEF IInv, TypeOK, BuildRow
  <2>2. InFlight(builds, i) /\ inflight # 0
    BY <1>0, <1>2 DEF MayRun, Job
  <2>3. Plain(builds, jobs) => Plain(builds', jobs')
    BY <1>0, <2>1, <2>2 DEF Plain, InFlight, InFlightState
  <2>4. Beaten(builds, jobs) => Beaten(builds', jobs')
    BY <1>0, <2>1, <2>2 DEF Beaten, GoodEnd
  <2>5. Forward(builds, jobs, builds', jobs')
    BY <1>0, <2>1, <2>2, <2>3, <2>4 DEF Forward, InFlight, InFlightState, BadEnd
  <2>6. \A g \in handlers : Told(g)'
    BY <1>0, <2>5, ForwardStory
  <2>7. \A g \in handlers' : Told(g)'
    BY <1>2, <2>6, MoveTold, "none" \notin GoodEnd DEF GoodEnd
  <2>8. (~plan.open)' /\ inflight' # 0
    BY <1>0, <2>2 DEF MarkRunning
  <2> QED
    BY <1>0, <2>5, <2>7, <2>8, HeldStory
<1> QED
  BY <1>1, <1>2 DEF MarkRunning

\* A handler that found or made the publication move.
LEMMA RaiseGood ==
  ASSUME IInv, NEW h \in handlers, NEW verdict, Raise(h, verdict), UNCHANGED <<builds, jobs>>,
         \A g \in handlers : Told(g)',
         active'.gen > jobs[h.job].gen,
         verdict = "succeeded" => active'.rev = jobs[h.job].rev
  PROVE  \A g \in handlers' : Told(g)'
<1>1. PICK at \in {"record", "return"} :
        /\ Move(h, at, verdict)
        /\ at = "return" => ~Coordinated(h.job)
  BY DEF Raise
<1> DEFINE m == [h EXCEPT !.at = at, !.verdict = verdict]
<1>2. h \in Handler
  BY DEF IInv, TypeOK
<1>3. m.job = h.job /\ m.verdict = verdict /\ m.at = at
  BY <1>2 DEF Handler
<1>4. at = "return" => ~InFlight(builds, h.job)
  BY <1>1 DEF Coordinated, InFlight, InFlightState
<1>5. Told(m)'
  <2>1. Told(h)'
    OBVIOUS
  <2> QED
    BY <1>3, <1>4, <2>1 DEF Told, InFlight
<1>6. handlers' = (handlers \ {h}) \cup {m}
  BY <1>1 DEF Move
<1> QED
  BY <1>5, <1>6

\* A swap of the publication: the builds of the revision that is now served
\* have not ended well, so nothing told before is contradicted.
LEMMA ActivateStory ==
  ASSUME IInv, Story, NEW h \in handlers, Activate(h)
  PROVE  Story'
<1> DEFINE i == h.job
<1>0. /\ h \in Handler /\ i \in Job
      /\ UNCHANGED <<desired, inflight, builds, jobs, plan>>
      /\ active \in Publication /\ active.gen \in Nat /\ jobs[i].gen \in Nat /\ Told(h)
  BY DEF IInv, TypeOK, Handler, Publication, JobRow, Activate, Story
<1>1. CASE active.gen # jobs[i].gen /\ UNCHANGED active /\ Raise(h, "superseded")
  <2>1. \A g \in handlers : Told(g)'
    BY <1>0, <1>1, ForwardAlone, ForwardStory
  <2>2. active'.gen > jobs[i].gen
    BY <1>0, <1>1 DEF Story, Known
  <2>3. \A g \in handlers' : Told(g)'
    BY <1>0, <1>1, <2>1, <2>2, RaiseGood
  <2> QED
    BY <1>0, <1>1, <2>3, ForwardAlone, QuietStory
<1>2. CASE /\ active.gen = jobs[i].gen
           /\ active' = [gen |-> active.gen + 1, rev |-> jobs[i].rev]
           /\ Raise(h, "succeeded")
  <2>1. /\ active'.gen = active.gen + 1 /\ active'.gen > active.gen /\ active'.gen > 0
        /\ active'.rev = jobs[i].rev
    BY <1>0, <1>2
  <2>2. builds[i].state \notin GoodEnd
    BY <1>0, <1>2 DEF Story, Beaten
  <2>3. builds[i].state \in {"none"} \cup InFlightState \cup BadEnd
    BY <1>0, <2>2 DEF IInv, TypeOK, BuildRow, EndState, BadEnd, GoodEnd
  <2>4. Shown(builds, jobs, InFlightState \cup BadEnd)'
    BY <1>0, <2>1, <2>3 DEF Shown, Story, Plain
  <2>5. ~InFlight(builds, i) => Shown(builds, jobs, BadEnd)'
    BY <1>0, <2>1, <2>3 DEF Shown, Story, Plain, InFlight
  <2>6. Plain(builds, jobs)' /\ DoneIsRecorded' /\ Known(jobs)'
    <3>1. \A k \in Job : jobs[k].gen \in Nat
      BY DEF IInv, TypeOK, JobRow
    <3> QED
      BY <1>0, <2>1, <3>1 DEF Story, Plain, Known, DoneIsRecorded, InFlight
  <2>7. Beaten(builds, jobs)'
    <3>1. \A k \in Job : jobs[k].gen \in Nat
      BY DEF IInv, TypeOK, JobRow
    <3> QED
      BY <1>0, <2>1, <3>1 DEF Story, Beaten
  <2>8. (plan.open => Overtaken(plan.seen, builds, jobs))'
    <3>1. plan.open => plan.seen.gen \in Nat /\ (plan.seen = active \/ active.gen > plan.seen.gen)
      <4>1. plan.open => plan \in Plan
        BY DEF IInv, TypeOK, Closed
      <4> QED
        BY <4>1 DEF Plan, Publication, Story, Overtaken
    <3> QED
      BY <1>0, <2>1, <2>4, <3>1 DEF Overtaken
  <2>9. (inflight = 0 /\ desired # None => Answer(desired, builds, jobs))'
    <3>1. ASSUME inflight = 0 PROVE Answer(desired, builds, jobs)'
      <4>1. ~InFlight(builds, i)
        BY <1>0, <3>1 DEF IInv, Sound, One, Job
      <4> QED
        BY <2>1, <2>5, <4>1 DEF Shown, Answer
    <3> QED
      BY <1>0, <3>1
  <2>10. ASSUME NEW g \in handlers PROVE Told(g)'
    <3>1. Told(g) /\ jobs[g.job].gen \in Nat /\ g.job \in Job
      BY DEF Story, IInv, TypeOK, Handler, JobRow
    <3>2. g.verdict \in GoodEnd => g.job # i
      BY <1>0, <1>2, <3>1 DEF Told
    <3>3. g.verdict \in GoodEnd /\ InFlight(builds, g.job) => ~InFlight(builds, i)
      BY <1>0, <3>1, <3>2 DEF IInv, Sound, One
    <3> QED
      BY <1>0, <2>1, <2>5, <3>1, <3>3 DEF Told, GoodEnd, InFlight
  <2>11. \A g \in handlers' : Told(g)'
    BY <1>0, <1>2, <2>1, <2>10, RaiseGood
  <2> QED
    BY <2>6, <2>7, <2>8, <2>9, <2>11 DEF Story
<1> QED
  BY <1>1, <1>2 DEF Activate

LEMMA RecordStory ==
  ASSUME IInv, Story, NEW h \in handlers, Record(h)
  PROVE  Story'
<1> DEFINE i == h.job
           m == [h EXCEPT !.at = "return", !.verdict = h.verdict]
<1>1. /\ h \in Handler /\ i \in Job /\ h.verdict \in EndState /\ Told(h)
      /\ (~plan.open)' /\ UNCHANGED <<active, desired, plan>> /\ Close(i, h.verdict, jobs)
      /\ handlers' = (handlers \ {h}) \cup {m}
  BY DEF Record, Move, IInv, TypeOK, Said, Handler, Story
<1>2. SameRequests(jobs, jobs)
  BY DEF SameRequests, IInv, TypeOK
<1>3. Forward(builds, jobs, builds', jobs') /\ (~InFlight(builds, i))'
  BY <1>1, <1>2, CloseForward DEF Told
<1>4. inflight' = 0 /\ desired # None => Answer(desired, builds', jobs')
  BY <1>1, <1>2, CloseAnswers DEF Told
<1>5. (inflight = 0 /\ desired # None => Answer(desired, builds, jobs))'
  BY <1>1, <1>4 DEF Answer
<1>6. \A g \in handlers : Told(g)'
  BY <1>1, <1>3, ForwardStory
<1>7. m.job = i /\ m.verdict = h.verdict
  BY <1>1 DEF Handler
<1>8. Told(m)'
  <2>1. Told(h)'
    BY <1>6
  <2> QED
    BY <1>3, <1>7, <2>1 DEF Told
<1> QED
  BY <1>1, <1>3, <1>5, <1>6, <1>8, HeldStory

LEMMA ReturnStory ==
  ASSUME IInv, Story, NEW h \in handlers, Return(h)
  PROVE  Story'
<1> DEFINE i == h.job
<1>1. /\ h \in Handler /\ i \in Job /\ Told(h) /\ h.at = "return"
      /\ UNCHANGED <<active, desired, inflight, builds, plan>> /\ handlers' \subseteq handlers
  BY DEF Return, IInv, TypeOK, Handler, Story
<1>2. CASE UNCHANGED jobs
  BY <1>1, <1>2, ForwardAlone, ForwardStory, QuietStory
<1>3. ASSUME NEW phase \in Outcomes(h), jobs' = [jobs EXCEPT ![i] = Left(jobs[i], phase)]
      PROVE  Story'
  <2>1. phase \in {"queued", "done", "failed", "cancelled"}
    BY <1>3 DEF Outcomes
  <2>2. jobs[i].phase # "unborn"
    BY <1>1 DEF Told
  <2>3. SameRequests(jobs, jobs')
    BY <1>1, <1>3, <2>1, <2>2, LeftSame
  <2>4. \A k \in Job \ {i} : jobs'[k] = jobs[k]
    BY <1>3 DEF IInv, TypeOK
  <2>5. jobs'[i].phase = phase
    <3>1. jobs[i] \in JobRow /\ jobs \in [Job -> JobRow]
      BY <1>1 DEF IInv, TypeOK
    <3> QED
      BY <1>1, <1>3, <3>1 DEF Left, JobRow
  <2>6. CASE phase # "done"
    <3>1. \A k \in Job : jobs'[k].phase = "done" => jobs[k].phase = "done"
      BY <2>4, <2>5, <2>6
    <3>2. Forward(builds, jobs, builds', jobs')
      BY <1>1, <2>3, <3>1, ForwardSame DEF IInv
    <3> QED
      BY <1>1, <3>2, ForwardStory, QuietStory
  <2>7. CASE phase = "done"
    <3>1. ~InFlight(builds, i)
      BY <1>1, <1>3, <2>7 DEF Outcomes, Told, GoodEnd
    <3>2. \A k \in Job : jobs'[k].rev = jobs[k].rev /\ jobs'[k].gen = jobs[k].gen
                         /\ (jobs[k].phase # "unborn" => jobs'[k].phase # "unborn")
      BY <2>3 DEF SameRequests
    <3>3. DoneIsRecorded'
      BY <1>1, <2>4, <3>1 DEF Story, DoneIsRecorded, InFlight
    <3>4. \A g \in handlers' : g.job \in Job /\ Told(g)
      BY <1>1 DEF IInv, TypeOK, Handler, Story
    <3>5. \A g \in handlers' : Told(g)'
      BY <1>1, <3>2, <3>4 DEF Told, Shown, InFlight
    <3>6. (plan.open => Overtaken(plan.seen, builds, jobs))'
      BY <1>1, <3>2 DEF Story, Overtaken, Shown
    <3>7. (inflight = 0 /\ desired # None => Answer(desired, builds, jobs))'
      BY <1>1, <3>2 DEF Story, Answer
    <3>8. Plain(builds, jobs)' /\ Known(jobs)' /\ Beaten(builds, jobs)'
      BY <1>1, <3>2 DEF Story, Plain, Known, Beaten
    <3> QED
      BY <3>3, <3>5, <3>6, <3>7, <3>8 DEF Story
  <2> QED
    BY <2>6, <2>7
<1> QED
  BY <1>2, <1>3 DEF Return

LEMMA HandlerStory ==
  ASSUME IInv, Story, NEW h \in handlers,
         \/ MarkRunning(h) \/ Stage(h) \/ Activate(h) \/ PublicationFails(h)
         \/ Record(h) \/ RecordFails(h) \/ Return(h) \/ Crash(h)
  PROVE  Story'
<1>0. "none" \notin GoodEnd /\ "failed" \notin GoodEnd /\ "cancelled" \notin GoodEnd
  BY DEF GoodEnd
<1>1. ASSUME UNCHANGED <<active, desired, inflight, builds, jobs, plan>>,
             (\A g \in handlers : Told(g)') => \A g \in handlers' : Told(g)'
      PROVE  Story'
  <2>1. \A g \in handlers' : Told(g)'
    BY <1>1, ForwardAlone, ForwardStory
  <2> QED
    BY <1>1, <2>1, ForwardAlone, QuietStory
<1>2. CASE Stage(h)
  <2>1. Move(h, "publish", "none") \/ Raise(h, "failed")
    BY <1>2 DEF Stage
  <2>2. (\A g \in handlers : Told(g)') => \A g \in handlers' : Told(g)'
    BY <1>0, <2>1, MoveTold, RaiseTold
  <2> QED
    BY <1>1, <1>2, <2>2 DEF Stage
<1>3. CASE PublicationFails(h)
  <2>1. Raise(h, "cancelled") \/ Raise(h, "failed")
    BY <1>3 DEF PublicationFails
  <2>2. (\A g \in handlers : Told(g)') => \A g \in handlers' : Told(g)'
    BY <1>0, <2>1, RaiseTold
  <2> QED
    BY <1>1, <1>3, <2>2 DEF PublicationFails
<1>4. CASE RecordFails(h)
  <2>1. Move(h, "record", "failed") \/ Move(h, "return", "failed")
    BY <1>4 DEF RecordFails, SayAgain
  <2>2. (\A g \in handlers : Told(g)') => \A g \in handlers' : Told(g)'
    BY <1>0, <2>1, MoveTold
  <2> QED
    BY <1>1, <1>4, <2>2 DEF RecordFails
<1>5. CASE Crash(h)
  BY <1>1, <1>5 DEF Crash
<1> QED
  BY <1>2, <1>3, <1>4, <1>5, MarkRunningStory, ActivateStory, RecordStory, ReturnStory

LEMMA JobStory ==
  ASSUME IInv, Story, NEW i \in Job,
         Admit(i) \/ Interrupt(i) \/ CancelRunning(i) \/ CancelQueued(i) \/ Retry(i)
  PROVE  Story'
<1>0. /\ jobs[i] \in JobRow /\ jobs \in [Job -> JobRow] /\ Sound(builds, jobs, inflight)
  BY DEF IInv, TypeOK
<1>1. CASE Admit(i)
  <2>1. UNCHANGED <<active, desired, inflight, builds, plan>>
    BY <1>1 DEF Admit
  <2>2. jobs[i].attempt + 1 \in 1..MaxAttempt
    BY <1>0, <1>1, TasteProfilesAssumption DEF Admit, JobRow
  <2>3. SameRequests(jobs, jobs') /\ jobs'[i].phase = "running"
        /\ \A k \in Job \ {i} : jobs'[k] = jobs[k]
    BY <1>0, <1>1, <2>2 DEF Admit, SameRequests, JobRow
  <2>4. \A k \in Job : jobs'[k].phase = "done" => jobs[k].phase = "done"
    BY <2>3
  <2>5. Forward(builds, jobs, builds', jobs')
    BY <1>0, <2>1, <2>3, <2>4, ForwardSame
  <2>6. \A h \in handlers : Told(h)'
    BY <2>1, <2>5, ForwardStory
  <2>7. PICK g : g = [job |-> i, attempt |-> jobs[i].attempt + 1, verdict |-> "none",
                      at |-> IF Coordinated(i) THEN "mark" ELSE "stage"]
    OBVIOUS
  <2>8. handlers' = handlers \cup {g} /\ Told(g)'
    <3>1. handlers' = handlers \cup {g} /\ g.job = i /\ g.verdict = "none"
      BY <1>1, <2>7 DEF Admit
    <3> QED
      BY <2>3, <3>1 DEF Told, GoodEnd
  <2>9. \A h \in handlers' : Told(h)'
    BY <2>6, <2>8
  <2> QED
    BY <2>1, <2>5, <2>9, QuietStory
<1>2. CASE Interrupt(i)
  <2>1. UNCHANGED <<active, desired, inflight, builds, plan, handlers>>
    BY <1>2 DEF Interrupt
  <2>2. PICK phase \in {"queued", "failed", "cancelled"} :
          jobs' = [jobs EXCEPT ![i] = Left(jobs[i], phase)]
    BY <1>2 DEF Interrupt
  <2>3. SameRequests(jobs, jobs')
    BY <1>2, <2>2, LeftSame DEF Interrupt
  <2>4. \A k \in Job : jobs'[k].phase = "done" => jobs[k].phase = "done"
    BY <1>0, <2>2 DEF Left, JobRow
  <2>5. Forward(builds, jobs, builds', jobs')
    BY <1>0, <2>1, <2>3, <2>4, ForwardSame
  <2>6. \A h \in handlers' : Told(h)'
    BY <2>1, <2>5, ForwardStory
  <2> QED
    BY <2>1, <2>5, <2>6, QuietStory
<1>3. CASE CancelRunning(i)
  <2>1. UNCHANGED <<active, desired, inflight, builds, plan, handlers>>
    BY <1>3 DEF CancelRunning
  <2>2. /\ SameRequests(jobs, jobs')
        /\ \A k \in Job : jobs'[k].phase = jobs[k].phase
    BY <1>0, <1>3 DEF CancelRunning, SameRequests, JobRow
  <2>3. Forward(builds, jobs, builds', jobs')
    BY <1>0, <2>1, <2>2, ForwardSame
  <2>4. \A h \in handlers' : Told(h)'
    BY <2>1, <2>3, ForwardStory
  <2> QED
    BY <2>1, <2>3, <2>4, QuietStory
<1>4. CASE CancelQueued(i)
  <2> DEFINE js == [jobs EXCEPT ![i] = Left(jobs[i], "cancelled")]
  <2>1. /\ UNCHANGED <<active, desired, handlers>> /\ (~plan.open)'
        /\ jobs[i].phase # "unborn" /\ Close(i, "cancelled", js)
    BY <1>4 DEF CancelQueued
  <2>2. SameRequests(jobs, js)
    BY <2>1, LeftSame
  <2>3. \A k \in Job : js[k].phase = "done" => jobs[k].phase = "done"
    BY <1>0 DEF Left, JobRow
  <2>4. "cancelled" \in EndState /\ "cancelled" \notin GoodEnd
    BY DEF EndState, GoodEnd
  <2>5. Forward(builds, jobs, builds', jobs')
    BY <2>1, <2>2, <2>3, <2>4, CloseForward
  <2>6. inflight' = 0 /\ desired # None => Answer(desired, builds', jobs')
    BY <2>1, <2>2, <2>4, CloseAnswers
  <2>7. (inflight = 0 /\ desired # None => Answer(desired, builds, jobs))'
    BY <2>1, <2>6 DEF Answer
  <2>8. \A h \in handlers' : Told(h)'
    BY <2>1, <2>5, ForwardStory
  <2> QED
    BY <2>1, <2>5, <2>7, <2>8, HeldStory
<1>5. CASE Retry(i)
  <2>1. PICK n \in Fresh(jobs) :
          /\ jobs' = [jobs EXCEPT ![n] = Queued(jobs[i].rev, jobs[i].gen)]
          /\ builds' = [builds EXCEPT ![n] = [state |-> "queued", of |-> i]]
          /\ inflight' = n
    BY <1>5 DEF Retry
  <2>2. /\ UNCHANGED <<active, desired, handlers>> /\ (~plan.open)'
        /\ jobs[i].rev \in {None} \cup Revision /\ jobs[i].gen \in Nat
        /\ jobs[i].gen <= active.gen /\ i \in 0..MaxJob /\ n # 0
    BY <1>0, <1>5, <2>1 DEF Retry, JobRow, Job, Story, Known, Fresh
  <2>3. Forward(builds, jobs, builds', jobs')
    BY <1>0, <2>1, <2>2, ForwardNew
  <2>4. \A h \in handlers' : Told(h)'
    BY <2>2, <2>3, ForwardStory
  <2> QED
    BY <2>1, <2>2, <2>3, <2>4, HeldStory
<1> QED
  BY <1>1, <1>2, <1>3, <1>4, <1>5

LEMMA StutterStory == ASSUME IInv, Story, UNCHANGED vars PROVE Story'
<1>1. UNCHANGED <<active, desired, inflight, builds, jobs, plan, handlers>>
  BY DEF vars
<1>2. \A h \in handlers' : Told(h)'
  BY <1>1, ForwardAlone, ForwardStory
<1> QED
  BY <1>1, <1>2, ForwardAlone, QuietStory

LEMMA SpecStory == Spec => [](IInv /\ Story)
<1>1. Init => IInv /\ Story
  BY InitSound, InitStory
<1>2. IInv /\ Story /\ [Next]_vars => (IInv /\ Story)'
  BY NextSound, ScheduleStory, HandlerStory, JobStory, StutterStory DEF Next
<1> QED
  BY <1>1, <1>2, PTL DEF Spec

(* For any number of exemplars, jobs, attempts and faults and any thresholds, *)
(* scheduled evidence is never forgotten: taste_preferences.py leaves nothing *)
(* in flight only with the desired revision served, all but served, or shown  *)
(* as failed.                                                                 *)
THEOREM EvidenceIsAnsweredHolds == Spec => []EvidenceIsAnswered
<1>1. Story => EvidenceIsAnswered
  BY DEF Story, Answer, EvidenceIsAnswered, BadEnd
<1> QED
  BY <1>1, SpecStory, PTL

(* For any bounds, a taste_rebuild job that ended by itself has closed its    *)
(* build: only a death or a record that failed leaves one in flight.          *)
THEOREM DoneIsRecordedHolds == Spec => []DoneIsRecorded
<1>1. Story => DoneIsRecorded
  BY DEF Story
<1> QED
  BY <1>1, SpecStory, PTL
====
