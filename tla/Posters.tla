------------------------------- MODULE Posters -------------------------------
(***************************************************************************)
(* What changes the posters of a subject and what analyses them, side by   *)
(* side: PosterArtwork and PosterAnalysis share no state.                  *)
(***************************************************************************)
EXTENDS PosterArtwork

CONSTANTS Member, MaxAttempt, MaxFault   \* PosterAnalysis's

VARIABLES kind, members, analysis, runs, items, summary, handler, ender, faults

Analysis == INSTANCE PosterAnalysis WITH job <- analysis

analysisVars == <<kind, members, analysis, runs, items, summary, handler, ender, faults>>

\* The runs of an analysis are one attempt's, whole, and a finished job's are those
\* of the attempt that ended it.  (With the type invariant of PosterAnalysis.)
VerdictIsProjected == Analysis!TypeOK /\ Analysis!VerdictIsProjected

\* A retry that is offered is accepted, for the members it is meant for, but for
\* runs that an attempt left which did not end the job properly.
RetryIsServed == Analysis!RetryIsServed

\* Work items are one attempt's, the summary counts them, and they show the result.
ItemsTellTheResult == Analysis!ItemsTellTheResult
=============================================================================
