SPECIFICATION Spec
CONSTANTS
  w1 = w1  w2 = w2  w3 = w3  hostA = hostA  hostB = hostB
  NoWorker = NoWorker
  Worker = {w1, w2}
  Host = {hostA, hostB}
  HostOf <- OneHost
  Kinds = {"read_only", "poster_mutation"}
  RetryLimit = 2
  DeferLimit = 1
  MaxAttempt = 3
  MaxGeneration = 2
  MaxTicket = 2
  MaxLapse = 2
  MaxGiveUp = 2
  Faults = {"crash", "lapse", "transient", "unproven_death", "orphaned_child",
            "torn_publication", "cancel", "reprioritize", "session_lost"}
SYMMETRY Incarnations
INVARIANTS AttemptLedger LedgersAgree MutationNeverReplayed
  PublicationAccountedFor ReplayAfterTreeDeath
PROPERTIES EffectWhileWanted HeldWorkIsNotClaimed LifecycleRefinement
CHECK_DEADLOCK FALSE
