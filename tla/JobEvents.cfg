SPECIFICATION FairSpec
CONSTANTS
  t1 = t1  t2 = t2  tab1 = tab1  tab2 = tab2
  Writer = {t1, t2}
  Browser = {tab1}
  BatchSize = 1
  QueueSize = 2
  ReplayLimit = 1
  MaxEvent = 3
  MaxDisruption = 2
  Faults = {"listener_lost", "reconnect_refused", "api_restart", "drop", "leave", "purge"}
INVARIANTS SeamlessHandOver NothingInOrderSkipped
PROPERTIES EveryRowArrives
CHECK_DEADLOCK FALSE
