SPECIFICATION FairSpec
CONSTANTS
  w1 = w1  w2 = w2  w3 = w3  hostA = hostA  hostB = hostB
  NoWorker = NoWorker
  Worker = {w1, w2}
  Host = {hostA, hostB}
  HostOf <- TwoHosts
  Kinds = {"read_only", "poster_mutation", "maintenance"}
  RetryLimit = 2
  DeferLimit = 1
  MaxAttempt = 3
  MaxGeneration = 2
  MaxTicket = 3
  MaxLapse = 1
  MaxGiveUp = 2
  Faults = {"crash", "stop", "gate_timeout", "connection_lost", "transient", "monitor",
            "orphaned_child", "torn_publication", "reprioritize"}
PROPERTIES SettledOrTicketLost
CHECK_DEADLOCK FALSE
