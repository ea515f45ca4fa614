SPECIFICATION Spec
CONSTANTS
  w1 = w1  w2 = w2  w3 = w3  hostA = hostA  hostB = hostB
  NoWorker = NoWorker
  Worker = {w1, w2}
  Host = {hostA, hostB}
  HostOf <- OneHost
  Kinds = {"read_only"}
  RetryLimit = 2
  DeferLimit = 1
  MaxAttempt = 2
  MaxGeneration = 1
  MaxTicket = 1
  MaxLapse = 0
  MaxGiveUp = 3
  Faults = {"crash", "gate_timeout"}
INVARIANT SealedBeforeAcknowledged
CHECK_DEADLOCK FALSE
