SPECIFICATION SubmissionSpec
CONSTANTS
  Submitter = {"api", "scheduler"}
  Scheduler = {"scheduler"}
  Single <- MCSingle
  Bulk <- MCBulk
  Minute <- MCMinute
  Missing = {"m1"}
  Settings <- MCSettings
  MaxJob = 4
  MaxCall = 3
  MaxVersion = 2
  Delivery = {"d"}
  File = {"f"}
  Permit = {"0"}
  Policies = {"ordinary"}
  MaxLoss = 0
  Faults = {}
INVARIANTS UniqueWork BatchIsWhole NoCircularSubmission
CHECK_DEADLOCK FALSE
