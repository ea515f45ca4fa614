SPECIFICATION GatesSpec
CONSTANTS
  d1 = d1  d2 = d2
  Delivery = {d1, d2}
  File = {"poster1", "poster2"}
  Permit = {"0"}
  Policies = {"ordinary", "media_write", "exclusive"}
  MaxLoss = 1
  Faults = {"session", "crash", "interrupt"}
  Submitter = {"api"}
  Scheduler = {}
  Single = {}
  Bulk = {}
  Minute = {}
  Missing = {}
  Settings <- NoSchedules
  MaxJob = 0
  MaxCall = 0
  MaxVersion = 1
INVARIANTS Exclusion NoLockForgotten NoCircularWait
PROPERTIES AdmissionEnds
