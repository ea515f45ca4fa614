SPECIFICATION Spec
CONSTANTS
  Exemplar = {heat, alien}
  SubjectOf <- MCSubjectOf
  None = None
  Required = 1
  Threshold = 2
  MaxAttempt = 2
  MaxJob = 3
  MaxCall = 1
  MaxFault = 1
SYMMETRY Symmetry
INVARIANTS OneBuildInFlight OneAutomaticBuild EvidenceIsAnswered DoneIsRecorded
CHECK_DEADLOCK FALSE
