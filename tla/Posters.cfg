SPECIFICATION PostersSpec
CONSTANTS
  Image = {a, b}
  none = none
  Job = {j1, j2}
  MaxUpset = 2
  Member = {m1, m2}
  MaxAttempt = 2
  MaxFault = 1
SYMMETRY Symmetry
INVARIANTS ProjectedInOrder OutcomeTellsTruth VerdictIsProjected RetryIsServed ItemsTellTheResult
PROPERTY NothingIsLost
CHECK_DEADLOCK FALSE
