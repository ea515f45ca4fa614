SPECIFICATION Spec
CONSTANTS
  Author = author
  Process = {author, p1, p2}
  Sweeper = {retention, operator}
  Purger = retention
  MaxLine = 1
  MaxFault = 1
SYMMETRY Symmetry
INVARIANTS AvailableIsServed RemovedIsGone SealedKeepsTheLog
