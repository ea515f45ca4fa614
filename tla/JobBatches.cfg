SPECIFICATION FairSpec
CONSTANTS
  c1 = c1  c2 = c2
  Child = {c1, c2}
  User = User
  Producer = Producer
  Modes = {"fixed", "dynamic"}
  Endings = {"failed", "review_required", "unsafe"}
  MaxCommand = 2
  MaxRetry = 1
INVARIANTS ParentVerdictBacked CancelReachesEveryChild LastEndReachesParent
PROPERTIES CancelSettles
CHECK_DEADLOCK FALSE
