SPECIFICATION SettingsSpec
CONSTANTS
  r1 = r1
  r2 = r2
  u1 = u1
  u2 = u2
  s1 = s1
  s2 = s2
  Process = {"api", "worker"}
  Api = "api"
  Request = {r1, r2}
  Url = {u1, u2}
  Secret = {s1, s2}
  Candidate <- Candidates
  MaxVersion = 3
  MaxGen = 2
  MaxFault = 1
INVARIANTS PairsAreTested
PROPERTIES CacheNeverGoesBack CachesConverge UpdateIsServed
CHECK_DEADLOCK FALSE
