SPECIFICATION Spec
CONSTANTS
  iss = iss
  kA = kA
  kB = kB
  a = a
  j1 = j1
  Grants = {g1}
  Jtis = {j1}
  Issuers = {iss}
  Keys = {kA, kB}
  Values = {a, empty}
  Empty = empty
  Nil = nil
  Platforms <- MCPlatforms
  ForeignClaims <- MCForeignClaims
  Registrations <- MCRegistrations
  Calls = {c1}
  TTLs = {0}
  DefaultTTL = 1
  Skews = {0}
  MaxTime = 2
  MaxPlatforms = 2
  MaxRestarts = 0
INVARIANT ClaimDemanded
CHECK_DEADLOCK FALSE
