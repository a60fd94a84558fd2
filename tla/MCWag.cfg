SPECIFICATION Spec
CONSTANTS
  iss = iss
  kA = kA
  kB = kB
  a = a
  j1 = j1
  Grants = {g1, g2}
  Jtis = {j1}
  Issuers = {iss}
  Keys = {kA, kB}
  Values = {a, empty}
  Empty = empty
  Nil = nil
  Platforms <- MCPlatforms
  ForeignClaims <- MCForeignClaims
  Registrations <- MCRegistrations
  Calls = {c1, c2}
  TTLs = {0}
  DefaultTTL = 1
  Skews = {0}
  MaxTime = 2
  MaxPlatforms = 2
  MaxRestarts = 1
SYMMETRY WagSymmetry
INVARIANT TypeOK
INVARIANT TokensPaidFor
INVARIANT TokenVouchedFor
INVARIANT AmbiguityRefused
PROPERTY ImplementsPromise
CHECK_DEADLOCK FALSE
