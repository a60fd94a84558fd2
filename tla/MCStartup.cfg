SPECIFICATION FairSpec
CONSTANTS
  Keys = {k1, k2}
  Obtainers = {a}
  Fetchers = {b}
  Nil = nil
  Broken = broken
  IdpWait = 2
  Pause = 1
  Timeout = 1
  TTL = 3
INVARIANT StartupTypeOK
INVARIANT KeyKept
INVARIANT WitsVerify
INVARIANT StartBounded
PROPERTY StartEnds
CHECK_DEADLOCK FALSE
