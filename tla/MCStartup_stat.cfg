SPECIFICATION Spec
CONSTANTS
  Keys = {k1, k2}
  Obtainers = {a}
  Fetchers = {b}
  Nil = nil
  Broken = broken
  IdpWait = 2
  Pause = 1
  Timeout = 1
  TTL = 3
INVARIANT KeySurvives
CHECK_DEADLOCK FALSE
