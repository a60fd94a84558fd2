SPECIFICATION Spec
CONSTANTS
  get = get
  put = put
  empty = empty
  root = root
  q = q
  w1 = w1
  d1 = d1
  Nonces = {n1}
  Methods = {get, put}
  Paths = {empty, root}
  Queries = {q}
  Wits = {w1, badWit}
  Digests = {d1}
  Auds = {b}
  Keys = {k1}
  Requests <- OnlyPlain
  EmptyPath = empty
  RootPath = root
  Nil = nil
  BadWit = badWit
  Calls = {c1, c2}
  Stores = {s1}
  TPS = 2
  Leeway = 1
  KeepFor = 2
  TTLs = {0, 2, 3}
  DefaultTTL = 4
  Skews = {0}
  MaxTime = 7
  MaxCount = 2
INVARIANT OnceWhileFresh
CHECK_DEADLOCK FALSE
