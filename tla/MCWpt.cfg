SPECIFICATION Spec
CONSTANTS
  Jtis = {j1, j2}
  NoJti = noJti
  Wits = {w1}
  Keys = {k1}
  Uris = {u1}
  Txns = {}
  NoTxn = noTxn
  Nil = nil
  Calls = {c1, c2}
  Stores = {s1}
  TTLs = {1}
  DefaultTTL = 2
  Skews = {0, 1}
  MaxTime = 3
  MaxRestarts = 1
SYMMETRY WptSymmetry
INVARIANT TypeOK
INVARIANT OnceWhileLive
INVARIANT StoreRemembersLive
INVARIANT LateBounded
INVARIANT ReplayVerdictJustified
PROPERTY ImplementsPromise
CHECK_DEADLOCK FALSE
