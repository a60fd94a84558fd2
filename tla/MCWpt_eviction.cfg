SPECIFICATION Spec
CONSTANTS
  Jtis = {j1}
  NoJti = noJti
  Wits = {w1}
  Keys = {k1}
  Uris = {u1}
  Txns = {}
  NoTxn = noTxn
  Nil = nil
  Calls = {c1, c2}
  Stores = {s1}
  TTLs = {1}
  DefaultTTL = 2
  Skews = {0}
  MaxTime = 3
  MaxRestarts = 0
INVARIANT EvictionReopensNothing
CHECK_DEADLOCK FALSE
