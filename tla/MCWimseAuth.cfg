SPECIFICATION FairAuthSpec
CONSTANTS
  Jtis = {j1}
  NoJti = noJti
  Wits <- MCWits
  Keys = {kA, kB}
  Uris = {u1, u2}
  Txns = {}
  NoTxn = noTxn
  Nil = nil
  Calls = {c1, c2}
  Stores = {s1}
  TTLs = {0}
  DefaultTTL = 1
  Skews = {0}
  MaxTime = 2
  MaxRestarts = 1
  WitOf <- MCWitOf
  IdpIssuer = "idp"
  IdpKey = idp
  Clients <- MCClients
  ClientWit <- MCClientWit
  ClientKey <- MCClientKey
  wA = wA
  wOld = wOld
  wForeign = wForeign
  kA = kA
  kB = kB
  idp = idp
  otherIdp = otherIdp
  cA = cA
  cMixed = cMixed
  cOld = cOld
INVARIANT AuthTypeOK
INVARIANT CallerIsProven
INVARIANT RunsMatchAcceptances
INVARIANT HandlerRunsOnceWhileLive
PROPERTY RequestsAnswered
PROPERTY ImplementsWpt
CHECK_DEADLOCK FALSE
