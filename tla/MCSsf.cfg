SPECIFICATION FairSpec
CONSTANTS
  Nil = nil
  revoked = revoked
  changed = changed
  u1 = u1
  u2 = u2
  x = x
  y = y
  EventTypes <- MCEventTypes
  Urls <- MCUrls
  Auds <- MCAuds
  Configs <- MCConfigs
  Streams = {s1, s2}
  Calls = {c1, c2}
  Receivers = {r1}
  Cap = 1
  MaxEvents = 2
  MaxRegistrations = 2
INVARIANT TypeOK
INVARIANT PushFitsItsStream
INVARIANT NoPushAfterDeregister
PROPERTY EmitReturns
CHECK_DEADLOCK FALSE
