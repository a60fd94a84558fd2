SPECIFICATION Spec
CONSTANTS
  idpA = idpA
  other = other
  anchor = anchor
  anchor2 = anchor2
  kAnchor2 = kAnchor2
  kRogue = kRogue
  rogue = rogue
  kAnchor = kAnchor
  k1 = k1
  k2 = k2
  Kinds = {"memory"}
  Entities = {idpA}
  Subjects = {idpA, other}
  Keys = {kAnchor, kAnchor2, kRogue, k1, k2}
  Anchors <- MCAnchors
  AnchorKey <- MCAnchorKey
  ECForms <- MCECForms
  SSForms <- MCSSForms
  Nil = nil
  Calls = {c1}
  TTLs = {1}
  MaxTime = 1
  MaxRegistrations = 3
INVARIANT RegistrationInvalidates
CHECK_DEADLOCK FALSE
