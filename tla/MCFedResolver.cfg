SPECIFICATION Spec
CONSTANTS
  idpA = idpA
  other = other
  anchor = anchor
  anchor2 = anchor2
  kAnchor2 = kAnchor2
  kRogue = kRogue
  rogue = rogue
  kAnchor = kAnchor
  k1 = k1
  k2 = k2
  Kinds = {"memory", "http"}
  Entities = {idpA}
  Subjects = {idpA, other}
  Keys = {kAnchor, kAnchor2, kRogue, k1, k2}
  Anchors <- MCAnchors
  AnchorKey <- MCAnchorKey
  ECForms <- MCECForms
  SSForms <- MCSSForms
  Nil = nil
  Calls = {c1, c2}
  TTLs = {2}
  MaxTime = 2
  MaxRegistrations = 3
SYMMETRY FedSymmetry
INVARIANT TypeOK
INVARIANT AnswersAreCertified
INVARIANT NoAnswerFromExpired
CHECK_DEADLOCK FALSE
