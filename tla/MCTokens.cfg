SPECIFICATION Spec
CONSTANTS
  idpA = idpA
  idpB = idpB
  kA = kA
  kOld = kOld
  kX = kX
  kY = kY
  s1 = s1
  s2 = s2
  w1 = w1
  w2 = w2
  r1 = r1
  r2 = r2
  dom = dom
  tx = tx
  endpoint = endpoint
  Nil = nil
  Subjects = {s1, s2}
  WorkloadKeys = {w1, w2}
  Issuers = {idpA, idpB}
  Keys = {kA, kOld, kX, kY}
  IdPs <- MCIdPs
  Exchanges <- MCExchanges
  GrantIssuers <- MCGrantIssuers
  Authenticators <- MCAuthenticators
  TxnIssuers <- MCTxnIssuers
  Endpoints = {endpoint}
  WitRequests <- MCWitRequests
  TxnRequests <- MCTxnRequests
  SdRequests <- MCSdRequests
  Reveals <- MCReveals
  Calls = {c1, c2}
  MaxTokens = 4
  MaxTime = 2
SYMMETRY CallSymmetry
INVARIANT TokensTypeOK
INVARIANT IdentityPreserved
INVARIANT KindsKeptApart
INVARIANT ClaimsAsIssued
INVARIANT HiddenStaysHidden
PROPERTY NoRevival
CHECK_DEADLOCK FALSE
