--------------------------------- MODULE MCSsf ---------------------------------
(* Two streams: one wants revocations only, one wants everything; one of the  *)
(* configurations is poll-only.                                               *)
EXTENDS Ssf, TLC

CONSTANTS revoked, changed, u1, u2, x, y

MCEventTypes == {revoked, changed}
MCUrls == {u1, u2}
MCAuds == {x, y}
MCConfigs == {
  [url |-> u1, types |-> {revoked}, auds |-> {x}],
  [url |-> u2, types |-> {}, auds |-> {x, y}],
  [url |-> Nil, types |-> {changed}, auds |-> {y}]}
==============================================================================
