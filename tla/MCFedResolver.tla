----------------------------- MODULE MCFedResolver -----------------------------
(***************************************************************************)
(* Two trusted anchors and one that is not, and an entity that rotates its *)
(* key from k1 to k2 and then names both.  Of the statements that get      *)
(* registered, or served by an anchor, one is about another entity, one is *)
(* signed by the anchor that is not trusted but named with k1, and one by  *)
(* the trusted anchor that is not named with it.                           *)
(***************************************************************************)
EXTENDS FedResolver, TLC

CONSTANTS idpA, other, anchor, anchor2, rogue, kAnchor, kAnchor2, kRogue, k1, k2

MCAnchors == {anchor, anchor2, rogue}
MCAnchorKey == (anchor :> kAnchor) @@ (anchor2 :> kAnchor2)

MCECForms == {
  [hints |-> {rogue, anchor}, key |-> k1],
  [hints |-> {anchor, anchor2}, key |-> k2]}

MCSSForms == {
  [sub |-> idpA, signer |-> kAnchor, key |-> k1],
  [sub |-> other, signer |-> kAnchor, key |-> k1],
  [sub |-> idpA, signer |-> kRogue, key |-> k1],
  [sub |-> idpA, signer |-> kAnchor2, key |-> k1],
  [sub |-> idpA, signer |-> kAnchor2, key |-> k2]}

FedSymmetry == Permutations(Calls)
==============================================================================
