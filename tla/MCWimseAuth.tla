----------------------------- MODULE MCWimseAuth -----------------------------
(***************************************************************************)
(* One workload with two WITs, one of which expires while the clock still  *)
(* runs, and a WIT of another IdP.  cMixed signs with a key its WIT does   *)
(* not confirm.                                                            *)
(***************************************************************************)
EXTENDS WimseAuth, TLC

CONSTANTS wA, wOld, wForeign, kA, kB, idp, otherIdp, cA, cMixed, cOld

MCWits == {wA, wOld, wForeign}
MCWitOf ==
  wA :> IssueWit("idp", idp, "a", "d", kA, 0, 9) @@
  wOld :> IssueWit("idp", idp, "a", "d", kA, 0, 1) @@
  wForeign :> IssueWit("idp", otherIdp, "a", "d", kA, 0, 9)

MCClients == {cA, cMixed, cOld}
MCClientWit == cA :> wA @@ cMixed :> wA @@ cOld :> wOld
MCClientKey == cA :> kA @@ cMixed :> kB @@ cOld :> kA
==============================================================================
