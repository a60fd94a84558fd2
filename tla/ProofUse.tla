------------------------------- MODULE ProofUse -------------------------------
(***************************************************************************)
(* What a replay store promises its users: up to its expiry a proof is     *)
(* used at most once at a place; after the expiry at most Slack more uses  *)
(* get through, those that were already under way.  A place may forget     *)
(* everything (its process restarts).                                      *)
(***************************************************************************)
EXTENDS Integers

CONSTANTS Jtis, Places, Slack

VARIABLES clock, expiry, uses

vars == <<clock, expiry, uses>>

Unused == [j \in Jtis |-> 0]

Init ==
  /\ clock = 0
  /\ expiry = [j \in {} |-> 0]
  /\ uses = [p \in Places |-> Unused]

Mint(j) ==
  /\ j \notin DOMAIN expiry
  /\ DOMAIN expiry' = DOMAIN expiry \cup {j}
  /\ \A k \in DOMAIN expiry : expiry'[k] = expiry[k]
  /\ UNCHANGED <<clock, uses>>

UseLive(p, j) ==
  /\ j \in DOMAIN expiry
  /\ clock <= expiry[j]
  /\ uses[p][j] = 0
  /\ uses' = [uses EXCEPT ![p][j] = 1]
  /\ UNCHANGED <<clock, expiry>>

UseLate(p, j) ==
  /\ j \in DOMAIN expiry
  /\ clock > expiry[j]
  /\ uses[p][j] <= Slack
  /\ uses' = [uses EXCEPT ![p][j] = @ + 1]
  /\ UNCHANGED <<clock, expiry>>

Elapse ==
  /\ clock' > clock
  /\ UNCHANGED <<expiry, uses>>

Forget(p) ==
  /\ uses' = [uses EXCEPT ![p] = Unused]
  /\ UNCHANGED <<clock, expiry>>

Next ==
  \/ \E j \in Jtis : Mint(j)
  \/ \E p \in Places, j \in Jtis : UseLive(p, j) \/ UseLate(p, j)
  \/ Elapse
  \/ \E p \in Places : Forget(p)

Spec == Init /\ [][Next]_vars
==============================================================================
