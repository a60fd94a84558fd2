--------------------------------- MODULE MCWag ---------------------------------
(***************************************************************************)
(* Two tenants of one issuer with a key each: one is registered with a     *)
(* value of the claim, the other with an empty value.  A third             *)
(* registration names no tenant.  The foreign grants are one of the first  *)
(* tenant, one of the second, which lacks the claim and has the same jti,  *)
(* one of the second that claims to be the first, and one without a jti.   *)
(***************************************************************************)
EXTENDS Wag, TLC

CONSTANTS iss, kA, kB, a, j1

MCRegistrations == {
  [iss |-> iss, key |-> kA, value |-> a],
  [iss |-> iss, key |-> kB, value |-> Empty],
  [iss |-> iss, key |-> kA, value |-> Nil]}

MCPlatforms == {[iss |-> iss, key |-> kA]}

MCForeignClaims == {
  [iss |-> iss, key |-> kA, jti |-> j1, value |-> a],
  [iss |-> iss, key |-> kB, jti |-> j1, value |-> Nil],
  [iss |-> iss, key |-> kB, jti |-> j1, value |-> a],
  [iss |-> iss, key |-> kA, jti |-> Nil, value |-> a]}

WagSymmetry == Permutations(Calls) \cup Permutations(Grants)
==============================================================================
