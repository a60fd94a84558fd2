-------------------------------- MODULE MCTokens --------------------------------
(***************************************************************************)
(* Two domains and an exchange in each direction: a WIT of idpA for s1     *)
(* becomes one for s2 in the domain of idpB, and that one a WIT of the     *)
(* domain of idpA again.  kOld signed for idpA before it was restarted.    *)
(* kA signs tokens of every kind, and the WITs for s2 are for the audience *)
(* of the token endpoint, as a grant is.                                   *)
(***************************************************************************)
EXTENDS Tokens, TLC

CONSTANTS idpA, idpB, kA, kOld, kX, kY, s1, s2, w1, w2, r1, r2, dom, tx, endpoint

None == [i \in {} |-> Nil]

MCIdPs == {
  [iss |-> idpA, key |-> kA, allowed |-> {}, td |-> dom, ttl |-> 1],
  [iss |-> idpA, key |-> kOld, allowed |-> {s2}, td |-> dom, ttl |-> 1]}

MCExchanges == {
  [static |-> idpA :> kA, resolver |-> None, allowed |-> {}, map |-> s1 :> s2,
   iss |-> idpB, key |-> kX, ttl |-> 1],
  [static |-> None, resolver |-> idpB :> {kX}, allowed |-> {s2}, map |-> None,
   iss |-> idpA, key |-> kY, ttl |-> 1]}

MCGrantIssuers == {[iss |-> idpA, key |-> kA, wit |-> idpA, pub |-> kA, ttl |-> 1]}

MCAuthenticators == {[wit |-> idpB, pub |-> kX, ttl |-> 1]}

MCTxnIssuers == {[iss |-> idpA, key |-> kA, ttl |-> 1]}

MCWitRequests == {
  [sub |-> s1, cnf |-> w1, aud |-> {}, td |-> Nil],
  [sub |-> s2, cnf |-> w2, aud |-> {endpoint}, td |-> dom]}

MCTxnRequests == {[sub |-> s1, aud |-> {endpoint}, txn |-> tx, ttl |-> 0]}

Claims(s, r) == ("sub" :> s) @@ ("roles" :> r) @@ ("trust_domain" :> Nil)

MCSdRequests == {
  [cnf |-> w1, claims |-> Claims(s1, r1), selective |-> {"sub", "roles"}],
  [cnf |-> w2, claims |-> Claims(s2, r2), selective |-> {"roles"}]}

MCReveals == {{}, {"sub"}, {"roles", "trust_domain"}}

CallSymmetry == Permutations(Calls)
==============================================================================
