---------------------------------- MODULE Wit ----------------------------------
(***************************************************************************)
(* pkg/wit: workload identity tokens, as operators.  A token is a record;  *)
(* the signature is the key it was made with, which verifies under that    *)
(* key and no other.                                                       *)
(***************************************************************************)
EXTENDS Integers

\* Issuer.Issue, for a subject and a workload key that are present.
IssueWit(iss, signer, sub, dom, cnf, now, ttl) ==
  [iss |-> iss, signer |-> signer, sub |-> sub, dom |-> dom, cnf |-> cnf,
   nbf |-> now, exp |-> now + ttl]

\* Validator.Validate for tokens of `iss' signed by `pub': issuer, signature,
\* nbf and exp.  iat is not looked at (no jwt.WithIssuedAt), but it equals nbf.
WitValid(wit, iss, pub, now) ==
  /\ wit.signer = pub
  /\ wit.iss = iss
  /\ wit.nbf <= now
  /\ now < wit.exp
==============================================================================
