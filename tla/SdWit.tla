--------------------------------- MODULE SdWit ---------------------------------
(***************************************************************************)
(* pkg/sdwit: workload identity tokens with selective disclosure, as       *)
(* operators.  A string is the issuer-signed JWT and the disclosures that  *)
(* follow it, each at a place of its own (in whatever order: nobody looks  *)
(* at it); the JWT lists the hashes of the claims it hides.                *)
(***************************************************************************)
EXTENDS Wit

CONSTANT Nil     \* an absent claim

ClaimNames == {"sub", "trust_domain", "roles"}

\* A salt is random: no two claims of two tokens share one.
BuildDisclosure(jti, name, value) == [salt |-> <<jti, name>>, name |-> name, value |-> value]

HashDisclosure(d) == <<"sha256", d>>

\* Of the claims that are there, the selected ones become disclosures ...
Disclosures(jti, claims, selective) ==
  [n \in {m \in selective \cap ClaimNames : claims[m] # Nil} |->
     BuildDisclosure(jti, n, claims[n])]

\* ... and the others stay in the JWT.
Visible(claims, selective) ==
  [n \in ClaimNames |-> IF n \in selective THEN Nil ELSE claims[n]]

IssueSd(iss, signer, jti, cnf, claims, selective, now, ttl) ==
  LET discs == Disclosures(jti, claims, selective) IN
  [jwt |-> [typ |-> "wit+sd-jwt", iss |-> iss, signer |-> signer,
            nbf |-> now, exp |-> now + ttl, aud |-> {}, txn |-> Nil, cnf |-> cnf,
            claims |-> Visible(claims, selective),
            sd |-> {HashDisclosure(discs[i]) : i \in DOMAIN discs}],
   discs |-> discs]

Keep(s, places) == [s EXCEPT !.discs = [i \in places |-> s.discs[i]]]

\* Mutant of Present: an empty choice keeps every disclosure.
PresentNilIsAll(s, reveal) ==
  Keep(s, {i \in DOMAIN s.discs : reveal = {} \/ s.discs[i].name \in reveal})

\* Only the disclosures of the named claims are kept.
Present(s, reveal) == Keep(s, {i \in DOMAIN s.discs : s.discs[i].name \in reveal})

Disclosed(s, n) == {s.discs[i].value : i \in {j \in DOMAIN s.discs : s.discs[j].name = n}}

\* Mutant of SdAccepts: the hashes are not looked at.
SdAcceptsUnhashed(s, iss, pub, now) ==
  /\ s.jwt.typ = "wit+sd-jwt"
  /\ WitValid(s.jwt, iss, pub, now)
  /\ \A i, j \in DOMAIN s.discs : s.discs[i].name = s.discs[j].name => i = j
  /\ s.jwt.cnf # Nil

\* Every disclosure is one the JWT has the hash of, no claim comes twice, and
\* there is a key to prove possession of.
SdAccepts(s, iss, pub, now) ==
  /\ s.jwt.typ = "wit+sd-jwt"
  /\ WitValid(s.jwt, iss, pub, now)
  /\ \A i \in DOMAIN s.discs : HashDisclosure(s.discs[i]) \in s.jwt.sd
  /\ \A i, j \in DOMAIN s.discs : s.discs[i].name = s.discs[j].name => i = j
  /\ s.jwt.cnf # Nil

\* VerifiedClaims: the payload goes before the disclosures.
SdClaims(s) ==
  [n \in ClaimNames |->
     IF s.jwt.claims[n] # Nil \/ Disclosed(s, n) = {} THEN s.jwt.claims[n]
     ELSE CHOOSE v \in Disclosed(s, n) : TRUE]
==============================================================================
