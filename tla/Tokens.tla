--------------------------------- MODULE Tokens ---------------------------------
(***************************************************************************)
(* The credentials of the identity fabric and the services that make one   *)
(* out of another: the IdP's IssueHandler, the token exchange, the issuers *)
(* of identity-chaining grants, SPIFFE client authentication, transaction  *)
(* tokens and SD WITs.  All JWTs travel; anything may be handed to anyone. *)
(*                                                                         *)
(* A service that turns one credential into another validates it and then  *)
(* issues, with a reading of the clock for each; both are steps of a call, *)
(* of which several are under way.  A refused request changes nothing and  *)
(* is no step.                                                             *)
(***************************************************************************)
EXTENDS SdWit, FiniteSets

CONSTANTS
  Subjects, WorkloadKeys, Issuers, Keys,
  IdPs,            \* [iss, key, allowed, td, ttl]
  Exchanges,       \* [static, resolver, allowed, map, iss, key, ttl]
  GrantIssuers,    \* [iss, key, wit, pub, ttl]: wit and pub are its WIT validator's
  Authenticators,  \* [wit, pub, ttl]
  TxnIssuers,      \* [iss, key, ttl]
  Endpoints,       \* token endpoints: audiences of grants
  WitRequests,     \* [sub, cnf, aud, td]
  TxnRequests,     \* [sub, aud, txn, ttl]
  SdRequests,      \* [cnf, claims, selective]
  Reveals,         \* sets of claim names a holder reveals
  Calls,
  MaxTokens,       \* bounds the credentials and the presentations
  MaxTime

ASSUME TokensAssumption ==
  /\ Nil \notin Subjects \cup WorkloadKeys \cup Issuers \cup Keys
  /\ \A x \in Exchanges :
       /\ \A i \in DOMAIN x.static : i \in Issuers /\ x.static[i] \in Keys
       /\ \A i \in DOMAIN x.resolver : i \in Issuers /\ x.resolver[i] \subseteq Keys
       /\ x.allowed \subseteq Subjects
       /\ \A s \in DOMAIN x.map : s \in Subjects /\ x.map[s] \in Subjects
       \* cmd/token-exchange makes its own key
       /\ x.key \in Keys \ {p.key : p \in IdPs}
  /\ \A s \in IdPs \cup Exchanges \cup GrantIssuers \cup TxnIssuers :
       s.iss \in Issuers /\ s.key \in Keys
  \* Issue refuses a request without subject or key
  /\ \A r \in WitRequests \cup TxnRequests : r.sub \in Subjects
  /\ \A r \in WitRequests \cup SdRequests : r.cnf \in WorkloadKeys
  /\ \A s \in Exchanges \cup IdPs \cup GrantIssuers \cup Authenticators \cup TxnIssuers :
       s.ttl \in Nat \ {0}
  /\ {MaxTokens, MaxTime} \subseteq Nat

VARIABLES
  clock,
  wits, txns, grants, bearers,  \* what was issued so far
  held,       \* SD WITs: what the workload got; the claims issued are history
  shown,      \* the strings it has presented
  revealed,   \* history: the claims it meant to reveal
  call        \* the validated WIT a call is about to turn into something

vars == <<clock, wits, txns, grants, bearers, held, shown, revealed, call>>

Init ==
  /\ clock = 0
  /\ wits = {} /\ txns = {} /\ grants = {} /\ bearers = {}
  /\ held = {} /\ shown = {} /\ revealed = {}
  /\ call = [c \in Calls |-> Nil]

Issued == Cardinality(wits) + Cardinality(txns) + Cardinality(grants)
            + Cardinality(bearers) + Cardinality(held) + Cardinality(shown)

Room == Issued < MaxTokens

Jwts == wits \cup txns \cup grants \cup {h.full.jwt : h \in held} \cup {s.jwt : s \in shown}

-----------------------------------------------------------------------------
(* The kinds of JWTs. *)

OnlySub(sub) == [n \in ClaimNames |-> IF n = "sub" THEN sub ELSE Nil]

WitJwt(iss, key, sub, td, aud, cnf, ttl) ==
  [typ |-> "wit+jwt", iss |-> iss, signer |-> key, nbf |-> clock, exp |-> clock + ttl,
   aud |-> aud, txn |-> Nil, cnf |-> cnf, sd |-> {},
   claims |-> [OnlySub(sub) EXCEPT !["trust_domain"] = td]]

\* Grants and transaction tokens have no nbf; the validators look at iat.
GrantJwt(iss, key, sub, endpoint, ttl) ==
  [typ |-> "jwt-authz-grant", iss |-> iss, signer |-> key, nbf |-> clock, exp |-> clock + ttl,
   aud |-> {endpoint}, txn |-> Nil, cnf |-> Nil, sd |-> {}, claims |-> OnlySub(sub)]

TxnJwt(iss, key, sub, aud, txn, ttl) ==
  [typ |-> "txntoken+jwt", iss |-> iss, signer |-> key, nbf |-> clock, exp |-> clock + ttl,
   aud |-> aud, txn |-> txn, cnf |-> Nil, sd |-> {}, claims |-> OnlySub(sub)]

\* Mutants of WitAccepts: the typ is not looked at; nor is the expiry.
WitAcceptsAnyTyp(t, iss, pub) == WitValid(t, iss, pub, clock) /\ t.cnf # Nil

WitAcceptsExpired(t, iss, pub) ==
  /\ t.typ = "wit+jwt"
  /\ WitValid(t, iss, pub, t.nbf)
  /\ t.cnf # Nil

WitAccepts(t, iss, pub) ==
  /\ t.typ = "wit+jwt"
  /\ WitValid(t, iss, pub, clock)
  /\ t.cnf # Nil

\* Mutant of GrantAccepts: the typ is not looked at.
GrantAcceptsAnyTyp(t, iss, pub, endpoint) ==
  /\ WitValid(t, iss, pub, clock)
  /\ endpoint \in t.aud
  /\ t.claims["sub"] # Nil

GrantAccepts(t, iss, pub, endpoint) ==
  /\ t.typ = "jwt-authz-grant"
  /\ WitValid(t, iss, pub, clock)
  /\ endpoint \in t.aud
  /\ t.claims["sub"] # Nil

TxnAccepts(t, iss, pub) ==
  /\ t.typ = "txntoken+jwt"
  /\ WitValid(t, iss, pub, clock)
  /\ t.txn # Nil

-----------------------------------------------------------------------------
(* Issuing on request. *)

SubjectAllowed(allowed, sub) == allowed = {} \/ sub \in allowed

\* POST /wit/issue.  (The event it then emits, whatever becomes of it, is Ssf's.)
IssueHandler(p, r) ==
  /\ Room
  /\ SubjectAllowed(p.allowed, r.sub)
  /\ LET td == IF r.td = Nil THEN p.td ELSE r.td
     IN wits' = wits \cup {WitJwt(p.iss, p.key, r.sub, td, r.aud, r.cnf, p.ttl)}
  /\ UNCHANGED <<clock, txns, grants, bearers, held, shown, revealed, call>>

IssueTxn(s, r) ==
  /\ Room
  /\ LET ttl == IF r.ttl = 0 THEN s.ttl ELSE r.ttl
     IN txns' = txns \cup {TxnJwt(s.iss, s.key, r.sub, r.aud, r.txn, ttl)}
  /\ UNCHANGED <<clock, wits, grants, bearers, held, shown, revealed, call>>

IssueSdWit(p, r) ==
  LET full == IssueSd(p.iss, p.key, Cardinality(held), r.cnf, r.claims, r.selective,
                      clock, p.ttl) IN
  /\ Room
  /\ held' = held \cup {[full |-> full, claims |-> r.claims]}
  /\ UNCHANGED <<clock, wits, txns, grants, bearers, shown, revealed, call>>

\* The holder presents some of the claims of an SD WIT.
Show(h, reveal) ==
  /\ Room
  /\ shown' = shown \cup {Present(h.full, reveal)}
  /\ revealed' = revealed \cup {<<h.full.jwt, n>> : n \in reveal}
  /\ UNCHANGED <<clock, wits, txns, grants, bearers, held, call>>

-----------------------------------------------------------------------------
(* One credential for another. *)

\* Mutant of ResolveIssuerKey: an issuer nobody configured may bring its own.
ResolveIssuerKeyOpen(x, iss) ==
  IF iss \in DOMAIN x.static THEN {x.static[iss]} ELSE Keys

\* The static map goes first.  The resolver may at one time answer one key and
\* at another time another: any it certifies.
ResolveIssuerKey(x, iss) ==
  IF iss \in DOMAIN x.static THEN {x.static[iss]}
  ELSE IF iss \in DOMAIN x.resolver THEN x.resolver[iss] ELSE {}

Allows(x, sub) == SubjectAllowed(x.allowed, sub)

MapSubject(x, sub) == IF sub \in DOMAIN x.map THEN x.map[sub] ELSE sub

Validated(c, role, by, t, aud) ==
  /\ call[c] = Nil
  /\ call' = [call EXCEPT ![c] = [role |-> role, by |-> by, src |-> t, aud |-> aud]]
  /\ UNCHANGED <<clock, wits, txns, grants, bearers, held, shown, revealed>>

\* The issuer is read before anything is verified.
PeekIssuer(t) == t.iss

\* POST /token/exchange.
BeginExchange(c, x, t) ==
  /\ \E pub \in ResolveIssuerKey(x, PeekIssuer(t)) : WitAccepts(t, PeekIssuer(t), pub)
  /\ Allows(x, t.claims["sub"])
  /\ Validated(c, "exchange", x, t, {})

\* GrantIssuer.Issue, Authenticator.Authenticate.
BeginGrant(c, g, t, endpoint) ==
  /\ WitAccepts(t, g.wit, g.pub)
  /\ Validated(c, "grant", g, t, {endpoint})

BeginAuthenticate(c, a, t) ==
  /\ WitAccepts(t, a.wit, a.pub)
  /\ Validated(c, "authenticate", a, t, {})

Finish(c, role) ==
  /\ Room
  /\ call[c] # Nil /\ call[c].role = role
  /\ call' = [call EXCEPT ![c] = Nil]
  /\ UNCHANGED <<clock, txns, held, shown, revealed>>

\* The new WIT is of the target domain, for the key of the old one.  Domain and
\* audiences of the old one are not copied.
FinishExchange(c) ==
  /\ Finish(c, "exchange")
  /\ LET x == call[c].by
         t == call[c].src
     IN wits' = wits \cup {WitJwt(x.iss, x.key, MapSubject(x, t.claims["sub"]), Nil, {},
                               t.cnf, x.ttl)}
  /\ UNCHANGED <<grants, bearers>>

FinishGrant(c) ==
  /\ Finish(c, "grant")
  /\ LET g == call[c].by
     IN grants' = grants \cup {GrantJwt(g.iss, g.key, call[c].src.claims["sub"], e, g.ttl) :
                               e \in call[c].aud}
  /\ UNCHANGED <<wits, bearers>>

\* The access token is opaque.
FinishAuthenticate(c) ==
  /\ Finish(c, "authenticate")
  /\ bearers' = bearers \cup {[by |-> call[c].by, sub |-> call[c].src.claims["sub"],
                               exp |-> clock + call[c].by.ttl]}
  /\ UNCHANGED <<wits, grants>>

-----------------------------------------------------------------------------
Tick ==
  /\ clock < MaxTime
  /\ clock' = clock + 1
  /\ UNCHANGED <<wits, txns, grants, bearers, held, shown, revealed, call>>

Next ==
  \/ \E p \in IdPs : \/ \E r \in WitRequests : IssueHandler(p, r)
                     \/ \E r \in SdRequests : IssueSdWit(p, r)
  \/ \E s \in TxnIssuers, r \in TxnRequests : IssueTxn(s, r)
  \/ \E h \in held, reveal \in Reveals : Show(h, reveal)
  \/ \E c \in Calls, t \in Jwts :
       \/ \E x \in Exchanges : BeginExchange(c, x, t)
       \/ \E g \in GrantIssuers, e \in Endpoints : BeginGrant(c, g, t, e)
       \/ \E a \in Authenticators : BeginAuthenticate(c, a, t)
  \/ \E c \in Calls : FinishExchange(c) \/ FinishGrant(c) \/ FinishAuthenticate(c)
  \/ Tick

Spec == Init /\ [][Next]_vars

-----------------------------------------------------------------------------
(* Properties. *)

\* Types; a call holds a WIT, and every WIT names a subject and a key.
TokensTypeOK ==
  /\ clock \in 0..MaxTime
  /\ \A t \in wits : t.claims["sub"] \in Subjects /\ t.cnf \in WorkloadKeys
  /\ \A t \in Jwts : t.iss \in Issuers /\ t.signer \in Keys /\ t.nbf <= clock
  /\ \A c \in Calls : call[c] # Nil =>
       /\ call[c].src \in wits
       /\ call[c].role \in {"exchange", "grant", "authenticate"}

Sub(t) == t.claims["sub"]

\* The configuration of x trusts the key of t for the issuer of t.
Trusts(x, t) ==
  IF t.iss \in DOMAIN x.static THEN t.signer = x.static[t.iss]
  ELSE t.iss \in DOMAIN x.resolver /\ t.signer \in x.resolver[t.iss]

\* s is among the subjects the exchanges can make, one after the other, of r.
MadeOf(r, s) ==
  \A S \in SUBSET Subjects :
    /\ r \in S
    /\ \A x \in Exchanges, q \in S :
         x.allowed = {} \/ q \in x.allowed =>
           (IF q \in DOMAIN x.map THEN x.map[q] ELSE q) \in S
    => s \in S

\* Through any number of exchanges an identity stays that of one workload: every
\* exchanged WIT is for the key that an IdP bound to a subject, under an issuer
\* and key that an exchange trusts, and its subject is made of that one; grants
\* and access tokens are for the subject of a WIT their maker trusts.
IdentityPreserved ==
  /\ \A t \in wits, x \in Exchanges : t.signer = x.key =>
       \E r \in wits :
         /\ r.signer \in {p.key : p \in IdPs}
         /\ \E y \in Exchanges : Trusts(y, r)
         /\ r.cnf = t.cnf
         /\ MadeOf(Sub(r), Sub(t))
  /\ \A t \in grants : \E g \in GrantIssuers, w \in wits :
       g.iss = t.iss /\ g.key = t.signer /\ w.signer = g.pub /\ Sub(w) = Sub(t)
  /\ \A b \in bearers : \E w \in wits : w.signer = b.by.pub /\ Sub(w) = b.sub

Alive(k) ==
  \/ \E t \in wits : t.cnf = k /\ clock < t.exp
  \/ \E c \in Calls : call[c] # Nil /\ call[c].src.cnf = k

IdPIssuesFor(k) ==
  \E t \in wits' \ wits : t.cnf = k /\ t.signer \in {p.key : p \in IdPs}

\* An exchange before the expiry buys a workload another lifetime, and so does
\* one that is under way at the expiry; but once every WIT for its key has
\* expired and no exchange is under way, nothing but an IdP brings it back.
NoRevival ==
  [][\A k \in WorkloadKeys : ~Alive(k) /\ ~IdPIssuesFor(k) => ~Alive(k)']_vars

\* One issuer and key may sign every kind of token: whatever is handed to a
\* validator of one kind, it accepts what an issuer of that kind made.
KindsKeptApart ==
  \A t \in Jwts :
    /\ WitAccepts(t, t.iss, t.signer) => t \in wits
    /\ TxnAccepts(t, t.iss, t.signer) => t \in txns
    /\ \A e \in Endpoints : GrantAccepts(t, t.iss, t.signer, e) => t \in grants
    /\ SdAccepts([jwt |-> t, discs |-> <<>>], t.iss, t.signer, clock)
         => t \in {h.full.jwt : h \in held}

Known == UNION {{h.full.discs[i] : i \in DOMAIN h.full.discs} : h \in held}

\* The JWT of one SD WIT with disclosures of whatever origin and order: what the
\* validator reports was issued in that token.  What the holder presents is
\* accepted, and the validator sees the claims it chose and the visible ones.
ClaimsAsIssued ==
  \A h \in held :
    LET jwt == h.full.jwt
        ok(s) == SdAccepts(s, jwt.iss, jwt.signer, clock)
    IN
    /\ \A d1, d2 \in Known : \A discs \in {<<d1>>, <<d1, d2>>} :
         LET s == [jwt |-> jwt, discs |-> discs]
         IN ok(s) => \A n \in ClaimNames : SdClaims(s)[n] \in {Nil, h.claims[n]}
    /\ clock < jwt.exp => \A reveal \in SUBSET ClaimNames :
         LET s == Present(h.full, reveal) IN
         /\ ok(s)
         /\ \A n \in ClaimNames :
              SdClaims(s)[n] = IF n \in reveal \/ jwt.claims[n] # Nil THEN h.claims[n] ELSE Nil

\* "reveal only e.g. sub while keeping roles and trust_domain private"
\* (claims.go:24): a disclosure leaves the holder only if it was chosen, however
\* often the token is presented.
HiddenStaysHidden ==
  \A s \in shown : \A i \in DOMAIN s.discs : <<s.jwt, s.discs[i].name>> \in revealed
==============================================================================
