----------------------------- MODULE TokensProofs -----------------------------
(***************************************************************************)
(* Theorems about Tokens, for any domains, exchanges and issuers, however  *)
(* they are chained, and any number of workloads, credentials and calls.   *)
(***************************************************************************)
EXTENDS Tokens, TLAPS

-----------------------------------------------------------------------------
(***************************************************************************)
(* Types.  A service learns the type of a JWT from its typ, so the types   *)
(* of the calls need that every kind of JWT carries its own.               *)
(***************************************************************************)

IdPKeys == {p.key : p \in IdPs}

ExchangeKeys == {x.key : x \in Exchanges}

Kinds ==
  /\ \A t \in wits : t.typ = "wit+jwt" /\ t.exp \in Int /\ t.signer \in IdPKeys \cup ExchangeKeys
  /\ \A t \in txns : t.typ = "txntoken+jwt"
  /\ \A t \in grants : t.typ = "jwt-authz-grant"
  /\ \A h \in held :
       /\ h.full = [jwt |-> h.full.jwt, discs |-> h.full.discs]
       /\ h.full.jwt.typ = "wit+sd-jwt"
  /\ \A s \in shown : \E h \in held : s.jwt = h.full.jwt

Sourced ==
  \A t \in Jwts : t.iss \in Issuers /\ t.signer \in Keys /\ t.nbf \in Int /\ t.nbf <= clock

\* Who a call is of.
Callers ==
  /\ call = [c \in Calls |-> call[c]]
  /\ \A c \in Calls : call[c] # Nil =>
       /\ call[c].role = "exchange" => call[c].by \in Exchanges
       /\ call[c].role = "grant" => call[c].by \in GrantIssuers
       /\ call[c].role = "authenticate" => call[c].by \in Authenticators

Types == TokensTypeOK /\ Sourced /\ Kinds /\ Callers

\* A WIT has the subject, the key and the times it was issued with.
LEMMA WitJwtFacts ==
  ASSUME NEW iss, NEW key, NEW sub, NEW td, NEW aud, NEW cnf, NEW ttl \in Nat, clock \in Nat
  PROVE  LET t == WitJwt(iss, key, sub, td, aud, cnf, ttl) IN
         /\ t.typ = "wit+jwt" /\ t.iss = iss /\ t.signer = key /\ t.cnf = cnf
         /\ t.nbf = clock /\ t.exp = clock + ttl /\ t.exp \in Int
         /\ t.claims["sub"] = sub
BY DEF ClaimNames, WitJwt, OnlySub

\* What a validator of WITs accepts is a WIT of the key and issuer it trusts,
\* and in date.
LEMMA AcceptedWit ==
  ASSUME Types, NEW t \in Jwts, NEW iss, NEW pub, WitAccepts(t, iss, pub)
  PROVE  t \in wits /\ t.signer = pub /\ t.iss = iss /\ clock < t.exp
<1>1. t.typ = "wit+jwt" /\ t.signer = pub /\ t.iss = iss /\ clock < t.exp
  BY DEF WitAccepts, WitValid
<1>2. t.typ # "wit+jwt" \/ t \in wits
  <2>1. CASE t \in txns \cup grants
    BY <2>1 DEF Types, Kinds
  <2>2. CASE \E h \in held : t = h.full.jwt
    BY <2>2 DEF Types, Kinds
  <2>3. CASE \E s \in shown : t = s.jwt
    BY <2>3 DEF Types, Kinds
  <2> QED
    BY <2>1, <2>2, <2>3 DEF Jwts
<1> QED
  BY <1>1, <1>2

\* What an exchange resolves for an issuer is what its configuration trusts.
LEMMA ResolvedIsTrusted ==
  ASSUME NEW x, NEW t, t.signer \in ResolveIssuerKey(x, t.iss)
  PROVE  Trusts(x, t)
BY DEF ResolveIssuerKey, Trusts

LEMMA TypesInit == Init => Types
BY TokensAssumption DEF Init, Types, TokensTypeOK, Sourced, Kinds, Callers, Jwts

\* Every JWT after a step is one there was or a new one of a configured issuer.
LEMMA JwtsStep ==
  ASSUME Types, clock' \in 0..MaxTime, clock <= clock',
         \A t \in Jwts' : \/ t \in Jwts
                          \/ (t.iss \in Issuers /\ t.signer \in Keys /\ t.nbf = clock)
  PROVE  Sourced'
<1> SUFFICES ASSUME NEW t \in Jwts'
             PROVE  t.iss \in Issuers /\ t.signer \in Keys /\ t.nbf \in Int /\ t.nbf <= clock'
  BY DEF Sourced
<1>1. clock \in Int /\ clock' \in Int
  BY TokensAssumption DEF Types, TokensTypeOK
<1>2. CASE t \in Jwts
  <2>1. t.iss \in Issuers /\ t.signer \in Keys /\ t.nbf \in Int /\ t.nbf <= clock
    BY <1>2 DEF Types, Sourced
  <2> QED
    BY <1>1, <2>1
<1> QED
  BY <1>1, <1>2

\* A WIT is issued, and to the service's own key.
LEMMA NewWit ==
  ASSUME Types, NEW s \in IdPs \cup Exchanges, NEW sub \in Subjects, NEW cnf \in WorkloadKeys,
         NEW td, NEW aud,
         wits' = wits \cup {WitJwt(s.iss, s.key, sub, td, aud, cnf, s.ttl)},
         UNCHANGED <<clock, txns, grants, held, shown>>
  PROVE  /\ \A t \in wits' : t.claims["sub"] \in Subjects /\ t.cnf \in WorkloadKeys
         /\ Sourced'
         /\ Kinds'
<1> DEFINE new == WitJwt(s.iss, s.key, sub, td, aud, cnf, s.ttl)
<1>1. clock \in Nat /\ clock' \in 0..MaxTime /\ clock <= clock'
  BY TokensAssumption DEF Types, TokensTypeOK
<1>2. s.ttl \in Nat /\ s.iss \in Issuers /\ s.key \in Keys /\ s.key \in IdPKeys \cup ExchangeKeys
  BY TokensAssumption DEF IdPKeys, ExchangeKeys
<1>3. /\ new.typ = "wit+jwt" /\ new.iss = s.iss /\ new.signer = s.key /\ new.cnf = cnf
      /\ new.nbf = clock /\ new.exp \in Int /\ new.claims["sub"] = sub
  BY <1>1, <1>2, WitJwtFacts
<1> HIDE DEF new
<1>4. wits' = wits \cup {new}
  BY DEF new
<1>5. \A t \in Jwts' : t \in Jwts \/ t = new
  BY <1>4 DEF Jwts
<1>6. Sourced'
  BY <1>1, <1>2, <1>3, <1>5, JwtsStep
<1>7. Kinds'
  BY <1>2, <1>3, <1>4 DEF Types, Kinds
<1>8. \A t \in wits' : t.claims["sub"] \in Subjects /\ t.cnf \in WorkloadKeys
  BY <1>3, <1>4 DEF Types, TokensTypeOK
<1> QED
  BY <1>6, <1>7, <1>8

LEMMA TypesIssuing ==
  ASSUME Types, NEW p \in IdPs, NEW r \in WitRequests, IssueHandler(p, r)
  PROVE  Types'
<1>1. \E td : wits' = wits \cup {WitJwt(p.iss, p.key, r.sub, td, r.aud, r.cnf, p.ttl)}
  BY DEF IssueHandler
<1>2. r.sub \in Subjects /\ r.cnf \in WorkloadKeys
  BY TokensAssumption
<1>3. UNCHANGED <<clock, txns, grants, held, shown, call>>
  BY DEF IssueHandler
<1>4. /\ \A t \in wits' : t.claims["sub"] \in Subjects /\ t.cnf \in WorkloadKeys
      /\ Sourced'
      /\ Kinds'
  BY <1>1, <1>2, <1>3, NewWit
<1>5. TokensTypeOK'
  BY <1>1, <1>3, <1>4 DEF Types, TokensTypeOK, Sourced
<1> QED
  BY <1>3, <1>4, <1>5 DEF Types, Callers

LEMMA TypesTxn ==
  ASSUME Types, NEW s \in TxnIssuers, NEW r \in TxnRequests, IssueTxn(s, r)
  PROVE  Types'
<1> DEFINE new == TxnJwt(s.iss, s.key, r.sub, r.aud, r.txn, IF r.ttl = 0 THEN s.ttl ELSE r.ttl)
<1>1. /\ new.typ = "txntoken+jwt" /\ new.iss \in Issuers /\ new.signer \in Keys
      /\ new.nbf = clock
  BY TokensAssumption DEF TxnJwt
<1>2. txns' = txns \cup {new} /\ UNCHANGED <<clock, wits, grants, held, shown, call>>
  BY DEF IssueTxn
<1> HIDE DEF new
<1>3. \A t \in Jwts' : t \in Jwts \/ t = new
  BY <1>2 DEF Jwts
<1>4. clock' \in 0..MaxTime /\ clock <= clock'
  BY <1>2, TokensAssumption DEF Types, TokensTypeOK
<1>5. Sourced'
  BY <1>1, <1>3, <1>4, JwtsStep
<1>6. TokensTypeOK'
  BY <1>2, <1>4, <1>5 DEF Types, TokensTypeOK, Sourced
<1>7. Kinds'
  BY <1>1, <1>2 DEF Types, Kinds
<1> QED
  BY <1>2, <1>5, <1>6, <1>7 DEF Types, Callers

LEMMA TypesSd ==
  ASSUME Types, NEW p \in IdPs, NEW r \in SdRequests, IssueSdWit(p, r)
  PROVE  Types'
<1> DEFINE full == IssueSd(p.iss, p.key, Cardinality(held), r.cnf, r.claims, r.selective,
                           clock, p.ttl)
           new == [full |-> full, claims |-> r.claims]
<1>1. /\ full = [jwt |-> full.jwt, discs |-> full.discs]
      /\ full.jwt.typ = "wit+sd-jwt" /\ full.jwt.iss \in Issuers /\ full.jwt.signer \in Keys
      /\ full.jwt.nbf = clock
  BY TokensAssumption DEF IssueSd
<1>2. held' = held \cup {new} /\ UNCHANGED <<clock, wits, txns, grants, shown, call>>
  BY DEF IssueSdWit
<1> HIDE DEF full
<1>3. \A t \in Jwts' : t \in Jwts \/ t = full.jwt
  BY <1>2 DEF Jwts
<1>4. clock' \in 0..MaxTime /\ clock <= clock'
  BY <1>2, TokensAssumption DEF Types, TokensTypeOK
<1>5. Sourced'
  BY <1>1, <1>3, <1>4, JwtsStep
<1>6. TokensTypeOK'
  BY <1>2, <1>4, <1>5 DEF Types, TokensTypeOK, Sourced
<1>7. Kinds'
  BY <1>1, <1>2 DEF Types, Kinds
<1> QED
  BY <1>2, <1>5, <1>6, <1>7 DEF Types, Callers

LEMMA TypesShow ==
  ASSUME Types, NEW h \in held, NEW reveal, Show(h, reveal)
  PROVE  Types'
<1> DEFINE new == Present(h.full, reveal)
<1>1. h.full = [jwt |-> h.full.jwt, discs |-> h.full.discs]
  BY DEF Types, Kinds
<1>2. new.jwt = h.full.jwt
  BY <1>1 DEF Present, Keep
<1>3. shown' = shown \cup {new} /\ UNCHANGED <<clock, wits, txns, grants, held, call>>
  BY DEF Show
<1> HIDE DEF new
<1>4. \A t \in Jwts' : t \in Jwts
  BY <1>2, <1>3 DEF Jwts
<1>5. Sourced'
  BY <1>3, <1>4 DEF Types, Sourced
<1>6. TokensTypeOK'
  BY <1>3, <1>5 DEF Types, TokensTypeOK, Sourced
<1>7. Kinds'
  BY <1>2, <1>3 DEF Types, Kinds
<1> QED
  BY <1>3, <1>5, <1>6, <1>7 DEF Types, Callers

\* A call begins with a WIT in hand.
LEMMA TypesValidated ==
  ASSUME Types, NEW c \in Calls, NEW role \in {"exchange", "grant", "authenticate"}, NEW by,
         NEW t \in wits, NEW aud, Validated(c, role, by, t, aud),
         role = "exchange" => by \in Exchanges,
         role = "grant" => by \in GrantIssuers,
         role = "authenticate" => by \in Authenticators
  PROVE  Types'
<1>1. /\ call'[c] = [role |-> role, by |-> by, src |-> t, aud |-> aud]
      /\ \A d \in Calls \ {c} : call'[d] = call[d]
      /\ call' = [d \in Calls |-> call'[d]]
  BY DEF Validated, Types, Callers
<1>2. UNCHANGED <<clock, wits, txns, grants, held, shown>>
  BY DEF Validated
<1>3. Jwts' = Jwts
  BY <1>2 DEF Jwts
<1>4. TokensTypeOK'
  BY <1>1, <1>2, <1>3 DEF Types, TokensTypeOK
<1>5. Sourced' /\ Kinds'
  BY <1>2, <1>3 DEF Types, Sourced, Kinds
<1>6. Callers'
  BY <1>1 DEF Types, Callers
<1> QED
  BY <1>4, <1>5, <1>6 DEF Types

LEMMA TypesBegin ==
  ASSUME Types, NEW c \in Calls, NEW t \in Jwts,
         \/ \E x \in Exchanges : BeginExchange(c, x, t)
         \/ \E g \in GrantIssuers, e \in Endpoints : BeginGrant(c, g, t, e)
         \/ \E a \in Authenticators : BeginAuthenticate(c, a, t)
  PROVE  Types'
<1>1. CASE \E x \in Exchanges : BeginExchange(c, x, t)
  <2>1. PICK x \in Exchanges : BeginExchange(c, x, t)
    BY <1>1
  <2>2. t \in wits
    BY <2>1, AcceptedWit DEF BeginExchange
  <2> QED
    BY <2>1, <2>2, TypesValidated DEF BeginExchange
<1>2. CASE \E g \in GrantIssuers, e \in Endpoints : BeginGrant(c, g, t, e)
  <2>1. PICK g \in GrantIssuers, e \in Endpoints : BeginGrant(c, g, t, e)
    BY <1>2
  <2>2. t \in wits
    BY <2>1, AcceptedWit DEF BeginGrant
  <2> QED
    BY <2>1, <2>2, TypesValidated DEF BeginGrant
<1>3. CASE \E a \in Authenticators : BeginAuthenticate(c, a, t)
  <2>1. PICK a \in Authenticators : BeginAuthenticate(c, a, t)
    BY <1>3
  <2>2. t \in wits
    BY <2>1, AcceptedWit DEF BeginAuthenticate
  <2> QED
    BY <2>1, <2>2, TypesValidated DEF BeginAuthenticate
<1> QED
  BY <1>1, <1>2, <1>3

\* A call that ends is gone, the others go on with the WITs they have.
LEMMA TypesFinished ==
  ASSUME Types, NEW c \in Calls, NEW role, Finish(c, role)
  PROVE  /\ call[c] # Nil /\ call[c].role = role /\ call[c].src \in wits
         /\ UNCHANGED <<clock, txns, held, shown, revealed>>
         /\ call'[c] = Nil
         /\ \A d \in Calls : call'[d] # Nil => call'[d] = call[d]
         /\ Callers'
BY DEF Finish, Types, TokensTypeOK, Callers

LEMMA TypesExchange ==
  ASSUME Types, NEW c \in Calls, FinishExchange(c)
  PROVE  Types'
<1>1. /\ call[c] # Nil /\ call[c].role = "exchange" /\ call[c].src \in wits
      /\ UNCHANGED <<clock, txns, held, shown>>
      /\ \A d \in Calls : call'[d] # Nil => call'[d] = call[d]
      /\ Callers'
  BY TypesFinished DEF FinishExchange
<1>2. call[c].by \in Exchanges
  BY <1>1 DEF Types, Callers
<1> DEFINE x == call[c].by
           sub == MapSubject(x, call[c].src.claims["sub"])
<1>3. call[c].src.claims["sub"] \in Subjects /\ call[c].src.cnf \in WorkloadKeys
  BY <1>1 DEF Types, TokensTypeOK
<1>4. sub \in Subjects
  BY <1>2, <1>3, TokensAssumption DEF MapSubject
<1>5. /\ wits' = wits \cup {WitJwt(x.iss, x.key, sub, Nil, {}, call[c].src.cnf, x.ttl)}
      /\ grants' = grants
  BY DEF FinishExchange
<1> HIDE DEF x, sub
<1>6. /\ \A t \in wits' : t.claims["sub"] \in Subjects /\ t.cnf \in WorkloadKeys
      /\ Sourced'
      /\ Kinds'
  BY <1>1, <1>2, <1>3, <1>4, <1>5, NewWit DEF x
<1>7. wits \subseteq wits'
  BY <1>5
<1>8. TokensTypeOK'
  BY <1>1, <1>6, <1>7 DEF Types, TokensTypeOK, Sourced
<1> QED
  BY <1>1, <1>6, <1>8 DEF Types

LEMMA TypesGrant ==
  ASSUME Types, NEW c \in Calls, FinishGrant(c)
  PROVE  Types'
<1>1. /\ call[c] # Nil /\ call[c].role = "grant"
      /\ UNCHANGED <<clock, wits, txns, held, shown>>
      /\ \A d \in Calls : call'[d] # Nil => call'[d] = call[d]
      /\ Callers'
  BY TypesFinished DEF FinishGrant
<1>2. call[c].by \in GrantIssuers
  BY <1>1 DEF Types, Callers
<1> DEFINE g == call[c].by
           new(e) == GrantJwt(g.iss, g.key, call[c].src.claims["sub"], e, g.ttl)
<1>3. \A e : /\ new(e).typ = "jwt-authz-grant" /\ new(e).iss \in Issuers
             /\ new(e).signer \in Keys /\ new(e).nbf = clock
  BY <1>2, TokensAssumption DEF GrantJwt
<1>4. grants' = grants \cup {new(e) : e \in call[c].aud}
  BY DEF FinishGrant
<1> HIDE DEF new
<1>5. \A t \in Jwts' : t \in Jwts \/ \E e : t = new(e)
  BY <1>1, <1>4 DEF Jwts
<1>6. clock' \in 0..MaxTime /\ clock <= clock'
  BY <1>1, TokensAssumption DEF Types, TokensTypeOK
<1>7. Sourced'
  BY <1>3, <1>5, <1>6, JwtsStep
<1>8. TokensTypeOK'
  BY <1>1, <1>6, <1>7 DEF Types, TokensTypeOK, Sourced
<1>9. Kinds'
  BY <1>1, <1>3, <1>4 DEF Types, Kinds
<1> QED
  BY <1>1, <1>7, <1>8, <1>9 DEF Types

LEMMA TypesAuthenticate ==
  ASSUME Types, NEW c \in Calls, FinishAuthenticate(c)
  PROVE  Types'
<1>1. /\ UNCHANGED <<clock, wits, txns, grants, held, shown>>
      /\ \A d \in Calls : call'[d] # Nil => call'[d] = call[d]
      /\ Callers'
  BY TypesFinished DEF FinishAuthenticate
<1>2. Jwts' = Jwts
  BY <1>1 DEF Jwts
<1>3. TokensTypeOK'
  BY <1>1, <1>2 DEF Types, TokensTypeOK
<1>4. Sourced' /\ Kinds'
  BY <1>1, <1>2 DEF Types, Sourced, Kinds
<1> QED
  BY <1>1, <1>3, <1>4 DEF Types

LEMMA TypesTick ==
  ASSUME Types, Tick
  PROVE  Types'
<1>1. clock' \in 0..MaxTime /\ clock <= clock'
  BY TokensAssumption DEF Tick, Types, TokensTypeOK
<1>2. UNCHANGED <<wits, txns, grants, held, shown, call>>
  BY DEF Tick
<1>3. Jwts' = Jwts
  BY <1>2 DEF Jwts
<1>4. Sourced'
  BY <1>1, <1>3, JwtsStep
<1>5. TokensTypeOK'
  BY <1>1, <1>2, <1>4 DEF Types, TokensTypeOK, Sourced
<1> QED
  BY <1>2, <1>4, <1>5 DEF Types, Kinds, Callers

LEMMA TypesStep == Types /\ [Next]_vars => Types'
<1> SUFFICES ASSUME Types, [Next]_vars
             PROVE  Types'
  OBVIOUS
<1>1. CASE \E p \in IdPs : \/ \E r \in WitRequests : IssueHandler(p, r)
                           \/ \E r \in SdRequests : IssueSdWit(p, r)
  BY <1>1, TypesIssuing, TypesSd
<1>2. CASE \E s \in TxnIssuers, r \in TxnRequests : IssueTxn(s, r)
  BY <1>2, TypesTxn
<1>3. CASE \E h \in held, reveal \in Reveals : Show(h, reveal)
  BY <1>3, TypesShow
<1>4. CASE \E c \in Calls, t \in Jwts :
             \/ \E x \in Exchanges : BeginExchange(c, x, t)
             \/ \E g \in GrantIssuers, e \in Endpoints : BeginGrant(c, g, t, e)
             \/ \E a \in Authenticators : BeginAuthenticate(c, a, t)
  BY <1>4, TypesBegin
<1>5. CASE \E c \in Calls : FinishExchange(c) \/ FinishGrant(c) \/ FinishAuthenticate(c)
  BY <1>5, TypesExchange, TypesGrant, TypesAuthenticate
<1>6. CASE Tick
  BY <1>6, TypesTick
<1>7. CASE UNCHANGED vars
  BY <1>7 DEF vars, Types, TokensTypeOK, Sourced, Kinds, Callers, Jwts
<1> QED
  BY <1>1, <1>2, <1>3, <1>4, <1>5, <1>6, <1>7 DEF Next

LEMMA TypesAlways == Spec => []Types
BY TypesInit, TypesStep, PTL DEF Spec

\* The types of the credentials, and that what a call is about to turn into
\* something else is a WIT.
THEOREM TokensTypeCorrect == Spec => []TokensTypeOK
<1>1. Types => TokensTypeOK
  BY DEF Types
<1> QED
  BY <1>1, TypesAlways, PTL

-----------------------------------------------------------------------------
(***************************************************************************)
(* Kinds.  The key may be the same, so only the typ keeps them apart.      *)
(***************************************************************************)

\* Five sets of JWTs, four kinds: what is shown is an SD WIT as issued.
LEMMA FourKinds ==
  ASSUME Types, NEW t \in Jwts
  PROVE  \/ t \in wits /\ t.typ = "wit+jwt"
         \/ t \in txns /\ t.typ = "txntoken+jwt"
         \/ t \in grants /\ t.typ = "jwt-authz-grant"
         \/ t \in {h.full.jwt : h \in held} /\ t.typ = "wit+sd-jwt"
<1>1. CASE t \in wits \cup txns \cup grants
  BY <1>1 DEF Types, Kinds
<1>2. CASE \E h \in held : t = h.full.jwt
  BY <1>2 DEF Types, Kinds
<1>3. CASE \E s \in shown : t = s.jwt
  <2>1. \E h \in held : t = h.full.jwt
    BY <1>3 DEF Types, Kinds
  <2> QED
    BY <1>2, <2>1
<1> QED
  BY <1>1, <1>2, <1>3 DEF Jwts

\* Whatever is handed to a validator of one kind of token, it accepts only what
\* an issuer of that kind made, although one key signs all kinds.
THEOREM KindsAreDistinct == Spec => []KindsKeptApart
<1>1. Types => KindsKeptApart
  <2> SUFFICES ASSUME Types, NEW t \in Jwts
               PROVE  /\ WitAccepts(t, t.iss, t.signer) => t \in wits
                      /\ TxnAccepts(t, t.iss, t.signer) => t \in txns
                      /\ \A e \in Endpoints : GrantAccepts(t, t.iss, t.signer, e) => t \in grants
                      /\ SdAccepts([jwt |-> t, discs |-> <<>>], t.iss, t.signer, clock)
                           => t \in {h.full.jwt : h \in held}
    BY DEF KindsKeptApart
  <2>1. WitAccepts(t, t.iss, t.signer) => t.typ = "wit+jwt"
    BY DEF WitAccepts
  <2>2. TxnAccepts(t, t.iss, t.signer) => t.typ = "txntoken+jwt"
    BY DEF TxnAccepts
  <2>3. \A e \in Endpoints : GrantAccepts(t, t.iss, t.signer, e) => t.typ = "jwt-authz-grant"
    BY DEF GrantAccepts
  <2>4. SdAccepts([jwt |-> t, discs |-> <<>>], t.iss, t.signer, clock) => t.typ = "wit+sd-jwt"
    BY DEF SdAccepts
  <2> QED
    BY <2>1, <2>2, <2>3, <2>4, FourKinds
<1> QED
  BY <1>1, TypesAlways, PTL

-----------------------------------------------------------------------------
(***************************************************************************)
(* Identity.  An exchange knows a WIT's maker by its key alone: that a     *)
(* chain of exchanges begins at an IdP needs that nobody else signs WITs,  *)
(* and that a call still has what it validated when it finishes.           *)
(***************************************************************************)

\* Who a call's WIT is of, for the service the call is of.
Authorised ==
  \A c \in Calls : call[c] # Nil =>
    LET by == call[c].by
        src == call[c].src
    IN
    /\ call[c].role = "exchange" => Trusts(by, src) /\ Allows(by, Sub(src))
    /\ call[c].role = "grant" => src.signer = by.pub
    /\ call[c].role = "authenticate" => src.signer = by.pub

\* Where a WIT comes from: from an IdP, for the subject and the key it bound.
Origin(t, r) ==
  /\ r.signer \in IdPKeys
  /\ \E y \in Exchanges : Trusts(y, r)
  /\ r.cnf = t.cnf
  /\ MadeOf(Sub(r), Sub(t))

Preserved == IdentityPreserved /\ Authorised

LEMMA MadeOfItself == \A s : MadeOf(s, s)
BY DEF MadeOf

\* One exchange more.
LEMMA MadeOfNext ==
  ASSUME NEW r, NEW q \in Subjects, MadeOf(r, q), NEW x \in Exchanges, Allows(x, q)
  PROVE  MadeOf(r, MapSubject(x, q))
<1> SUFFICES ASSUME NEW S \in SUBSET Subjects, r \in S,
                    \A y \in Exchanges, p \in S :
                      y.allowed = {} \/ p \in y.allowed =>
                        (IF p \in DOMAIN y.map THEN y.map[p] ELSE p) \in S
             PROVE  MapSubject(x, q) \in S
  BY DEF MadeOf
<1>1. q \in S
  BY DEF MadeOf
<1> QED
  BY <1>1 DEF MapSubject, Allows, SubjectAllowed

LEMMA PreservedInit == Init => Preserved
BY DEF Init, Preserved, IdentityPreserved, Authorised

\* WITs are never taken back, so what they vouch for stays vouched for.
LEMMA OriginsStay ==
  ASSUME Preserved, wits \subseteq wits'
  PROVE  /\ \A t \in wits, x \in Exchanges : t.signer = x.key => \E r \in wits' : Origin(t, r)
         /\ \A t \in grants : \E g \in GrantIssuers, w \in wits' :
              g.iss = t.iss /\ g.key = t.signer /\ w.signer = g.pub /\ Sub(w) = Sub(t)
         /\ \A b \in bearers : \E w \in wits' : w.signer = b.by.pub /\ Sub(w) = b.sub
<1>1. \A t \in wits, x \in Exchanges : t.signer = x.key => \E r \in wits : Origin(t, r)
  BY DEF Preserved, IdentityPreserved, Origin, IdPKeys
<1>2. \A t \in grants : \E g \in GrantIssuers, w \in wits :
        g.iss = t.iss /\ g.key = t.signer /\ w.signer = g.pub /\ Sub(w) = Sub(t)
  BY DEF Preserved, IdentityPreserved
<1>3. \A b \in bearers : \E w \in wits : w.signer = b.by.pub /\ Sub(w) = b.sub
  BY DEF Preserved, IdentityPreserved
<1> QED
  BY <1>1, <1>2, <1>3

\* A step whose new WITs have an origin and whose new grants and access tokens
\* have a WIT behind them.
LEMMA PreservedFrame ==
  ASSUME Preserved, wits \subseteq wits',
         \A t \in wits' \ wits, x \in Exchanges :
           t.signer = x.key => \E r \in wits' : Origin(t, r),
         \A t \in grants' \ grants : \E g \in GrantIssuers, w \in wits' :
           g.iss = t.iss /\ g.key = t.signer /\ w.signer = g.pub /\ Sub(w) = Sub(t),
         \A b \in bearers' \ bearers : \E w \in wits' : w.signer = b.by.pub /\ Sub(w) = b.sub
  PROVE  IdentityPreserved'
<1>1. /\ \A t \in wits', x \in Exchanges : t.signer = x.key => \E r \in wits' : Origin(t, r)
      /\ \A t \in grants' : \E g \in GrantIssuers, w \in wits' :
           g.iss = t.iss /\ g.key = t.signer /\ w.signer = g.pub /\ Sub(w) = Sub(t)
      /\ \A b \in bearers' : \E w \in wits' : w.signer = b.by.pub /\ Sub(w) = b.sub
  BY OriginsStay
<1> QED
  BY <1>1 DEF IdentityPreserved, Origin, IdPKeys

LEMMA PreservedIssuing ==
  ASSUME Types, Preserved, NEW p \in IdPs, NEW r \in WitRequests, IssueHandler(p, r)
  PROVE  Preserved'
<1>1. PICK td : wits' = wits \cup {WitJwt(p.iss, p.key, r.sub, td, r.aud, r.cnf, p.ttl)}
  BY DEF IssueHandler
<1> DEFINE new == WitJwt(p.iss, p.key, r.sub, td, r.aud, r.cnf, p.ttl)
<1>2. new.signer = p.key
  BY DEF WitJwt
<1>3. \A x \in Exchanges : x.key # p.key
  BY TokensAssumption
<1> HIDE DEF new
<1>4. wits' = wits \cup {new} /\ UNCHANGED <<grants, bearers, call>>
  BY <1>1 DEF IssueHandler, new
<1>5. IdentityPreserved'
  BY <1>2, <1>3, <1>4, PreservedFrame
<1> QED
  BY <1>4, <1>5 DEF Preserved, Authorised

\* What a service was shown is authorised when its call begins.
LEMMA PreservedBegin ==
  ASSUME Types, Preserved, NEW c \in Calls, NEW t \in Jwts,
         \/ \E x \in Exchanges : BeginExchange(c, x, t)
         \/ \E g \in GrantIssuers, e \in Endpoints : BeginGrant(c, g, t, e)
         \/ \E a \in Authenticators : BeginAuthenticate(c, a, t)
  PROVE  Preserved'
<1>1. PICK role, by, aud :
        /\ Validated(c, role, by, t, aud)
        /\ role = "exchange" => Trusts(by, t) /\ Allows(by, Sub(t))
        /\ role = "grant" => t.signer = by.pub
        /\ role = "authenticate" => t.signer = by.pub
  <2>1. CASE \E x \in Exchanges : BeginExchange(c, x, t)
    <3>1. PICK x \in Exchanges : BeginExchange(c, x, t)
      BY <2>1
    <3>2. t.signer \in ResolveIssuerKey(x, t.iss)
      BY <3>1 DEF BeginExchange, PeekIssuer, WitAccepts, WitValid
    <3>3. Trusts(x, t) /\ Allows(x, Sub(t)) /\ Validated(c, "exchange", x, t, {})
      BY <3>1, <3>2, ResolvedIsTrusted DEF BeginExchange, Sub
    <3> QED
      BY <3>3
  <2>2. CASE \E g \in GrantIssuers, e \in Endpoints : BeginGrant(c, g, t, e)
    <3>1. PICK g \in GrantIssuers, e \in Endpoints : BeginGrant(c, g, t, e)
      BY <2>2
    <3>2. t.signer = g.pub /\ Validated(c, "grant", g, t, {e})
      BY <3>1, AcceptedWit DEF BeginGrant
    <3> QED
      BY <3>2
  <2>3. CASE \E a \in Authenticators : BeginAuthenticate(c, a, t)
    <3>1. PICK a \in Authenticators : BeginAuthenticate(c, a, t)
      BY <2>3
    <3>2. t.signer = a.pub /\ Validated(c, "authenticate", a, t, {})
      BY <3>1, AcceptedWit DEF BeginAuthenticate
    <3> QED
      BY <3>2
  <2> QED
    BY <2>1, <2>2, <2>3
<1>2. /\ call'[c] = [role |-> role, by |-> by, src |-> t, aud |-> aud]
      /\ \A d \in Calls \ {c} : call'[d] = call[d]
  BY <1>1 DEF Validated, Types, Callers
<1>3. UNCHANGED <<wits, grants, bearers>>
  BY <1>1 DEF Validated
<1>4. IdentityPreserved'
  BY <1>3 DEF Preserved, IdentityPreserved
<1>5. Authorised'
  BY <1>1, <1>2 DEF Preserved, Authorised
<1> QED
  BY <1>4, <1>5 DEF Preserved

\* The exchange's new WIT is made of the one it holds, and that is either an
\* IdP's or was made of one.
LEMMA PreservedExchange ==
  ASSUME Types, Preserved, NEW c \in Calls, FinishExchange(c)
  PROVE  Preserved'
<1> DEFINE x == call[c].by
           src == call[c].src
           new == WitJwt(x.iss, x.key, MapSubject(x, src.claims["sub"]), Nil, {}, src.cnf, x.ttl)
<1>1. /\ call[c] # Nil /\ call[c].role = "exchange" /\ src \in wits
      /\ \A d \in Calls : call'[d] # Nil => call'[d] = call[d]
  BY TypesFinished DEF FinishExchange
<1>2. x \in Exchanges /\ Trusts(x, src) /\ Allows(x, Sub(src))
  BY <1>1 DEF Types, Callers, Preserved, Authorised
<1>3. new.cnf = src.cnf /\ Sub(new) = MapSubject(x, Sub(src))
  BY DEF ClaimNames, WitJwt, OnlySub, Sub
<1>4. wits' = wits \cup {new} /\ UNCHANGED <<grants, bearers>>
  BY DEF FinishExchange
<1> HIDE DEF x, src, new
<1>5. PICK r \in wits : Origin(src, r)
  <2>1. CASE src.signer \in IdPKeys
    <3>1. Origin(src, src)
      BY <1>1, <1>2, <2>1, MadeOfItself DEF Origin
    <3> QED
      BY <1>1, <3>1
  <2>2. CASE src.signer \in ExchangeKeys
    <3>1. PICK y \in Exchanges : src.signer = y.key
      BY <2>2 DEF ExchangeKeys
    <3> QED
      BY <1>1, <3>1 DEF Preserved, IdentityPreserved, Origin, IdPKeys
  <2> QED
    BY <1>1, <2>1, <2>2 DEF Types, Kinds
<1>6. Sub(src) \in Subjects
  BY <1>1 DEF Types, TokensTypeOK, Sub
<1>7. MadeOf(Sub(r), Sub(new))
  BY <1>2, <1>3, <1>5, <1>6, MadeOfNext DEF Origin
<1>8. Origin(new, r)
  BY <1>3, <1>5, <1>7 DEF Origin
<1>9. IdentityPreserved'
  BY <1>4, <1>8, PreservedFrame
<1>10. Authorised'
  BY <1>1 DEF Preserved, Authorised
<1> QED
  BY <1>9, <1>10 DEF Preserved

LEMMA PreservedGrant ==
  ASSUME Types, Preserved, NEW c \in Calls, FinishGrant(c)
  PROVE  Preserved'
<1> DEFINE g == call[c].by
           src == call[c].src
           new(e) == GrantJwt(g.iss, g.key, src.claims["sub"], e, g.ttl)
<1>1. /\ call[c] # Nil /\ call[c].role = "grant" /\ src \in wits
      /\ \A d \in Calls : call'[d] # Nil => call'[d] = call[d]
  BY TypesFinished DEF FinishGrant
<1>2. g \in GrantIssuers /\ src.signer = g.pub
  BY <1>1 DEF Types, Callers, Preserved, Authorised
<1>3. \A e : new(e).iss = g.iss /\ new(e).signer = g.key /\ Sub(new(e)) = Sub(src)
  BY DEF ClaimNames, GrantJwt, OnlySub, Sub
<1>4. /\ grants' = grants \cup {new(e) : e \in call[c].aud}
      /\ UNCHANGED <<wits, bearers>>
  BY DEF FinishGrant
<1> HIDE DEF g, src, new
<1>5. \A t \in grants' \ grants : g.iss = t.iss /\ g.key = t.signer /\ Sub(src) = Sub(t)
  BY <1>3, <1>4
<1>6. IdentityPreserved'
  BY <1>1, <1>2, <1>4, <1>5, PreservedFrame
<1>7. Authorised'
  BY <1>1 DEF Preserved, Authorised
<1> QED
  BY <1>6, <1>7 DEF Preserved

LEMMA PreservedAuthenticate ==
  ASSUME Types, Preserved, NEW c \in Calls, FinishAuthenticate(c)
  PROVE  Preserved'
<1> DEFINE src == call[c].src
           new == [by |-> call[c].by, sub |-> src.claims["sub"], exp |-> clock + call[c].by.ttl]
<1>1. /\ call[c] # Nil /\ call[c].role = "authenticate" /\ src \in wits
      /\ \A d \in Calls : call'[d] # Nil => call'[d] = call[d]
  BY TypesFinished DEF FinishAuthenticate
<1>2. src.signer = new.by.pub /\ Sub(src) = new.sub
  BY <1>1 DEF Preserved, Authorised, Sub
<1>3. bearers' = bearers \cup {new} /\ UNCHANGED <<wits, grants>>
  BY DEF FinishAuthenticate
<1> HIDE DEF src, new
<1>4. IdentityPreserved'
  BY <1>1, <1>2, <1>3, PreservedFrame
<1>5. Authorised'
  BY <1>1 DEF Preserved, Authorised
<1> QED
  BY <1>4, <1>5 DEF Preserved

LEMMA PreservedStep == Types /\ Preserved /\ [Next]_vars => Preserved'
<1> SUFFICES ASSUME Types, Preserved, [Next]_vars
             PROVE  Preserved'
  OBVIOUS
<1>1. CASE UNCHANGED <<wits, grants, bearers, call>>
  BY <1>1 DEF Preserved, IdentityPreserved, Authorised
<1>2. CASE \E p \in IdPs : \/ \E r \in WitRequests : IssueHandler(p, r)
                           \/ \E r \in SdRequests : IssueSdWit(p, r)
  BY <1>1, <1>2, PreservedIssuing DEF IssueSdWit
<1>3. CASE \/ \E s \in TxnIssuers, r \in TxnRequests : IssueTxn(s, r)
           \/ \E h \in held, reveal \in Reveals : Show(h, reveal)
           \/ Tick
           \/ UNCHANGED vars
  BY <1>1, <1>3 DEF IssueTxn, Show, Tick, vars
<1>4. CASE \E c \in Calls, t \in Jwts :
             \/ \E x \in Exchanges : BeginExchange(c, x, t)
             \/ \E g \in GrantIssuers, e \in Endpoints : BeginGrant(c, g, t, e)
             \/ \E a \in Authenticators : BeginAuthenticate(c, a, t)
  BY <1>4, PreservedBegin
<1>5. CASE \E c \in Calls : FinishExchange(c) \/ FinishGrant(c) \/ FinishAuthenticate(c)
  BY <1>5, PreservedExchange, PreservedGrant, PreservedAuthenticate
<1> QED
  BY <1>2, <1>3, <1>4, <1>5 DEF Next

\* Through any number of exchanges, in any domains, an identity stays that of
\* the one workload an IdP gave it to; grants and access tokens are for the
\* subject of a WIT that their maker trusts.
THEOREM IdentitySurvivesExchange == Spec => []IdentityPreserved
<1>1. Preserved => IdentityPreserved
  BY DEF Preserved
<1> QED
  BY <1>1, TypesAlways, PreservedInit, PreservedStep, PTL DEF Spec

-----------------------------------------------------------------------------
(***************************************************************************)
(* Revival.  Only what is alive begets WITs: a call has a WIT that was in  *)
(* date when it began, and the new WIT is for the key of the old one.      *)
(***************************************************************************)

LEMMA AliveFrame ==
  ASSUME Types, clock <= clock', clock' \in Int, NEW k,
         \A t \in wits' \ wits : t.cnf = k => Alive(k) \/ t.signer \in IdPKeys,
         \A c \in Calls : call'[c] # Nil => call'[c] = call[c] \/ (call'[c].src.cnf = k => Alive(k)),
         Alive(k)'
  PROVE  Alive(k) \/ IdPIssuesFor(k)
<1>1. CASE \E t \in wits' : t.cnf = k /\ clock' < t.exp
  <2>1. PICK t \in wits' : t.cnf = k /\ clock' < t.exp
    BY <1>1
  <2>2. CASE t \in wits
    <3>1. t.exp \in Int /\ clock \in Int
      BY <2>2, TokensAssumption DEF Types, TokensTypeOK, Kinds
    <3> QED
      BY <2>1, <2>2, <3>1 DEF Alive
  <2>3. CASE t \notin wits
    BY <2>1, <2>3 DEF IdPIssuesFor, IdPKeys
  <2> QED
    BY <2>2, <2>3
<1>2. CASE \E c \in Calls : call'[c] # Nil /\ call'[c].src.cnf = k
  BY <1>2 DEF Alive
<1> QED
  BY <1>1, <1>2 DEF Alive

LEMMA AliveBegin ==
  ASSUME Types, NEW k, NEW c \in Calls, NEW t \in Jwts,
         \/ \E x \in Exchanges : BeginExchange(c, x, t)
         \/ \E g \in GrantIssuers, e \in Endpoints : BeginGrant(c, g, t, e)
         \/ \E a \in Authenticators : BeginAuthenticate(c, a, t),
         Alive(k)'
  PROVE  Alive(k) \/ IdPIssuesFor(k)
<1>1. PICK role, by, aud : Validated(c, role, by, t, aud)
  BY DEF BeginExchange, BeginGrant, BeginAuthenticate
<1>2. t \in wits /\ clock < t.exp
  BY AcceptedWit DEF BeginExchange, BeginGrant, BeginAuthenticate
<1>3. /\ call'[c].src = t
      /\ \A d \in Calls \ {c} : call'[d] = call[d]
      /\ UNCHANGED <<clock, wits>>
  BY <1>1 DEF Validated, Types, Callers
<1>4. t.cnf = k => Alive(k)
  BY <1>2 DEF Alive
<1>5. clock' \in Int /\ clock <= clock'
  BY <1>3, TokensAssumption DEF Types, TokensTypeOK
<1> QED
  BY <1>3, <1>4, <1>5, AliveFrame

LEMMA AliveFinish ==
  ASSUME Types, NEW k, NEW c \in Calls,
         FinishExchange(c) \/ FinishGrant(c) \/ FinishAuthenticate(c),
         Alive(k)'
  PROVE  Alive(k) \/ IdPIssuesFor(k)
<1>1. /\ call[c] # Nil
      /\ \A d \in Calls : call'[d] # Nil => call'[d] = call[d]
      /\ UNCHANGED clock
  BY TypesFinished DEF FinishExchange, FinishGrant, FinishAuthenticate
<1>2. \A t \in wits' \ wits : t.cnf = call[c].src.cnf
  <2>1. CASE FinishExchange(c)
    <3>1. \E iss, key, sub, ttl :
            wits' = wits \cup {WitJwt(iss, key, sub, Nil, {}, call[c].src.cnf, ttl)}
      BY <2>1 DEF FinishExchange
    <3> QED
      BY <3>1 DEF WitJwt
  <2>2. CASE FinishGrant(c) \/ FinishAuthenticate(c)
    BY <2>2 DEF FinishGrant, FinishAuthenticate
  <2> QED
    BY <2>1, <2>2
<1>3. call[c].src.cnf = k => Alive(k)
  BY <1>1 DEF Alive
<1>4. clock' \in Int /\ clock <= clock'
  BY <1>1, TokensAssumption DEF Types, TokensTypeOK
<1> QED
  BY <1>1, <1>2, <1>3, <1>4, AliveFrame

LEMMA AliveStep ==
  ASSUME Types, [Next]_vars, NEW k, Alive(k)'
  PROVE  Alive(k) \/ IdPIssuesFor(k)
<1>1. CASE UNCHANGED <<wits, call>> /\ clock <= clock' /\ clock' \in Int
  BY <1>1, AliveFrame
<1>2. clock \in Int /\ clock <= clock
  BY TokensAssumption DEF Types, TokensTypeOK
<1>3. CASE \E p \in IdPs, r \in WitRequests : IssueHandler(p, r)
  <2>1. PICK p \in IdPs, r \in WitRequests : IssueHandler(p, r)
    BY <1>3
  <2>2. \E td : wits' = wits \cup {WitJwt(p.iss, p.key, r.sub, td, r.aud, r.cnf, p.ttl)}
    BY <2>1 DEF IssueHandler
  <2>3. \A t \in wits' \ wits : t.signer \in IdPKeys
    BY <2>2 DEF WitJwt, IdPKeys
  <2> QED
    BY <1>2, <2>1, <2>3, AliveFrame DEF IssueHandler
<1>4. CASE \/ \E p \in IdPs, r \in SdRequests : IssueSdWit(p, r)
           \/ \E s \in TxnIssuers, r \in TxnRequests : IssueTxn(s, r)
           \/ \E h \in held, reveal \in Reveals : Show(h, reveal)
           \/ UNCHANGED vars
  BY <1>1, <1>2, <1>4 DEF IssueSdWit, IssueTxn, Show, vars
<1>5. CASE Tick
  BY <1>1, <1>2, <1>5 DEF Tick
<1>6. CASE \E c \in Calls, t \in Jwts :
             \/ \E x \in Exchanges : BeginExchange(c, x, t)
             \/ \E g \in GrantIssuers, e \in Endpoints : BeginGrant(c, g, t, e)
             \/ \E a \in Authenticators : BeginAuthenticate(c, a, t)
  BY <1>6, AliveBegin
<1>7. CASE \E c \in Calls : FinishExchange(c) \/ FinishGrant(c) \/ FinishAuthenticate(c)
  BY <1>7, AliveFinish
<1> QED
  BY <1>3, <1>4, <1>5, <1>6, <1>7 DEF Next

\* Once every WIT for a workload's key has expired and no exchange of one is
\* under way, no chain of exchanges brings it back; only an IdP does.
THEOREM ExpiredStaysExpired == Spec => NoRevival
<1>1. Types /\ [Next]_vars =>
        [\A k \in WorkloadKeys : ~Alive(k) /\ ~IdPIssuesFor(k) => ~Alive(k)']_vars
  BY AliveStep
<1> QED
  BY <1>1, TypesAlways, PTL DEF Spec, NoRevival

-----------------------------------------------------------------------------
(***************************************************************************)
(* Disclosure.  A verifier sees hashes and whatever is put behind the JWT; *)
(* what it may conclude follows from how the SD WIT was issued, so that is *)
(* the invariant.                                                          *)
(***************************************************************************)

IssuedAs(h, r, jti, selective) ==
  /\ h.claims = r.claims
  /\ h.full.discs = Disclosures(jti, h.claims, selective)
  /\ h.full.jwt.claims = Visible(h.claims, selective)
  /\ h.full.jwt.sd = {HashDisclosure(h.full.discs[i]) : i \in DOMAIN h.full.discs}
  /\ h.full.jwt.cnf = r.cnf

WellMade == \A h \in held : \E r \in SdRequests : \E jti, selective : IssuedAs(h, r, jti, selective)

LEMMA WellMadeInit == Init => WellMade
BY DEF Init, WellMade

LEMMA WellMadeStep == WellMade /\ [Next]_vars => WellMade'
<1> SUFFICES ASSUME WellMade, [Next]_vars
             PROVE  WellMade'
  OBVIOUS
<1>1. CASE UNCHANGED held
  BY <1>1 DEF WellMade
<1>2. CASE \E p \in IdPs, r \in SdRequests : IssueSdWit(p, r)
  <2>1. PICK p \in IdPs, r \in SdRequests : IssueSdWit(p, r)
    BY <1>2
  <2> DEFINE full == IssueSd(p.iss, p.key, Cardinality(held), r.cnf, r.claims, r.selective,
                             clock, p.ttl)
             new == [full |-> full, claims |-> r.claims]
  <2>2. held' = held \cup {new}
    BY <2>1 DEF IssueSdWit
  <2>3. /\ full.discs = Disclosures(Cardinality(held), r.claims, r.selective)
        /\ full.jwt.claims = Visible(r.claims, r.selective)
        /\ full.jwt.sd = {HashDisclosure(full.discs[i]) : i \in DOMAIN full.discs}
        /\ full.jwt.cnf = r.cnf
    BY DEF IssueSd
  <2> HIDE DEF full
  <2>4. IssuedAs(new, r, Cardinality(held), r.selective)
    BY <2>3 DEF IssuedAs
  <2> HIDE DEF new
  <2>5. \A h \in held' : \E q \in SdRequests : \E jti, selective : IssuedAs(h, q, jti, selective)
    BY <2>2, <2>4 DEF WellMade
  <2> QED
    BY <2>5 DEF WellMade
<1> QED
  BY <1>1, <1>2 DEF Next, vars, IssueHandler, IssueTxn, Show, BeginExchange, BeginGrant,
    BeginAuthenticate, Validated, FinishExchange, FinishGrant, FinishAuthenticate, Finish, Tick

LEMMA WellMadeAlways == Spec => []WellMade
BY WellMadeInit, WellMadeStep, PTL DEF Spec

\* A hash in the JWT is that of a claim that was issued and is not visible.
LEMMA HiddenClaims ==
  ASSUME NEW h, NEW r, NEW jti, NEW selective, IssuedAs(h, r, jti, selective)
  PROVE  /\ \A d : HashDisclosure(d) \in h.full.jwt.sd => d.value = h.claims[d.name]
         /\ \A n \in ClaimNames : h.full.jwt.claims[n] \in {Nil, h.claims[n]}
<1>1. \A i \in DOMAIN h.full.discs : h.full.discs[i].value = h.claims[h.full.discs[i].name]
  BY DEF IssuedAs, Disclosures, BuildDisclosure
<1>2. \A d : HashDisclosure(d) \in h.full.jwt.sd => d.value = h.claims[d.name]
  BY <1>1 DEF IssuedAs, HashDisclosure
<1>3. \A n \in ClaimNames : h.full.jwt.claims[n] \in {Nil, h.claims[n]}
  BY DEF IssuedAs, Visible
<1> QED
  BY <1>2, <1>3

\* What follows the JWT may be anything, of any number: what the validator
\* accepts of it, and reports, is what was issued in that token.
LEMMA OnlyIssuedClaims ==
  ASSUME NEW h, NEW r, NEW jti, NEW selective, IssuedAs(h, r, jti, selective), NEW discs,
         LET s == [jwt |-> h.full.jwt, discs |-> discs]
         IN SdAccepts(s, s.jwt.iss, s.jwt.signer, clock),
         NEW n \in ClaimNames
  PROVE  SdClaims([jwt |-> h.full.jwt, discs |-> discs])[n] \in {Nil, h.claims[n]}
<1> DEFINE s == [jwt |-> h.full.jwt, discs |-> discs]
<1>1. \A i \in DOMAIN s.discs : HashDisclosure(s.discs[i]) \in h.full.jwt.sd
  BY DEF SdAccepts
<1>2. \A v \in Disclosed(s, n) : v = h.claims[n]
  BY <1>1, HiddenClaims DEF Disclosed
<1>3. s.jwt.claims[n] \in {Nil, h.claims[n]}
  BY HiddenClaims
<1>4. Disclosed(s, n) # {} => (CHOOSE v \in Disclosed(s, n) : TRUE) \in Disclosed(s, n)
  OBVIOUS
<1> HIDE DEF s
<1>5. SdClaims(s)[n] = IF s.jwt.claims[n] # Nil \/ Disclosed(s, n) = {} THEN s.jwt.claims[n]
                       ELSE CHOOSE v \in Disclosed(s, n) : TRUE
  BY DEF SdClaims
<1>6. SdClaims(s)[n] \in {Nil, h.claims[n]}
  BY <1>2, <1>3, <1>4, <1>5
<1> QED
  BY <1>6 DEF s

\* What a presentation holds: the hidden claims that were chosen, each once.
LEMMA Presented ==
  ASSUME Types, NEW h \in held, NEW reveal,
         NEW r, NEW jti, NEW selective, IssuedAs(h, r, jti, selective)
  PROVE  LET s == Present(h.full, reveal)
             chosen == {n \in selective \cap ClaimNames : h.claims[n] # Nil /\ n \in reveal}
         IN /\ s.jwt = h.full.jwt
            /\ s.discs = [n \in chosen |-> BuildDisclosure(jti, n, h.claims[n])]
<1> DEFINE s == Present(h.full, reveal)
           chosen == {n \in selective \cap ClaimNames : h.claims[n] # Nil /\ n \in reveal}
           places == {i \in DOMAIN h.full.discs : h.full.discs[i].name \in reveal}
<1>1. h.full = [jwt |-> h.full.jwt, discs |-> h.full.discs]
  BY DEF Types, Kinds
<1>2. s.jwt = h.full.jwt /\ s.discs = [i \in places |-> h.full.discs[i]]
  BY <1>1 DEF Present, Keep
<1>3. h.full.discs = [n \in {m \in selective \cap ClaimNames : h.claims[m] # Nil} |->
                        BuildDisclosure(jti, n, h.claims[n])]
  BY DEF IssuedAs, Disclosures
<1>4. places = chosen
  BY <1>3 DEF BuildDisclosure
<1>5. \A n \in chosen : h.full.discs[n] = BuildDisclosure(jti, n, h.claims[n])
  BY <1>3
<1> HIDE DEF s, chosen, places
<1>6. s.discs = [n \in chosen |-> BuildDisclosure(jti, n, h.claims[n])]
  BY <1>2, <1>4, <1>5
<1> QED
  BY <1>2, <1>6 DEF s, chosen

\* The holder's presentation is accepted while the token is in date, and shows
\* the claims it chose and the visible ones.
LEMMA ChosenIsSeen ==
  ASSUME Types, NEW h \in held, NEW reveal, clock < h.full.jwt.exp,
         NEW r \in SdRequests, NEW jti, NEW selective, IssuedAs(h, r, jti, selective)
  PROVE  LET s == Present(h.full, reveal)
             jwt == h.full.jwt
         IN /\ SdAccepts(s, jwt.iss, jwt.signer, clock)
            /\ \A n \in ClaimNames :
                 SdClaims(s)[n] = IF n \in reveal \/ jwt.claims[n] # Nil THEN h.claims[n] ELSE Nil
<1> DEFINE s == Present(h.full, reveal)
           jwt == h.full.jwt
           chosen == {n \in selective \cap ClaimNames : h.claims[n] # Nil /\ n \in reveal}
<1>1. /\ s.jwt = jwt
      /\ s.discs = [n \in chosen |-> BuildDisclosure(jti, n, h.claims[n])]
  BY Presented
<1> HIDE DEF s
<1>2. jwt.typ = "wit+sd-jwt" /\ jwt.cnf # Nil
  <2>1. r.cnf \in WorkloadKeys /\ Nil \notin WorkloadKeys
    BY TokensAssumption
  <2>2. jwt.cnf = r.cnf
    BY DEF IssuedAs
  <2>3. jwt.typ = "wit+sd-jwt"
    BY DEF Types, Kinds
  <2> QED
    BY <2>1, <2>2, <2>3
<1>3. jwt.nbf <= clock
  BY DEF Types, Sourced, Jwts
<1>4. WitValid(jwt, jwt.iss, jwt.signer, clock)
  BY <1>3 DEF WitValid
<1>5. \A i \in DOMAIN s.discs : HashDisclosure(s.discs[i]) \in jwt.sd
  BY <1>1 DEF IssuedAs, Disclosures
<1>6. \A i, j \in DOMAIN s.discs : s.discs[i].name = s.discs[j].name => i = j
  BY <1>1 DEF BuildDisclosure
<1>7. SdAccepts(s, jwt.iss, jwt.signer, clock)
  BY <1>1, <1>2, <1>4, <1>5, <1>6 DEF SdAccepts
<1>8. ASSUME NEW n \in ClaimNames
      PROVE  SdClaims(s)[n] = IF n \in reveal \/ jwt.claims[n] # Nil THEN h.claims[n] ELSE Nil
  <2>1. Disclosed(s, n) = IF n \in chosen THEN {h.claims[n]} ELSE {}
    BY <1>1 DEF Disclosed, BuildDisclosure
  <2>2. SdClaims(s)[n] = IF jwt.claims[n] # Nil \/ Disclosed(s, n) = {} THEN jwt.claims[n]
                         ELSE CHOOSE v \in Disclosed(s, n) : TRUE
    BY <1>1 DEF SdClaims
  <2>3. jwt.claims[n] = IF n \in selective THEN Nil ELSE h.claims[n]
    BY DEF IssuedAs, Visible
  <2>4. CASE n \in chosen
    <3>1. SdClaims(s)[n] = h.claims[n]
      BY <2>1, <2>2, <2>3, <2>4
    <3> QED
      BY <2>4, <3>1
  <2>5. CASE n \notin chosen
    BY <2>1, <2>2, <2>3, <2>5
  <2> QED
    BY <2>4, <2>5
<1> QED
  BY <1>7, <1>8 DEF s

\* A verifier believes of a workload what was issued in its SD WIT and the
\* workload chose to show, whatever disclosures are put behind the JWT.
THEOREM ClaimsAreTrue == Spec => []ClaimsAsIssued
<1>1. Types /\ WellMade => ClaimsAsIssued
  <2> SUFFICES ASSUME Types, WellMade, NEW h \in held
               PROVE  LET jwt == h.full.jwt
                          ok(s) == SdAccepts(s, jwt.iss, jwt.signer, clock)
                      IN
                      /\ \A d1, d2 \in Known : \A discs \in {<<d1>>, <<d1, d2>>} :
                           LET s == [jwt |-> jwt, discs |-> discs]
                           IN ok(s) => \A n \in ClaimNames : SdClaims(s)[n] \in {Nil, h.claims[n]}
                      /\ clock < jwt.exp => \A reveal \in SUBSET ClaimNames :
                           LET s == Present(h.full, reveal) IN
                           /\ ok(s)
                           /\ \A n \in ClaimNames :
                                SdClaims(s)[n] =
                                  IF n \in reveal \/ jwt.claims[n] # Nil THEN h.claims[n] ELSE Nil
    BY DEF ClaimsAsIssued
  <2>1. PICK r \in SdRequests : \E jti, selective : IssuedAs(h, r, jti, selective)
    BY DEF WellMade
  <2>2. PICK jti, selective : IssuedAs(h, r, jti, selective)
    BY <2>1
  <2> QED
    BY <2>2, OnlyIssuedClaims, ChosenIsSeen
<1> QED
  BY <1>1, TypesAlways, WellMadeAlways, PTL

LEMMA HiddenStep == Types /\ HiddenStaysHidden /\ [Next]_vars => HiddenStaysHidden'
<1> SUFFICES ASSUME Types, HiddenStaysHidden, [Next]_vars
             PROVE  HiddenStaysHidden'
  OBVIOUS
<1>1. CASE UNCHANGED <<shown, revealed>>
  BY <1>1 DEF HiddenStaysHidden
<1>2. CASE \E h \in held, reveal \in Reveals : Show(h, reveal)
  <2>1. PICK h \in held, reveal \in Reveals : Show(h, reveal)
    BY <1>2
  <2> DEFINE new == Present(h.full, reveal)
  <2>2. h.full = [jwt |-> h.full.jwt, discs |-> h.full.discs]
    BY DEF Types, Kinds
  <2>3. new.jwt = h.full.jwt /\ \A i \in DOMAIN new.discs : new.discs[i].name \in reveal
    BY <2>2 DEF Present, Keep
  <2>4. /\ shown' = shown \cup {new}
        /\ revealed' = revealed \cup {<<h.full.jwt, n>> : n \in reveal}
    BY <2>1 DEF Show
  <2> HIDE DEF new
  <2> QED
    BY <2>3, <2>4 DEF HiddenStaysHidden
<1> QED
  BY <1>1, <1>2 DEF Next, vars, IssueHandler, IssueTxn, IssueSdWit, BeginExchange, BeginGrant,
    BeginAuthenticate, Validated, FinishExchange, FinishGrant, FinishAuthenticate, Finish, Tick

\* A disclosure leaves the holder only if it was chosen for that token, however
\* often the token is presented.
THEOREM NothingElseDisclosed == Spec => []HiddenStaysHidden
<1>1. Init => HiddenStaysHidden
  BY DEF Init, HiddenStaysHidden
<1> QED
  BY <1>1, TypesAlways, HiddenStep, PTL DEF Spec
==============================================================================
