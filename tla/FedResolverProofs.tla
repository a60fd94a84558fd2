--------------------------- MODULE FedResolverProofs ---------------------------
(***************************************************************************)
(* Theorems about FedResolver, for both kinds of resolver and any number   *)
(* of goroutines, entities, anchors and statements: every answer, cached   *)
(* or not, is certified by a trusted anchor the entity names, and no call  *)
(* is answered from what had expired when it began.                        *)
(***************************************************************************)
EXTENDS FedResolver, TLAPS

USE FedAssumption

-----------------------------------------------------------------------------
(* Type correctness. *)

Domains ==
  /\ DOMAIN ecs = Entities
  /\ DOMAIN sss = Sources /\ \A s \in Sources : DOMAIN sss[s] = Entities
  /\ DOMAIN cache = Entities
  /\ DOMAIN arg = Calls /\ DOMAIN ec = Calls /\ DOMAIN ss = Calls
  /\ DOMAIN todo = Calls /\ DOMAIN via = Calls
  /\ DOMAIN result = Calls /\ DOMAIN begun = Calls

\* TypeOK, and that only HTTP asks for statements one by one, with an EC in hand.
Types ==
  /\ TypeOK
  /\ Domains
  /\ kind \in {"memory", "http"}
  /\ \A c \in Calls : pc[c] = "fetchSS" => kind = "http" /\ ec[c] \in EC

LEMMA TypesInit == Init => Types
BY DEF Init, Types, TypeOK, Domains, PC

\* A statement that is built is of its type.
LEMMA BuiltTypes ==
  ASSUME clock \in Nat, NEW ttl \in TTLs
  PROVE  /\ \A f \in ECForms : BuildEntityConfiguration(f, ttl) \in EC
         /\ \A f \in SSForms : BuildSubordinateStatement(f, ttl) \in SS
<1>1. clock + ttl \in Nat
  OBVIOUS
<1> QED
  BY <1>1 DEF BuildEntityConfiguration, BuildSubordinateStatement, EC, SS

LEMMA TypesRegistering == Types /\ Registering => Types'
<1> SUFFICES ASSUME Types, NEW e \in Entities, NEW ttl \in TTLs, Register(e),
                    \/ \E f \in ECForms :
                         \/ RegisterEntityConfig(e, BuildEntityConfiguration(f, ttl))
                         \/ ConfigureIdP(e, f)
                    \/ \E f \in SSForms, s \in Sources :
                         RegisterSubordinateStatement(s, e, BuildSubordinateStatement(f, ttl))
             PROVE  Types'
  BY DEF Registering, RegisterEntityConfig, ConfigureIdP, RegisterSubordinateStatement
<1>0. clock \in Nat
  BY DEF Types, TypeOK
<1> USE DEF Types, TypeOK, Domains, Register, calls, statements
<1>1. ASSUME NEW f \in ECForms,
             RegisterEntityConfig(e, BuildEntityConfiguration(f, ttl))
      PROVE  Types'
  <2>1. BuildEntityConfiguration(f, ttl) \in EC
    BY <1>0, BuiltTypes
  <2> QED
    BY <1>1, <2>1 DEF RegisterEntityConfig
<1>2. ASSUME NEW f \in ECForms, ConfigureIdP(e, f) PROVE Types'
  BY <1>2 DEF ConfigureIdP
<1>3. ASSUME NEW f \in SSForms, NEW s \in Sources,
             RegisterSubordinateStatement(s, e, BuildSubordinateStatement(f, ttl))
      PROVE  Types'
  <2>1. BuildSubordinateStatement(f, ttl) \in SS
    BY <1>0, BuiltTypes
  <2> DEFINE st == BuildSubordinateStatement(f, ttl)
  <2> HIDE DEF st
  <2>2. /\ DOMAIN sss' = Sources
        /\ \A q \in Sources : DOMAIN sss'[q] = Entities
        /\ \A q \in Sources, d \in Entities : sss'[q][d] \in {sss[q][d], st}
    BY <1>3 DEF RegisterSubordinateStatement, st
  <2> QED
    BY <1>3, <2>1, <2>2 DEF RegisterSubordinateStatement, st
<1> QED
  BY <1>1, <1>2, <1>3

LEMMA TypesBegin ==
  ASSUME Types, NEW c \in Calls, NEW e \in Entities, Begin(c, e)
  PROVE  Types'
BY DEF Types, TypeOK, Domains, PC, Begin, Goto, Registry, statements

\* Two ways out of a call's local state.
LEMMA TypesEnd ==
  ASSUME Types, NEW c \in Calls, End(c), UNCHANGED <<clock, Registry, cache>>
  PROVE  Types'
BY DEF Types, TypeOK, Domains, PC, End, Goto, Forget, Registry

LEMMA TypesProceed ==
  ASSUME Types, NEW c \in Calls, NEW l \in {"verifyEC", "store"},
         pc[c] \in {"verifySS", "verifyEC"},
         Proceed(c, l), UNCHANGED <<clock, Registry, cache>>
  PROVE  Types'
BY DEF Types, TypeOK, Domains, PC, Proceed, Goto, Registry, statements

LEMMA TypesRefuse ==
  ASSUME Types, NEW c \in Calls, pc[c] \in {"verifySS", "verifyEC"},
         Refuse(c), UNCHANGED <<clock, Registry, cache>>
  PROVE  Types'
<1>1. CASE kind = "http"
  BY <1>1 DEF Refuse, Types, TypeOK, Domains, PC, Proceed, Goto, Registry, statements
<1>2. CASE kind # "http"
  BY <1>2, TypesEnd DEF Refuse
<1> QED
  BY <1>1, <1>2

LEMMA TypesStep ==
  ASSUME Types, NEW c \in Calls, Step(c)
  PROVE  Types'
<1> USE DEF Goto, Registry
<1>1. CASE Hit(c)
  BY <1>1 DEF Types, TypeOK, Domains, PC, Hit, Answer, Forget
<1>2. CASE Miss(c) \/ Stale(c) \/ Evict(c)
  BY <1>2 DEF Types, TypeOK, Domains, PC, Miss, Stale, Evict, statements
<1>3. CASE Read(c)
  <2>1. CASE End(c)
    BY <1>3, <2>1, TypesEnd DEF Read
  <2>2. CASE ~End(c)
    <3>1. ecs[arg[c]] \in EC /\ sss["memory"][arg[c]] \in SS
      BY <1>3, <2>2 DEF Types, TypeOK, Read, Sources
    <3> QED
      BY <1>3, <2>2, <3>1 DEF Types, TypeOK, Domains, PC, Read, Copy
  <2> QED
    BY <2>1, <2>2
<1>4. ASSUME NEW ttl \in TTLs, FetchEC(c, ttl) PROVE Types'
  <2>1. CASE End(c)
    BY <1>4, <2>1, TypesEnd DEF FetchEC
  <2>2. CASE ~End(c)
    <3>1. BuildEntityConfiguration(ecs[arg[c]], ttl) \in EC
      BY <1>4, <2>2, BuiltTypes DEF Types, TypeOK, FetchEC
    <3> QED
      BY <1>4, <2>2, <3>1 DEF Types, TypeOK, Domains, PC, FetchEC
  <2> QED
    BY <2>1, <2>2
<1>5. ASSUME NEW a \in TrustedAnchors, FetchSS(c, a) PROVE Types'
  BY <1>5 DEF Types, TypeOK, Domains, PC, FetchSS, Sources
<1>6. CASE NoAnchorLeft(c) \/ Return(c)
  BY <1>6, TypesEnd DEF NoAnchorLeft, Return
<1>7. CASE VerifySS(c) \/ VerifyEC(c)
  BY <1>7, TypesProceed, TypesRefuse DEF VerifySS, VerifyEC
<1>8. CASE Store(c)
  <2>1. Resolved(c) \in Entity
    BY <1>8 DEF Store, Types, TypeOK, Resolved, Entity, EC, SS
  <2> QED
    BY <1>8, <2>1 DEF Types, TypeOK, Domains, PC, Store, Answer, Forget
<1> QED
  BY <1>1, <1>2, <1>3, <1>4, <1>5, <1>6, <1>7, <1>8 DEF Step

LEMMA TypesNext == Types /\ [Next]_vars => Types'
<1> SUFFICES ASSUME Types, [Next]_vars PROVE Types'
  OBVIOUS
<1>1. CASE Tick
  BY <1>1 DEF Tick, Registry, calls, statements, Types, TypeOK, Domains
<1>2. CASE UNCHANGED vars
  BY <1>2 DEF vars, calls, statements, Types, TypeOK, Domains
<1> QED
  BY <1>1, <1>2, TypesRegistering, TypesBegin, TypesStep DEF Next

LEMMA Typing == Spec => []Types
BY TypesInit, TypesNext, PTL DEF Spec

\* The types of FedResolver, and that a call that verifies has two statements.
THEOREM FedTypeCorrect == Spec => []TypeOK
BY Typing, PTL DEF Types

-----------------------------------------------------------------------------
(***************************************************************************)
(* The chain of trust.  What an answer was built from is checked in steps, *)
(* so the invariant says at each of them what has been established of the  *)
(* call's two statements; and every cache entry has been through all.      *)
(***************************************************************************)
Anchored(e, s) == \E a \in e.hints \cap TrustedAnchors : AnchorKey[a] = s.signer

\* AnswersAreCertified, of one resolved entity.
Chained(r, e) ==
  /\ r.ss.sub = e
  /\ r.key = r.ss.key /\ r.key = r.ec.key
  /\ Anchored(r.ec, r.ss)

\* Past VerifySS, and past VerifyEC.
Vouched(c) == ss[c].sub = arg[c] /\ Anchored(ec[c], ss[c])

AnchorsAsked ==
  \A c \in Calls :
    /\ kind = "http" /\ pc[c] \in {"fetchSS", "verifySS", "verifyEC", "store"} =>
         todo[c] \subseteq ec[c].hints \cap TrustedAnchors
    /\ kind = "http" /\ pc[c] \in {"verifySS", "verifyEC", "store"} =>
         via[c] \in ec[c].hints \cap TrustedAnchors

ChainInv ==
  /\ AnchorsAsked
  /\ \A c \in Calls : pc[c] \in {"verifyEC", "store"} => Vouched(c)
  /\ \A c \in Calls : pc[c] = "store" => ec[c].key = ss[c].key
  /\ \A c \in Calls : result[c] # Nil => pc[c] = "done" /\ Chained(result[c], arg[c])
  /\ \A e \in Entities : cache[e] # Nil => Chained(cache[e], e)

LEMMA ChainInit == Init => ChainInv
BY DEF Init, ChainInv, AnchorsAsked

LEMMA ChainEnd ==
  ASSUME Types, ChainInv, NEW c \in Calls, End(c), UNCHANGED <<kind, cache>>
  PROVE  ChainInv'
BY DEF Types, TypeOK, Domains, ChainInv, AnchorsAsked, Vouched, End, Goto, Forget

\* What the checks of Certified amount to.
LEMMA CertifiedFacts ==
  ASSUME Types, ChainInv, NEW c \in Calls, pc[c] = "verifySS", Certified(c)
  PROVE  Vouched(c)
BY DEF Types, TypeOK, ChainInv, AnchorsAsked, Vouched, Anchored, Certified, Certifiers

LEMMA ChainProceed ==
  ASSUME Types, ChainInv, NEW c \in Calls,
         NEW l \in {"fetchSS", "verifyEC", "store"},
         pc[c] \in {"verifySS", "verifyEC"},
         l \in {"verifyEC", "store"} => Vouched(c),
         l = "store" => ec[c].key = ss[c].key,
         Proceed(c, l), UNCHANGED <<kind, cache>>
  PROVE  ChainInv'
BY DEF Types, TypeOK, Domains, ChainInv, AnchorsAsked, Vouched, Proceed, Goto, statements

\* An answer: from the cache, or from two statements that passed.
LEMMA ChainAnswer ==
  ASSUME Types, ChainInv, NEW c \in Calls, NEW r, Chained(r, arg[c]),
         Answer(c, r), kind' = kind,
         cache' = cache \/ cache' = [cache EXCEPT ![arg[c]] = r]
  PROVE  ChainInv'
BY DEF Types, TypeOK, Domains, ChainInv, AnchorsAsked, Vouched, Answer, Goto, Forget

LEMMA ChainStep ==
  ASSUME Types, ChainInv, NEW c \in Calls, Step(c)
  PROVE  ChainInv'
<1> USE DEF Registry
<1>1. CASE Hit(c)
  <2>1. arg[c] \in Entities
    BY <1>1 DEF Hit, Types, TypeOK
  <2>2. Chained(cache[arg[c]], arg[c])
    BY <1>1, <2>1 DEF Hit, ChainInv
  <2> QED
    BY <1>1, <2>2, ChainAnswer DEF Hit
<1>2. CASE Miss(c) \/ Stale(c) \/ Evict(c)
  BY <1>2 DEF Types, TypeOK, Domains, ChainInv, AnchorsAsked, Vouched,
     Miss, Stale, Evict, Goto, statements
<1>3. CASE Read(c)
  <2>1. CASE End(c)
    BY <1>3, <2>1, ChainEnd DEF Read
  <2>2. CASE ~End(c)
    BY <1>3, <2>2 DEF Types, TypeOK, Domains, ChainInv, AnchorsAsked, Vouched,
       Read, Copy, Goto
  <2> QED
    BY <2>1, <2>2
<1>4. ASSUME NEW ttl \in TTLs, FetchEC(c, ttl) PROVE ChainInv'
  <2>1. CASE End(c)
    BY <1>4, <2>1, ChainEnd DEF FetchEC
  <2>2. CASE ~End(c)
    <3>1. ec'[c].hints = ecs[arg[c]].hints
      BY <1>4, <2>2 DEF FetchEC, BuildEntityConfiguration, Types, Domains
    <3> QED
      BY <1>4, <2>2, <3>1 DEF Types, TypeOK, Domains, ChainInv, AnchorsAsked, Vouched,
         FetchEC, Goto
  <2> QED
    BY <2>1, <2>2
<1>5. ASSUME NEW a \in TrustedAnchors, FetchSS(c, a) PROVE ChainInv'
  BY <1>5 DEF Types, TypeOK, Domains, ChainInv, AnchorsAsked, Vouched, FetchSS, Goto
<1>6. CASE NoAnchorLeft(c) \/ Return(c)
  BY <1>6, ChainEnd DEF NoAnchorLeft, Return
<1>7. CASE VerifySS(c)
  BY <1>7, CertifiedFacts, ChainProceed, ChainEnd DEF VerifySS, Refuse
<1>8. CASE VerifyEC(c)
  BY <1>8, ChainProceed, ChainEnd DEF VerifyEC, Refuse, ChainInv
<1>9. CASE Store(c)
  <2>1. Chained(Resolved(c), arg[c])
    BY <1>9 DEF Store, ChainInv, Vouched, Chained, Resolved
  <2> QED
    BY <1>9, <2>1, ChainAnswer DEF Store
<1> QED
  BY <1>1, <1>2, <1>3, <1>4, <1>5, <1>6, <1>7, <1>8, <1>9 DEF Step

LEMMA ChainNext == Types /\ ChainInv /\ [Next]_vars => ChainInv'
<1> SUFFICES ASSUME Types, ChainInv, [Next]_vars PROVE ChainInv'
  OBVIOUS
\* Registering can only empty the cache.
<1>1. CASE Registering
  <2>1. PICK e \in Entities : Register(e)
    BY <1>1 DEF Registering, RegisterEntityConfig, ConfigureIdP, RegisterSubordinateStatement
  <2> QED
    BY <2>1 DEF Register, calls, statements, Types, Domains, ChainInv, AnchorsAsked, Vouched
<1>2. ASSUME NEW c \in Calls, NEW e \in Entities, Begin(c, e) PROVE ChainInv'
  BY <1>2 DEF Begin, Goto, Registry, statements, Types, TypeOK, Domains, ChainInv,
     AnchorsAsked, Vouched
<1>3. CASE Tick \/ UNCHANGED vars
  BY <1>3 DEF Tick, vars, Registry, calls, statements, ChainInv, AnchorsAsked, Vouched
<1> QED
  BY <1>1, <1>2, <1>3, ChainStep DEF Next

LEMMA ChainInvariance == Spec => []ChainInv
BY Typing, ChainInit, ChainNext, PTL DEF Spec

\* Every key either resolver answers was certified for the asked entity by a
\* trusted anchor it names, whatever is registered, rotated or fetched meanwhile.
THEOREM AnswersCertified == Spec => []AnswersAreCertified
<1>1. ChainInv => AnswersAreCertified
  BY DEF ChainInv, Chained, Anchored, AnswersAreCertified
<1> QED
  BY <1>1, ChainInvariance, PTL

-----------------------------------------------------------------------------
(***************************************************************************)
(* Expiry.  Every check of a call reads the clock after the call began, so *)
(* what had not expired at a check had not at the beginning; and an entry  *)
(* of the cache does not outlive its statements.                           *)
(***************************************************************************)
DateInv ==
  /\ \A c \in Calls :
       /\ begun[c] \in Nat /\ begun[c] <= clock
       /\ pc[c] \in {"verifyEC", "store"} => begun[c] < ss[c].exp
       /\ pc[c] = "store" => begun[c] < ec[c].exp
  /\ NoAnswerFromExpired
  /\ \A e \in Entities : cache[e] # Nil =>
       cache[e].exp <= cache[e].ec.exp /\ cache[e].exp <= cache[e].ss.exp

LEMMA DateInit == Init => DateInv
BY DEF Init, DateInv, NoAnswerFromExpired

LEMMA DateEnd ==
  ASSUME Types, DateInv, NEW c \in Calls, End(c), UNCHANGED <<clock, cache>>
  PROVE  DateInv'
BY DEF Types, TypeOK, Domains, DateInv, NoAnswerFromExpired, End, Goto, Forget

LEMMA DateProceed ==
  ASSUME Types, DateInv, NEW c \in Calls,
         NEW l \in {"fetchSS", "verifyEC", "store"},
         l \in {"verifyEC", "store"} => clock < ss[c].exp \/ begun[c] < ss[c].exp,
         l = "store" => clock < ec[c].exp,
         pc[c] \in {"verifySS", "verifyEC"},
         Proceed(c, l), UNCHANGED <<clock, cache>>
  PROVE  DateInv'
<1>1. begun[c] <= clock /\ begun[c] \in Nat /\ clock \in Nat
      /\ ss[c].exp \in Nat /\ ec[c].exp \in Nat
  BY DEF Types, TypeOK, DateInv, EC, SS
<1>2. UNCHANGED <<begun, ec, ss, result>> /\ pc' = [pc EXCEPT ![c] = l]
  BY DEF Proceed, Goto, statements
<1>3. ASSUME NEW d \in Calls
      PROVE  /\ begun'[d] \in Nat /\ begun'[d] <= clock'
             /\ pc'[d] \in {"verifyEC", "store"} => begun'[d] < ss'[d].exp
             /\ pc'[d] = "store" => begun'[d] < ec'[d].exp
  BY <1>1, <1>2 DEF Types, TypeOK, DateInv
<1> QED
  BY <1>2, <1>3 DEF DateInv, NoAnswerFromExpired

LEMMA DateAnswer ==
  ASSUME Types, DateInv, NEW c \in Calls, NEW r,
         begun[c] < r.ec.exp, begun[c] < r.ss.exp,
         Answer(c, r), clock' = clock,
         \/ cache' = cache
         \/ /\ cache' = [cache EXCEPT ![arg[c]] = r]
            /\ r.exp <= r.ec.exp /\ r.exp <= r.ss.exp
  PROVE  DateInv'
BY DEF Types, TypeOK, Domains, DateInv, NoAnswerFromExpired, Answer, Goto, Forget

LEMMA DateStep ==
  ASSUME Types, DateInv, NEW c \in Calls, Step(c)
  PROVE  DateInv'
<1>0. begun[c] <= clock /\ begun[c] \in Nat /\ clock \in Nat
  BY DEF Types, TypeOK, DateInv
<1>1. CASE Hit(c)
  <2> DEFINE r == cache[arg[c]]
  <2>1. arg[c] \in Entities /\ r # Nil /\ clock < r.exp
    BY <1>1 DEF Hit, Types, TypeOK
  <2>2. r.exp \in Nat /\ r.ec.exp \in Nat /\ r.ss.exp \in Nat
    BY <2>1 DEF Types, TypeOK, Entity, EC, SS
  <2>3. r.exp <= r.ec.exp /\ r.exp <= r.ss.exp
    BY <2>1 DEF DateInv
  <2>4. begun[c] < r.ec.exp /\ begun[c] < r.ss.exp
    BY <1>0, <2>1, <2>2, <2>3
  <2> QED
    BY <1>1, <2>4, DateAnswer DEF Hit
<1>2. CASE Miss(c) \/ Stale(c) \/ Evict(c)
  BY <1>2 DEF Types, TypeOK, Domains, DateInv, NoAnswerFromExpired,
     Miss, Stale, Evict, Goto, statements
<1>3. CASE Read(c)
  <2>1. CASE End(c)
    BY <1>3, <2>1, DateEnd DEF Read, Registry
  <2>2. CASE ~End(c)
    BY <1>3, <2>2 DEF Types, TypeOK, Domains, DateInv, NoAnswerFromExpired,
       Read, Copy, Goto
  <2> QED
    BY <2>1, <2>2
<1>4. ASSUME NEW ttl \in TTLs, FetchEC(c, ttl) PROVE DateInv'
  <2>1. CASE End(c)
    BY <1>4, <2>1, DateEnd DEF FetchEC
  <2>2. CASE ~End(c)
    BY <1>4, <2>2 DEF Types, TypeOK, Domains, DateInv, NoAnswerFromExpired, FetchEC, Goto
  <2> QED
    BY <2>1, <2>2
<1>5. ASSUME NEW a \in TrustedAnchors, FetchSS(c, a) PROVE DateInv'
  BY <1>5 DEF Types, TypeOK, Domains, DateInv, NoAnswerFromExpired, FetchSS, Goto
<1>6. CASE NoAnchorLeft(c) \/ Return(c)
  BY <1>6, DateEnd DEF NoAnchorLeft, Return
<1>7. CASE VerifySS(c)
  BY <1>7, DateProceed, DateEnd DEF VerifySS, Refuse, Certified
<1>8. CASE VerifyEC(c)
  BY <1>8, DateProceed, DateEnd DEF VerifyEC, Refuse, DateInv
<1>9. CASE Store(c)
  <2> DEFINE r == Resolved(c)
  <2>1. ec[c].exp \in Nat /\ ss[c].exp \in Nat
    BY <1>9 DEF Store, Types, TypeOK, EC, SS
  <2>2. /\ r.ec = ec[c] /\ r.ss = ss[c]
        /\ r.exp = IF ec[c].exp < ss[c].exp THEN ec[c].exp ELSE ss[c].exp
    BY DEF Resolved
  <2>3. begun[c] < ec[c].exp /\ begun[c] < ss[c].exp
    BY <1>9 DEF Store, DateInv
  <2>4. r.exp <= r.ec.exp /\ r.exp <= r.ss.exp
    BY <2>1, <2>2
  <2> HIDE DEF r
  <2> QED
    BY <1>9, <2>2, <2>3, <2>4, DateAnswer DEF Store, r
<1> QED
  BY <1>1, <1>2, <1>3, <1>4, <1>5, <1>6, <1>7, <1>8, <1>9 DEF Step

LEMMA DateNext == Types /\ ChainInv /\ DateInv /\ [Next]_vars => DateInv'
<1> SUFFICES ASSUME Types, ChainInv, DateInv, [Next]_vars PROVE DateInv'
  OBVIOUS
<1>1. CASE Registering
  <2>1. PICK e \in Entities : Register(e)
    BY <1>1 DEF Registering, RegisterEntityConfig, ConfigureIdP, RegisterSubordinateStatement
  <2> QED
    BY <2>1 DEF Register, calls, statements, Types, Domains, DateInv, NoAnswerFromExpired
<1>2. ASSUME NEW c \in Calls, NEW e \in Entities, Begin(c, e) PROVE DateInv'
  <2>1. result[c] = Nil
    BY <1>2 DEF Begin, ChainInv
  <2> QED
    BY <1>2, <2>1 DEF Begin, Goto, statements, Types, TypeOK, Domains, DateInv, NoAnswerFromExpired
<1>3. CASE Tick
  BY <1>3 DEF Tick, calls, statements, Types, TypeOK, DateInv, NoAnswerFromExpired
<1>4. CASE UNCHANGED vars
  BY <1>4 DEF vars, calls, statements, DateInv, NoAnswerFromExpired
<1> QED
  BY <1>1, <1>2, <1>3, <1>4, DateStep DEF Next

\* A call is never answered from a statement that had expired when the call
\* began, however long it takes and whatever is in the cache.
THEOREM ExpiredNotAnswered == Spec => []NoAnswerFromExpired
<1>1. DateInv => NoAnswerFromExpired
  BY DEF DateInv
<1> QED
  BY <1>1, Typing, ChainInvariance, DateInit, DateNext, PTL DEF Spec
==============================================================================
