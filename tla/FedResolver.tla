------------------------------ MODULE FedResolver ------------------------------
(***************************************************************************)
(* pkg/federation: the two resolvers, which resolve an entity to the key   *)
(* its trust anchor certifies, with a cache.  InMemoryResolver takes the   *)
(* entity configuration (EC) and the subordinate statement (SS) from a     *)
(* registry, HTTPResolver fetches them, one after the other, from the IdP  *)
(* and from the anchors.  Resolve runs in concurrent goroutines (one per   *)
(* token exchange) while statements are registered or published.           *)
(*                                                                         *)
(* In memory only the two map reads are under the mutex: the cache is read *)
(* before it and written after it, and the clock is read at the cache      *)
(* check and by the verification of each statement.  Each is a step, and   *)
(* so is each request over HTTP.                                           *)
(***************************************************************************)
EXTENDS Integers, FiniteSets

CONSTANTS
  Kinds,          \* of resolvers: "memory", "http"
  Entities, Subjects, Keys,
  Anchors,        \* the IDs an EC may name in authority_hints
  AnchorKey,      \* trustAnchors: anchor ID to key, for the trusted ones
  Nil,
  Calls,          \* goroutines that may be inside Resolve
  ECForms, SSForms,  \* the claims and keys of the statements that get registered
  TTLs,           \* and their lifetimes
  MaxTime, MaxRegistrations

TrustedAnchors == DOMAIN AnchorKey

\* Where subordinate statements are: in the registry, and at the anchors.
Sources == {"memory"} \cup TrustedAnchors

ASSUME FedAssumption ==
  /\ Kinds \subseteq {"memory", "http"}
  /\ TrustedAnchors \subseteq Anchors
  /\ Entities \subseteq Subjects
  /\ ECForms \subseteq [hints : SUBSET Anchors, key : Keys]
  /\ SSForms \subseteq [sub : Subjects, signer : Keys, key : Keys]
  /\ \A a \in TrustedAnchors : AnchorKey[a] \in Keys
  /\ TTLs \subseteq Nat \ {0}
  /\ {MaxTime, MaxRegistrations} \subseteq Nat

VARIABLES
  kind,           \* which resolver; never changes
  clock,
  ecs,            \* entityConfigs, or what each IdP publishes
  sss,            \* subStatements, or TrustAnchorSubjects of each anchor
  cache,
  pc, arg,        \* where each call is, and its entityID
  ec, ss,         \* its two local copies
  todo, via,      \* HTTP: the anchors not asked yet, and the last one asked
  result,
  registrations,
  begun           \* history: the clock when the call began

statements == <<ec, ss, todo, via>>
calls == <<pc, arg, statements, result, begun>>
vars == <<kind, clock, ecs, sss, cache, registrations, calls>>

\* A signed statement is its claims and the key that made it.  An entity
\* configuration is self-signed: its key is also the one it lists.
EC == [hints : SUBSET Anchors, key : Keys, exp : Nat]
SS == [sub : Subjects, signer : Keys, key : Keys, exp : Nat]

BuildEntityConfiguration(f, ttl) ==
  [hints |-> f.hints, key |-> f.key, exp |-> clock + ttl]

BuildSubordinateStatement(f, ttl) ==
  [sub |-> f.sub, signer |-> f.signer, key |-> f.key, exp |-> clock + ttl]

Init ==
  /\ kind \in Kinds
  /\ clock = 0
  /\ ecs = [e \in Entities |-> Nil]
  /\ sss = [s \in Sources |-> [e \in Entities |-> Nil]]
  /\ cache = [e \in Entities |-> Nil]
  /\ pc = [c \in Calls |-> "idle"]
  /\ arg = [c \in Calls |-> Nil]
  /\ ec = [c \in Calls |-> Nil]
  /\ ss = [c \in Calls |-> Nil]
  /\ todo = [c \in Calls |-> {}]
  /\ via = [c \in Calls |-> Nil]
  /\ result = [c \in Calls |-> Nil]
  /\ registrations = 0
  /\ begun = [c \in Calls |-> 0]

-----------------------------------------------------------------------------
(* Registration: both maps and the invalidation under the mutex.  What is  *)
(* published over HTTP is changed by restarting an IdP or an anchor; no    *)
(* resolver hears of it.                                                   *)

Register(e) ==
  /\ registrations < MaxRegistrations
  /\ registrations' = registrations + 1
  /\ cache' = IF kind = "memory" THEN [cache EXCEPT ![e] = Nil] ELSE cache
  /\ UNCHANGED <<kind, clock, calls>>

RegisterEntityConfig(e, st) ==
  /\ kind = "memory"
  /\ ecs' = [ecs EXCEPT ![e] = st]
  /\ UNCHANGED sss
  /\ Register(e)

\* The claims of the ECs an IdP will build, whose expiry is not known yet.
ConfigureIdP(e, f) ==
  /\ kind = "http"
  /\ ecs' = [ecs EXCEPT ![e] = f]
  /\ UNCHANGED sss
  /\ Register(e)

\* Over HTTP an anchor serves whatever statement it is configured with; nothing
\* before Resolve looks at who signed it.
RegisterSubordinateStatement(s, e, st) ==
  /\ IF kind = "memory" THEN s = "memory" ELSE s \in TrustedAnchors
  /\ sss' = [sss EXCEPT ![s][e] = st]
  /\ UNCHANGED ecs
  /\ Register(e)

-----------------------------------------------------------------------------
(* Resolve. *)

Goto(c, l) == pc' = [pc EXCEPT ![c] = l]

Registry == <<kind, ecs, sss, registrations>>

Begin(c, e) ==
  /\ pc[c] = "idle"
  /\ Goto(c, "cache")
  /\ arg' = [arg EXCEPT ![c] = e]
  /\ begun' = [begun EXCEPT ![c] = clock]
  /\ UNCHANGED <<clock, Registry, cache, statements, result>>

\* The local variables of c are gone.
Forget(c) ==
  /\ ec' = [ec EXCEPT ![c] = Nil]
  /\ ss' = [ss EXCEPT ![c] = Nil]
  /\ todo' = [todo EXCEPT ![c] = {}]
  /\ via' = [via EXCEPT ![c] = Nil]

Answer(c, entity) ==
  /\ result' = [result EXCEPT ![c] = entity]
  /\ Goto(c, "done")
  /\ Forget(c)
  /\ UNCHANGED <<arg, begun>>

\* The call returns.
End(c) ==
  /\ Goto(c, "idle")
  /\ arg' = [arg EXCEPT ![c] = Nil]
  /\ result' = [result EXCEPT ![c] = Nil]
  /\ begun' = [begun EXCEPT ![c] = 0]
  /\ Forget(c)

\* cache.Load finds an entity that has not expired.
Hit(c) ==
  LET hit == cache[arg[c]] IN
  /\ pc[c] = "cache"
  /\ hit # Nil /\ clock < hit.exp
  /\ Answer(c, hit)
  /\ UNCHANGED <<clock, Registry, cache>>

\* It finds none.
Miss(c) ==
  /\ pc[c] = "cache"
  /\ cache[arg[c]] = Nil
  /\ Goto(c, "read")
  /\ UNCHANGED <<clock, Registry, cache, arg, statements, result, begun>>

\* It finds an expired one, which a separate call then deletes: whatever is
\* there by the time of cache.Delete.
Stale(c) ==
  /\ pc[c] = "cache"
  /\ cache[arg[c]] # Nil /\ clock >= cache[arg[c]].exp
  /\ Goto(c, "evict")
  /\ UNCHANGED <<clock, Registry, cache, arg, statements, result, begun>>

Evict(c) ==
  /\ pc[c] = "evict"
  /\ cache' = [cache EXCEPT ![arg[c]] = Nil]
  /\ Goto(c, "read")
  /\ UNCHANGED <<clock, Registry, arg, statements, result, begun>>

Copy(c, e, s) ==
  /\ ec' = [ec EXCEPT ![c] = e]
  /\ ss' = [ss EXCEPT ![c] = s]
  /\ Goto(c, "verifySS")
  /\ UNCHANGED <<arg, todo, via, result, begun>>

\* Mutant of Read: missing statements are not noticed.
ReadUnchecked(c) ==
  /\ pc[c] = "read" /\ kind = "memory"
  /\ Copy(c, ecs[arg[c]], sss["memory"][arg[c]])
  /\ UNCHANGED <<clock, Registry, cache>>

\* Both statements are copied under the read lock; the call fails if one is
\* not registered.
Read(c) ==
  LET e == ecs[arg[c]]
      s == sss["memory"][arg[c]] IN
  /\ pc[c] = "read" /\ kind = "memory"
  /\ IF Nil \in {e, s} THEN End(c) ELSE Copy(c, e, s)
  /\ UNCHANGED <<clock, Registry, cache>>

\* HTTP: the IdP builds its EC when it is asked for.  The call fails if there is
\* no answer.
FetchEC(c, ttl) ==
  LET f == ecs[arg[c]] IN
  /\ pc[c] = "read" /\ kind = "http"
  /\ \/ /\ f # Nil
        /\ ec' = [ec EXCEPT ![c] = BuildEntityConfiguration(f, ttl)]
        /\ todo' = [todo EXCEPT ![c] = f.hints \cap TrustedAnchors]
        /\ Goto(c, "fetchSS")
        /\ UNCHANGED <<arg, ss, via, result, begun>>
     \/ End(c)
  /\ UNCHANGED <<clock, Registry, cache>>

\* One after the other the trusted anchors among the hints are asked; one that
\* does not answer, or has no statement, is passed over.
FetchSS(c, a) ==
  /\ pc[c] = "fetchSS" /\ a \in todo[c]
  /\ todo' = [todo EXCEPT ![c] = @ \ {a}]
  /\ \/ /\ sss[a][arg[c]] # Nil
        /\ ss' = [ss EXCEPT ![c] = sss[a][arg[c]]]
        /\ via' = [via EXCEPT ![c] = a]
        /\ Goto(c, "verifySS")
     \/ UNCHANGED <<pc, ss, via>>
  /\ UNCHANGED <<clock, Registry, cache, arg, ec, result, begun>>

NoAnchorLeft(c) ==
  /\ pc[c] = "fetchSS" /\ todo[c] = {}
  /\ End(c)
  /\ UNCHANGED <<clock, Registry, cache>>

\* Whose signature on the SS counts: that of any trusted anchor the EC hints at;
\* over HTTP that of the anchor it came from.
Certifiers(c) ==
  IF kind = "http" THEN {via[c]} ELSE ec[c].hints \cap TrustedAnchors

\* Mutant of Certified: who signed the SS is not verified.
CertifiedUnsigned(c) ==
  /\ Certifiers(c) # {}
  /\ clock < ss[c].exp
  /\ ss[c].sub = arg[c]

\* One of them verifies the SS, which must be about the entity.
Certified(c) ==
  /\ \E a \in Certifiers(c) : ss[c].signer = AnchorKey[a]
  /\ clock < ss[c].exp
  /\ ss[c].sub = arg[c]

Proceed(c, l) == Goto(c, l) /\ UNCHANGED <<arg, statements, result, begun>>

\* In memory the call fails; over HTTP the next anchor may do better.
Refuse(c) == IF kind = "http" THEN Proceed(c, "fetchSS") ELSE End(c)

VerifySS(c) ==
  /\ pc[c] = "verifySS"
  /\ IF Certified(c) THEN Proceed(c, "verifyEC") ELSE Refuse(c)
  /\ UNCHANGED <<clock, Registry, cache>>

\* The EC must be signed by the certified key.
VerifyEC(c) ==
  /\ pc[c] = "verifyEC"
  /\ IF ec[c].key = ss[c].key /\ clock < ec[c].exp THEN Proceed(c, "store") ELSE Refuse(c)
  /\ UNCHANGED <<clock, Registry, cache>>

\* Mutant of Resolved: only the SS limits the caching.
ResolvedUntilSS(c) ==
  [key |-> ss[c].key, exp |-> ss[c].exp, ec |-> ec[c], ss |-> ss[c]]

\* A resolved entity: the certified key, good for as long as both statements.
\* (The statements themselves are kept for the properties.)
Resolved(c) ==
  [key |-> ss[c].key,
   exp |-> IF ec[c].exp < ss[c].exp THEN ec[c].exp ELSE ss[c].exp,
   ec |-> ec[c], ss |-> ss[c]]

Store(c) ==
  /\ pc[c] = "store"
  /\ cache' = [cache EXCEPT ![arg[c]] = Resolved(c)]
  /\ Answer(c, Resolved(c))
  /\ UNCHANGED <<clock, Registry>>

Return(c) ==
  /\ pc[c] = "done"
  /\ End(c)
  /\ UNCHANGED <<clock, Registry, cache>>

-----------------------------------------------------------------------------
Tick ==
  /\ clock < MaxTime
  /\ clock' = clock + 1
  /\ UNCHANGED <<Registry, cache, calls>>

Registering ==
  \E e \in Entities, ttl \in TTLs :
    \/ \E f \in ECForms : \/ RegisterEntityConfig(e, BuildEntityConfiguration(f, ttl))
                          \/ ConfigureIdP(e, f)
    \/ \E f \in SSForms, s \in Sources :
         RegisterSubordinateStatement(s, e, BuildSubordinateStatement(f, ttl))

Step(c) ==
  \/ Hit(c) \/ Miss(c) \/ Stale(c) \/ Evict(c) \/ Read(c)
  \/ \E ttl \in TTLs : FetchEC(c, ttl)
  \/ \E a \in TrustedAnchors : FetchSS(c, a)
  \/ NoAnchorLeft(c)
  \/ VerifySS(c) \/ VerifyEC(c) \/ Store(c) \/ Return(c)

Next ==
  \/ Registering
  \/ \E c \in Calls, e \in Entities : Begin(c, e)
  \/ \E c \in Calls : Step(c)
  \/ Tick

Spec == Init /\ [][Next]_vars

-----------------------------------------------------------------------------
(* Properties. *)

PC == {"idle", "cache", "evict", "read", "fetchSS", "verifySS", "verifyEC", "store", "done"}

Entity == [key : Keys, exp : Nat, ec : EC, ss : SS]

\* Types; past Read a call holds two statements.
TypeOK ==
  /\ clock \in 0..MaxTime
  /\ \A e \in Entities : /\ ecs[e] # Nil => ecs[e] \in (IF kind = "http" THEN ECForms ELSE EC)
                         /\ \A s \in Sources : sss[s][e] # Nil => sss[s][e] \in SS
                         /\ cache[e] # Nil => cache[e] \in Entity
  /\ pc \in [Calls -> PC]
  /\ \A c \in Calls : pc[c] # "idle" => arg[c] \in Entities
  /\ \A c \in Calls : pc[c] \in {"verifySS", "verifyEC", "store"}
                        => ec[c] \in EC /\ ss[c] \in SS

\* The chain of trust behind every answer, cached or not: a trusted anchor that
\* the entity names certified the answered key for this very entity, and that
\* key signed the entity's configuration.
AnswersAreCertified ==
  \A c \in Calls : result[c] # Nil =>
    LET r == result[c] IN
    /\ r.ss.sub = arg[c]
    /\ r.key = r.ss.key /\ r.key = r.ec.key
    /\ \E a \in r.ec.hints \cap TrustedAnchors : AnchorKey[a] = r.ss.signer

\* "Cache result until min(EC.exp, SS.exp)" (README.md:712): a call that begins
\* when one of the two statements has expired is never answered from them.
NoAnswerFromExpired ==
  \A c \in Calls : result[c] # Nil =>
    begun[c] < result[c].ec.exp /\ begun[c] < result[c].ss.exp

\* Registering a statement "invalidate[s] cached resolution" (resolver.go:70):
\* what is cached was resolved from the statements that are registered.
RegistrationInvalidates ==
  \A e \in Entities : kind = "memory" /\ cache[e] # Nil =>
    cache[e].ec = ecs[e] /\ cache[e].ss = sss["memory"][e]
==============================================================================
