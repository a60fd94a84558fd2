---------------------------------- MODULE Wag ----------------------------------
(***************************************************************************)
(* pkg/wag: platforms sign workload authorization grants, and an           *)
(* authorization server exchanges each for an access token.  Exchange      *)
(* takes the server's mutex twice, to find the platform and to consume the *)
(* jti, and reads the clock three times: to parse the grant, to consume    *)
(* the jti (here inside the lock, unlike wpt and httpsig) and to date the  *)
(* access token.                                                           *)
(*                                                                         *)
(* Scopes are left out: they decide nothing.  A platform's distinguishing  *)
(* claim has one name; what varies is whether it is there and its value.   *)
(***************************************************************************)
EXTENDS Integers, FiniteSets, Sequences, ReplayStore

CONSTANTS
  Grants,         \* the grant JWTs that may be signed
  Jtis,           \* jti values: Issue draws a fresh one, others choose any
  Issuers, Keys,
  Values,         \* values of the distinguishing claim
  Empty,          \* "" among them: also what an absent claim is read as
  Nil,            \* an absent claim, or a malformed argument
  Registrations,  \* the PlatformRegistrations an administrator may make
  Platforms,      \* issuer and key of the platforms that use PlatformIssuer
  ForeignClaims,  \* what the grants of other platforms say
  Calls,          \* goroutines that may be inside Exchange at the same time
  TTLs, DefaultTTL,
  Skews,          \* a platform's clock minus the server's
  MaxTime, MaxPlatforms, MaxRestarts

\* RegisterPlatform refuses a registration without issuer or key, so there is
\* none; `value' is Nil where DistinguishingClaim is not set.
Registration == [iss : Issuers, key : Keys, value : Values \cup {Nil}]

ASSUME WagAssumption ==
  /\ Nil \notin Grants \cup Jtis \cup Values
  /\ Empty \in Values
  /\ Registrations \subseteq Registration
  /\ Platforms \subseteq [iss : Issuers, key : Keys]
  /\ ForeignClaims \subseteq [iss : Issuers, key : Keys, jti : Jtis \cup {Nil},
                             value : Values \cup {Nil}]
  /\ IsFiniteSet(Calls)
  /\ TTLs \subseteq Int /\ DefaultTTL \in Nat \ {0} /\ Skews \subseteq Int
  /\ {MaxTime, MaxPlatforms, MaxRestarts} \subseteq Nat

VARIABLES
  clock,
  grants,      \* the grants signed so far
  platforms,   \* in the order of registration
  usedJTIs,
  pc, arg, reg,
  begun,       \* history: how many platforms were registered at the call
  live, late,  \* history: consumed up to, and after, the grant's expiry
  tokens,      \* history: access tokens minted
  restarts

vars == <<clock, grants, platforms, usedJTIs, pc, arg, reg, begun, live, late,
          tokens, restarts>>

calls == <<pc, arg, reg, begun>>
uses == <<live, late, tokens>>

None == [g \in Grants |-> 0]

Init ==
  /\ clock = 0
  /\ grants = [g \in {} |-> 0]
  /\ platforms = <<>>
  /\ usedJTIs = NoneSeen
  /\ pc = [c \in Calls |-> "idle"]
  /\ arg = [c \in Calls |-> Nil]
  /\ reg = [c \in Calls |-> Nil]
  /\ begun = [c \in Calls |-> 0]
  /\ live = None /\ late = None /\ tokens = None
  /\ restarts = 0

-----------------------------------------------------------------------------
RegisterPlatform(r) ==
  /\ Len(platforms) < MaxPlatforms
  /\ platforms' = Append(platforms, r)
  /\ UNCHANGED <<clock, grants, usedJTIs, calls, uses, restarts>>

Sign(g, grant) ==
  /\ g \notin DOMAIN grants
  /\ grants' = [h \in DOMAIN grants \cup {g} |-> IF h = g THEN grant ELSE grants[h]]
  /\ UNCHANGED <<clock, platforms, usedJTIs, calls, uses, restarts>>

JtisDrawn == {grants[g].jti : g \in DOMAIN grants}

\* PlatformIssuer.Issue: a fresh jti, and no distinguishing claim, for which its
\* options have no place.
Issue(g, p, jti, ttl, skew) ==
  /\ jti \notin JtisDrawn
  /\ Sign(g, [iss |-> p.iss, key |-> p.key, jti |-> jti, value |-> Nil,
              iat |-> clock + skew,
              exp |-> clock + skew + IF ttl = 0 THEN DefaultTTL ELSE ttl])

\* A platform with an issuer of its own: the claim may be there, and the jti may
\* be one that some platform has used, or absent.
ForeignIssue(g, f) ==
  Sign(g, [iss |-> f.iss, key |-> f.key, jti |-> f.jti, value |-> f.value,
           iat |-> clock, exp |-> clock + DefaultTTL])

-----------------------------------------------------------------------------
(* Exchange. *)

Goto(c, where) == pc' = [pc EXCEPT ![c] = where]

Begin(c, g) ==
  /\ pc[c] = "idle"
  /\ g \in DOMAIN grants \cup {Nil}
  /\ Goto(c, "match")
  /\ arg' = [arg EXCEPT ![c] = g]
  /\ begun' = [begun EXCEPT ![c] = Len(platforms)]
  /\ UNCHANGED <<clock, grants, platforms, usedJTIs, reg, uses, restarts>>

\* Mutant of Claimed: the distinguishing claim counts only if the grant has it.
ClaimedLeniently(g, r) ==
  /\ grants[g].iss = r.iss
  /\ r.value # Nil /\ grants[g].value # Nil => grants[g].value = r.value

\* The registration is for this issuer and its distinguishing claim, if any, has
\* the value the grant gives it.  A claim that is absent, or no string, is read as
\* "".
Claimed(g, r) ==
  /\ grants[g].iss = r.iss
  /\ r.value # Nil =>
       r.value = IF grants[g].value = Nil THEN Empty ELSE grants[g].value

Matching(g) == {i \in DOMAIN platforms : Claimed(g, platforms[i])}

\* Mutant of Match: the first matching registration is taken.
MatchFirst(c) ==
  /\ pc[c] = "match"
  /\ IF arg[c] # Nil /\ Matching(arg[c]) # {}
       THEN /\ Goto(c, "verify")
            /\ reg' = [reg EXCEPT ![c] =
                 platforms[CHOOSE i \in Matching(arg[c]) :
                             \A k \in Matching(arg[c]) : i <= k]]
       ELSE Goto(c, "refused") /\ UNCHANGED reg
  /\ UNCHANGED <<clock, grants, platforms, usedJTIs, arg, begun, uses, restarts>>

\* The unverified parse, then matchPlatform: exactly one registration may match.
Match(c) ==
  /\ pc[c] = "match"
  /\ IF arg[c] # Nil /\ Cardinality(Matching(arg[c])) = 1
       THEN /\ Goto(c, "verify")
            /\ \E i \in Matching(arg[c]) : reg' = [reg EXCEPT ![c] = platforms[i]]
       ELSE Goto(c, "refused") /\ UNCHANGED reg
  /\ UNCHANGED <<clock, grants, platforms, usedJTIs, arg, begun, uses, restarts>>

\* Mutant of Genuine: a missing jti is not refused.
GenuineWithoutJti(grant, r) ==
  /\ grant.key = r.key
  /\ grant.iat <= clock /\ clock < grant.exp

\* Signature under the platform's key, iat, nbf and exp; a jti.
Genuine(grant, r) ==
  /\ grant.key = r.key
  /\ grant.iat <= clock /\ clock < grant.exp
  /\ grant.jti # Nil

Verify(c) ==
  /\ pc[c] = "verify"
  /\ Goto(c, IF Genuine(grants[arg[c]], reg[c]) THEN "consume" ELSE "refused")
  /\ UNCHANGED <<clock, grants, platforms, usedJTIs, arg, reg, begun, uses, restarts>>

\* Mutants of Consume: a replay gets its token all the same; an accepted jti is
\* remembered no longer than to the present.
ConsumeAgain(c) ==
  LET g == arg[c]
      grant == grants[g]
      hit == Replayed(usedJTIs, grant.jti, clock)
  IN
  /\ pc[c] = "consume"
  /\ usedJTIs' = Recorded(usedJTIs, grant.jti, grant.exp, clock)
  /\ Goto(c, "mint")
  /\ live' = IF ~hit /\ clock <= grant.exp THEN [live EXCEPT ![g] = @ + 1] ELSE live
  /\ late' = IF ~hit /\ clock > grant.exp THEN [late EXCEPT ![g] = @ + 1] ELSE late
  /\ UNCHANGED <<clock, grants, platforms, arg, reg, begun, tokens, restarts>>

ConsumeUntilNow(c) ==
  LET g == arg[c]
      grant == grants[g]
      hit == Replayed(usedJTIs, grant.jti, clock)
  IN
  /\ pc[c] = "consume"
  /\ usedJTIs' = Recorded(usedJTIs, grant.jti, clock, clock)
  /\ Goto(c, IF hit THEN "refused" ELSE "mint")
  /\ live' = IF ~hit /\ clock <= grant.exp THEN [live EXCEPT ![g] = @ + 1] ELSE live
  /\ late' = IF ~hit /\ clock > grant.exp THEN [late EXCEPT ![g] = @ + 1] ELSE late
  /\ UNCHANGED <<clock, grants, platforms, arg, reg, begun, tokens, restarts>>

\* consumeJTI: one critical section, with the time read inside.
Consume(c) ==
  LET g == arg[c]
      grant == grants[g]
      hit == Replayed(usedJTIs, grant.jti, clock)
  IN
  /\ pc[c] = "consume"
  /\ usedJTIs' = Recorded(usedJTIs, grant.jti, grant.exp, clock)
  /\ Goto(c, IF hit THEN "refused" ELSE "mint")
  /\ live' = IF ~hit /\ clock <= grant.exp THEN [live EXCEPT ![g] = @ + 1] ELSE live
  /\ late' = IF ~hit /\ clock > grant.exp THEN [late EXCEPT ![g] = @ + 1] ELSE late
  /\ UNCHANGED <<clock, grants, platforms, arg, reg, begun, tokens, restarts>>

\* mintAccessToken, for the subject of the grant.  Where drawing the jti or
\* signing fails, so does Exchange, and the grant's own jti stays consumed.
Mint(c) ==
  /\ pc[c] = "mint"
  /\ \/ /\ Goto(c, "granted")
        /\ tokens' = [tokens EXCEPT ![arg[c]] = @ + 1]
     \/ /\ Goto(c, "refused")
        /\ UNCHANGED tokens
  /\ UNCHANGED <<clock, grants, platforms, usedJTIs, arg, reg, begun, live, late,
                 restarts>>

Return(c) ==
  /\ pc[c] \in {"granted", "refused"}
  /\ Goto(c, "idle")
  /\ arg' = [arg EXCEPT ![c] = Nil]
  /\ reg' = [reg EXCEPT ![c] = Nil]
  /\ begun' = [begun EXCEPT ![c] = 0]
  /\ UNCHANGED <<clock, grants, platforms, usedJTIs, uses, restarts>>

-----------------------------------------------------------------------------
(* The environment. *)

Tick ==
  /\ clock < MaxTime
  /\ clock' = clock + 1
  /\ UNCHANGED <<grants, platforms, usedJTIs, calls, uses, restarts>>

\* The server is in memory only: calls, platforms and used jtis are gone.
Restart ==
  /\ restarts < MaxRestarts
  /\ restarts' = restarts + 1
  /\ platforms' = <<>>
  /\ usedJTIs' = NoneSeen
  /\ pc' = [c \in Calls |-> "idle"]
  /\ arg' = [c \in Calls |-> Nil]
  /\ reg' = [c \in Calls |-> Nil]
  /\ begun' = [c \in Calls |-> 0]
  /\ live' = None /\ late' = None /\ tokens' = None
  /\ UNCHANGED <<clock, grants>>

-----------------------------------------------------------------------------
Signing ==
  \E g \in Grants :
    \/ \E p \in Platforms, jti \in Jtis, ttl \in TTLs, skew \in Skews :
         Issue(g, p, jti, ttl, skew)
    \/ \E f \in ForeignClaims : ForeignIssue(g, f)

Step(c) == Match(c) \/ Verify(c) \/ Consume(c) \/ Mint(c) \/ Return(c)

Next ==
  \/ \E r \in Registrations : RegisterPlatform(r)
  \/ Signing
  \/ \E c \in Calls, g \in Grants \cup {Nil} : Begin(c, g)
  \/ \E c \in Calls : Step(c)
  \/ Tick
  \/ Restart

Spec == Init /\ [][Next]_vars

-----------------------------------------------------------------------------
(* Properties. *)

PC == {"idle", "match", "verify", "consume", "mint", "granted", "refused"}

\* Types; and a call that goes on to consume has a grant with a jti, from the
\* registration it will be held to.
TypeOK ==
  /\ clock \in Nat
  /\ DOMAIN grants \subseteq Grants
  /\ platforms \in Seq(Registration)
  /\ DOMAIN usedJTIs \subseteq Jtis
  /\ pc \in [Calls -> PC]
  /\ \A c \in Calls : arg[c] \in DOMAIN grants \cup {Nil}
  /\ \A c \in Calls : pc[c] \in {"verify", "consume", "mint", "granted"}
                        => arg[c] # Nil /\ reg[c] \in Registration
  /\ \A c \in Calls : pc[c] \in {"consume", "mint", "granted"}
                        => grants[arg[c]].jti # Nil
  /\ {live, late, tokens} \subseteq [Grants -> Nat]

\* No access token without a consumption of its grant's jti that is its own:
\* the tokens minted and the calls about to mint one are together at most as
\* many as the consumptions.  (A call whose minting fails has consumed the jti
\* for nothing: Exchange does not give it back.)
TokensPaidFor ==
  \A g \in Grants :
    tokens[g] + Cardinality({c \in Calls : pc[c] = "mint" /\ arg[c] = g})
      <= live[g] + late[g]

\* "One platform's key never validates another's grants", and where tenants
\* share an issuer every grant carries the tenant's value (server.go:18-25): a
\* grant that bought a token was signed with the key of a registered platform
\* of its issuer, and for the very value, if any, that this platform is
\* registered with.  There is one exception, which ClaimDemanded is about: a
\* grant without the claim is taken for one of the platform registered with "".
TokenVouchedFor ==
  \A g \in Grants : tokens[g] > 0 =>
    \E i \in DOMAIN platforms :
      /\ platforms[i].iss = grants[g].iss
      /\ platforms[i].key = grants[g].key
      /\ \/ platforms[i].value \in {Nil, grants[g].value}
         \/ platforms[i].value = Empty /\ grants[g].value = Nil

\* "When set, every grant MUST carry the claim with exactly this value; grants
\* lacking it are rejected" (server.go:24-25): a grant without the claim buys a
\* token only from a platform that is registered without one.
ClaimDemanded ==
  \A g \in Grants : tokens[g] > 0 /\ grants[g].value = Nil =>
    \E i \in DOMAIN platforms :
      platforms[i].iss = grants[g].iss /\ platforms[i].value = Nil

\* Once two registrations match a grant, no call that begins afterwards gets a
\* token for it, whatever is registered later: there is no way to tell whose
\* grant it is.
AmbiguityRefused ==
  \A c \in Calls : pc[c] \in {"mint", "granted"} =>
    Cardinality({i \in Matching(arg[c]) : i <= begun[c]}) <= 1

\* A grant is used as ProofUse allows: once up to its expiry, and after it only
\* by calls that were under way, however the platforms choose their jtis.
Promise == INSTANCE ProofUse WITH
  Jtis <- Grants,
  Places <- {"server"},
  Slack <- Cardinality(Calls),
  expiry <- [g \in DOMAIN grants |-> grants[g].exp],
  uses <- [s \in {"server"} |-> [g \in Grants |-> live[g] + late[g]]]

ImplementsPromise == Promise!Spec
==============================================================================
