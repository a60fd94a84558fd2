------------------------------- MODULE WagProofs -------------------------------
(***************************************************************************)
(* Theorems about Wag, for any number of concurrent exchanges, platforms,  *)
(* registrations and grants, whatever jtis the platforms choose.           *)
(***************************************************************************)
EXTENDS Wag, ReplayStoreProofs, FiniteSetTheorems

USE WagAssumption

-----------------------------------------------------------------------------
(* Types, with those of the grants and of the calls' local variables. *)
Types ==
  /\ TypeOK
  /\ \A g \in DOMAIN grants : grants[g].exp \in Int /\ grants[g].jti \in Jtis \cup {Nil}
  /\ DOMAIN arg = Calls /\ DOMAIN reg = Calls
  /\ begun \in [Calls -> Nat]
  /\ \A c \in Calls : pc[c] # "idle" => begun[c] <= Len(platforms)

LEMMA TypesInit == Init => Types
<1> SUFFICES ASSUME Init PROVE Types
  OBVIOUS
<1>1. platforms \in Seq(Registration)
  BY DEF Init
<1>2. {live, late, tokens} \subseteq [Grants -> Nat] /\ begun \in [Calls -> Nat]
  BY DEF Init, None
<1> QED
  BY <1>1, <1>2 DEF Init, Types, TypeOK, PC, NoneSeen

\* What a platform signs is a grant of its own, and changes no other.
LEMMA SigningFacts ==
  ASSUME Types, Signing
  PROVE  /\ UNCHANGED <<clock, platforms, usedJTIs, calls, uses, restarts>>
         /\ \E g \in Grants : g \notin DOMAIN grants /\ DOMAIN grants' = DOMAIN grants \cup {g}
         /\ \A h \in DOMAIN grants : grants'[h] = grants[h]
         /\ \A h \in DOMAIN grants' :
              grants'[h].exp \in Int /\ grants'[h].jti \in Jtis \cup {Nil}
<1>1. ASSUME NEW g \in Grants, NEW grant, Sign(g, grant),
             grant.exp \in Int, grant.jti \in Jtis \cup {Nil}
      PROVE  /\ UNCHANGED <<clock, platforms, usedJTIs, calls, uses, restarts>>
             /\ \E i \in Grants : i \notin DOMAIN grants /\ DOMAIN grants' = DOMAIN grants \cup {i}
             /\ \A h \in DOMAIN grants : grants'[h] = grants[h]
             /\ \A h \in DOMAIN grants' :
                  grants'[h].exp \in Int /\ grants'[h].jti \in Jtis \cup {Nil}
  BY <1>1 DEF Sign, Types
<1>2. clock \in Int
  BY DEF Types, TypeOK
<1>3. ASSUME NEW g \in Grants, NEW p \in Platforms, NEW jti \in Jtis, NEW ttl \in TTLs,
             NEW skew \in Skews, Issue(g, p, jti, ttl, skew)
      PROVE  \E grant : Sign(g, grant) /\ grant.exp \in Int /\ grant.jti \in Jtis \cup {Nil}
  <2> DEFINE exp == clock + skew + IF ttl = 0 THEN DefaultTTL ELSE ttl
             grant == [iss |-> p.iss, key |-> p.key, jti |-> jti, value |-> Nil,
                       iat |-> clock + skew, exp |-> exp]
  <2>1. exp \in Int
    BY <1>2
  <2>2. Sign(g, grant)
    BY <1>3 DEF Issue
  <2>3. grant.exp = exp /\ grant.jti = jti
    OBVIOUS
  <2> HIDE DEF exp, grant
  <2> QED
    BY <2>1, <2>2, <2>3
<1>4. ASSUME NEW g \in Grants, NEW f \in ForeignClaims, ForeignIssue(g, f)
      PROVE  \E grant : Sign(g, grant) /\ grant.exp \in Int /\ grant.jti \in Jtis \cup {Nil}
  <2> DEFINE grant == [iss |-> f.iss, key |-> f.key, jti |-> f.jti, value |-> f.value,
                       iat |-> clock, exp |-> clock + DefaultTTL]
  <2>1. Sign(g, grant)
    BY <1>4 DEF ForeignIssue
  <2>2. grant.exp = clock + DefaultTTL /\ grant.jti = f.jti
    OBVIOUS
  <2>3. clock + DefaultTTL \in Int /\ f.jti \in Jtis \cup {Nil}
    BY <1>2
  <2> HIDE DEF grant
  <2> QED
    BY <2>1, <2>2, <2>3
<1> QED
  BY <1>1, <1>3, <1>4 DEF Signing

LEMMA TypesSigning == Types /\ Signing => Types'
<1> SUFFICES ASSUME Types, Signing PROVE Types'
  OBVIOUS
<1>1. /\ UNCHANGED <<clock, platforms, usedJTIs, pc, arg, reg, begun, live, late, tokens>>
      /\ DOMAIN grants \subseteq DOMAIN grants' /\ DOMAIN grants' \subseteq Grants
      /\ \A h \in DOMAIN grants : grants'[h] = grants[h]
      /\ \A h \in DOMAIN grants' : grants'[h].exp \in Int /\ grants'[h].jti \in Jtis \cup {Nil}
  BY SigningFacts DEF Types, TypeOK, calls, uses
<1>2. \A c \in Calls : pc[c] \in {"consume", "mint", "granted"} =>
        arg[c] \in DOMAIN grants /\ grants[arg[c]].jti # Nil
  BY DEF Types, TypeOK
<1>3. TypeOK'
  BY <1>1, <1>2 DEF Types, TypeOK
<1> QED
  BY <1>1, <1>3 DEF Types

\* A registration comes after those there are.
LEMMA RegisterFacts ==
  ASSUME Types, NEW r \in Registrations, RegisterPlatform(r)
  PROVE  /\ UNCHANGED <<clock, grants, usedJTIs, calls, uses, restarts>>
         /\ platforms' \in Seq(Registration)
         /\ Len(platforms) \in Nat /\ Len(platforms') = Len(platforms) + 1
         /\ DOMAIN platforms = 1..Len(platforms) /\ DOMAIN platforms' = 1..Len(platforms')
         /\ \A i \in DOMAIN platforms : i \in DOMAIN platforms' /\ platforms'[i] = platforms[i]
<1>1. platforms \in Seq(Registration) /\ r \in Registration
  BY DEF Types, TypeOK
<1>2. platforms' = Append(platforms, r)
  BY DEF RegisterPlatform
<1> QED
  BY <1>1, <1>2 DEF RegisterPlatform

LEMMA TypesRegister ==
  ASSUME Types, NEW r \in Registrations, RegisterPlatform(r) PROVE Types'
<1>1. \A c \in Calls : pc[c] # "idle" => begun[c] <= Len(platforms')
  BY RegisterFacts DEF Types
<1> QED
  BY <1>1, RegisterFacts DEF Types, TypeOK, calls, uses

LEMMA TypesBegin ==
  ASSUME Types, NEW c \in Calls, NEW g \in Grants \cup {Nil}, Begin(c, g) PROVE Types'
<1>1. Len(platforms) \in Nat
  BY DEF Types, TypeOK
<1>2. begun' = [begun EXCEPT ![c] = Len(platforms)] /\ pc' = [pc EXCEPT ![c] = "match"]
      /\ arg' = [arg EXCEPT ![c] = g] /\ g \in DOMAIN grants \cup {Nil}
  BY DEF Begin, Goto
<1>3. /\ begun' \in [Calls -> Nat]
      /\ \A d \in Calls : pc'[d] # "idle" => begun'[d] <= Len(platforms)
  BY <1>1, <1>2 DEF Types, TypeOK
<1> QED
  BY <1>2, <1>3 DEF Types, TypeOK, Begin, PC, uses

LEMMA TypesMatch == ASSUME Types, NEW c \in Calls, Match(c) PROVE Types'
<1>1. /\ pc[c] = "match" /\ pc' = [pc EXCEPT ![c] = pc'[c]] /\ pc'[c] \in {"verify", "refused"}
      /\ UNCHANGED <<clock, grants, platforms, usedJTIs, arg, begun, uses, restarts>>
      /\ DOMAIN reg' = Calls /\ \A d \in Calls \ {c} : reg'[d] = reg[d]
  BY DEF Match, Goto, Types, TypeOK
<1>2. pc'[c] = "verify" => arg[c] # Nil /\ reg'[c] \in Registration
  <2> SUFFICES ASSUME pc'[c] = "verify" PROVE arg[c] # Nil /\ reg'[c] \in Registration
    OBVIOUS
  <2>1. PICK i \in Matching(arg[c]) : reg' = [reg EXCEPT ![c] = platforms[i]]
    BY DEF Match, Goto, Types, TypeOK
  <2>2. platforms[i] \in Registration
    BY <2>1 DEF Matching, Types, TypeOK
  <2>3. arg[c] # Nil
    BY DEF Match, Goto, Types, TypeOK
  <2> QED
    BY <2>1, <2>2, <2>3 DEF Types
<1> QED
  BY <1>1, <1>2 DEF Types, TypeOK, PC, uses

LEMMA TypesVerify == ASSUME Types, NEW c \in Calls, Verify(c) PROVE Types'
BY DEF Types, TypeOK, Verify, Goto, Genuine, PC, uses

LEMMA TypesConsume == ASSUME Types, NEW c \in Calls, Consume(c) PROVE Types'
<1> DEFINE g == arg[c]
           r == Recorded(usedJTIs, grants[g].jti, grants[g].exp, clock)
<1>1. g \in DOMAIN grants /\ g \in Grants /\ grants[g].jti \in Jtis
  BY DEF Consume, Types, TypeOK
<1>2. DOMAIN r \subseteq DOMAIN usedJTIs \cup {grants[g].jti}
  BY RecordedFacts
<1>3. usedJTIs' = r
  BY DEF Consume
<1> HIDE DEF r
<1>4. DOMAIN usedJTIs' \subseteq Jtis
  BY <1>1, <1>2, <1>3 DEF Types, TypeOK
<1>5. {live', late', tokens'} \subseteq [Grants -> Nat]
  BY <1>1 DEF Consume, Types, TypeOK
<1>6. pc' = [pc EXCEPT ![c] = pc'[c]] /\ pc'[c] \in {"mint", "refused"} /\ pc[c] = "consume"
      /\ UNCHANGED <<clock, grants, platforms, arg, reg, begun>>
  BY DEF Consume, Goto, Types, TypeOK
<1> QED
  BY <1>4, <1>5, <1>6 DEF Types, TypeOK, PC

LEMMA TypesMint == ASSUME Types, NEW c \in Calls, Mint(c) PROVE Types'
<1>1. PICK where \in {"granted", "refused"} :
        /\ pc' = [pc EXCEPT ![c] = where]
        /\ tokens' = tokens \/ tokens' = [tokens EXCEPT ![arg[c]] = @ + 1]
  BY DEF Mint, Goto
<1>2. /\ pc[c] = "mint"
      /\ UNCHANGED <<clock, grants, platforms, usedJTIs, arg, reg, begun, live, late>>
  BY DEF Mint
<1>3. arg[c] \in Grants /\ {live, late, tokens} \subseteq [Grants -> Nat]
  BY <1>2 DEF Types, TypeOK
<1>4. {live', late', tokens'} \subseteq [Grants -> Nat]
  <2>1. tokens' \in [Grants -> Nat]
    BY <1>1, <1>3
  <2> QED
    BY <1>2, <1>3, <2>1
<1>5. /\ pc' \in [Calls -> PC]
      /\ \A d \in Calls : pc'[d] = pc[d] \/ d = c
      /\ pc'[c] \in {"granted", "refused"}
  <2>1. pc \in [Calls -> PC]
    BY DEF Types, TypeOK
  <2> QED
    BY <1>1, <2>1 DEF PC
<1> QED
  BY <1>2, <1>4, <1>5 DEF Types, TypeOK

LEMMA TypesReturn == ASSUME Types, NEW c \in Calls, Return(c) PROVE Types'
BY DEF Types, TypeOK, Return, Goto, PC, uses

LEMMA TypesStep == Types /\ [Next]_vars => Types'
<1> SUFFICES ASSUME Types, [Next]_vars PROVE Types'
  OBVIOUS
<1>1. CASE \E r \in Registrations : RegisterPlatform(r)
  BY <1>1, TypesRegister
<1>2. CASE Signing
  BY <1>2, TypesSigning
<1>3. CASE \E c \in Calls, g \in Grants \cup {Nil} : Begin(c, g)
  BY <1>3, TypesBegin
<1>4. CASE \E c \in Calls : Step(c)
  BY <1>4, TypesMatch, TypesVerify, TypesConsume, TypesMint, TypesReturn DEF Step
<1>5. CASE Tick
  BY <1>5 DEF Tick, Types, TypeOK, calls, uses
<1>6. CASE Restart
  <2>1. platforms' \in Seq(Registration)
    BY <1>6 DEF Restart
  <2>2. {live', late', tokens'} \subseteq [Grants -> Nat] /\ begun' \in [Calls -> Nat]
    BY <1>6 DEF Restart, None
  <2> QED
    BY <1>6, <2>1, <2>2 DEF Restart, Types, TypeOK, PC, NoneSeen
<1>7. CASE UNCHANGED vars
  BY <1>7 DEF vars, Types, TypeOK
<1> QED
  BY <1>1, <1>2, <1>3, <1>4, <1>5, <1>6, <1>7 DEF Next

LEMMA TypesAlways == Spec => []Types
BY TypesInit, TypesStep, PTL DEF Spec

\* The types of Wag, and that a call that goes on to consume has a grant with a
\* jti and the registration it will be held to.
THEOREM WagTypeCorrect == Spec => []TypeOK
<1>1. Types => TypeOK
  BY DEF Types
<1> QED
  BY <1>1, TypesAlways, PTL

\* What a step leaves of the calls it is not a step of.
LEMMA OtherCalls ==
  ASSUME Types, NEW c \in Calls, NEW d \in Calls \ {c},
         (\E g \in Grants \cup {Nil} : Begin(c, g)) \/ Step(c)
  PROVE  pc'[d] = pc[d] /\ arg'[d] = arg[d] /\ reg'[d] = reg[d] /\ begun'[d] = begun[d]
BY DEF Begin, Step, Match, Verify, Consume, Mint, Return, Goto, Types, TypeOK

-----------------------------------------------------------------------------
(***************************************************************************)
(* Who vouches for a token.  TokenVouchedFor speaks of the tokens minted;  *)
(* the registration is chosen by Match and the signature checked by        *)
(* Verify, without the mutex, while other platforms register: the proof    *)
(* follows the call.                                                       *)
(***************************************************************************)

\* The registration that a call found is still there and claims its grant.
Held(c) ==
  \E i \in DOMAIN platforms : platforms[i] = reg[c] /\ Claimed(arg[c], reg[c])

\* A grant is signed by a platform that is registered for it.
Backed(g) ==
  \E i \in DOMAIN platforms :
    /\ platforms[i].iss = grants[g].iss
    /\ platforms[i].key = grants[g].key
    /\ \/ platforms[i].value \in {Nil, grants[g].value}
       \/ platforms[i].value = Empty /\ grants[g].value = Nil

Backing ==
  /\ \A c \in Calls : pc[c] = "verify" => Held(c)
  /\ \A c \in Calls : pc[c] \in {"consume", "mint"} => Backed(arg[c])
  /\ \A g \in Grants : tokens[g] > 0 => g \in DOMAIN grants /\ Backed(g)

LEMMA BackingInit == Init => Backing
BY DEF Init, Backing, None

\* Registrations and grants only come to those there are.
LEMMA BackedKept ==
  ASSUME Types, [Next]_vars, ~Restart, NEW g \in DOMAIN grants
  PROVE  /\ grants'[g] = grants[g] /\ g \in DOMAIN grants'
         /\ \A i \in DOMAIN platforms : i \in DOMAIN platforms' /\ platforms'[i] = platforms[i]
         /\ Backed(g) => Backed(g)'
<1>1. /\ grants'[g] = grants[g] /\ g \in DOMAIN grants'
      /\ \A i \in DOMAIN platforms : i \in DOMAIN platforms' /\ platforms'[i] = platforms[i]
  <2>1. CASE Signing
    BY <2>1, SigningFacts
  <2>2. CASE \E r \in Registrations : RegisterPlatform(r)
    BY <2>2, RegisterFacts
  <2>3. CASE UNCHANGED <<grants, platforms>>
    BY <2>3
  <2> QED
    BY <2>1, <2>2, <2>3
       DEF Next, Begin, Step, Match, Verify, Consume, Mint, Return, Tick, vars
<1> QED
  BY <1>1 DEF Backed

LEMMA BackingCall ==
  ASSUME Types, Types', Backing, NEW c \in Calls, Step(c)
  PROVE  Backing'
<1>0. /\ DOMAIN pc = Calls /\ DOMAIN reg = Calls /\ UNCHANGED <<grants, platforms>>
      /\ ~Restart => [Next]_vars
      /\ tokens \in [Grants -> Nat]
  BY DEF Types, TypeOK, Step, Match, Verify, Consume, Mint, Return, Next
<1>1. \A g : Backed(g)' <=> Backed(g)
  BY <1>0 DEF Backed
<1>2. \A d \in Calls \ {c} :
        pc'[d] = pc[d] /\ arg'[d] = arg[d] /\ reg'[d] = reg[d] /\ (Held(d) => Held(d)')
  BY <1>0, OtherCalls DEF Held, Claimed
<1>3. pc'[c] = "verify" => Held(c)'
  <2> SUFFICES ASSUME pc'[c] = "verify" PROVE Held(c)'
    OBVIOUS
  <2>1. Match(c) /\ arg' = arg
    BY <1>0 DEF Step, Match, Verify, Consume, Mint, Return, Goto
  <2>2. PICK i \in Matching(arg[c]) : reg' = [reg EXCEPT ![c] = platforms[i]]
    BY <1>0, <2>1 DEF Match, Goto
  <2> QED
    BY <1>0, <2>1, <2>2 DEF Held, Matching, Claimed
<1>4. pc'[c] \in {"consume", "mint"} => Backed(arg'[c])
  <2> SUFFICES ASSUME pc'[c] \in {"consume", "mint"} PROVE Backed(arg'[c])
    OBVIOUS
  <2>1. CASE Verify(c)
    <3>1. Genuine(grants[arg[c]], reg[c]) /\ arg' = arg /\ pc[c] = "verify"
      BY <1>0, <2>1 DEF Verify, Goto
    <3>2. PICK i \in DOMAIN platforms : platforms[i] = reg[c] /\ Claimed(arg[c], reg[c])
      BY <3>1 DEF Backing, Held
    <3> QED
      BY <3>1, <3>2 DEF Backed, Genuine, Claimed
  <2>2. CASE Consume(c)
    BY <2>2 DEF Consume, Backing
  <2>3. CASE Match(c) \/ Mint(c) \/ Return(c)
    BY <1>0, <2>3 DEF Match, Mint, Return, Goto
  <2> QED
    BY <2>1, <2>2, <2>3 DEF Step
<1>5. ASSUME NEW g \in Grants, tokens'[g] > 0 PROVE g \in DOMAIN grants /\ Backed(g)
  <2>1. CASE Mint(c) /\ g = arg[c]
    BY <2>1 DEF Mint, Backing, Types, TypeOK
  <2>2. CASE ~(Mint(c) /\ g = arg[c])
    <3>1. tokens'[g] = tokens[g]
      BY <1>0, <2>2 DEF Step, Match, Verify, Consume, Mint, Return, uses
    <3> QED
      BY <1>5, <3>1 DEF Backing
  <2> QED
    BY <2>1, <2>2
<1>6. \A d \in Calls : pc'[d] = "verify" => Held(d)'
  BY <1>2, <1>3 DEF Backing
<1>7. \A d \in Calls : pc'[d] \in {"consume", "mint"} => Backed(arg'[d])
  BY <1>2, <1>4 DEF Backing
<1>8. \A d \in Calls : pc'[d] \in {"consume", "mint"} => Backed(arg[d])'
  BY <1>0, <1>7 DEF Backed
<1> QED
  BY <1>0, <1>1, <1>5, <1>6, <1>8 DEF Backing

LEMMA BackingStep == Types /\ Backing /\ [Next]_vars => Backing'
<1> SUFFICES ASSUME Types, Backing, [Next]_vars PROVE Backing'
  OBVIOUS
<1>0. DOMAIN pc = Calls /\ \A c \in Calls : arg[c] \in DOMAIN grants \cup {Nil}
  BY DEF Types, TypeOK
<1>1. ASSUME NEW c \in Calls, Step(c) PROVE Backing'
  BY <1>1, TypesStep, BackingCall
<1>2. CASE Restart
  BY <1>2 DEF Restart, Backing, None
<1>3. CASE /\ \A c \in Calls : ~Step(c)
           /\ ~Restart
  <2>1. tokens' = tokens
    BY <1>3, SigningFacts, RegisterFacts DEF Next, Begin, Tick, vars, uses
  <2>2. ASSUME NEW c \in Calls, pc'[c] \in {"verify", "consume", "mint"}
        PROVE  pc'[c] = pc[c] /\ arg'[c] = arg[c] /\ reg'[c] = reg[c]
    <3>1. CASE Signing \/ (\E r \in Registrations : RegisterPlatform(r)) \/ Tick \/ UNCHANGED vars
      BY <3>1, SigningFacts, RegisterFacts DEF Tick, vars, calls
    <3>2. CASE \E d \in Calls, g \in Grants \cup {Nil} : Begin(d, g)
      BY <1>0, <2>2, <3>2, OtherCalls DEF Begin, Goto
    <3> QED
      BY <1>3, <3>1, <3>2 DEF Next
  <2>3. ASSUME NEW c \in Calls, pc'[c] = "verify" PROVE Held(c)'
    <3>1. PICK i \in DOMAIN platforms : platforms[i] = reg[c] /\ Claimed(arg[c], reg[c])
      BY <2>2, <2>3 DEF Backing, Held
    <3>2. arg[c] \in DOMAIN grants
      BY <2>2, <2>3 DEF Types, TypeOK
    <3>3. grants'[arg[c]] = grants[arg[c]] /\ i \in DOMAIN platforms' /\ platforms'[i] = platforms[i]
      BY <1>3, <3>1, <3>2, BackedKept
    <3> QED
      BY <2>2, <2>3, <3>1, <3>3 DEF Held, Claimed
  <2>4. ASSUME NEW c \in Calls, pc'[c] \in {"consume", "mint"} PROVE Backed(arg[c])'
    <3>1. arg[c] \in DOMAIN grants /\ Backed(arg[c]) /\ arg'[c] = arg[c]
      BY <2>2, <2>4 DEF Types, TypeOK, Backing
    <3> QED
      BY <1>3, <3>1, BackedKept DEF Backed
  <2>5. ASSUME NEW g \in Grants, tokens'[g] > 0 PROVE g \in DOMAIN grants' /\ Backed(g)'
    BY <1>3, <2>1, <2>5, BackedKept DEF Backing
  <2> QED
    BY <2>3, <2>4, <2>5 DEF Backing
<1> QED
  BY <1>1, <1>2, <1>3

\* A grant that bought an access token was signed by a platform registered for
\* its issuer and its tenant, however registrations and exchanges interleave.
THEOREM TokensAreVouchedFor == Spec => []TokenVouchedFor
<1>1. Backing => TokenVouchedFor
  BY DEF Backing, Backed, TokenVouchedFor
<1> QED
  BY <1>1, TypesAlways, BackingInit, BackingStep, PTL DEF Spec

-----------------------------------------------------------------------------
(***************************************************************************)
(* Ambiguity.  A call knows the registrations up to where it began; those  *)
(* are never changed, so what Match counted it may go on counting.         *)
(***************************************************************************)

\* The registrations that matched when the call began.
MatchedThen(c) == {i \in Matching(arg[c]) : i <= begun[c]}

Unambiguous == \A c \in Calls :
  pc[c] \in {"verify", "consume", "mint", "granted"} => Cardinality(MatchedThen(c)) <= 1

LEMMA MatchingFinite ==
  ASSUME Types, NEW g
  PROVE  IsFiniteSet(Matching(g)) /\ Cardinality(Matching(g)) \in Nat
<1>1. Matching(g) \subseteq 1..Len(platforms) /\ Len(platforms) \in Nat
  BY DEF Types, TypeOK, Matching
<1>2. IsFiniteSet(1..Len(platforms))
  BY <1>1, FS_Interval
<1> QED
  BY <1>1, <1>2, FS_Subset, FS_CardinalityType

LEMMA UnambiguousStep == Types /\ Unambiguous /\ [Next]_vars => Unambiguous'
<1> SUFFICES ASSUME Types, Unambiguous, [Next]_vars, NEW c \in Calls,
                    pc'[c] \in {"verify", "consume", "mint", "granted"}
             PROVE  Cardinality(MatchedThen(c)') <= 1
  BY DEF Unambiguous
<1>0. DOMAIN pc = Calls
  BY DEF Types, TypeOK
<1>1. ~Restart
  BY DEF Restart
<1>2. CASE Match(c)
  <2>1. /\ Cardinality(Matching(arg[c])) = 1
        /\ UNCHANGED <<grants, platforms, arg, begun>>
    BY <1>0, <1>2 DEF Match, Goto
  <2>2. MatchedThen(c)' = MatchedThen(c) /\ MatchedThen(c) \subseteq Matching(arg[c])
    BY <2>1 DEF MatchedThen, Matching, Claimed
  <2>3. /\ Cardinality(MatchedThen(c)) <= Cardinality(Matching(arg[c]))
        /\ Cardinality(MatchedThen(c)) \in Nat
    BY <2>2, MatchingFinite, FS_Subset, FS_CardinalityType
  <2> QED
    BY <2>1, <2>2, <2>3
<1>3. CASE ~Match(c)
  <2>1. /\ pc[c] \in {"verify", "consume", "mint", "granted"}
        /\ arg'[c] = arg[c] /\ begun'[c] = begun[c]
    <3>1. CASE Signing \/ (\E r \in Registrations : RegisterPlatform(r)) \/ Tick \/ UNCHANGED vars
      BY <3>1, SigningFacts, RegisterFacts DEF Tick, vars, calls
    <3>2. CASE \E g \in Grants \cup {Nil} : Begin(c, g)
      BY <1>0, <3>2 DEF Begin, Goto
    <3>3. CASE Step(c)
      BY <1>0, <1>3, <3>3 DEF Step, Verify, Consume, Mint, Return, Goto
    <3>4. ASSUME NEW d \in Calls \ {c}, (\E g \in Grants \cup {Nil} : Begin(d, g)) \/ Step(d)
          PROVE  pc'[c] = pc[c] /\ arg'[c] = arg[c] /\ begun'[c] = begun[c]
      BY <3>4, OtherCalls
    <3> QED
      BY <1>1, <3>1, <3>2, <3>3, <3>4 DEF Next
  <2>2. arg[c] \in DOMAIN grants /\ begun[c] <= Len(platforms)
    BY <2>1 DEF Types, TypeOK
  <2>3. grants'[arg[c]] = grants[arg[c]]
    BY <1>1, <2>2, BackedKept
  <2>4. /\ DOMAIN platforms \subseteq DOMAIN platforms'
        /\ \A i \in DOMAIN platforms : platforms'[i] = platforms[i]
        /\ \A i \in DOMAIN platforms' : i <= begun[c] => i \in DOMAIN platforms
    <3>1. CASE \E r \in Registrations : RegisterPlatform(r)
      <4>1. /\ DOMAIN platforms = 1..Len(platforms) /\ DOMAIN platforms' = 1..(Len(platforms) + 1)
            /\ Len(platforms) \in Nat /\ begun[c] \in Nat
            /\ \A i \in DOMAIN platforms : platforms'[i] = platforms[i]
        BY <3>1, RegisterFacts DEF Types
      <4> QED
        BY <2>2, <4>1
    <3>2. CASE ~\E r \in Registrations : RegisterPlatform(r)
      <4>1. platforms' = platforms
        BY <1>1, <3>2, SigningFacts
           DEF Next, Begin, Step, Match, Verify, Consume, Mint, Return, Tick, vars
      <4> QED
        BY <4>1
    <3> QED
      BY <3>1, <3>2
  <2>5. MatchedThen(c)' = MatchedThen(c)
    BY <2>1, <2>3, <2>4 DEF MatchedThen, Matching, Claimed
  <2> QED
    BY <2>1, <2>5 DEF Unambiguous
<1> QED
  BY <1>2, <1>3

\* Once two registrations match a grant, no call that begins afterwards gets a
\* token for it.
THEOREM AmbiguousGrantsRefused == Spec => []AmbiguityRefused
<1>1. Init => Unambiguous
  BY DEF Init, Unambiguous
<1>2. Unambiguous => AmbiguityRefused
  BY DEF Unambiguous, MatchedThen, AmbiguityRefused
<1> QED
  BY <1>1, <1>2, TypesAlways, UnambiguousStep, PTL DEF Spec

-----------------------------------------------------------------------------
(***************************************************************************)
(* Tokens and consumptions.  Calls that are at one place with one grant.   *)
(***************************************************************************)
At(where, g) == {c \in Calls : pc[c] = where /\ arg[c] = g}

LEMMA AtFinite ==
  ASSUME NEW where, NEW g
  PROVE  /\ IsFiniteSet(At(where, g)) /\ IsFiniteSet(At(where, g)')
         /\ Cardinality(At(where, g)) \in Nat /\ Cardinality(At(where, g)') \in Nat
         /\ Cardinality(Calls) \in Nat
         /\ Cardinality(At(where, g)) <= Cardinality(Calls)
         /\ Cardinality(At(where, g)') <= Cardinality(Calls)
<1>1. At(where, g) \subseteq Calls /\ At(where, g)' \subseteq Calls
  BY DEF At
<1> QED
  BY <1>1, FS_Subset, FS_CardinalityType

Covered(g) == tokens[g] + Cardinality(At("mint", g)) <= live[g] + late[g]

\* Consume: the call goes on to mint exactly if it is counted.
LEMMA CoveredConsume ==
  ASSUME Types, NEW c \in Calls, Consume(c), NEW g \in Grants, Covered(g)
  PROVE  Covered(g)'
<1> DEFINE hit == Replayed(usedJTIs, grants[arg[c]].jti, clock)
<1>1. /\ pc[c] = "consume" /\ pc' = [pc EXCEPT ![c] = IF hit THEN "refused" ELSE "mint"]
      /\ arg' = arg /\ tokens' = tokens
      /\ DOMAIN pc = Calls
  BY DEF Consume, Goto, Types, TypeOK
<1>2. /\ live \in [Grants -> Nat] /\ late \in [Grants -> Nat] /\ tokens \in [Grants -> Nat]
      /\ clock \in Nat /\ arg[c] \in Grants /\ grants[arg[c]].exp \in Int
  BY DEF Consume, Types, TypeOK
<1>3. \/ live' = live /\ late' = late /\ hit
      \/ live' = [live EXCEPT ![arg[c]] = @ + 1] /\ late' = late /\ ~hit
      \/ live' = live /\ late' = [late EXCEPT ![arg[c]] = @ + 1] /\ ~hit
  BY <1>2 DEF Consume
<1> HIDE DEF hit
<1>4. CASE hit \/ arg[c] # g
  <2>1. live'[g] = live[g] /\ late'[g] = late[g] /\ At("mint", g)' = At("mint", g)
    BY <1>1, <1>2, <1>3, <1>4 DEF At
  <2> QED
    BY <1>1, <2>1 DEF Covered
<1>5. CASE ~hit /\ arg[c] = g
  <2>1. live'[g] + late'[g] = live[g] + late[g] + 1
    BY <1>2, <1>3, <1>5
  <2>2. At("mint", g)' = At("mint", g) \cup {c} /\ c \notin At("mint", g)
    BY <1>1, <1>5 DEF At
  <2>3. Cardinality(At("mint", g)') = Cardinality(At("mint", g)) + 1
    BY <2>2, AtFinite, FS_AddElement
  <2>4. /\ tokens[g] \in Nat /\ live[g] \in Nat /\ late[g] \in Nat
        /\ Cardinality(At("mint", g)) \in Nat
    BY <1>2, AtFinite
  <2>5. tokens[g] + (Cardinality(At("mint", g)) + 1) <= live[g] + late[g] + 1
    BY <2>4 DEF Covered
  <2> QED
    BY <1>1, <2>1, <2>3, <2>5, Zenon DEF Covered
<1> QED
  BY <1>4, <1>5

\* Mint: one call fewer is about to mint, and there is one token more if the
\* minting does not fail.
LEMMA CoveredMint ==
  ASSUME Types, NEW c \in Calls, Mint(c), NEW g \in Grants, Covered(g)
  PROVE  Covered(g)'
<1>1. /\ pc[c] = "mint" /\ pc' = [pc EXCEPT ![c] = pc'[c]] /\ pc'[c] # "mint"
      /\ DOMAIN pc = Calls
      /\ tokens' = [tokens EXCEPT ![arg[c]] = @ + 1] \/ tokens' = tokens
      /\ arg' = arg /\ live' = live /\ late' = late
      /\ tokens \in [Grants -> Nat] /\ live \in [Grants -> Nat] /\ late \in [Grants -> Nat]
  BY DEF Mint, Goto, Types, TypeOK
<1>2. At("mint", g)' = At("mint", g) \ {c}
  BY <1>1 DEF At
<1>3. CASE arg[c] = g
  <2>1. c \in At("mint", g) /\ tokens'[g] \in {tokens[g], tokens[g] + 1}
    BY <1>1, <1>3 DEF At
  <2>2. Cardinality(At("mint", g)') = Cardinality(At("mint", g)) - 1
    BY <1>2, <2>1, AtFinite, FS_RemoveElement
  <2>3. tokens[g] \in Nat /\ Cardinality(At("mint", g)) \in Nat
    BY <1>1, AtFinite
  <2>4. live[g] \in Nat /\ late[g] \in Nat
        /\ tokens[g] + Cardinality(At("mint", g)) <= live[g] + late[g]
    BY <1>1 DEF Covered
  <2>5. tokens'[g] + Cardinality(At("mint", g)') <= live[g] + late[g]
    BY <2>1, <2>2, <2>3, <2>4
  <2> QED
    BY <1>1, <2>5, Zenon DEF Covered
<1>4. CASE arg[c] # g
  <2>1. tokens'[g] = tokens[g] /\ At("mint", g)' = At("mint", g)
    BY <1>1, <1>2, <1>4 DEF At
  <2> QED
    BY <1>1, <2>1 DEF Covered
<1> QED
  BY <1>3, <1>4

\* A step that counts nothing and moves no call to or from its minting.
LEMMA MintersKept ==
  ASSUME Types, [Next]_vars, ~Restart, \A c \in Calls : ~Consume(c) /\ ~Mint(c)
  PROVE  /\ UNCHANGED <<live, late, tokens>>
         /\ \A g : At("mint", g)' = At("mint", g)
<1>0. DOMAIN pc = Calls
  BY DEF Types, TypeOK
<1>1. CASE Signing \/ (\E r \in Registrations : RegisterPlatform(r)) \/ Tick \/ UNCHANGED vars
  <2>1. UNCHANGED <<pc, arg, live, late, tokens>>
    BY <1>1, SigningFacts, RegisterFacts DEF Tick, vars, calls, uses
  <2> QED
    BY <2>1 DEF At
<1>2. ASSUME NEW c \in Calls,
             (\E g \in Grants \cup {Nil} : Begin(c, g)) \/ Match(c) \/ Verify(c) \/ Return(c)
      PROVE  /\ UNCHANGED <<live, late, tokens>>
             /\ \A g : At("mint", g)' = At("mint", g)
  <2>1. pc[c] # "mint" /\ pc'[c] # "mint" /\ UNCHANGED <<live, late, tokens>>
    BY <1>0, <1>2 DEF Begin, Match, Verify, Return, Goto, uses
  <2>2. \A d \in Calls \ {c} : pc'[d] = pc[d] /\ arg'[d] = arg[d]
    BY <1>2, OtherCalls DEF Step
  <2> QED
    BY <2>1, <2>2 DEF At
<1> QED
  BY <1>1, <1>2 DEF Next, Step

LEMMA CoveredStep ==
  Types /\ TokensPaidFor /\ [Next]_vars => TokensPaidFor'
<1> SUFFICES ASSUME Types, TokensPaidFor, [Next]_vars, NEW g \in Grants
             PROVE  Covered(g)'
  BY DEF TokensPaidFor, Covered, At
<1>0. Covered(g)
  BY DEF TokensPaidFor, Covered, At
<1>1. CASE \E c \in Calls : Consume(c) \/ Mint(c)
  BY <1>0, <1>1, CoveredConsume, CoveredMint
<1>2. CASE Restart
  <2>1. At("mint", g)' = {} /\ tokens'[g] = 0 /\ live'[g] = 0 /\ late'[g] = 0
    BY <1>2 DEF Restart, None, At
  <2>2. Cardinality(At("mint", g)') = 0
    BY <2>1, FS_EmptySet
  <2> QED
    BY <2>1, <2>2 DEF Covered
<1>3. CASE ~Restart /\ \A c \in Calls : ~Consume(c) /\ ~Mint(c)
  BY <1>0, <1>3, MintersKept DEF Covered
<1> QED
  BY <1>1, <1>2, <1>3

LEMMA CoveredInit == Init => TokensPaidFor
<1> SUFFICES ASSUME Init, NEW g \in Grants PROVE Covered(g)
  BY DEF TokensPaidFor, Covered, At
<1>1. At("mint", g) = {} /\ tokens[g] = 0 /\ live[g] = 0 /\ late[g] = 0
  BY DEF Init, None, At
<1> QED
  BY <1>1, FS_EmptySet DEF Covered

\* No access token without a consumption of its grant's jti of its own, whether
\* mintings fail or not.
THEOREM TokensArePaidFor == Spec => []TokensPaidFor
BY TypesAlways, CoveredInit, CoveredStep, PTL DEF Spec

-----------------------------------------------------------------------------
(***************************************************************************)
(* The promise.  That a grant is used once while it is live needs that its *)
(* jti stays in the map under its own expiry until then, although other    *)
(* platforms may use the same jti; that it is used late at most once per   *)
(* call needs that only a live grant gets as far as consume.               *)
(***************************************************************************)
SpentOf(g) ==
  /\ live[g] + late[g] > 0 => g \in DOMAIN grants /\ grants[g].jti # Nil
  /\ live[g] <= 1
  /\ live[g] > 0 /\ clock <= grants[g].exp =>
       grants[g].jti \in DOMAIN usedJTIs /\ usedJTIs[grants[g].jti] = grants[g].exp
  /\ late[g] > 0 => clock > grants[g].exp
  /\ late[g] + Cardinality(At("consume", g)) <= Cardinality(Calls)

Spent == \A g \in Grants : SpentOf(g)

LEMMA SpentInit == Init => Spent
<1> SUFFICES ASSUME Init, NEW g \in Grants PROVE SpentOf(g)
  BY DEF Spent
<1>1. live[g] = 0 /\ late[g] = 0
  BY DEF Init, None
<1> QED
  BY <1>1, AtFinite DEF SpentOf

\* A step that counts nothing for a grant, keeps its jti and lets no further
\* call reach its consumption once that is counted late.
LEMMA SpentFrame ==
  ASSUME Types, Spent, NEW g \in Grants,
         live'[g] = live[g], late'[g] = late[g], clock' \in Nat, clock <= clock',
         g \in DOMAIN grants => g \in DOMAIN grants' /\ grants'[g] = grants[g],
         live[g] > 0 /\ clock' <= grants[g].exp /\ grants[g].jti \in DOMAIN usedJTIs =>
           /\ grants[g].jti \in DOMAIN usedJTIs'
           /\ usedJTIs'[grants[g].jti] = usedJTIs[grants[g].jti],
         late[g] > 0 => At("consume", g)' \subseteq At("consume", g)
  PROVE  SpentOf(g)'
<1>1. /\ SpentOf(g) /\ clock \in Nat /\ live[g] \in Nat /\ late[g] \in Nat
      /\ g \in DOMAIN grants => grants[g].exp \in Int
  BY DEF Spent, Types, TypeOK
<1>2. late'[g] + Cardinality(At("consume", g)') <= Cardinality(Calls)
  <2>1. CASE late[g] = 0
    BY <2>1, AtFinite
  <2>2. CASE late[g] # 0
    <3>1. Cardinality(At("consume", g)') <= Cardinality(At("consume", g))
      BY <1>1, <2>2, AtFinite, FS_Subset
    <3> QED
      BY <1>1, <3>1, AtFinite DEF SpentOf
  <2> QED
    BY <2>1, <2>2
<1>3. CASE live[g] + late[g] = 0
  BY <1>1, <1>2, <1>3 DEF SpentOf
<1>4. CASE live[g] + late[g] # 0
  <2>1. g \in DOMAIN grants /\ grants'[g] = grants[g] /\ g \in DOMAIN grants'
    BY <1>1, <1>4 DEF SpentOf
  <2>2. clock' <= grants[g].exp => clock <= grants[g].exp
    BY <1>1, <2>1
  <2>3. clock > grants[g].exp => clock' > grants[g].exp
    BY <1>1, <2>1
  <2> QED
    BY <1>1, <1>2, <2>1, <2>2, <2>3 DEF SpentOf
<1> QED
  BY <1>3, <1>4

\* The facts of a consumption: who is counted, and that a live grant counted
\* before is a hit.
LEMMA ConsumeFacts ==
  ASSUME Types, Spent, NEW c \in Calls, Consume(c)
  PROVE  LET g == arg[c]
             hit == Replayed(usedJTIs, grants[g].jti, clock)
         IN /\ g \in DOMAIN grants /\ g \in Grants /\ grants[g].jti # Nil
            /\ grants[g].exp \in Int /\ clock \in Nat
            /\ UNCHANGED <<clock, grants, arg>>
            /\ pc[c] = "consume" /\ pc'[c] # "consume"
            /\ hit => live' = live /\ late' = late
            /\ ~hit /\ clock <= grants[g].exp =>
                 live' = [live EXCEPT ![g] = @ + 1] /\ late' = late
            /\ ~hit /\ clock > grants[g].exp =>
                 live' = live /\ late' = [late EXCEPT ![g] = @ + 1]
            /\ live[g] > 0 /\ clock <= grants[g].exp => hit
            /\ ~hit => /\ grants[g].jti \in DOMAIN usedJTIs'
                       /\ usedJTIs'[grants[g].jti] = grants[g].exp
            /\ \A j \in DOMAIN usedJTIs : clock <= usedJTIs[j] =>
                 j \in DOMAIN usedJTIs' /\ usedJTIs'[j] = usedJTIs[j]
<1> DEFINE g == arg[c]
           jti == grants[g].jti
           hit == Replayed(usedJTIs, jti, clock)
           r == Recorded(usedJTIs, jti, grants[g].exp, clock)
<1>1. /\ g \in DOMAIN grants /\ g \in Grants /\ jti # Nil /\ grants[g].exp \in Int /\ clock \in Nat
      /\ UNCHANGED <<clock, grants, arg>> /\ pc[c] = "consume" /\ pc'[c] # "consume"
  BY DEF Consume, Goto, Types, TypeOK
<1>2. /\ usedJTIs' = r
      /\ live' = IF ~hit /\ clock <= grants[g].exp THEN [live EXCEPT ![g] = @ + 1] ELSE live
      /\ late' = IF ~hit /\ clock > grants[g].exp THEN [late EXCEPT ![g] = @ + 1] ELSE late
  BY DEF Consume
<1>3. /\ jti \in DOMAIN r
      /\ \A k \in DOMAIN usedJTIs : clock <= usedJTIs[k] => k \in DOMAIN r
      /\ \A k \in DOMAIN r : k # jti => k \in DOMAIN usedJTIs /\ r[k] = usedJTIs[k]
      /\ hit => jti \in DOMAIN usedJTIs /\ r[jti] = usedJTIs[jti]
      /\ ~hit => r[jti] = grants[g].exp
  BY RecordedFacts
<1>4. hit <=> jti \in DOMAIN usedJTIs /\ clock <= usedJTIs[jti]
  <2>1. DOMAIN Swept(usedJTIs, clock) = {k \in DOMAIN usedJTIs : clock <= usedJTIs[k]}
    BY SweptFacts
  <2> QED
    BY <2>1 DEF Replayed
<1>5. live[g] > 0 /\ clock <= grants[g].exp => hit
  BY <1>1, <1>4 DEF Spent, SpentOf
<1> HIDE DEF hit, r
<1>6. \A j \in DOMAIN usedJTIs : clock <= usedJTIs[j] =>
        j \in DOMAIN r /\ r[j] = usedJTIs[j]
  BY <1>3, <1>4
<1>7. /\ hit => live' = live /\ late' = late
      /\ ~hit /\ clock <= grants[g].exp => live' = [live EXCEPT ![g] = @ + 1] /\ late' = late
      /\ ~hit /\ clock > grants[g].exp => live' = live /\ late' = [late EXCEPT ![g] = @ + 1]
  BY <1>1, <1>2
<1> QED
  BY <1>1, <1>2, <1>3, <1>5, <1>6, <1>7 DEF hit

LEMMA SpentConsume ==
  ASSUME Types, Spent, NEW c \in Calls, Consume(c), NEW k \in Grants
  PROVE  SpentOf(k)'
<1>0. arg[c] \in Grants
  BY ConsumeFacts
<1>g. PICK g \in Grants : g = arg[c]
  BY <1>0
<1> DEFINE hit == Replayed(usedJTIs, grants[g].jti, clock)
<1>1. /\ g \in DOMAIN grants /\ g \in Grants /\ grants[g].jti # Nil
      /\ grants[g].exp \in Int /\ clock \in Nat
      /\ UNCHANGED <<clock, grants, arg>>
      /\ pc[c] = "consume" /\ pc'[c] # "consume"
      /\ hit => live' = live /\ late' = late
      /\ ~hit /\ clock <= grants[g].exp =>
           live' = [live EXCEPT ![g] = @ + 1] /\ late' = late
      /\ ~hit /\ clock > grants[g].exp =>
           live' = live /\ late' = [late EXCEPT ![g] = @ + 1]
      /\ live[g] > 0 /\ clock <= grants[g].exp => hit
      /\ ~hit => /\ grants[g].jti \in DOMAIN usedJTIs'
                 /\ usedJTIs'[grants[g].jti] = grants[g].exp
      /\ \A j \in DOMAIN usedJTIs : clock <= usedJTIs[j] =>
           j \in DOMAIN usedJTIs' /\ usedJTIs'[j] = usedJTIs[j]
  BY ConsumeFacts, <1>g
<1> HIDE DEF hit
<1>2. /\ live \in [Grants -> Nat] /\ late \in [Grants -> Nat] /\ SpentOf(k)
      /\ \A d \in Calls \ {c} : pc'[d] = pc[d]
  BY OtherCalls DEF Types, TypeOK, Spent, Step
<1>3. /\ At("consume", g)' = At("consume", g) \ {c} /\ c \in At("consume", g)
      /\ k # g => At("consume", k)' = At("consume", k)
  BY <1>1, <1>2, <1>g DEF At
<1>4. CASE k # g \/ hit
  <2>1. live'[k] = live[k] /\ late'[k] = late[k]
    BY <1>1, <1>2, <1>4
  <2>2. live[k] > 0 /\ clock <= grants[k].exp =>
          grants[k].jti \in DOMAIN usedJTIs /\ usedJTIs[grants[k].jti] = grants[k].exp
    BY <1>2 DEF SpentOf
  <2>3. live[k] > 0 /\ clock' <= grants[k].exp /\ grants[k].jti \in DOMAIN usedJTIs =>
          /\ grants[k].jti \in DOMAIN usedJTIs'
          /\ usedJTIs'[grants[k].jti] = usedJTIs[grants[k].jti]
    BY <1>1, <2>2
  <2>4. At("consume", k)' \subseteq At("consume", k)
    BY <1>3
  <2> QED
    BY <1>1, <2>1, <2>3, <2>4, SpentFrame
<1>5. CASE k = g /\ ~hit /\ clock <= grants[g].exp
  <2>1. /\ live[g] = 0 /\ live'[g] = 1 /\ late'[g] = late[g]
    BY <1>1, <1>2, <1>5
  <2>2. late[g] = 0
    BY <1>1, <1>2, <1>5 DEF SpentOf
  <2> QED
    BY <1>1, <1>5, <2>1, <2>2, AtFinite DEF SpentOf
<1>6. CASE k = g /\ ~hit /\ clock > grants[g].exp
  <2>1. live'[g] = live[g] /\ late'[g] = late[g] + 1
    BY <1>1, <1>2, <1>6
  <2>2. Cardinality(At("consume", g)') = Cardinality(At("consume", g)) - 1
    BY <1>3, AtFinite, FS_RemoveElement
  <2>3. late'[g] + Cardinality(At("consume", g)') <= Cardinality(Calls)
    <3>1. /\ late[g] \in Nat /\ Cardinality(At("consume", g)) \in Nat
          /\ late[g] + Cardinality(At("consume", g)) <= Cardinality(Calls)
          /\ Cardinality(Calls) \in Nat
      BY <1>1, <1>2, <1>6, AtFinite DEF SpentOf
    <3> QED
      BY <2>1, <2>2, <3>1
  <2>4. ~(clock <= grants[g].exp)
    BY <1>1, <1>6
  <2> QED
    BY <1>1, <1>2, <1>6, <2>1, <2>3, <2>4 DEF SpentOf
<1>7. clock <= grants[g].exp \/ clock > grants[g].exp
  BY <1>1
<1> QED
  BY <1>4, <1>5, <1>6, <1>7

LEMMA SpentStep == Types /\ Spent /\ [Next]_vars => Spent'
<1> SUFFICES ASSUME Types, Spent, [Next]_vars, NEW g \in Grants PROVE SpentOf(g)'
  BY DEF Spent
<1>0. /\ DOMAIN pc = Calls /\ clock \in Nat /\ SpentOf(g) /\ live[g] \in Nat /\ late[g] \in Nat
      /\ g \in DOMAIN grants => grants[g].exp \in Int
  BY DEF Types, TypeOK, Spent
<1>1. CASE \E c \in Calls : Consume(c)
  BY <1>1, SpentConsume
<1>2. CASE Restart
  <2>1. live'[g] = 0 /\ late'[g] = 0 /\ At("consume", g)' = {}
    BY <1>2 DEF Restart, None, At
  <2>2. Cardinality(At("consume", g)') = 0
    BY <2>1, FS_EmptySet
  <2> QED
    BY <2>1, <2>2, AtFinite DEF SpentOf
<1>3. CASE ~Restart /\ \A c \in Calls : ~Consume(c)
  <2>1. UNCHANGED <<live, late, usedJTIs>>
    BY <1>3, SigningFacts, RegisterFacts
       DEF Next, Begin, Step, Match, Verify, Mint, Return, Tick, vars, uses
  <2>2. clock' \in Nat /\ clock <= clock'
    BY <1>0, <1>3, SigningFacts, RegisterFacts
       DEF Next, Begin, Step, Match, Verify, Mint, Return, Tick, vars
  <2>3. g \in DOMAIN grants => g \in DOMAIN grants' /\ grants'[g] = grants[g]
    BY <1>3, BackedKept
  <2>4. late[g] > 0 => At("consume", g)' \subseteq At("consume", g)
    <3> SUFFICES ASSUME late[g] > 0, NEW c \in Calls, pc'[c] = "consume", arg'[c] = g
                 PROVE  pc[c] = "consume" /\ arg[c] = g
      BY DEF At
    <3>1. CASE Signing \/ (\E r \in Registrations : RegisterPlatform(r)) \/ Tick \/ UNCHANGED vars
      BY <3>1, SigningFacts, RegisterFacts DEF Tick, vars, calls
    <3>2. CASE Verify(c)
      <4>1. arg[c] = g /\ clock < grants[g].exp
        BY <1>0, <3>2 DEF Verify, Goto, Genuine
      <4>2. g \in DOMAIN grants /\ clock > grants[g].exp
        BY <1>0 DEF SpentOf
      <4> QED
        BY <1>0, <4>1, <4>2
    <3>3. CASE (\E h \in Grants \cup {Nil} : Begin(c, h)) \/ Match(c) \/ Mint(c) \/ Return(c)
      BY <1>0, <3>3 DEF Begin, Match, Mint, Return, Goto
    <3>4. ASSUME NEW d \in Calls \ {c}, (\E h \in Grants \cup {Nil} : Begin(d, h)) \/ Step(d)
          PROVE  pc'[c] = pc[c] /\ arg'[c] = arg[c]
      BY <3>4, OtherCalls
    <3> QED
      BY <1>3, <3>1, <3>2, <3>3, <3>4 DEF Next, Step
  <2> QED
    BY <2>1, <2>2, <2>3, <2>4, SpentFrame
<1> QED
  BY <1>1, <1>2, <1>3

LEMMA SpentAlways == Spec => [](Types /\ Spent)
BY TypesAlways, SpentInit, SpentStep, PTL DEF Spec

-----------------------------------------------------------------------------
\* The refinement mapping.
expiryOf == [g \in DOMAIN grants |-> grants[g].exp]
usesOf == [s \in {"server"} |-> [g \in Grants |-> live[g] + late[g]]]

LEMMA PromiseInit == Init => Promise!Init
<1> SUFFICES ASSUME Init PROVE Promise!Init
  OBVIOUS
<1>1. usesOf = [s \in {"server"} |-> [g \in Grants |-> 0]]
  BY DEF Init, usesOf, None
<1>2. expiryOf = [g \in {} |-> 0]
  BY DEF Init, expiryOf
<1> QED
  BY <1>1, <1>2 DEF Init, Promise!Init, Promise!Unused, usesOf, expiryOf

LEMMA PromiseSign == ASSUME Types, Signing PROVE [Promise!Next]_Promise!vars
<1>1. PICK g \in Grants : g \notin DOMAIN grants /\ DOMAIN grants' = DOMAIN grants \cup {g}
  BY SigningFacts
<1>2. /\ UNCHANGED <<clock, live, late>> /\ usesOf' = usesOf
      /\ \A h \in DOMAIN grants : grants'[h] = grants[h]
  BY SigningFacts DEF uses, usesOf
<1>3. Promise!Mint(g)
  BY <1>1, <1>2 DEF Promise!Mint, usesOf
<1> QED
  BY <1>3 DEF Promise!Next

LEMMA PromiseConsume ==
  ASSUME Types, Spent, NEW c \in Calls, Consume(c)
  PROVE  [Promise!Next]_Promise!vars
<1> DEFINE hit == Replayed(usedJTIs, grants[arg[c]].jti, clock)
<1>0. arg[c] \in Grants
  BY ConsumeFacts
<1>g. PICK g \in Grants : g = arg[c]
  BY <1>0
<1>1. /\ g \in DOMAIN grants /\ grants[g].exp \in Int /\ clock \in Nat
      /\ UNCHANGED <<clock, grants>> /\ pc[c] = "consume"
      /\ hit => live' = live /\ late' = late
      /\ ~hit /\ clock <= grants[g].exp =>
           live' = [live EXCEPT ![g] = @ + 1] /\ late' = late
      /\ ~hit /\ clock > grants[g].exp =>
           live' = live /\ late' = [late EXCEPT ![g] = @ + 1]
      /\ live[g] > 0 /\ clock <= grants[g].exp => hit
  BY ConsumeFacts, <1>g
<1> HIDE DEF hit
<1>2. /\ live \in [Grants -> Nat] /\ late \in [Grants -> Nat] /\ SpentOf(g)
      /\ \A k \in Grants : usesOf["server"][k] = live[k] + late[k]
      /\ expiryOf[g] = grants[g].exp /\ g \in DOMAIN expiryOf /\ expiryOf' = expiryOf
  BY <1>1 DEF Types, TypeOK, Spent, usesOf, expiryOf
<1>3. CASE hit
  <2>1. UNCHANGED <<clock, grants, live, late>>
    BY <1>1, <1>3
  <2> QED
    BY <2>1 DEF Promise!vars
<1>4. CASE ~hit
  <2>1. \A k \in Grants :
          live'[k] + late'[k] = IF k = g THEN live[k] + late[k] + 1 ELSE live[k] + late[k]
    BY <1>1, <1>2, <1>4
  <2>2. usesOf' = [usesOf EXCEPT !["server"][g] = @ + 1]
    BY <2>1 DEF usesOf
  <2>3. CASE clock <= grants[g].exp
    <3>1. live[g] = 0 /\ late[g] = 0
      BY <1>1, <1>2, <1>4, <2>3 DEF SpentOf
    <3>2. usesOf["server"][g] = 0 /\ usesOf["server"][g] + 1 = 1
      BY <1>2, <3>1
    <3>3. usesOf' = [usesOf EXCEPT !["server"][g] = 1]
      BY <2>2, <3>2, Zenon
    <3>4. Promise!UseLive("server", g)
      BY <1>1, <1>2, <2>3, <3>2, <3>3 DEF Promise!UseLive, usesOf, expiryOf
    <3> QED
      BY <3>4 DEF Promise!Next
  <2>4. CASE clock > grants[g].exp
    <3>1. c \in At("consume", g)
      BY <1>1, <1>g DEF At
    <3>2. Cardinality(At("consume", g)) # 0
      BY <3>1, AtFinite, FS_EmptySet
    <3>3. usesOf["server"][g] <= Cardinality(Calls)
      <4>1. /\ live[g] \in Nat /\ late[g] \in Nat /\ live[g] <= 1
            /\ late[g] + Cardinality(At("consume", g)) <= Cardinality(Calls)
            /\ Cardinality(At("consume", g)) \in Nat /\ Cardinality(Calls) \in Nat
        BY <1>2, AtFinite DEF SpentOf
      <4> QED
        BY <1>2, <3>2, <4>1
    <3>4. Promise!UseLate("server", g)
      BY <1>1, <1>2, <2>2, <2>4, <3>3 DEF Promise!UseLate, usesOf, expiryOf
    <3> QED
      BY <3>4 DEF Promise!Next
  <2> QED
    BY <1>1, <2>3, <2>4
<1> QED
  BY <1>3, <1>4

LEMMA PromiseStep == Types /\ Spent /\ [Next]_vars => [Promise!Next]_Promise!vars
<1> SUFFICES ASSUME Types, Spent, [Next]_vars PROVE [Promise!Next]_Promise!vars
  OBVIOUS
<1>1. CASE Signing
  BY <1>1, PromiseSign
<1>2. CASE \E c \in Calls : Consume(c)
  BY <1>2, PromiseConsume
<1>3. CASE Tick
  <2>1. clock' = clock + 1 /\ clock \in Nat /\ UNCHANGED <<grants, live, late>>
    BY <1>3 DEF Tick, uses, Types, TypeOK
  <2>2. Promise!Elapse
    BY <2>1 DEF Promise!Elapse
  <2> QED
    BY <2>2 DEF Promise!Next
<1>4. CASE Restart
  <2>1. /\ UNCHANGED <<clock, grants>>
        /\ \A g \in Grants : live'[g] + late'[g] = 0
    BY <1>4 DEF Restart, None
  <2>2. usesOf' = [usesOf EXCEPT !["server"] = [g \in Grants |-> 0]]
    BY <2>1 DEF usesOf
  <2>3. Promise!Forget("server")
    BY <2>1, <2>2 DEF Promise!Forget, Promise!Unused, usesOf
  <2> QED
    BY <2>3 DEF Promise!Next
<1>5. CASE /\ ~Signing /\ ~Tick /\ ~Restart
           /\ \A c \in Calls : ~Consume(c)
  <2>1. UNCHANGED <<clock, grants, live, late>>
    BY <1>5, RegisterFacts DEF Next, Begin, Step, Match, Verify, Mint, Return, vars, uses
  <2> QED
    BY <2>1 DEF Promise!vars
<1> QED
  BY <1>1, <1>2, <1>3, <1>4, <1>5

\* An authorization server uses a grant as ProofUse allows: once up to its
\* expiry, afterwards only by calls that were under way.
THEOREM GrantsKeepPromise == Spec => ImplementsPromise
BY SpentAlways, PromiseInit, PromiseStep, PTL DEF Spec, ImplementsPromise, Promise!Spec
==============================================================================
