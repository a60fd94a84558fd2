---------------------------- MODULE WimseAuthProofs ----------------------------
(***************************************************************************)
(* Theorems about Wpt and WimseAuth, for any number of goroutines, stores, *)
(* proofs, requests, clients and WITs.                                     *)
(*                                                                         *)
(* Part 1 is about the validator whoever calls it, part 2 about the        *)
(* middleware: it calls the validator as Wpt allows, so the theorems of    *)
(* part 1 hold behind it, and with them what a handler may rely on.        *)
(***************************************************************************)
EXTENDS WimseAuth, ReplayStoreProofs, FiniteSetTheorems, TLAPS

USE WptAssumption

(***************************************************************************)
(* Part 1: Wpt.                                                            *)
(***************************************************************************)

-----------------------------------------------------------------------------
(* Type correctness. *)

LEMMA TypeInit == Init => TypeOK
BY DEF Init, TypeOK, Never, NoneSeen, PC, Tokens, Minted

LEMMA TypeMint == TypeOK /\ Mint => TypeOK'
<1> SUFFICES ASSUME TypeOK,
                    NEW t \in Tokens, NEW uri \in Uris, NEW wit \in Wits,
                    NEW key \in Keys, NEW txn \in Txns \cup {NoTxn},
                    NEW ttl \in TTLs, NEW skew \in Skews,
                    Generate(t, uri, wit, key, txn, ttl, skew)
             PROVE  TypeOK'
  BY DEF Mint
<1> DEFINE p == [aud |-> uri, wth |-> wit, tth |-> txn, key |-> key,
                 iat |-> clock + skew, exp |-> clock + skew + Lifetime(ttl)]
<1>1. p \in Proof
  <2>1. clock + skew \in Int /\ Lifetime(ttl) \in Nat
    BY DEF TypeOK, Lifetime
  <2> QED
    BY <2>1 DEF Proof
<1>2. /\ DOMAIN proofs' = DOMAIN proofs \cup {t}
      /\ \A u \in DOMAIN proofs' : proofs'[u] = IF u = t THEN p ELSE proofs[u]
  BY DEF Generate
<1> HIDE DEF p
<1>3. DOMAIN proofs' \subseteq Tokens /\ \A u \in DOMAIN proofs' : proofs'[u] \in Proof
  BY <1>1, <1>2 DEF TypeOK
<1>4. Minted \subseteq Minted'
  BY <1>2 DEF Minted
<1> QED
  BY <1>2, <1>3, <1>4 DEF TypeOK, Generate

LEMMA TypeBegin == ASSUME NEW c \in Calls, NEW o \in Options, TypeOK, Begin(c, o)
                   PROVE  TypeOK'
BY DEF TypeOK, Begin, PC, Minted

LEMMA TypeCheck == ASSUME NEW c \in Calls, TypeOK, Check(c) PROVE TypeOK'
<1>1. Outcome(opts[c]) \in PC
  BY DEF Outcome, PC
<1>2. Outcome(opts[c]) \in {"read", "lock", "replayed"} =>
        opts[c].wpt \in Minted /\ opts[c].replay
  <2>1. opts[c] \in Options /\ opts[c].wpt \in DOMAIN proofs \cup {Nil}
    BY DEF TypeOK, Check
  <2>2. opts[c].wpt \in Tokens \cup {Nil} /\ opts[c].replay \in BOOLEAN
    BY <2>1 DEF Options
  <2> QED
    BY <2>1, <2>2 DEF Outcome, Minted, Tokens
<1> QED
  BY <1>1, <1>2 DEF TypeOK, Check, Minted

LEMMA TypeReadNow == ASSUME NEW c \in Calls, TypeOK, ReadNow(c) PROVE TypeOK'
BY DEF TypeOK, ReadNow, PC, Minted

LEMMA TypeRecord == ASSUME NEW c \in Calls, TypeOK, Record(c) PROVE TypeOK'
<1> DEFINE s == opts[c].store
           j == opts[c].wpt
           exp == proofs[j].exp
           r == Recorded(seen[s], j, exp, now[c])
<1>1. s \in Stores /\ j \in Minted /\ opts[c].replay
  BY DEF TypeOK, Record, Options
<1>2. DOMAIN r \subseteq DOMAIN seen[s] \cup {j}
  BY RecordedFacts
<1> HIDE DEF r
<1>3. seen' = [seen EXCEPT ![s] = r]
  BY DEF Record, r
<1>4. DOMAIN seen' = Stores /\ \A q \in Stores : DOMAIN seen'[q] \subseteq Minted'
  BY <1>1, <1>2, <1>3 DEF TypeOK, Record, Minted
<1>5. onTime' \in [Stores -> [Jtis -> Nat]] /\ late' \in [Stores -> [Jtis -> Nat]]
  BY <1>1 DEF TypeOK, Record, Minted
<1> QED
  BY <1>1, <1>4, <1>5 DEF TypeOK, Record, PC, Minted

LEMMA TypeReturn == ASSUME NEW c \in Calls, TypeOK, Return(c) PROVE TypeOK'
BY DEF TypeOK, Return, PC, Minted

LEMMA TypeTick == TypeOK /\ Tick => TypeOK'
BY DEF TypeOK, Tick, Minted

LEMMA TypeRestart == ASSUME NEW s \in Stores, TypeOK, Restart(s) PROVE TypeOK'
BY DEF TypeOK, Restart, PC, Minted, Never, NoneSeen

LEMMA TypeStep == TypeOK /\ [Next]_vars => TypeOK'
<1> SUFFICES ASSUME TypeOK, [Next]_vars PROVE TypeOK'
  OBVIOUS
<1>1. CASE Mint
  BY <1>1, TypeMint
<1>2. CASE \E c \in Calls, o \in Options : Begin(c, o)
  BY <1>2, TypeBegin
<1>3. CASE \E c \in Calls : Step(c)
  BY <1>3, TypeCheck, TypeReadNow, TypeRecord, TypeReturn DEF Step
<1>4. CASE Tick
  BY <1>4, TypeTick
<1>5. CASE \E s \in Stores : Restart(s)
  BY <1>5, TypeRestart
<1>6. CASE UNCHANGED vars
  BY <1>6 DEF vars, TypeOK, Minted
<1> QED
  BY <1>1, <1>2, <1>3, <1>4, <1>5, <1>6 DEF Next

\* The types of Wpt, and that a call past its checks holds a minted proof with
\* a jti, in every reachable state.
THEOREM TypeCorrect == Spec => []TypeOK
BY TypeInit, TypeStep, PTL DEF Spec

-----------------------------------------------------------------------------
(***************************************************************************)
(* At most once while live.  OnceWhileLive alone is not inductive: that a  *)
(* second Record refuses a live jti needs that the map still has it, which *)
(* needs that nobody sweeps with a time ahead of the clock.                *)
(***************************************************************************)
Inv == TypeOK /\ StoreRemembersLive /\ OnceWhileLive /\ ReplayVerdictJustified

LEMMA InvInit == Init => Inv
<1> SUFFICES ASSUME Init PROVE Inv
  OBVIOUS
<1>1. TypeOK
  BY TypeInit
<1>2. StoreRemembersLive
  BY DEF Init, StoreRemembersLive, Never, NoneSeen
<1>3. OnceWhileLive /\ ReplayVerdictJustified
  BY DEF Init, OnceWhileLive, ReplayVerdictJustified, Never
<1> QED
  BY <1>1, <1>2, <1>3 DEF Inv

\* A minted proof is never changed.
LEMMA MintKeeps ==
  ASSUME Inv, Mint
  PROVE  /\ Minted \subseteq Minted'
         /\ \A j \in Minted : proofs'[j] = proofs[j]
BY DEF Mint, Generate, Minted

LEMMA InvMint == Inv /\ Mint => Inv'
<1> SUFFICES ASSUME Inv, Mint PROVE Inv'
  OBVIOUS
<1>1. TypeOK'
  BY TypeMint DEF Inv
<1>2. UNCHANGED <<clock, pc, opts, now, seen, restarts, onTime, late>>
  BY DEF Mint, Generate
<1>3. StoreRemembersLive'
  <2>1. ASSUME NEW p \in Stores, NEW j \in Jtis, onTime'[p][j] > 0
        PROVE  j \in Minted' /\ (clock' <= proofs'[j].exp => j \in DOMAIN seen'[p])
    BY <1>2, <2>1, MintKeeps DEF Inv, StoreRemembersLive
  <2>2. ASSUME NEW p \in Stores, NEW j \in DOMAIN seen'[p]
        PROVE  seen'[p][j] = proofs'[j].exp /\ onTime'[p][j] + late'[p][j] > 0
    BY <1>2, <2>2, MintKeeps DEF Inv, StoreRemembersLive, TypeOK
  <2>3. \A c \in Calls : pc'[c] = "lock" => now'[c] <= clock'
    BY <1>2 DEF Inv, StoreRemembersLive
  <2> QED
    BY <2>1, <2>2, <2>3 DEF StoreRemembersLive
<1>4. OnceWhileLive' /\ ReplayVerdictJustified'
  BY <1>2 DEF Inv, OnceWhileLive, ReplayVerdictJustified
<1> QED
  BY <1>1, <1>3, <1>4 DEF Inv

\* The steps of a call before and after its critical section.
LEMMA InvLocal ==
  ASSUME Inv, NEW c \in Calls,
         (\E o \in Options : Begin(c, o)) \/ Check(c) \/ ReadNow(c) \/ Return(c)
  PROVE  Inv'
<1>1. TypeOK'
  BY TypeBegin, TypeCheck, TypeReadNow, TypeReturn DEF Inv
<1>2. UNCHANGED <<clock, proofs, seen, restarts, onTime, late>>
  BY DEF Begin, Check, ReadNow, Return
<1>3. \A d \in Calls : pc'[d] = "lock" => now'[d] <= clock'
  <2> SUFFICES ASSUME NEW d \in Calls, pc'[d] = "lock" PROVE now'[d] <= clock'
    OBVIOUS
  <2>1. CASE ReadNow(c)
    BY <2>1 DEF Inv, TypeOK, StoreRemembersLive, ReadNow
  <2>2. CASE ~ReadNow(c)
    <3>1. pc[d] = "lock" /\ now'[d] = now[d]
      BY <2>2 DEF Inv, TypeOK, Begin, Check, Return, Outcome
    <3> QED
      BY <1>2, <3>1 DEF Inv, StoreRemembersLive
  <2> QED
    BY <2>1, <2>2
<1>4. StoreRemembersLive'
  BY <1>2, <1>3 DEF Inv, StoreRemembersLive, Minted
<1>5. OnceWhileLive'
  BY <1>2 DEF Inv, OnceWhileLive
<1>6. \A d \in Calls : pc'[d] = "replayed" => pc[d] = "replayed" /\ opts'[d] = opts[d]
  BY DEF Inv, TypeOK, Begin, Check, ReadNow, Return, Outcome
<1>7. ReplayVerdictJustified'
  BY <1>2, <1>6 DEF Inv, ReplayVerdictJustified
<1> QED
  BY <1>1, <1>4, <1>5, <1>7 DEF Inv

LEMMA InvRecord == ASSUME Inv, NEW c \in Calls, Record(c) PROVE Inv'
<1> DEFINE s == opts[c].store
           j == opts[c].wpt
           exp == proofs[j].exp
           hit == Replayed(seen[s], j, now[c])
           r == Recorded(seen[s], j, exp, now[c])
<1> USE DEF Inv
<1>1. s \in Stores /\ j \in Minted /\ j \in Jtis
  BY DEF TypeOK, Record, Options, Minted
<1>2. now[c] <= clock /\ now[c] \in Nat /\ clock \in Nat
  BY DEF StoreRemembersLive, Record, TypeOK
<1>3. \A q \in Minted : proofs[q].exp \in Int
  BY DEF TypeOK, Minted, Proof
<1>4. UNCHANGED <<clock, proofs, opts, now, restarts>> /\ Minted' = Minted
  BY DEF Record, Minted
<1>5. /\ DOMAIN r \subseteq DOMAIN seen[s] \cup {j}
      /\ j \in DOMAIN r
      /\ \A k \in DOMAIN seen[s] : now[c] <= seen[s][k] => k \in DOMAIN r
      /\ \A k \in DOMAIN r : k # j => k \in DOMAIN seen[s] /\ r[k] = seen[s][k]
      /\ hit => j \in DOMAIN seen[s] /\ r[j] = seen[s][j]
      /\ ~hit => r[j] = exp
  BY RecordedFacts
\* The map does have a live jti, so a second use of it is a hit.
<1>6. onTime[s][j] > 0 /\ clock <= exp => hit
  <2> SUFFICES ASSUME onTime[s][j] > 0, clock <= exp PROVE hit
    OBVIOUS
  <2>1. j \in DOMAIN seen[s] /\ seen[s][j] = exp
    BY <1>1 DEF StoreRemembersLive
  <2>2. now[c] <= seen[s][j]
    BY <1>1, <1>2, <1>3, <2>1
  <2> QED
    <3>1. DOMAIN Swept(seen[s], now[c]) = {k \in DOMAIN seen[s] : now[c] <= seen[s][k]}
      BY SweptFacts
    <3> QED
      BY <2>1, <2>2, <3>1 DEF Replayed
<1> HIDE DEF r, hit
<1>7. seen' = [seen EXCEPT ![s] = r]
  BY DEF Record, r
<1>8. /\ hit => onTime' = onTime /\ late' = late
      /\ ~hit /\ clock <= exp =>
           onTime' = [onTime EXCEPT ![s][j] = @ + 1] /\ late' = late
      /\ ~hit /\ clock > exp =>
           onTime' = onTime /\ late' = [late EXCEPT ![s][j] = @ + 1]
  BY <1>1, <1>2, <1>3 DEF Record, hit
<1>9. TypeOK'
  BY TypeRecord
<1>10. \A p \in Stores, k \in Jtis : onTime[p][k] \in Nat /\ late[p][k] \in Nat
  BY DEF TypeOK
\* The counters: only those of the call's store and jti change, by one if it
\* is no hit.
<1>11. \A p \in Stores, k \in Jtis :
         /\ onTime'[p][k] = IF p = s /\ k = j /\ ~hit /\ clock <= exp
                              THEN onTime[p][k] + 1 ELSE onTime[p][k]
         /\ late'[p][k] = IF p = s /\ k = j /\ ~hit /\ clock > exp
                            THEN late[p][k] + 1 ELSE late[p][k]
  BY <1>1, <1>2, <1>3, <1>8 DEF TypeOK
<1>12. StoreRemembersLive'
  <2>1. ASSUME NEW p \in Stores, NEW k \in Jtis, onTime'[p][k] > 0
        PROVE  /\ k \in Minted'
               /\ clock' <= proofs'[k].exp => k \in DOMAIN seen'[p]
    <3>1. CASE p = s /\ k = j
      BY <1>1, <1>4, <1>5, <1>7, <3>1 DEF TypeOK
    <3>2. CASE p = s /\ k # j
      <4>1. onTime[p][k] > 0
        BY <1>11, <2>1, <3>2
      <4>2. k \in Minted /\ (clock <= proofs[k].exp => k \in DOMAIN seen[p])
        BY <4>1 DEF StoreRemembersLive
      <4>3. k \in DOMAIN seen[p] => seen[p][k] = proofs[k].exp
        BY DEF StoreRemembersLive
      <4>4. clock <= proofs[k].exp => now[c] <= proofs[k].exp
        BY <1>2, <1>3, <4>2
      <4> QED
        BY <1>1, <1>4, <1>5, <1>7, <3>2, <4>2, <4>3, <4>4 DEF TypeOK
    <3>3. CASE p # s
      BY <1>4, <1>7, <1>11, <2>1, <3>3 DEF StoreRemembersLive
    <3> QED
      BY <3>1, <3>2, <3>3
  <2>2. ASSUME NEW p \in Stores, NEW k \in DOMAIN seen'[p]
        PROVE  /\ seen'[p][k] = proofs'[k].exp
               /\ onTime'[p][k] + late'[p][k] > 0
    <3>0. k \in Jtis
      BY <1>9, <2>2 DEF TypeOK, Minted
    <3>1. CASE p = s /\ k = j
      <4>1. seen'[p] = r
        BY <1>1, <1>7, <3>1 DEF TypeOK
      <4>2. CASE hit
        <5>1. j \in DOMAIN seen[s] /\ r[j] = seen[s][j]
          BY <1>5, <4>2
        <5>2. seen[s][j] = proofs[j].exp /\ onTime[s][j] + late[s][j] > 0
          BY <1>1, <5>1 DEF StoreRemembersLive
        <5> QED
          BY <1>1, <1>4, <1>11, <3>1, <4>1, <4>2, <5>1, <5>2
      <4>3. CASE ~hit
        BY <1>1, <1>2, <1>3, <1>4, <1>5, <1>10, <1>11, <3>1, <4>1, <4>3
      <4> QED
        BY <4>2, <4>3
    <3>2. CASE p = s /\ k # j
      <4>1. k \in DOMAIN seen[s] /\ seen'[p][k] = seen[s][k]
        BY <1>1, <1>5, <1>7, <2>2, <3>2 DEF TypeOK
      <4> QED
        BY <1>1, <1>4, <1>11, <3>0, <3>2, <4>1 DEF StoreRemembersLive
    <3>3. CASE p # s
      BY <1>4, <1>7, <1>11, <2>2, <3>0, <3>3 DEF StoreRemembersLive
    <3> QED
      BY <3>1, <3>2, <3>3
  <2>3. \A d \in Calls : pc'[d] = "lock" => now'[d] <= clock'
    BY <1>4 DEF Record, StoreRemembersLive, TypeOK
  <2> QED
    BY <2>1, <2>2, <2>3 DEF StoreRemembersLive
<1>13. OnceWhileLive'
  BY <1>1, <1>6, <1>10, <1>11 DEF OnceWhileLive
<1>14. ReplayVerdictJustified'
  <2> SUFFICES ASSUME NEW d \in Calls, pc'[d] = "replayed"
               PROVE  onTime'[opts'[d].store][opts'[d].wpt]
                        + late'[opts'[d].store][opts'[d].wpt] > 0
    BY DEF ReplayVerdictJustified
  <2>1. opts'[d].store \in Stores /\ opts'[d].wpt \in Jtis
    BY <1>9 DEF TypeOK, Options, Minted
  <2>2. CASE d = c
    <3>1. hit
      BY <2>2 DEF Record, hit, TypeOK
    <3>2. onTime[s][j] + late[s][j] > 0
      BY <1>1, <1>5, <3>1 DEF StoreRemembersLive
    <3> QED
      BY <1>1, <1>4, <1>11, <2>2, <3>1, <3>2
  <2>3. CASE d # c
    <3>1. pc[d] = "replayed"
      BY <2>3 DEF Record, TypeOK
    <3>2. onTime[opts[d].store][opts[d].wpt] + late[opts[d].store][opts[d].wpt] > 0
      BY <3>1 DEF ReplayVerdictJustified
    <3> QED
      BY <1>4, <1>10, <1>11, <2>1, <3>2
  <2> QED
    BY <2>2, <2>3
<1> QED
  BY <1>9, <1>12, <1>13, <1>14

LEMMA InvTick == Inv /\ Tick => Inv'
<1> SUFFICES ASSUME Inv, Tick PROVE Inv'
  OBVIOUS
<1>1. TypeOK'
  BY TypeTick DEF Inv
<1>2. clock' = clock + 1 /\ UNCHANGED <<proofs, pc, opts, now, seen, restarts, onTime, late>>
  BY DEF Tick
<1>3. StoreRemembersLive'
  BY <1>2 DEF Inv, StoreRemembersLive, TypeOK, Minted, Proof
<1>4. OnceWhileLive' /\ ReplayVerdictJustified'
  BY <1>2 DEF Inv, OnceWhileLive, ReplayVerdictJustified
<1> QED
  BY <1>1, <1>3, <1>4 DEF Inv

LEMMA InvRestart == ASSUME Inv, NEW s \in Stores, Restart(s) PROVE Inv'
<1>1. TypeOK'
  BY TypeRestart DEF Inv
<1>2. /\ UNCHANGED <<clock, proofs>> /\ Minted' = Minted
      /\ \A p \in Stores : p # s => /\ seen'[p] = seen[p]
                                   /\ onTime'[p] = onTime[p]
                                   /\ late'[p] = late[p]
      /\ DOMAIN seen'[s] = {} /\ onTime'[s] = Never
  BY DEF Inv, TypeOK, Restart, NoneSeen, Minted
<1>3. \A d \in Calls : pc'[d] # "idle" =>
        /\ pc'[d] = pc[d] /\ opts'[d] = opts[d] /\ now'[d] = now[d]
        /\ opts[d].store # s
  BY DEF Restart, CallsAt
<1>4. StoreRemembersLive'
  <2>1. ASSUME NEW p \in Stores, NEW j \in Jtis, onTime'[p][j] > 0
        PROVE  j \in Minted' /\ (clock' <= proofs'[j].exp => j \in DOMAIN seen'[p])
    <3>1. p # s
      BY <1>2, <2>1 DEF Never
    <3> QED
      BY <1>2, <2>1, <3>1 DEF Inv, StoreRemembersLive
  <2>2. ASSUME NEW p \in Stores, NEW j \in DOMAIN seen'[p]
        PROVE  seen'[p][j] = proofs'[j].exp /\ onTime'[p][j] + late'[p][j] > 0
    <3>1. p # s
      BY <1>2, <2>2
    <3> QED
      BY <1>2, <2>2, <3>1 DEF Inv, StoreRemembersLive
  <2>3. \A c \in Calls : pc'[c] = "lock" => now'[c] <= clock'
    BY <1>2, <1>3 DEF Inv, StoreRemembersLive
  <2> QED
    BY <2>1, <2>2, <2>3 DEF StoreRemembersLive
<1>5. OnceWhileLive'
  BY <1>2 DEF Inv, OnceWhileLive, Never
<1>6. ReplayVerdictJustified'
  BY <1>1, <1>2, <1>3 DEF Inv, ReplayVerdictJustified, TypeOK, Options
<1> QED
  BY <1>1, <1>4, <1>5, <1>6 DEF Inv

LEMMA InvStep == Inv /\ [Next]_vars => Inv'
<1> SUFFICES ASSUME Inv, [Next]_vars PROVE Inv'
  OBVIOUS
<1>1. CASE Mint
  BY <1>1, InvMint
<1>2. CASE \E c \in Calls, o \in Options : Begin(c, o)
  BY <1>2, InvLocal
<1>3. CASE \E c \in Calls : Step(c)
  BY <1>3, InvLocal, InvRecord DEF Step
<1>4. CASE Tick
  BY <1>4, InvTick
<1>5. CASE \E s \in Stores : Restart(s)
  BY <1>5, InvRestart
<1>6. CASE UNCHANGED vars
  BY <1>6, TypeStep DEF vars, Inv, StoreRemembersLive, OnceWhileLive,
                        ReplayVerdictJustified, Minted
<1> QED
  BY <1>1, <1>2, <1>3, <1>4, <1>5, <1>6 DEF Next

LEMMA Invariance == Spec => []Inv
BY InvInit, InvStep, PTL DEF Spec

\* Validate lets a proof through at most once per incarnation of a store up to
\* the proof's expiry, for any number of concurrent calls.
THEOREM AtMostOnceWhileLive == Spec => []OnceWhileLive
BY Invariance, PTL DEF Inv

\* The map of a store has every jti that was let through and is still live.
THEOREM LiveIsRemembered == Spec => []StoreRemembersLive
BY Invariance, PTL DEF Inv

\* ErrReplayed is never a false alarm.
THEOREM NoFalseAlarm == Spec => []ReplayVerdictJustified
BY Invariance, PTL DEF Inv

-----------------------------------------------------------------------------
(***************************************************************************)
(* What is let through late.  A late acceptance uses up a call that was    *)
(* under way when the proof expired, and no call gets under way after it.  *)
(***************************************************************************)

\* The calls under way are finitely many, at most all.
LEMMA InFlightFinite ==
  ASSUME NEW s, NEW j
  PROVE  /\ IsFiniteSet(InFlight(s, j)) /\ IsFiniteSet(InFlight(s, j))'
         /\ Cardinality(InFlight(s, j)) \in Nat
         /\ Cardinality(InFlight(s, j)') \in Nat
         /\ Cardinality(Calls) \in Nat
         /\ Cardinality(InFlight(s, j)) <= Cardinality(Calls)
         /\ Cardinality(InFlight(s, j)') <= Cardinality(Calls)
<1>1. InFlight(s, j) \subseteq Calls /\ InFlight(s, j)' \subseteq Calls
  BY DEF InFlight
<1> QED
  BY <1>1, FS_Subset, FS_CardinalityType

LEMMA LateInit == Init => LateBounded
<1> SUFFICES ASSUME Init, NEW s \in Stores, NEW j \in Jtis
             PROVE  /\ late[s][j] = 0
                    /\ late[s][j] + Cardinality(InFlight(s, j)) <= Cardinality(Calls)
  BY DEF LateBounded
<1>1. late[s][j] = 0
  BY DEF Init, Never
<1> QED
  BY <1>1, InFlightFinite

\* A step that lets nothing through late and starts no call on an expired proof.
LEMMA LateQuiet ==
  ASSUME Inv, LateBounded,
         \A j \in Minted : j \in Minted' /\ proofs'[j] = proofs[j],
         clock' >= clock, clock' \in Nat,
         \A s \in Stores, j \in Jtis :
           /\ late'[s][j] \in {0, late[s][j]}
           /\ late'[s][j] > 0 => InFlight(s, j)' \subseteq InFlight(s, j)
  PROVE  LateBounded'
<1> SUFFICES ASSUME NEW s \in Stores, NEW j \in Jtis
             PROVE  /\ late'[s][j] > 0 => j \in Minted' /\ clock' > proofs'[j].exp
                    /\ late'[s][j] + Cardinality(InFlight(s, j)') <= Cardinality(Calls)
  BY DEF LateBounded
<1>1. late[s][j] \in Nat /\ clock \in Nat
  BY DEF Inv, TypeOK
<1>2. CASE late'[s][j] = 0
  BY <1>2, InFlightFinite
<1>3. CASE late'[s][j] # 0
  <2>1. late'[s][j] = late[s][j] /\ late[s][j] > 0
    BY <1>1, <1>3
  <2>2. j \in Minted /\ clock > proofs[j].exp
    BY <2>1 DEF LateBounded
  <2>3. proofs[j].exp \in Int
    BY <2>2 DEF Inv, TypeOK, Proof, Minted
  <2>4. Cardinality(InFlight(s, j)') <= Cardinality(InFlight(s, j))
    BY <2>1, InFlightFinite, FS_Subset
  <2>5. late[s][j] + Cardinality(InFlight(s, j)) <= Cardinality(Calls)
    BY DEF LateBounded
  <2>6. clock' > proofs'[j].exp
    BY <1>1, <2>2, <2>3
  <2>7. late'[s][j] + Cardinality(InFlight(s, j)') <= Cardinality(Calls)
    BY <1>1, <2>1, <2>4, <2>5, InFlightFinite
  <2> QED
    BY <2>2, <2>6, <2>7
<1> QED
  BY <1>2, <1>3

\* Every step but a Record is quiet in this sense.
LEMMA LateOthers ==
  ASSUME Inv, LateBounded, [Next]_vars, \A c \in Calls : ~Record(c)
  PROVE  LateBounded'
<1>0. \A s \in Stores, j \in Jtis : late[s][j] \in Nat
  BY DEF Inv, TypeOK
<1>1. CASE Mint
  <2>1. UNCHANGED <<clock, pc, opts, late>>
    BY <1>1 DEF Mint, Generate
  <2>2. \A s, j : InFlight(s, j)' = InFlight(s, j)
    BY <2>1 DEF InFlight
  <2> QED
    BY <1>0, <1>1, <2>1, <2>2, MintKeeps, LateQuiet DEF Inv, TypeOK
<1>2. ASSUME NEW c \in Calls,
             (\E o \in Options : Begin(c, o)) \/ ReadNow(c) \/ Return(c)
      PROVE  LateBounded'
  <2>1. UNCHANGED <<clock, proofs, late>>
    BY <1>2 DEF Begin, ReadNow, Return
  <2>2. \A s \in Stores, j \in Jtis : InFlight(s, j)' \subseteq InFlight(s, j)
    BY <1>2 DEF Inv, TypeOK, Begin, ReadNow, Return, InFlight
  <2> QED
    BY <1>0, <2>1, <2>2, LateQuiet DEF Inv, TypeOK, Minted
<1>3. ASSUME NEW c \in Calls, Check(c) PROVE LateBounded'
  <2>1. UNCHANGED <<clock, proofs, opts, late>>
    BY <1>3 DEF Check
  <2>2. ASSUME NEW s \in Stores, NEW j \in Jtis, late'[s][j] > 0
        PROVE  InFlight(s, j)' \subseteq InFlight(s, j)
    <3>1. j \in Minted /\ clock > proofs[j].exp
      BY <2>1, <2>2 DEF LateBounded
    <3>2. clock \in Nat /\ proofs[j].exp \in Int
      BY <3>1 DEF Inv, TypeOK, Proof, Minted
    <3>3. ~(clock < proofs[j].exp)
      BY <3>1, <3>2
    <3>4. opts[c].wpt = j => pc'[c] \notin {"read", "lock"}
      BY <1>3, <3>3 DEF Check, Outcome, Valid, Inv, TypeOK
    <3> QED
      BY <1>3, <2>1, <3>4 DEF InFlight, Check, Inv, TypeOK
  <2> QED
    BY <1>0, <2>1, <2>2, LateQuiet DEF Inv, TypeOK, Minted
<1>4. CASE Tick
  <2>1. clock' = clock + 1 /\ UNCHANGED <<proofs, pc, opts, late>>
    BY <1>4 DEF Tick
  <2>2. \A s, j : InFlight(s, j)' = InFlight(s, j)
    BY <2>1 DEF InFlight
  <2> QED
    BY <1>0, <2>1, <2>2, LateQuiet DEF Inv, TypeOK, Minted
<1>5. ASSUME NEW p \in Stores, Restart(p) PROVE LateBounded'
  <2>1. UNCHANGED <<clock, proofs>> /\ late' = [late EXCEPT ![p] = Never]
    BY <1>5 DEF Restart
  <2>2. \A s \in Stores, j \in Jtis : late'[s][j] \in {0, late[s][j]}
    BY <2>1 DEF Inv, TypeOK, Never
  <2>3. \A s \in Stores, j \in Jtis : InFlight(s, j)' \subseteq InFlight(s, j)
    BY <1>5 DEF Restart, CallsAt, InFlight
  <2> QED
    BY <1>0, <2>1, <2>2, <2>3, LateQuiet DEF Inv, TypeOK, Minted
<1>6. CASE UNCHANGED vars
  <2>1. \A s, j : InFlight(s, j)' = InFlight(s, j)
    BY <1>6 DEF vars, InFlight
  <2> QED
    BY <1>0, <1>6, <2>1, LateQuiet DEF vars, Inv, TypeOK, Minted
<1> QED
  BY <1>1, <1>2, <1>3, <1>4, <1>5, <1>6 DEF Next, Step

LEMMA LateRecord ==
  ASSUME Inv, LateBounded, NEW c \in Calls, Record(c)
  PROVE  LateBounded'
<1>0. opts[c].store \in Stores /\ opts[c].wpt \in Minted /\ opts[c].wpt \in Jtis
  BY DEF Inv, TypeOK, Record, Options, Minted
<1>1. PICK s \in Stores, j \in Jtis :
        s = opts[c].store /\ j = opts[c].wpt /\ j \in Minted
  BY <1>0
<1>2. UNCHANGED <<clock, proofs, opts>>
  BY DEF Record
<1>3. proofs[j].exp \in Int /\ clock \in Nat
  BY <1>1 DEF Inv, TypeOK, Proof, Minted
<1>4. \/ late' = late
      \/ late' = [late EXCEPT ![s][j] = @ + 1] /\ clock > proofs[j].exp
  BY <1>1 DEF Record
<1>5. pc'[c] \notin {"read", "lock"} /\ \A d \in Calls : d # c => pc'[d] = pc[d]
  BY DEF Record, Inv, TypeOK
<1>6. c \in InFlight(s, j) /\ InFlight(s, j)' = InFlight(s, j) \ {c}
  BY <1>1, <1>2, <1>5 DEF InFlight, Record
<1>7. \A p \in Stores, k \in Jtis : InFlight(p, k)' \subseteq InFlight(p, k)
  BY <1>2, <1>5 DEF InFlight
<1>8. CASE late' = late
  BY <1>2, <1>3, <1>7, <1>8, LateQuiet DEF Inv, TypeOK, Minted
<1>9. CASE late' = [late EXCEPT ![s][j] = @ + 1] /\ clock > proofs[j].exp
  <2> SUFFICES ASSUME NEW p \in Stores, NEW k \in Jtis
               PROVE  /\ late'[p][k] > 0 => k \in Minted' /\ clock' > proofs'[k].exp
                      /\ late'[p][k] + Cardinality(InFlight(p, k)') <= Cardinality(Calls)
    BY DEF LateBounded
  <2>0. late[p][k] \in Nat
    BY DEF Inv, TypeOK
  <2>1. CASE p = s /\ k = j
    <3>1. late'[p][k] = late[p][k] + 1
      BY <1>1, <1>9, <2>1 DEF Inv, TypeOK
    <3>2. Cardinality(InFlight(s, j)') = Cardinality(InFlight(s, j)) - 1
      BY <1>6, InFlightFinite, FS_RemoveElement
    <3>3. late[p][k] + Cardinality(InFlight(p, k)) <= Cardinality(Calls)
      BY DEF LateBounded
    <3>4. late'[p][k] + Cardinality(InFlight(p, k)') <= Cardinality(Calls)
      BY <2>0, <2>1, <3>1, <3>2, <3>3, InFlightFinite
    <3> QED
      BY <1>1, <1>2, <1>9, <2>1, <3>4 DEF Minted
  <2>2. CASE ~(p = s /\ k = j)
    <3>1. late'[p][k] = late[p][k]
      BY <1>1, <1>9, <2>2 DEF Inv, TypeOK
    <3>2. Cardinality(InFlight(p, k)') <= Cardinality(InFlight(p, k))
      BY <1>7, InFlightFinite, FS_Subset
    <3>3. /\ late[p][k] > 0 => k \in Minted /\ clock > proofs[k].exp
          /\ late[p][k] + Cardinality(InFlight(p, k)) <= Cardinality(Calls)
      BY DEF LateBounded
    <3>4. late'[p][k] + Cardinality(InFlight(p, k)') <= Cardinality(Calls)
      BY <2>0, <3>1, <3>2, <3>3, InFlightFinite
    <3> QED
      BY <1>2, <3>1, <3>3, <3>4 DEF Minted
  <2> QED
    BY <2>1, <2>2
<1> QED
  BY <1>4, <1>8, <1>9

LEMMA LateStep == Inv /\ LateBounded /\ [Next]_vars => LateBounded'
BY LateOthers, LateRecord

\* Past its expiry a proof is let through at most once per goroutine that may
\* be inside Validate.
THEOREM LateUsesAreBounded == Spec => []LateBounded
BY Invariance, LateInit, LateStep, PTL DEF Spec

-----------------------------------------------------------------------------
(***************************************************************************)
(* The refinement: every step of Wpt is a step of ProofUse or leaves its   *)
(* state alone.                                                            *)
(***************************************************************************)
expiry == [j \in Minted |-> proofs[j].exp]
uses == [s \in Stores |-> [j \in Jtis |-> onTime[s][j] + late[s][j]]]

\* A step that changes neither the jtis' expiries nor the counts.
LEMMA SameUses ==
  ASSUME UNCHANGED <<proofs, onTime, late>>
  PROVE  expiry' = expiry /\ uses' = uses
BY DEF expiry, uses, Minted

LEMMA PromiseInit == Init => Promise!Init
<1> SUFFICES ASSUME Init PROVE Promise!Init
  OBVIOUS
<1>1. Minted = {}
  BY DEF Init, Minted
<1>2. uses = [s \in Stores |-> [j \in Jtis |-> 0]]
  BY DEF Init, uses, Never
<1>3. expiry = [j \in {} |-> 0]
  BY <1>1 DEF expiry
<1> QED
  BY <1>2, <1>3 DEF Init, Promise!Init, Promise!Unused, uses, expiry

LEMMA PromiseMint == ASSUME Inv, Mint PROVE [Promise!Next]_Promise!vars
<1>1. PICK t \in Tokens : /\ t \notin DOMAIN proofs
                          /\ DOMAIN proofs' = DOMAIN proofs \cup {t}
                          /\ \A u \in DOMAIN proofs : proofs'[u] = proofs[u]
  BY DEF Mint, Generate
<1>2. UNCHANGED <<clock, onTime, late>> /\ uses' = uses
  BY DEF Mint, Generate, uses
<1>3. CASE t \in Jtis
  <2>1. Minted' = Minted \cup {t} /\ t \notin Minted
    BY <1>1, <1>3 DEF Minted
  <2>2. Promise!Mint(t)
    BY <1>1, <1>2, <2>1 DEF Promise!Mint, Minted, uses
  <2> QED
    BY <1>3, <2>2 DEF Promise!Next
<1>4. CASE t = NoJti
  <2>1. Minted' = Minted /\ \A j \in Minted : proofs'[j] = proofs[j]
    BY <1>1, <1>4 DEF Minted
  <2>2. expiry' = expiry
    BY <2>1 DEF expiry
  <2> QED
    BY <1>2, <2>2 DEF Promise!vars, expiry, uses
<1> QED
  BY <1>3, <1>4 DEF Tokens

LEMMA PromiseRecord ==
  ASSUME Inv, LateBounded, NEW c \in Calls, Record(c)
  PROVE  [Promise!Next]_Promise!vars
<1>0. opts[c].store \in Stores /\ opts[c].wpt \in Minted /\ opts[c].wpt \in Jtis
  BY DEF Inv, TypeOK, Record, Options, Minted
<1>1. PICK s \in Stores, j \in Jtis :
        s = opts[c].store /\ j = opts[c].wpt /\ j \in Minted
  BY <1>0
<1>2. UNCHANGED <<clock, proofs>> /\ expiry' = expiry
  BY DEF Record, expiry, Minted
<1>3. proofs[j].exp \in Int /\ clock \in Nat /\ expiry[j] = proofs[j].exp /\ j \in DOMAIN expiry
  BY <1>1 DEF Inv, TypeOK, Proof, Minted, expiry
<1>4. \A p \in Stores, k \in Jtis :
        onTime[p][k] \in Nat /\ late[p][k] \in Nat /\ uses[p][k] = onTime[p][k] + late[p][k]
  BY DEF Inv, TypeOK, uses
<1>5. CASE Replayed(seen[s], j, now[c])
  <2>1. UNCHANGED <<onTime, late>>
    BY <1>1, <1>5 DEF Record
  <2> QED
    BY <1>2, <2>1 DEF Promise!vars, uses, expiry
<1>6. CASE ~Replayed(seen[s], j, now[c])
  <2>1. /\ onTime' = IF clock <= proofs[j].exp THEN [onTime EXCEPT ![s][j] = @ + 1] ELSE onTime
        /\ late' = IF clock > proofs[j].exp THEN [late EXCEPT ![s][j] = @ + 1] ELSE late
    BY <1>1, <1>6 DEF Record
  <2>2. \A p \in Stores, k \in Jtis :
          onTime'[p][k] + late'[p][k]
            = IF p = s /\ k = j THEN onTime[p][k] + late[p][k] + 1
                               ELSE onTime[p][k] + late[p][k]
    BY <1>3, <1>4, <2>1 DEF Inv, TypeOK
  <2>3. uses' = [uses EXCEPT ![s][j] = @ + 1]
    BY <2>2 DEF uses
  <2>4. CASE clock <= proofs[j].exp
    <3>1. onTime[s][j] = 0
      <4>1. SUFFICES ASSUME onTime[s][j] > 0 PROVE FALSE
        BY <1>4
      <4>2. j \in DOMAIN seen[s] /\ seen[s][j] = proofs[j].exp
        BY <1>1, <2>4, <4>1 DEF Inv, StoreRemembersLive
      <4>3. now[c] <= clock /\ now[c] \in Nat
        BY DEF Inv, StoreRemembersLive, Record, TypeOK
      <4>4. DOMAIN Swept(seen[s], now[c]) = {k \in DOMAIN seen[s] : now[c] <= seen[s][k]}
        BY SweptFacts
      <4> QED
        BY <1>3, <1>6, <2>4, <4>2, <4>3, <4>4 DEF Replayed
    <3>2. late[s][j] = 0
      BY <1>3, <1>4, <2>4 DEF LateBounded
    <3>3. uses[s][j] = 0
      BY <1>4, <3>1, <3>2
    <3>a. uses[s][j] + 1 = 1
      BY <3>3
    <3>b. uses' = [uses EXCEPT ![s][j] = 1]
      BY <2>3, <3>a, Zenon
    <3>4. Promise!UseLive(s, j)
      BY <1>2, <1>3, <2>4, <3>3, <3>b DEF Promise!UseLive, expiry, uses
    <3> QED
      BY <1>1, <3>4 DEF Promise!Next
  <2>5. CASE clock > proofs[j].exp
    <3>1. c \in InFlight(s, j)
      BY <1>1 DEF InFlight, Record
    <3>2. Cardinality(InFlight(s, j)) # 0
      BY <3>1, InFlightFinite, FS_EmptySet
    <3>3. late[s][j] + Cardinality(InFlight(s, j)) <= Cardinality(Calls)
      BY DEF LateBounded
    <3>4. onTime[s][j] <= 1
      BY DEF Inv, OnceWhileLive
    <3>5. uses[s][j] <= Cardinality(Calls)
      BY <1>4, <3>2, <3>3, <3>4, InFlightFinite
    <3>6. Promise!UseLate(s, j)
      BY <1>2, <1>3, <2>3, <2>5, <3>5 DEF Promise!UseLate, expiry, uses
    <3> QED
      BY <1>1, <3>6 DEF Promise!Next
  <2> QED
    BY <1>3, <2>4, <2>5
<1> QED
  BY <1>5, <1>6

LEMMA PromiseRestart ==
  ASSUME Inv, NEW s \in Stores, Restart(s)
  PROVE  [Promise!Next]_Promise!vars
<1>1. UNCHANGED <<clock, proofs>> /\ expiry' = expiry
  BY DEF Restart, expiry, Minted
<1>2. onTime' = [onTime EXCEPT ![s] = Never] /\ late' = [late EXCEPT ![s] = Never]
  BY DEF Restart
<1>3. \A p \in Stores, k \in Jtis :
        onTime'[p][k] + late'[p][k] = IF p = s THEN 0 ELSE onTime[p][k] + late[p][k]
  BY <1>2 DEF Inv, TypeOK, Never
<1>4. uses' = [uses EXCEPT ![s] = [j \in Jtis |-> 0]]
  BY <1>3 DEF uses
<1>5. Promise!Forget(s)
  BY <1>1, <1>4 DEF Promise!Forget, Promise!Unused, expiry, uses
<1> QED
  BY <1>5 DEF Promise!Next

LEMMA PromiseStep ==
  Inv /\ LateBounded /\ [Next]_vars => [Promise!Next]_Promise!vars
<1> SUFFICES ASSUME Inv, LateBounded, [Next]_vars PROVE [Promise!Next]_Promise!vars
  OBVIOUS
<1>1. CASE Mint
  BY <1>1, PromiseMint
<1>2. CASE \E c \in Calls : Record(c)
  BY <1>2, PromiseRecord
<1>3. CASE Tick
  <2>1. clock' = clock + 1 /\ clock \in Nat /\ UNCHANGED <<proofs, onTime, late>>
    BY <1>3 DEF Tick, Inv, TypeOK
  <2>2. Promise!Elapse
    BY <2>1, SameUses DEF Promise!Elapse, expiry, uses
  <2> QED
    BY <2>2 DEF Promise!Next
<1>4. CASE \E s \in Stores : Restart(s)
  BY <1>4, PromiseRestart
<1>5. CASE \/ UNCHANGED vars
           \/ \E c \in Calls : \/ \E o \in Options : Begin(c, o)
                              \/ Check(c) \/ ReadNow(c) \/ Return(c)
  <2>1. UNCHANGED <<clock, proofs, onTime, late>>
    BY <1>5 DEF vars, Begin, Check, ReadNow, Return
  <2> QED
    BY <2>1, SameUses DEF Promise!vars, expiry, uses
<1> QED
  BY <1>1, <1>2, <1>3, <1>4, <1>5 DEF Next, Step

\* Validate keeps the promise ProofUse states: the concurrent, clock-reading
\* implementation with its map shows its callers nothing else.
THEOREM KeepsPromise == Spec => ImplementsPromise
<1>1. Spec => [](Inv /\ LateBounded)
  BY Invariance, LateUsesAreBounded, PTL
<1> QED
  BY <1>1, PromiseInit, PromiseStep, PTL DEF Spec, ImplementsPromise, Promise!Spec

(***************************************************************************)
(* Part 2: WimseAuth.                                                      *)
(***************************************************************************)

USE WimseAuthAssumption

-----------------------------------------------------------------------------
(***************************************************************************)
(* Types.  AuthTypeOK is not inductive: which calls a crash ends is said   *)
(* twice, of the requests and of the validations, and the two agree only   *)
(* because a validation has the process of its request.                    *)
(***************************************************************************)

\* What the middleware passes to Validate.
Arguments(c) ==
  [store |-> req[c].store, wpt |-> req[c].wpt, wit |-> req[c].wit,
   key |-> WitOf[req[c].wit].cnf, uri |-> req[c].uri, txn |-> NoTxn, replay |-> TRUE]

AuthTypes ==
  /\ AuthTypeOK
  /\ DOMAIN req = Calls /\ DOMAIN ctx = Calls
  /\ \A c \in Calls : http[c] = "proof" => req[c].wit # Nil /\ opts[c] = Arguments(c)
  /\ \A c \in Calls : pc[c] = "accepted" => opts[c].wpt \in Minted

LEMMA AuthTypesInit == AuthInit => AuthTypes
<1> SUFFICES ASSUME AuthInit PROVE AuthTypes
  OBVIOUS
<1>1. TypeOK
  BY TypeInit DEF AuthInit
<1> QED
  BY <1>1 DEF AuthInit, Init, AuthTypes, AuthTypeOK, HTTP, Never

\* The arguments are arguments of Validate.
LEMMA ArgumentsFit ==
  ASSUME AuthTypes, NEW c \in Calls, http[c] = "wit", req[c].wit # Nil, req[c].wpt # Nil
  PROVE  Arguments(c) \in Options
<1>1. req[c] \in Request
  BY DEF AuthTypes, AuthTypeOK
<1>2. req[c].wit \in Wits
  BY <1>1 DEF Request
<1> QED
  BY <1>1, <1>2 DEF Arguments, Options, Request

\* Every step of the composition is a step of Wpt, or leaves its state alone.
LEMMA AuthStepsAreWptSteps == AuthTypes /\ [AuthNext]_allVars => [Next]_vars
<1> SUFFICES ASSUME AuthTypes, [AuthNext]_allVars PROVE [Next]_vars
  OBVIOUS
<1>1. ASSUME NEW cl \in Clients, NEW j \in Jtis, NEW url \in Uris, NEW skew \in Skews,
             ClientCall(cl, j, url, skew)
      PROVE  Next
  <2>1. Generate(j, url, ClientWit[cl], ClientKey[cl], NoTxn, 0, skew)
    BY <1>1 DEF ClientCall
  <2>2. ClientWit[cl] \in Wits /\ ClientKey[cl] \in Keys
    OBVIOUS
  <2>3. Mint
    BY <2>1, <2>2 DEF Mint, Tokens
  <2> QED
    BY <2>3 DEF Next
<1>2. ASSUME NEW c \in Calls, Serve(c) PROVE [Next]_vars
  <2>1. CASE CheckProof(c)
    <3>1. Arguments(c) \in Options /\ Begin(c, Arguments(c))
      BY <2>1, ArgumentsFit DEF CheckProof, WitAccepted, Arguments
    <3> QED
      BY <3>1 DEF Next
  <2>2. CASE Validate(c) \/ Admit(c) \/ RefuseProof(c)
    BY <2>2 DEF Validate, Admit, RefuseProof, Next, Step
  <2>3. CASE RefuseHeaders(c) \/ Handle(c) \/ Respond(c)
    BY <2>3 DEF RefuseHeaders, Handle, Respond
  <2> QED
    BY <1>2, <2>1, <2>2, <2>3 DEF Serve
<1>3. ASSUME NEW s \in Stores, Crash(s) PROVE Next
  BY <1>3 DEF Crash, Next
<1>4. CASE \/ \E c \in Calls, r \in Request : Receive(c, r)
           \/ Tick /\ UNCHANGED authVars
           \/ UNCHANGED allVars
  BY <1>4 DEF Receive, Next, allVars
<1> QED
  BY <1>1, <1>2, <1>3, <1>4 DEF AuthNext

\* A step of the middleware keeps every proof that was minted.
LEMMA MintedKept ==
  ASSUME AuthTypes, [AuthNext]_allVars
  PROVE  DOMAIN proofs \subseteq DOMAIN proofs' /\ \A t \in DOMAIN proofs : proofs'[t] = proofs[t]
<1>1. [Next]_vars
  BY AuthStepsAreWptSteps
<1>2. CASE Mint
  BY <1>2 DEF Mint, Generate
<1>3. CASE ~Mint
  BY <1>1, <1>3 DEF Next, Step, Begin, Check, ReadNow, Record, Return, Tick, Restart, vars
<1> QED
  BY <1>2, <1>3

\* A step that the validation of a request takes inside Validate.
LEMMA AuthTypesValidate ==
  ASSUME AuthTypes, TypeOK', NEW c \in Calls, Validate(c)
  PROVE  AuthTypes'
<1>1. /\ UNCHANGED <<authVars, proofs, opts>> /\ http[c] = "proof"
      /\ DOMAIN pc = Calls
      /\ \A d \in Calls \ {c} : pc'[d] = pc[d]
  BY DEF Validate, Check, ReadNow, Record, AuthTypes, AuthTypeOK, TypeOK
<1>2. opts[c] = Arguments(c) /\ Arguments(c).replay
  BY <1>1 DEF AuthTypes, Arguments
<1>3. pc'[c] # "idle"
  BY DEF Validate, Check, ReadNow, Record, Outcome, AuthTypes, AuthTypeOK, TypeOK
<1>4. pc'[c] = "accepted" => opts[c].wpt \in Minted
  BY <1>2 DEF Validate, Check, ReadNow, Record, Outcome, AuthTypes, AuthTypeOK, TypeOK
<1>5. AuthTypeOK'
  BY <1>1, <1>3 DEF AuthTypes, AuthTypeOK, authVars
<1> QED
  BY <1>1, <1>4, <1>5 DEF AuthTypes, Arguments, Minted, authVars

LEMMA AuthTypesServe ==
  ASSUME AuthTypes, TypeOK', NEW c \in Calls, Serve(c)
  PROVE  AuthTypes'
<1>0. /\ http \in [Calls -> HTTP] /\ DOMAIN req = Calls /\ DOMAIN ctx = Calls
      /\ DOMAIN pc = Calls /\ DOMAIN opts = Calls
      /\ \A d \in Calls : http[d] = "proof" <=> pc[d] # "idle"
      /\ \A d \in Calls : IF http[d] = "none" THEN req[d] = Nil ELSE req[d] \in Request
  BY DEF AuthTypes, AuthTypeOK, TypeOK
<1>1. CASE RefuseHeaders(c) \/ Handle(c) \/ Respond(c)
  <2>1. /\ UNCHANGED vars /\ runs' = runs /\ DOMAIN req' = Calls /\ DOMAIN ctx' = Calls
        /\ http[c] # "proof" /\ http'[c] \in HTTP \ {"proof"}
        /\ http' = [http EXCEPT ![c] = http'[c]]
        /\ \A d \in Calls \ {c} : req'[d] = req[d]
        /\ IF http'[c] = "none" THEN req'[c] = Nil ELSE req'[c] = req[c] /\ http[c] # "none"
    BY <1>0, <1>1 DEF RefuseHeaders, Handle, Respond, HTTP
  <2>2. AuthTypeOK'
    BY <1>0, <2>1 DEF AuthTypes, AuthTypeOK, vars
  <2> QED
    BY <1>0, <2>1, <2>2 DEF AuthTypes, Arguments, Minted, vars
<1>2. CASE CheckProof(c)
  <2>1. /\ Begin(c, Arguments(c)) /\ req[c].wit # Nil
        /\ http[c] = "wit" /\ http' = [http EXCEPT ![c] = "proof"]
        /\ UNCHANGED <<req, ctx, runs>>
    BY <1>2 DEF CheckProof, WitAccepted, Arguments
  <2>2. /\ pc' = [pc EXCEPT ![c] = "check"] /\ opts' = [opts EXCEPT ![c] = Arguments(c)]
        /\ proofs' = proofs
    BY <2>1 DEF Begin
  <2>3. AuthTypeOK'
    BY <1>0, <2>1, <2>2 DEF AuthTypes, AuthTypeOK, HTTP
  <2> QED
    BY <1>0, <2>1, <2>2, <2>3 DEF AuthTypes, Arguments, Minted
<1>3. CASE Validate(c)
  BY <1>3, AuthTypesValidate
<1>4. CASE Admit(c) \/ RefuseProof(c)
  <2>1. /\ UNCHANGED <<req, proofs>> /\ DOMAIN ctx' = Calls
        /\ http[c] = "proof" /\ http'[c] \in {"handler", "unauthorized"}
        /\ http' = [http EXCEPT ![c] = http'[c]]
        /\ pc' = [pc EXCEPT ![c] = "idle"] /\ opts' = [opts EXCEPT ![c] = Nil]
    BY <1>0, <1>4 DEF Admit, RefuseProof, Return
  <2>2. /\ req[c].store \in Stores
        /\ Admit(c) => req[c].wpt \in Jtis
    BY <1>0, <2>1 DEF Admit, AuthTypes, Arguments, Minted, Request
  <2>3. runs' \in [Stores -> [Jtis -> Nat]]
    <3>1. runs \in [Stores -> [Jtis -> Nat]]
      BY DEF AuthTypes, AuthTypeOK
    <3>2. CASE Admit(c)
      <4>1. runs' = [runs EXCEPT ![req[c].store][req[c].wpt] = @ + 1]
        BY <3>2 DEF Admit
      <4> QED
        BY <2>2, <3>1, <3>2, <4>1
    <3> QED
      BY <1>4, <3>1, <3>2 DEF RefuseProof
  <2>4. AuthTypeOK'
    BY <1>0, <2>1, <2>3 DEF AuthTypes, AuthTypeOK, HTTP
  <2> QED
    BY <1>0, <2>1, <2>4 DEF AuthTypes, Arguments, Minted
<1> QED
  BY <1>1, <1>2, <1>3, <1>4 DEF Serve

LEMMA AuthTypesCrash ==
  ASSUME AuthTypes, TypeOK', NEW s \in Stores, Crash(s)
  PROVE  AuthTypes'
<1> DEFINE Dead(c) == http[c] # "none" /\ req[c].store = s
<1>1. ASSUME NEW c \in Calls, pc[c] # "idle"
      PROVE  http[c] = "proof" /\ opts[c].store = req[c].store
  <2>1. http[c] = "proof"
    BY <1>1 DEF AuthTypes, AuthTypeOK
  <2>2. opts[c] = Arguments(c)
    BY <2>1 DEF AuthTypes
  <2> QED
    BY <2>1, <2>2 DEF Arguments
<1>2. \A c \in Calls : c \in CallsAt(s) <=> pc[c] # "idle" /\ Dead(c)
  BY <1>1 DEF CallsAt
<1>3. /\ \A c \in Calls : pc'[c] = IF c \in CallsAt(s) THEN "idle" ELSE pc[c]
      /\ \A c \in Calls : opts'[c] = IF c \in CallsAt(s) THEN Nil ELSE opts[c]
      /\ \A c \in Calls : http'[c] = IF Dead(c) THEN "none" ELSE http[c]
      /\ \A c \in Calls : req'[c] = IF Dead(c) THEN Nil ELSE req[c]
      /\ DOMAIN http' = Calls /\ DOMAIN req' = Calls /\ DOMAIN ctx' = Calls
      /\ runs' = [runs EXCEPT ![s] = Never] /\ proofs' = proofs
      /\ http' = [c \in Calls |-> IF Dead(c) THEN "none" ELSE http[c]]
  BY DEF Crash, Restart
<1> HIDE DEF Dead
<1>4. http' \in [Calls -> HTTP] /\ runs' \in [Stores -> [Jtis -> Nat]]
  BY <1>3 DEF AuthTypes, AuthTypeOK, HTTP, Never
<1>5. \A c \in Calls : http'[c] = "proof" <=> pc'[c] # "idle"
  BY <1>1, <1>2, <1>3 DEF AuthTypes, AuthTypeOK
<1>6. \A c \in Calls : IF http'[c] = "none" THEN req'[c] = Nil ELSE req'[c] \in Request
  BY <1>3 DEF AuthTypes, AuthTypeOK
<1>7. \A c \in Calls : http'[c] = "proof" => ~Dead(c) /\ http[c] = "proof" /\ c \notin CallsAt(s)
  BY <1>2, <1>3
<1>8. \A c \in Calls : http'[c] = "proof" => req'[c].wit # Nil /\ opts'[c] = Arguments(c)'
  BY <1>3, <1>7 DEF AuthTypes, Arguments
<1>9. \A c \in Calls : pc'[c] = "accepted" => opts'[c].wpt \in Minted'
  BY <1>3 DEF AuthTypes, Minted
<1> QED
  BY <1>3, <1>4, <1>5, <1>6, <1>8, <1>9 DEF AuthTypes, AuthTypeOK

LEMMA AuthTypesStep == AuthTypes /\ [AuthNext]_allVars => AuthTypes'
<1> SUFFICES ASSUME AuthTypes, [AuthNext]_allVars PROVE AuthTypes'
  OBVIOUS
<1>0. TypeOK'
  BY AuthStepsAreWptSteps, TypeStep DEF AuthTypes, AuthTypeOK
<1>1. ASSUME NEW cl \in Clients, NEW j \in Jtis, NEW url \in Uris, NEW skew \in Skews,
             ClientCall(cl, j, url, skew)
      PROVE  AuthTypes'
  BY <1>0, <1>1, MintedKept DEF ClientCall, Generate, AuthTypes, AuthTypeOK, authVars, Arguments, Minted
<1>2. ASSUME NEW c \in Calls, NEW r \in Request, Receive(c, r) PROVE AuthTypes'
  BY <1>0, <1>2 DEF Receive, AuthTypes, AuthTypeOK, vars, HTTP, Arguments, Minted
<1>3. ASSUME NEW c \in Calls, Serve(c) PROVE AuthTypes'
  BY <1>0, <1>3, AuthTypesServe
<1>4. CASE Tick /\ UNCHANGED authVars
  BY <1>0, <1>4 DEF Tick, AuthTypes, AuthTypeOK, authVars, Arguments, Minted
<1>5. ASSUME NEW s \in Stores, Crash(s) PROVE AuthTypes'
  BY <1>0, <1>5, AuthTypesCrash
<1>6. CASE UNCHANGED allVars
  BY <1>0, <1>6 DEF allVars, vars, AuthTypes, AuthTypeOK, authVars, Arguments, Minted
<1> QED
  BY <1>1, <1>2, <1>3, <1>4, <1>5, <1>6 DEF AuthNext

LEMMA AuthTypesAlways == AuthSpec => []AuthTypes
BY AuthTypesInit, AuthTypesStep, PTL DEF AuthSpec

\* The types of the composition, and that a request is at its proof exactly
\* while its goroutine is inside Validate.
THEOREM AuthTypeCorrect == AuthSpec => []AuthTypeOK
<1>1. AuthTypes => AuthTypeOK
  BY DEF AuthTypes
<1> QED
  BY <1>1, AuthTypesAlways, PTL

-----------------------------------------------------------------------------
\* WIMSEAuth uses Validate as Wpt assumes its callers do, so every behaviour of
\* the middleware is one of Wpt.
THEOREM MiddlewareImplementsWpt == AuthSpec => ImplementsWpt
<1>1. AuthInit => Init
  BY DEF AuthInit
<1> QED
  BY <1>1, AuthTypesAlways, AuthStepsAreWptSteps, PTL DEF AuthSpec, ImplementsWpt, Spec

LEMMA AuthInherits == AuthSpec => [](AuthTypes /\ Inv /\ LateBounded)
BY AuthTypesAlways, MiddlewareImplementsWpt, Invariance, LateUsesAreBounded, PTL
   DEF ImplementsWpt

-----------------------------------------------------------------------------
(***************************************************************************)
(* The caller a handler sees.  CallerIsProven speaks of contexts; a        *)
(* context is filled from what was checked some steps earlier, about a     *)
(* request and a proof that must not have changed since.                   *)
(***************************************************************************)

\* The WIT of a request is the trusted IdP's.
WitTrusted(c) ==
  WitOf[req[c].wit].iss = IdpIssuer /\ WitOf[req[c].wit].signer = IdpKey

\* A proof was made for a request: by its WIT's key, for that WIT and this URI.
ProofFits(j, c) ==
  /\ j \in Minted
  /\ proofs[j].key = WitOf[req[c].wit].cnf
  /\ proofs[j].wth = req[c].wit
  /\ proofs[j].aud = req[c].uri

\* What is known of one request: while its proof is validated, once the proof is
\* past its checks, and once its context names a caller.
ProvenOf(c) ==
  /\ http[c] = "proof" => WitTrusted(c)
  /\ pc[c] \in {"read", "lock", "accepted"} => ProofFits(opts[c].wpt, c)
  /\ ctx[c] # Nil => /\ http[c] \in {"handler", "ok"}
                     /\ ctx[c] = req[c].wit
                     /\ WitTrusted(c)
                     /\ \E j \in Minted : ProofFits(j, c)

Proven == AuthTypes /\ \A c \in Calls : ProvenOf(c)

LEMMA ProvenInit == AuthInit => Proven
BY AuthTypesInit DEF AuthInit, Init, Proven, ProvenOf

\* A proof that fits a request fits it as long as the request stays.
LEMMA FittingKept ==
  ASSUME AuthTypes, [AuthNext]_allVars, NEW c \in Calls, NEW j, ProofFits(j, c),
         req'[c] = req[c]
  PROVE  ProofFits(j, c)'
BY MintedKept DEF ProofFits, Minted

\* A request that the step leaves alone, unless its validation goes on or its
\* handler ends.
LEMMA ProvenFrame ==
  ASSUME Proven, [AuthNext]_allVars, NEW c \in Calls,
         req'[c] = req[c], ctx'[c] = ctx[c], opts'[c] = opts[c],
         http'[c] = http[c] \/ (http[c] = "handler" /\ http'[c] = "ok"),
         pc'[c] \in {"read", "lock", "accepted"} => ProofFits(opts[c].wpt, c)
  PROVE  ProvenOf(c)'
<1>0. ProvenOf(c)
  BY DEF Proven
<1>1. \A j : ProofFits(j, c) => ProofFits(j, c)'
  BY FittingKept DEF Proven
<1>2. http'[c] = "proof" => WitTrusted(c)'
  BY <1>0 DEF ProvenOf, WitTrusted
<1>3. pc'[c] \in {"read", "lock", "accepted"} => ProofFits(opts[c].wpt, c)'
  BY <1>1
<1>4. ASSUME ctx'[c] # Nil
      PROVE  /\ http'[c] \in {"handler", "ok"}
             /\ ctx'[c] = req'[c].wit
             /\ WitTrusted(c)'
             /\ \E j \in Minted' : ProofFits(j, c)'
  <2>1. PICK j \in Minted : ProofFits(j, c)
    BY <1>0, <1>4 DEF ProvenOf
  <2>2. ProofFits(j, c)' /\ j \in Minted'
    BY <1>1, <2>1 DEF ProofFits
  <2> QED
    BY <1>0, <1>4, <2>2 DEF ProvenOf, WitTrusted
<1> QED
  BY <1>2, <1>3, <1>4 DEF ProvenOf

\* What Check lets pass fits the request.
LEMMA CheckedFits ==
  ASSUME Proven, NEW c \in Calls, http[c] = "proof", Check(c),
         pc'[c] \in {"read", "lock", "accepted"}
  PROVE  ProofFits(opts[c].wpt, c)
<1>1. opts[c] = Arguments(c) /\ DOMAIN pc = Calls
  BY DEF Proven, AuthTypes, AuthTypeOK, TypeOK
<1>2. opts[c] \in Options /\ opts[c].wpt \in DOMAIN proofs \cup {Nil}
  BY DEF Proven, AuthTypes, AuthTypeOK, TypeOK, Check
<1>3. Outcome(opts[c]) = "read"
  BY <1>1 DEF Check, Outcome, Arguments
<1>4. opts[c].wpt \in Minted /\ Valid(proofs[opts[c].wpt], opts[c])
  BY <1>2, <1>3 DEF Outcome, Minted, Options, Tokens
<1> QED
  BY <1>1, <1>4 DEF ProofFits, Valid, Arguments

LEMMA ProvenServe ==
  ASSUME Proven, NEW c \in Calls, Serve(c), [AuthNext]_allVars
  PROVE  ProvenOf(c)'
<1>0. /\ DOMAIN pc = Calls /\ DOMAIN http = Calls /\ DOMAIN req = Calls
      /\ DOMAIN ctx = Calls /\ DOMAIN opts = Calls
      /\ http[c] = "proof" <=> pc[c] # "idle"
      /\ ProvenOf(c)
      /\ http[c] = "proof" => opts[c] = Arguments(c)
  BY DEF Proven, AuthTypes, AuthTypeOK, TypeOK
<1>1. CASE RefuseHeaders(c) \/ RefuseProof(c)
  <2>1. ctx'[c] = Nil /\ http'[c] = "unauthorized" /\ pc'[c] = "idle"
    BY <1>0, <1>1 DEF RefuseHeaders, RefuseProof, Return, ProvenOf, vars
  <2> QED
    BY <2>1 DEF ProvenOf
<1>2. CASE Respond(c)
  <2>1. ctx'[c] = Nil /\ http'[c] = "none" /\ pc'[c] = "idle"
    BY <1>0, <1>2 DEF Respond, vars
  <2> QED
    BY <2>1 DEF ProvenOf
<1>3. CASE CheckProof(c)
  <2>1. /\ ctx'[c] = Nil /\ http'[c] = "proof" /\ pc'[c] = "check" /\ req'[c] = req[c]
        /\ WitTrusted(c)
    BY <1>0, <1>3 DEF CheckProof, Begin, ProvenOf, WitAccepted, WitValid, WitTrusted
  <2> QED
    BY <2>1 DEF ProvenOf, WitTrusted
<1>4. CASE Validate(c)
  <2>1. pc'[c] \in {"read", "lock", "accepted"} => ProofFits(opts[c].wpt, c)
    <3>1. CASE Check(c)
      BY <1>4, <3>1, CheckedFits DEF Validate
    <3>2. CASE ReadNow(c) \/ Record(c)
      BY <3>2, <1>0 DEF ReadNow, Record, ProvenOf
    <3> QED
      BY <1>4, <3>1, <3>2 DEF Validate
  <2> QED
    BY <1>4, <2>1, ProvenFrame DEF Validate, Check, ReadNow, Record, authVars
<1>5. CASE Admit(c)
  <2>1. /\ ctx'[c] = req[c].wit /\ http'[c] = "handler" /\ pc'[c] = "idle"
        /\ req'[c] = req[c] /\ proofs' = proofs
        /\ WitTrusted(c) /\ ProofFits(opts[c].wpt, c)
    BY <1>0, <1>5 DEF Admit, Return, ProvenOf
  <2>2. PICK j \in Minted : ProofFits(j, c)
    BY <2>1 DEF ProofFits
  <2>3. j \in Minted' /\ ProofFits(j, c)'
    BY <2>1, <2>2 DEF ProofFits, Minted
  <2>4. WitTrusted(c)'
    BY <2>1 DEF WitTrusted
  <2> QED
    BY <2>1, <2>3, <2>4 DEF ProvenOf
<1>6. CASE Handle(c)
  BY <1>0, <1>6, ProvenFrame DEF Handle, vars
<1> QED
  BY <1>1, <1>2, <1>3, <1>4, <1>5, <1>6 DEF Serve

\* The other requests, and every request when no request is served.
LEMMA ProvenOthers ==
  ASSUME Proven, [AuthNext]_allVars, NEW c \in Calls, ~Serve(c)
  PROVE  ProvenOf(c)'
<1>0. /\ DOMAIN pc = Calls /\ DOMAIN http = Calls /\ DOMAIN req = Calls
      /\ DOMAIN ctx = Calls /\ DOMAIN opts = Calls
      /\ http[c] = "proof" <=> pc[c] # "idle"
      /\ ProvenOf(c)
      /\ http[c] = "proof" => opts[c] = Arguments(c)
  BY DEF Proven, AuthTypes, AuthTypeOK, TypeOK
<1>1. CASE /\ UNCHANGED <<req[c], ctx[c], http[c], opts[c]>>
           /\ pc'[c] = pc[c]
  BY <1>0, <1>1, ProvenFrame DEF ProvenOf
<1>2. ASSUME NEW d \in Calls, Serve(d) PROVE ProvenOf(c)'
  <2>1. d # c
    BY <1>2
  <2> QED
    BY <1>0, <1>1, <1>2, <2>1
       DEF Serve, RefuseHeaders, CheckProof, Begin, Validate, Check, ReadNow, Record, Admit,
           RefuseProof, Return, Handle, Respond, vars, authVars
<1>3. ASSUME NEW d \in Calls, NEW r \in Request, Receive(d, r) PROVE ProvenOf(c)'
  <2>1. CASE d = c
    <3>1. ctx'[c] = Nil /\ http'[c] = "wit" /\ pc'[c] = "idle"
      BY <1>0, <1>3, <2>1 DEF Receive, ProvenOf, vars
    <3> QED
      BY <3>1 DEF ProvenOf
  <2>2. CASE d # c
    BY <1>0, <1>1, <1>3, <2>2 DEF Receive, vars
  <2> QED
    BY <2>1, <2>2
<1>4. ASSUME NEW s \in Stores, Crash(s) PROVE ProvenOf(c)'
  <2>1. CASE http[c] # "none" /\ req[c].store = s
    <3>1. ctx'[c] = Nil /\ http'[c] = "none"
      BY <1>4, <2>1 DEF Crash
    <3>2. pc'[c] = "idle"
      BY <1>0, <1>4, <2>1 DEF Crash, Restart, CallsAt, Arguments
    <3> QED
      BY <3>1, <3>2 DEF ProvenOf
  <2>2. CASE ~(http[c] # "none" /\ req[c].store = s)
    <3>1. c \notin CallsAt(s)
      BY <1>0, <2>2 DEF CallsAt, Arguments
    <3> QED
      BY <1>1, <1>4, <2>2, <3>1 DEF Crash, Restart
  <2> QED
    BY <2>1, <2>2
<1>5. CASE \/ \E cl \in Clients, j \in Jtis, url \in Uris, skew \in Skews :
                ClientCall(cl, j, url, skew)
           \/ Tick /\ UNCHANGED authVars
           \/ UNCHANGED allVars
  BY <1>1, <1>5 DEF ClientCall, Generate, Tick, authVars, allVars, vars
<1> QED
  BY <1>2, <1>3, <1>4, <1>5 DEF AuthNext

LEMMA ProvenStep == Proven /\ [AuthNext]_allVars => Proven'
BY AuthTypesStep, ProvenServe, ProvenOthers DEF Proven

\* Whatever the interleaving, the caller a handler sees is the subject of a WIT
\* of the trusted IdP, and the key of that WIT made a proof for it and for the
\* URI of the request.
THEOREM HandlersSeeProvenCallers == AuthSpec => []CallerIsProven
<1>1. Proven => CallerIsProven
  BY DEF Proven, ProvenOf, ProofFits, WitTrusted, CallerIsProven
<1> QED
  BY <1>1, ProvenInit, ProvenStep, PTL DEF AuthSpec

-----------------------------------------------------------------------------
(***************************************************************************)
(* Handlers and acceptances.  A call is counted when Record accepts it and *)
(* again when its handler starts; in between it is one of these.           *)
(***************************************************************************)
Between(s, j) ==
  {c \in Calls : pc[c] = "accepted" /\ opts[c].store = s /\ opts[c].wpt = j}

Matched(s, j) == runs[s][j] + Cardinality(Between(s, j)) = onTime[s][j] + late[s][j]

LEMMA BetweenFinite ==
  ASSUME NEW s, NEW j
  PROVE  /\ IsFiniteSet(Between(s, j)) /\ IsFiniteSet(Between(s, j)')
         /\ Cardinality(Between(s, j)) \in Nat
         /\ Cardinality(Between(s, j)') \in Nat
<1>1. Between(s, j) \subseteq Calls /\ Between(s, j)' \subseteq Calls
  BY DEF Between
<1> QED
  BY <1>1, FS_Subset, FS_CardinalityType

LEMMA MatchedInit == AuthInit => RunsMatchAcceptances
<1> SUFFICES ASSUME AuthInit, NEW s \in Stores, NEW j \in Jtis PROVE Matched(s, j)
  BY DEF RunsMatchAcceptances, Matched, Between
<1>1. runs[s][j] = 0 /\ onTime[s][j] = 0 /\ late[s][j] = 0
  BY DEF AuthInit, Init, Never
<1>2. Between(s, j) = {}
  BY DEF AuthInit, Init, Between
<1> QED
  BY <1>1, <1>2, FS_EmptySet DEF Matched

\* A step that counts nothing and after which the same calls are in between.
LEMMA MatchedFrame ==
  ASSUME NEW s \in Stores, NEW j \in Jtis, Matched(s, j),
         runs'[s][j] = runs[s][j], onTime'[s][j] = onTime[s][j], late'[s][j] = late[s][j],
         Between(s, j)' = Between(s, j)
  PROVE  Matched(s, j)'
BY DEF Matched

\* A call is counted twice and leaves, or enters and is counted once.
LEMMA MatchedValidate ==
  ASSUME AuthTypes, NEW c \in Calls, Validate(c), NEW s \in Stores, NEW j \in Jtis, Matched(s, j)
  PROVE  Matched(s, j)'
<1>0. /\ http[c] = "proof" /\ opts[c] = Arguments(c) /\ UNCHANGED <<runs, opts>>
      /\ DOMAIN pc = Calls
  BY DEF Validate, AuthTypes, AuthTypeOK, TypeOK, authVars, Check, ReadNow, Record
<1>1. CASE Check(c) \/ ReadNow(c)
  <2>1. pc[c] # "accepted" /\ pc'[c] # "accepted"
    BY <1>0, <1>1 DEF Check, ReadNow, Outcome, Arguments
  <2>2. \A d \in Calls \ {c} : pc'[d] = pc[d]
    BY <1>0, <1>1 DEF Check, ReadNow
  <2>3. Between(s, j)' = Between(s, j)
    BY <1>0, <2>1, <2>2 DEF Between
  <2> QED
    BY <1>0, <1>1, <2>3, MatchedFrame DEF Check, ReadNow
<1>2. CASE Record(c)
  <2> DEFINE mine == opts[c].store = s /\ opts[c].wpt = j
             hit == Replayed(seen[opts[c].store], opts[c].wpt, now[c])
  <2>0. /\ onTime[s][j] \in Nat /\ late[s][j] \in Nat /\ runs[s][j] \in Nat
        /\ onTime \in [Stores -> [Jtis -> Nat]] /\ late \in [Stores -> [Jtis -> Nat]]
        /\ opts[c].store \in Stores /\ opts[c].wpt \in Minted
        /\ \A k \in Minted : proofs[k].exp \in Int
        /\ clock \in Nat
    BY <1>2 DEF AuthTypes, AuthTypeOK, TypeOK, Record, Options, Minted, Proof
  <2>1. /\ pc[c] = "lock" /\ pc' = [pc EXCEPT ![c] = IF hit THEN "replayed" ELSE "accepted"]
    BY <1>2 DEF Record
  <2>2. onTime'[s][j] + late'[s][j]
          = IF mine /\ ~hit THEN onTime[s][j] + late[s][j] + 1 ELSE onTime[s][j] + late[s][j]
    <3> DEFINE live == clock <= proofs[opts[c].wpt].exp
    <3>1. /\ onTime' = IF ~hit /\ live
                         THEN [onTime EXCEPT ![opts[c].store][opts[c].wpt] = @ + 1] ELSE onTime
          /\ late' = IF ~hit /\ ~live
                       THEN [late EXCEPT ![opts[c].store][opts[c].wpt] = @ + 1] ELSE late
      BY <1>2, <2>0 DEF Record
    <3> HIDE DEF live, hit
    <3> QED
      BY <2>0, <3>1
  <2>3. Between(s, j)' = IF mine /\ ~hit THEN Between(s, j) \cup {c} ELSE Between(s, j)
    BY <1>0, <2>1 DEF Between
  <2>4. c \notin Between(s, j)
    BY <2>1 DEF Between
  <2>5. mine /\ ~hit => Cardinality(Between(s, j)') = Cardinality(Between(s, j)) + 1
    BY <2>3, <2>4, BetweenFinite, FS_AddElement
  <2>6. CASE mine /\ ~hit
    <3>1. /\ onTime'[s][j] + late'[s][j] = onTime[s][j] + late[s][j] + 1
          /\ Cardinality(Between(s, j)') = Cardinality(Between(s, j)) + 1
      BY <2>2, <2>5, <2>6
    <3>2. runs[s][j] + Cardinality(Between(s, j)) = onTime[s][j] + late[s][j]
      BY DEF Matched
    <3>3. runs[s][j] + (Cardinality(Between(s, j)) + 1) = onTime[s][j] + late[s][j] + 1
      <4>1. /\ runs[s][j] \in Nat /\ Cardinality(Between(s, j)) \in Nat
            /\ onTime[s][j] \in Nat /\ late[s][j] \in Nat
        BY <2>0, BetweenFinite
      <4> QED
        BY <3>2, <4>1
    <3> QED
      BY <1>0, <3>1, <3>3, Zenon DEF Matched
  <2>7. CASE ~(mine /\ ~hit)
    <3>1. /\ onTime'[s][j] + late'[s][j] = onTime[s][j] + late[s][j]
          /\ Between(s, j)' = Between(s, j)
      BY <2>2, <2>3, <2>7
    <3> QED
      BY <1>0, <3>1 DEF Matched
  <2> QED
    BY <2>6, <2>7
<1> QED
  BY <1>1, <1>2 DEF Validate

LEMMA MatchedReturn ==
  ASSUME AuthTypes, NEW c \in Calls, Admit(c) \/ RefuseProof(c),
         NEW s \in Stores, NEW j \in Jtis, Matched(s, j)
  PROVE  Matched(s, j)'
<1>0. /\ http[c] = "proof" /\ opts[c] = Arguments(c) /\ UNCHANGED <<onTime, late>>
      /\ pc' = [pc EXCEPT ![c] = "idle"] /\ opts' = [opts EXCEPT ![c] = Nil]
      /\ DOMAIN pc = Calls /\ DOMAIN opts = Calls
  BY DEF Admit, RefuseProof, Return, AuthTypes, AuthTypeOK, TypeOK
<1>1. Between(s, j)' = Between(s, j) \ {c}
  BY <1>0 DEF Between
<1>2. CASE RefuseProof(c)
  <2>1. c \notin Between(s, j) /\ runs' = runs
    BY <1>2 DEF RefuseProof, Between
  <2> QED
    BY <1>0, <1>1, <2>1, MatchedFrame
<1>3. CASE Admit(c)
  <2> DEFINE mine == req[c].store = s /\ req[c].wpt = j
  <2>1. runs' = [runs EXCEPT ![req[c].store][req[c].wpt] = @ + 1] /\ pc[c] = "accepted"
    BY <1>3 DEF Admit
  <2>2. runs \in [Stores -> [Jtis -> Nat]]
    BY DEF AuthTypes, AuthTypeOK
  <2>3. runs'[s][j] = IF mine THEN runs[s][j] + 1 ELSE runs[s][j]
    BY <2>1, <2>2
  <2>4. c \in Between(s, j) <=> mine
    BY <1>0, <2>1 DEF Between, Arguments
  <2>5. mine => Cardinality(Between(s, j)') = Cardinality(Between(s, j)) - 1
    BY <1>1, <2>4, BetweenFinite, FS_RemoveElement
  <2>6. ~mine => Between(s, j)' = Between(s, j)
    BY <1>1, <2>4
  <2>7. runs[s][j] \in Nat
    BY <2>2
  <2> HIDE DEF mine
  <2> QED
    BY <1>0, <2>3, <2>5, <2>6, <2>7, BetweenFinite DEF Matched
<1> QED
  BY <1>2, <1>3

LEMMA MatchedCrash ==
  ASSUME AuthTypes, NEW p \in Stores, Crash(p), NEW s \in Stores, NEW j \in Jtis, Matched(s, j)
  PROVE  Matched(s, j)'
<1>1. /\ \A c \in Calls : pc'[c] = IF c \in CallsAt(p) THEN "idle" ELSE pc[c]
      /\ \A c \in Calls : opts'[c] = IF c \in CallsAt(p) THEN Nil ELSE opts[c]
      /\ runs' = [runs EXCEPT ![p] = Never]
      /\ onTime' = [onTime EXCEPT ![p] = Never] /\ late' = [late EXCEPT ![p] = Never]
      /\ DOMAIN runs = Stores /\ DOMAIN onTime = Stores /\ DOMAIN late = Stores
  BY DEF Crash, Restart, AuthTypes, AuthTypeOK, TypeOK
<1>2. CASE s = p
  <2>1. Between(s, j)' = {}
    BY <1>1, <1>2 DEF Between, CallsAt
  <2>2. runs'[s][j] = 0 /\ onTime'[s][j] = 0 /\ late'[s][j] = 0
    BY <1>1, <1>2 DEF Never
  <2>3. Cardinality(Between(s, j)') = 0
    BY <2>1, FS_EmptySet
  <2> QED
    BY <2>2, <2>3 DEF Matched
<1>3. CASE s # p
  <2>1. Between(s, j)' = Between(s, j)
    BY <1>1, <1>3 DEF Between, CallsAt
  <2> QED
    BY <1>1, <1>3, <2>1, MatchedFrame
<1> QED
  BY <1>2, <1>3

LEMMA MatchedStep ==
  AuthTypes /\ RunsMatchAcceptances /\ [AuthNext]_allVars => RunsMatchAcceptances'
<1> SUFFICES ASSUME AuthTypes, RunsMatchAcceptances, [AuthNext]_allVars,
                    NEW s \in Stores, NEW j \in Jtis
             PROVE  Matched(s, j)'
  BY DEF RunsMatchAcceptances, Matched, Between
<1>0. Matched(s, j)
  BY DEF RunsMatchAcceptances, Matched, Between
<1>1. ASSUME NEW c \in Calls, Validate(c) PROVE Matched(s, j)'
  BY <1>0, <1>1, MatchedValidate
<1>2. ASSUME NEW c \in Calls, Admit(c) \/ RefuseProof(c) PROVE Matched(s, j)'
  BY <1>0, <1>2, MatchedReturn
<1>3. ASSUME NEW c \in Calls, CheckProof(c) PROVE Matched(s, j)'
  <2>1. /\ pc[c] = "idle" /\ pc' = [pc EXCEPT ![c] = "check"]
        /\ \A d \in Calls \ {c} : opts'[d] = opts[d]
        /\ DOMAIN pc = Calls
        /\ UNCHANGED <<runs, onTime, late>>
    BY <1>3 DEF CheckProof, Begin, AuthTypes, AuthTypeOK, TypeOK
  <2>2. Between(s, j)' = Between(s, j)
    BY <2>1 DEF Between
  <2> QED
    BY <1>0, <2>1, <2>2, MatchedFrame
<1>4. CASE \E p \in Stores : Crash(p)
  BY <1>0, <1>4, MatchedCrash
<1>5. CASE \/ \E c \in Calls : RefuseHeaders(c) \/ Handle(c) \/ Respond(c)
           \/ \E c \in Calls, r \in Request : Receive(c, r)
           \/ \E cl \in Clients, i \in Jtis, url \in Uris, skew \in Skews :
                ClientCall(cl, i, url, skew)
           \/ Tick /\ UNCHANGED authVars
           \/ UNCHANGED allVars
  <2>1. UNCHANGED <<pc, opts, runs, onTime, late>>
    BY <1>5 DEF RefuseHeaders, Handle, Respond, Receive, ClientCall, Generate, Tick,
                authVars, allVars, vars
  <2>2. Between(s, j)' = Between(s, j)
    BY <2>1 DEF Between
  <2> QED
    BY <1>0, <2>1, <2>2, MatchedFrame
<1> QED
  BY <1>1, <1>2, <1>3, <1>4, <1>5 DEF AuthNext, Serve

\* A handler runs once for every proof its store let through, and never
\* otherwise.
THEOREM HandlersMatchAcceptances == AuthSpec => []RunsMatchAcceptances
BY AuthTypesAlways, MatchedInit, MatchedStep, PTL DEF AuthSpec

\* A proof makes a handler run at most once per process and incarnation while
\* it is live, however often the network repeats the request and wherever the
\* copies meet: what Wpt guarantees of the store reaches the handler.
THEOREM OneHandlerPerLiveProof == AuthSpec => []HandlerRunsOnceWhileLive
<1>1. ASSUME AuthTypes, Inv, LateBounded, RunsMatchAcceptances
      PROVE  HandlerRunsOnceWhileLive
  <2> SUFFICES ASSUME NEW s \in Stores, NEW j \in Minted, clock <= proofs[j].exp
               PROVE  runs[s][j] <= 1
    BY DEF HandlerRunsOnceWhileLive
  <2>1. /\ j \in Jtis /\ clock \in Nat /\ proofs[j].exp \in Int
        /\ onTime[s][j] \in Nat /\ late[s][j] \in Nat /\ runs[s][j] \in Nat
    BY <1>1 DEF AuthTypes, AuthTypeOK, TypeOK, Minted, Proof
  <2>2. late[s][j] = 0
    BY <1>1, <2>1 DEF LateBounded
  <2>3. onTime[s][j] <= 1
    BY <1>1, <2>1 DEF Inv, OnceWhileLive
  <2>4. runs[s][j] + Cardinality(Between(s, j)) = onTime[s][j] + late[s][j]
    BY <1>1, <2>1 DEF RunsMatchAcceptances, Between
  <2> QED
    BY <2>1, <2>2, <2>3, <2>4, BetweenFinite
<1> QED
  BY <1>1, AuthInherits, HandlersMatchAcceptances, PTL
==============================================================================
