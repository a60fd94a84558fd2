----------------------------- MODULE HttpSigProofs -----------------------------
(***************************************************************************)
(* Theorems about HttpSig, for any number of verifications, stores,        *)
(* nonces, requests and ticks, and any length of a second.                 *)
(***************************************************************************)
EXTENDS HttpSig, ReplayStoreProofs

USE HttpSigAssumption

-----------------------------------------------------------------------------
(***************************************************************************)
(* Types, with what TypeOK need not say: a call always names a signature   *)
(* that was made, if any, and times are numbers.                           *)
(***************************************************************************)
Types ==
  /\ TypeOK
  /\ DOMAIN opts = Calls /\ DOMAIN seen = Stores /\ keep \in [Calls -> Int]
  /\ \A n \in DOMAIN sigs : sigs[n].expires \in Int
  /\ \A c \in Calls : pc[c] # "idle" => opts[c].sig \in DOMAIN sigs \cup {Nil}

\* Seconds are whole numbers.
LEMMA UnixType == ASSUME NEW tick \in Int PROVE Unix(tick) \in Int
BY DEF Unix

LEMMA TypesInit == Init => Types
<1> SUFFICES ASSUME Init PROVE Types
  OBVIOUS
<1>1. used \in [Stores -> [Nonces -> [Phases -> 0..MaxCount]]]
  BY DEF Init, Phases
<1>2. now \in [Calls -> 0..MaxTime] /\ keep \in [Calls -> Int] /\ clock \in 0..MaxTime
  BY DEF Init
<1> QED
  BY <1>1, <1>2 DEF Init, Types, TypeOK, PC, NoneSeen

\* A new signature changes no other.
LEMMA SigningFacts ==
  ASSUME Types, Signing
  PROVE  /\ UNCHANGED <<clock, pc, opts, now, keep, seen, used>>
         /\ \E n \in Nonces : n \notin DOMAIN sigs /\ DOMAIN sigs' = DOMAIN sigs \cup {n}
         /\ \A m \in DOMAIN sigs : sigs'[m] = sigs[m]
         /\ \A m \in DOMAIN sigs' : sigs'[m].expires \in Int
<1>1. ASSUME NEW n \in Nonces, NEW r, NEW comps, NEW key, NEW aud, NEW created,
             NEW expires \in Int, Signature(n, r, comps, key, aud, created, expires)
      PROVE  /\ UNCHANGED <<clock, pc, opts, now, keep, seen, used>>
             /\ \E i \in Nonces : i \notin DOMAIN sigs /\ DOMAIN sigs' = DOMAIN sigs \cup {i}
             /\ \A m \in DOMAIN sigs : sigs'[m] = sigs[m]
             /\ \A m \in DOMAIN sigs' : sigs'[m].expires \in Int
  BY <1>1 DEF Signature, Types
<1>2. PICK n \in Nonces, r \in Requests, key \in Keys, aud \in Auds :
        \/ \E ttl \in TTLs, skew \in Skews : Sign(n, r, key, aud, ttl, skew)
        \/ ForeignSign(n, r, key, aud)
  BY DEF Signing
<1>3. clock \in Int
  BY DEF Types, TypeOK
<1>4. ASSUME NEW ttl \in TTLs, NEW skew \in Skews
      PROVE  Unix(clock + skew + IF ttl = 0 THEN DefaultTTL ELSE ttl) \in Int
  <2>1. clock + skew + (IF ttl = 0 THEN DefaultTTL ELSE ttl) \in Int
    BY <1>3
  <2> QED
    BY <2>1, UnixType
<1>5. Unix(clock + DefaultTTL) \in Int
  BY <1>3, UnixType
<1>6. CASE \E ttl \in TTLs, skew \in Skews : Sign(n, r, key, aud, ttl, skew)
  <2>1. PICK ttl \in TTLs, skew \in Skews : Sign(n, r, key, aud, ttl, skew)
    BY <1>6
  <2>2. \E created, expires :
          expires \in Int /\ Signature(n, r, Covered(r), key, aud, created, expires)
    BY <1>4, <2>1, Zenon DEF Sign
  <2> QED
    BY <1>1, <2>2
<1>7. CASE ForeignSign(n, r, key, aud)
  <2>1. \E comps, created, expires :
          expires \in Int /\ Signature(n, r, comps, key, aud, created, expires)
    <3>1. 0 \in Int
      OBVIOUS
    <3> QED
      BY <1>5, <1>7, <3>1, Zenon DEF ForeignSign
  <2> QED
    BY <1>1, <2>1
<1> QED
  BY <1>2, <1>6, <1>7

LEMMA TypesSigning == Types /\ Signing => Types'
BY SigningFacts DEF Types, TypeOK

LEMMA TypesBegin == ASSUME Types, NEW c \in Calls, NEW o \in Options, Begin(c, o) PROVE Types'
BY DEF Types, TypeOK, Begin, PC

LEMMA TypesLocal ==
  ASSUME Types, NEW c \in Calls, Check(c) \/ Subject(c) \/ Return(c)
  PROVE  Types'
<1>1. CASE Check(c)
  BY <1>1 DEF Types, TypeOK, Check, Acceptable, PC
<1>2. CASE Subject(c)
  BY <1>2 DEF Types, TypeOK, Subject, PC
<1>3. CASE Return(c)
  BY <1>3 DEF Types, TypeOK, Return, PC
<1> QED
  BY <1>1, <1>2, <1>3

LEMMA TypesReadNow == ASSUME Types, NEW c \in Calls, ReadNow(c) PROVE Types'
<1> DEFINE expires == sigs[opts[c].sig].expires
           until == IF expires > 0 THEN expires * TPS ELSE clock + KeepFor
<1>1. clock \in 0..MaxTime /\ clock \in Int /\ expires \in Int
  BY DEF ReadNow, Types, TypeOK
<1>2. until \in Int
  BY <1>1
<1>3. keep' = [keep EXCEPT ![c] = until]
  BY DEF ReadNow
<1> HIDE DEF until
<1>4. keep' \in [Calls -> Int] /\ now' \in [Calls -> 0..MaxTime]
  BY <1>1, <1>2, <1>3 DEF ReadNow, Types, TypeOK
<1> QED
  BY <1>4 DEF Types, TypeOK, ReadNow, PC

LEMMA TypesRecord == ASSUME Types, NEW c \in Calls, Record(c) PROVE Types'
<1> DEFINE s == opts[c].store
           n == opts[c].sig
           r == Recorded(seen[s], n, keep[c], now[c])
<1>1. s \in Stores /\ n \in DOMAIN sigs /\ n \in Nonces
  BY DEF Record, Types, TypeOK, Options
<1>2. DOMAIN r \subseteq DOMAIN seen[s] \cup {n}
  BY RecordedFacts
<1>3. seen' = [seen EXCEPT ![s] = r]
  BY DEF Record
<1> HIDE DEF r
<1>4. DOMAIN seen' = Stores /\ \A q \in Stores : DOMAIN seen'[q] \subseteq DOMAIN sigs
  BY <1>1, <1>2, <1>3 DEF Types, TypeOK
<1>5. used' \in [Stores -> [Nonces -> [Phases -> 0..MaxCount]]]
  <2>1. Phase(n) \in Phases
    BY DEF Phase, Phases
  <2>2. used[s][n][Phase(n)] \in 0..MaxCount
    BY <1>1, <2>1 DEF Types, TypeOK
  <2>3. used[s][n][Phase(n)] # MaxCount => used[s][n][Phase(n)] + 1 \in 0..MaxCount
    BY <2>2
  <2> QED
    BY <1>1, <2>1, <2>3 DEF Record, Types, TypeOK
<1> QED
  BY <1>4, <1>5 DEF Types, TypeOK, Record, PC

LEMMA TypesStep == Types /\ [Next]_vars => Types'
<1> SUFFICES ASSUME Types, [Next]_vars PROVE Types'
  OBVIOUS
<1>1. CASE Signing
  BY <1>1, TypesSigning
<1>2. CASE \E c \in Calls, o \in Options : Begin(c, o)
  BY <1>2, TypesBegin
<1>3. CASE \E c \in Calls : Step(c)
  BY <1>3, TypesLocal, TypesReadNow, TypesRecord DEF Step
<1>4. CASE Tick
  BY <1>4 DEF Tick, Types, TypeOK
<1>5. CASE UNCHANGED vars
  BY <1>5 DEF vars, Types, TypeOK
<1> QED
  BY <1>1, <1>2, <1>3, <1>4, <1>5 DEF Next

LEMMA TypesAlways == Spec => []Types
BY TypesInit, TypesStep, PTL DEF Spec

\* The types of HttpSig, and that a call past its checks has a signature that
\* was really made.
THEOREM HttpSigTypeCorrect == Spec => []TypeOK
<1>1. Types => TypeOK
  BY DEF Types
<1> QED
  BY <1>1, TypesAlways, PTL

-----------------------------------------------------------------------------
(***************************************************************************)
(* What was checked still holds when it is used.  VerifiedAsSigned is said *)
(* of calls that return; it is made by Check, three steps earlier, and     *)
(* needs that neither the signature nor the request changes in between.    *)
(***************************************************************************)

\* The part of Acceptable that does not depend on the clock.
Verified(c) ==
  LET o == opts[c]
      p == sigs[o.sig]
  IN /\ p.aud = o.aud
     /\ Required \subseteq p.comps
     /\ Genuine(p, o)

Checked == Types /\ \A c \in Calls :
  pc[c] \in {"read", "lock", "subject", "accepted"} => Verified(c)

LEMMA CheckedInit == Init => Checked
BY TypesInit DEF Init, Checked

\* A step keeps the signature of a call and what it was called with.
LEMMA CallKept ==
  ASSUME Types, [Next]_vars, NEW c \in Calls, pc[c] # "idle", pc'[c] # "idle"
  PROVE  opts'[c] = opts[c] /\ \A n \in DOMAIN sigs : n \in DOMAIN sigs' /\ sigs'[n] = sigs[n]
<1>1. CASE Signing
  BY <1>1, SigningFacts
<1>2. CASE \E d \in Calls, o \in Options : Begin(d, o)
  BY <1>2 DEF Begin
<1>3. ASSUME NEW d \in Calls, Step(d)
      PROVE  opts'[c] = opts[c] /\ sigs' = sigs
  <2>1. DOMAIN pc = Calls /\ DOMAIN opts = Calls
    BY DEF Types, TypeOK
  <2> QED
    BY <1>3, <2>1 DEF Step, Check, ReadNow, Record, Subject, Return
<1>4. CASE Tick \/ UNCHANGED vars
  BY <1>4 DEF Tick, vars
<1> QED
  BY <1>1, <1>2, <1>3, <1>4 DEF Next

LEMMA VerifiedKept ==
  ASSUME Types, [Next]_vars, NEW c \in Calls, pc[c] # "idle", pc'[c] # "idle",
         opts[c].sig \in DOMAIN sigs, Verified(c)
  PROVE  Verified(c)'
<1>1. opts'[c] = opts[c] /\ sigs'[opts[c].sig] = sigs[opts[c].sig]
  BY CallKept
<1> QED
  BY <1>1 DEF Verified

LEMMA CheckedStep == Checked /\ [Next]_vars => Checked'
<1> SUFFICES ASSUME Checked, [Next]_vars PROVE Checked'
  OBVIOUS
<1>0. Types /\ Types' /\ DOMAIN pc = Calls
  BY TypesStep DEF Checked, Types, TypeOK
<1>1. ASSUME NEW c \in Calls, pc'[c] \in {"read", "lock", "subject", "accepted"}
      PROVE  pc[c] # "idle" /\ Verified(c) /\ opts[c].sig \in DOMAIN sigs
  <2>1. CASE pc'[c] = pc[c]
    BY <1>0, <1>1, <2>1 DEF Checked, Types, TypeOK
  <2>2. CASE Check(c)
    <3>1. Acceptable(opts[c])
      BY <1>0, <1>1, <2>2 DEF Check
    <3>2. Verified(c) /\ opts[c].sig # Nil
      BY <3>1 DEF Acceptable, Verified
    <3> QED
      BY <1>0, <2>2, <3>2 DEF Check, Types
  <2>3. CASE ReadNow(c) \/ Record(c) \/ Subject(c)
    BY <1>0, <2>3 DEF ReadNow, Record, Subject, Checked, Types, TypeOK
  <2>4. ASSUME pc'[c] # pc[c], ~Check(c), ~ReadNow(c), ~Record(c), ~Subject(c) PROVE FALSE
    <3>1. CASE Signing
      BY <2>4, <3>1, <1>0, SigningFacts
    <3>2. CASE \E d \in Calls, o \in Options : Begin(d, o)
      BY <1>0, <1>1, <2>4, <3>2 DEF Begin
    <3>3. ASSUME NEW d \in Calls, Step(d) PROVE FALSE
      BY <1>0, <1>1, <2>4, <3>3 DEF Step, Check, ReadNow, Record, Subject, Return
    <3>4. CASE Tick \/ UNCHANGED vars
      BY <2>4, <3>4 DEF Tick, vars
    <3> QED
      BY <3>1, <3>2, <3>3, <3>4 DEF Next
  <2> QED
    BY <2>1, <2>2, <2>3, <2>4
<1>2. \A c \in Calls : pc'[c] \in {"read", "lock", "subject", "accepted"} => Verified(c)'
  BY <1>0, <1>1, VerifiedKept
<1> QED
  BY <1>0, <1>2 DEF Checked

LEMMA CheckedAlways == Spec => []Checked
BY CheckedInit, CheckedStep, PTL DEF Spec

\* A request reported verified is the one that was signed, by that key, for
\* that audience, in every component the signature covers; and it covers the
\* required ones.
THEOREM VerifiedMeansSigned == Spec => []VerifiedAsSigned
<1>1. ASSUME Checked, NEW c \in Calls, pc[c] = "accepted"
      PROVE  LET o == opts[c]
                 p == sigs[o.sig]
             IN /\ p.key = o.key /\ p.aud = o.aud
                /\ Required \subseteq DOMAIN p.base
                /\ \A comp \in DOMAIN p.base : p.base[comp] = Value(comp, o.req)
  <2>1. Verified(c)
    BY <1>1 DEF Checked
  <2> QED
    BY <2>1 DEF Verified, Genuine, Base
<1>2. Checked => VerifiedAsSigned
  BY <1>1 DEF VerifiedAsSigned
<1> QED
  BY <1>2, CheckedAlways, PTL

\* A store records a nonce only for a call whose signature verified over the
\* request as it arrived.
THEOREM NoncesAreGenuine == Spec => OnlyGenuineNoncesRecorded
<1> DEFINE New(s) == DOMAIN seen'[s] \ DOMAIN seen[s]
           Paid(n) == \E c \in Calls : /\ pc[c] # "idle" /\ opts[c].sig = n
                                       /\ Genuine(sigs[n], opts[c])
<1>1. ASSUME Checked, [Next]_vars, NEW s \in Stores, NEW n \in New(s)
      PROVE  Paid(n)
  <2>1. ASSUME NEW c \in Calls, Record(c) PROVE Paid(n)
    <3> DEFINE r == Recorded(seen[opts[c].store], opts[c].sig, keep[c], now[c])
    <3>1. DOMAIN r \subseteq DOMAIN seen[opts[c].store] \cup {opts[c].sig}
      BY RecordedFacts
    <3>2. seen' = [seen EXCEPT ![opts[c].store] = r] /\ DOMAIN seen = Stores
      BY <1>1, <2>1 DEF Record, Checked, Types
    <3> HIDE DEF r
    <3>3. n = opts[c].sig
      BY <1>1, <3>1, <3>2
    <3>4. pc[c] = "lock" /\ Verified(c)
      BY <1>1, <2>1 DEF Record, Checked
    <3> QED
      BY <3>3, <3>4 DEF Verified
  <2>2. CASE \A c \in Calls : ~Record(c)
    <3>1. seen' = seen
      BY <1>1, <2>2, SigningFacts
         DEF Next, Step, Begin, Check, ReadNow, Subject, Return, Tick, vars, Checked
    <3> QED
      BY <1>1, <3>1
  <2> QED
    BY <2>1, <2>2
<1>2. ASSUME Checked, [Next]_vars
      PROVE  [\A s \in Stores : \A n \in DOMAIN seen'[s] \ DOMAIN seen[s] :
                \E c \in Calls : /\ pc[c] # "idle" /\ opts[c].sig = n
                                 /\ Genuine(sigs[n], opts[c])]_vars
  BY <1>1, <1>2
<1> QED
  BY <1>2, CheckedAlways, PTL DEF Spec, OnlyGenuineNoncesRecorded

-----------------------------------------------------------------------------
(***************************************************************************)
(* Once before expiry.  A nonce used before its expiry is in the map until *)
(* then: it was put there with that expiry, and no call sweeps with a time *)
(* that is still to come.                                                  *)
(***************************************************************************)

\* The instant a signature expires.
End(n) == sigs[n].expires * TPS

Remembers ==
  /\ \A s \in Stores, n \in Nonces : used[s][n]["before"] > 0 => n \in DOMAIN sigs
  /\ \A s \in Stores, n \in DOMAIN sigs : sigs[n].expires > 0 =>
       /\ used[s][n]["before"] <= 1
       /\ used[s][n]["before"] > 0 /\ clock <= End(n) => n \in DOMAIN seen[s]
       /\ n \in DOMAIN seen[s] => seen[s][n] = End(n)
  /\ \A c \in Calls : pc[c] = "lock" =>
       /\ now[c] <= clock
       /\ sigs[opts[c].sig].expires > 0 => keep[c] = End(opts[c].sig)

LEMMA RemembersInit == Init => Remembers
BY DEF Init, Remembers, Phases, NoneSeen

LEMMA RemembersRecord ==
  ASSUME Types, Remembers, NEW c \in Calls, Record(c)
  PROVE  Remembers'
<1> DEFINE p == opts[c].store
           i == opts[c].sig
           hit == Replayed(seen[p], i, now[c])
           r == Recorded(seen[p], i, keep[c], now[c])
<1>1. p \in Stores /\ i \in DOMAIN sigs /\ i \in Nonces /\ pc[c] = "lock"
  BY DEF Record, Types, TypeOK, Options
<1>2. /\ clock \in Nat /\ now[c] \in Nat /\ now[c] <= clock
      /\ \A n \in DOMAIN sigs : sigs[n].expires \in Int /\ End(n) \in Int
      /\ sigs[i].expires > 0 => keep[c] = End(i)
  BY <1>1 DEF Types, TypeOK, Remembers, End
<1>3. /\ DOMAIN r \subseteq DOMAIN seen[p] \cup {i}
      /\ i \in DOMAIN r
      /\ \A k \in DOMAIN seen[p] : now[c] <= seen[p][k] => k \in DOMAIN r
      /\ \A k \in DOMAIN r : k # i => k \in DOMAIN seen[p] /\ r[k] = seen[p][k]
      /\ hit => i \in DOMAIN seen[p] /\ r[i] = seen[p][i]
      /\ ~hit => r[i] = keep[c]
  BY RecordedFacts
<1>4. ASSUME sigs[i].expires > 0, used[p][i]["before"] > 0, clock <= End(i) PROVE hit
  <2>1. i \in DOMAIN seen[p] /\ seen[p][i] = End(i)
    BY <1>1, <1>4 DEF Remembers
  <2>2. now[c] <= seen[p][i]
    BY <1>1, <1>2, <1>4, <2>1
  <2>3. DOMAIN Swept(seen[p], now[c]) = {k \in DOMAIN seen[p] : now[c] <= seen[p][k]}
    BY SweptFacts
  <2> QED
    BY <2>1, <2>2, <2>3 DEF Replayed
<1> HIDE DEF r, hit
<1>5. seen' = [seen EXCEPT ![p] = r] /\ UNCHANGED <<clock, sigs, opts, now, keep>>
  BY DEF Record, r
<1>6. \A s \in Stores, n \in Nonces :
        \/ used'[s][n]["before"] = used[s][n]["before"]
        \/ /\ s = p /\ n = i /\ ~hit /\ Phase(i) = "before"
           /\ used'[s][n]["before"] = used[s][n]["before"] + 1
  <2>1. used \in [Stores -> [Nonces -> [Phases -> 0..MaxCount]]] /\ Phase(i) \in Phases
    BY DEF Types, TypeOK, Phase, Phases
  <2>2. used' = used \/ (~hit /\ used' = [used EXCEPT ![p][i][Phase(i)] = @ + 1])
    BY DEF Record, hit
  <2>3. "before" \in Phases
    BY DEF Phases
  <2> QED
    BY <1>1, <2>1, <2>2, <2>3
<1>7. Phase(i) = "before" /\ sigs[i].expires > 0 => clock <= End(i)
  BY <1>1, <1>2 DEF Phase, End
<1>8. \A s \in Stores, n \in Nonces : used[s][n]["before"] \in Nat
  BY DEF Types, TypeOK, Phases
<1>9. ASSUME NEW s \in Stores, NEW n \in Nonces, used'[s][n]["before"] > 0
      PROVE  n \in DOMAIN sigs'
  BY <1>1, <1>5, <1>6, <1>9 DEF Remembers
<1>10. ASSUME NEW s \in Stores, NEW n \in DOMAIN sigs', sigs'[n].expires > 0
       PROVE  /\ used'[s][n]["before"] <= 1
              /\ used'[s][n]["before"] > 0 /\ clock' <= End(n)' => n \in DOMAIN seen'[s]
              /\ n \in DOMAIN seen'[s] => seen'[s][n] = End(n)'
  <2>0. /\ n \in DOMAIN sigs /\ n \in Nonces /\ sigs[n].expires > 0
        /\ End(n)' = End(n) /\ clock' = clock /\ End(n) \in Int
        /\ used[s][n]["before"] <= 1
        /\ used[s][n]["before"] > 0 /\ clock <= End(n) => n \in DOMAIN seen[s]
        /\ n \in DOMAIN seen[s] => seen[s][n] = End(n)
    BY <1>2, <1>5, <1>10 DEF End, Types, TypeOK, Remembers
  <2>1. CASE s = p /\ n = i
    <3>1. i \in DOMAIN seen'[p] /\ seen'[p][i] = r[i]
      BY <1>1, <1>3, <1>5 DEF Types
    <3>2. r[i] = End(i)
      BY <1>2, <1>3, <2>0, <2>1
    <3>3. used'[s][n]["before"] <= 1
      BY <1>1, <1>4, <1>6, <1>7, <1>8, <2>0, <2>1
    <3> QED
      BY <2>0, <2>1, <3>1, <3>2, <3>3
  <2>2. CASE s = p /\ n # i
    <3>1. used'[s][n]["before"] = used[s][n]["before"]
      BY <1>6, <2>0, <2>2
    <3>2. seen'[s] = r
      BY <1>1, <1>5, <2>2 DEF Types
    <3>3. clock <= End(n) => now[c] <= End(n)
      BY <1>2, <2>0
    <3> QED
      BY <1>3, <2>0, <2>2, <3>1, <3>2, <3>3
  <2>3. CASE s # p
    <3>1. used'[s][n]["before"] = used[s][n]["before"]
      BY <1>6, <2>0, <2>3
    <3>2. seen'[s] = seen[s]
      BY <1>5, <2>3 DEF Types
    <3> QED
      BY <2>0, <3>1, <3>2
  <2> QED
    BY <2>1, <2>2, <2>3
<1>11. \A d \in Calls : pc'[d] = "lock" => pc[d] = "lock"
  BY DEF Record, Types, TypeOK
<1>12. ASSUME NEW d \in Calls, pc'[d] = "lock"
       PROVE  /\ now'[d] <= clock'
              /\ sigs'[opts'[d].sig].expires > 0 => keep'[d] = End(opts[d].sig)'
  BY <1>5, <1>11, <1>12 DEF Remembers, End
<1> QED
  BY <1>5, <1>9, <1>10, <1>12 DEF Remembers

LEMMA RemembersStep == Types /\ Remembers /\ [Next]_vars => Remembers'
<1> SUFFICES ASSUME Types, Remembers, [Next]_vars PROVE Remembers'
  OBVIOUS
<1>0. /\ DOMAIN pc = Calls /\ DOMAIN now = Calls /\ DOMAIN keep = Calls /\ DOMAIN opts = Calls
      /\ clock \in Nat
      /\ \A n \in DOMAIN sigs : sigs[n].expires \in Int /\ End(n) \in Int
      /\ \A s \in Stores : DOMAIN seen[s] \subseteq DOMAIN sigs
      /\ DOMAIN sigs \subseteq Nonces
      /\ \A s \in Stores, n \in Nonces : used[s][n]["before"] \in Nat
      /\ \A c \in Calls : pc[c] = "lock" => opts[c].sig \in DOMAIN sigs
  BY DEF Types, TypeOK, End, Phases
<1>1. CASE Signing
  <2>1. /\ UNCHANGED <<clock, pc, opts, now, keep, seen, used>>
        /\ DOMAIN sigs \subseteq DOMAIN sigs'
        /\ \A n \in DOMAIN sigs : sigs'[n] = sigs[n] /\ End(n)' = End(n)
        /\ DOMAIN sigs' \subseteq Nonces
    BY <1>0, <1>1, SigningFacts DEF End
  <2>2. ASSUME NEW s \in Stores, NEW n \in DOMAIN sigs', sigs'[n].expires > 0
        PROVE  /\ used'[s][n]["before"] <= 1
               /\ used'[s][n]["before"] > 0 /\ clock' <= End(n)' => n \in DOMAIN seen'[s]
               /\ n \in DOMAIN seen'[s] => seen'[s][n] = End(n)'
    <3>1. CASE n \in DOMAIN sigs
      BY <2>1, <2>2, <3>1 DEF Remembers
    <3>2. CASE n \notin DOMAIN sigs
      <4>1. used[s][n]["before"] = 0 /\ n \notin DOMAIN seen[s]
        BY <1>0, <2>1, <3>2 DEF Remembers
      <4> QED
        BY <2>1, <4>1
    <3> QED
      BY <3>1, <3>2
  <2>3. \A c \in Calls : pc'[c] = "lock" =>
          /\ now'[c] <= clock'
          /\ sigs'[opts'[c].sig].expires > 0 => keep'[c] = End(opts[c].sig)'
    BY <1>0, <2>1 DEF Remembers
  <2> QED
    BY <2>1, <2>2, <2>3 DEF Remembers
<1>2. ASSUME NEW c \in Calls,
             \/ \E o \in Options : Begin(c, o)
             \/ Check(c) \/ Subject(c) \/ Return(c) \/ ReadNow(c)
      PROVE  Remembers'
  <2>1. UNCHANGED <<clock, sigs, seen, used>>
    BY <1>2 DEF Begin, Check, Subject, Return, ReadNow
  <2>2. ASSUME NEW d \in Calls, pc'[d] = "lock"
        PROVE  /\ now'[d] <= clock'
               /\ sigs'[opts'[d].sig].expires > 0 => keep'[d] = End(opts[d].sig)'
               /\ opts'[d] = opts[d]
    <3>1. CASE ReadNow(c) /\ d = c
      BY <1>0, <2>1, <3>1 DEF ReadNow, End
    <3>2. CASE ~(ReadNow(c) /\ d = c)
      <4>1. pc[d] = "lock" /\ now'[d] = now[d] /\ keep'[d] = keep[d] /\ opts'[d] = opts[d]
        BY <1>0, <1>2, <2>2, <3>2 DEF Begin, Check, Subject, Return, ReadNow
      <4> QED
        BY <2>1, <4>1 DEF Remembers, End
    <3> QED
      BY <3>1, <3>2
  <2> QED
    BY <2>1, <2>2 DEF Remembers, End
<1>3. ASSUME NEW c \in Calls, Record(c) PROVE Remembers'
  BY <1>3, RemembersRecord
<1>4. CASE Tick
  <2>1. clock' = clock + 1 /\ UNCHANGED <<sigs, pc, opts, now, keep, seen, used>>
    BY <1>4 DEF Tick
  <2>2. \A n \in DOMAIN sigs : clock' <= End(n) => clock <= End(n)
    BY <1>0, <2>1
  <2>3. \A c \in Calls : now[c] <= clock => now[c] <= clock'
    BY <1>0, <2>1 DEF Types, TypeOK
  <2>4. \A n : End(n)' = End(n)
    BY <2>1 DEF End
  <2> QED
    BY <2>1, <2>2, <2>3, <2>4 DEF Remembers
<1>5. CASE UNCHANGED vars
  BY <1>5 DEF vars, Remembers, End
<1> QED
  BY <1>1, <1>2, <1>3, <1>4, <1>5 DEF Next, Step

\* Up to the instant a signature expires its nonce is let through at most once,
\* for any interleaving, any clocks of the signers and any length of a second.
\* (In the rest of that second it may be let through again: OnceWhileFresh.)
THEOREM NonceOnceBeforeExpiry == Spec => []OnceBeforeExpiry
<1>1. Remembers => OnceBeforeExpiry
  BY DEF Remembers, OnceBeforeExpiry
<1> QED
  BY <1>1, TypesAlways, RemembersInit, RemembersStep, PTL DEF Spec
==============================================================================
