--------------------------- MODULE ReplayStoreProofs ---------------------------
(***************************************************************************)
(* Lemmas about the operators of ReplayStore, whatever the map, the key    *)
(* and the times.                                                          *)
(***************************************************************************)
EXTENDS ReplayStore, TLAPS

\* The sweep of Record keeps the entries that have not expired, unchanged.
LEMMA SweptFacts ==
  ASSUME NEW map, NEW t
  PROVE  /\ DOMAIN Swept(map, t) = {k \in DOMAIN map : t <= map[k]}
         /\ \A k \in DOMAIN Swept(map, t) : Swept(map, t)[k] = map[k]
BY DEF Swept, Restrict

\* Record keeps what has not expired, never changes another key's entry, and
\* afterwards has its own key: under the old expiry if it was a replay, under
\* the given one if it was not.
LEMMA RecordedFacts ==
  ASSUME NEW map, NEW j, NEW e, NEW t
  PROVE  /\ DOMAIN Recorded(map, j, e, t) \subseteq DOMAIN map \cup {j}
         /\ j \in DOMAIN Recorded(map, j, e, t)
         /\ \A k \in DOMAIN map : t <= map[k] => k \in DOMAIN Recorded(map, j, e, t)
         /\ \A k \in DOMAIN Recorded(map, j, e, t) :
              k # j => k \in DOMAIN map /\ Recorded(map, j, e, t)[k] = map[k]
         /\ Replayed(map, j, t) =>
              j \in DOMAIN map /\ Recorded(map, j, e, t)[j] = map[j]
         /\ ~Replayed(map, j, t) => Recorded(map, j, e, t)[j] = e
<1> DEFINE s == Swept(map, t)
           r == Recorded(map, j, e, t)
<1>1. DOMAIN s = {k \in DOMAIN map : t <= map[k]} /\ \A k \in DOMAIN s : s[k] = map[k]
  BY SweptFacts
<1>2. CASE Replayed(map, j, t)
  <2>1. r = s /\ j \in DOMAIN s
    BY <1>2 DEF Recorded, Replayed
  <2> HIDE DEF s, r
  <2> QED
    BY <1>1, <1>2, <2>1 DEF r
<1>3. CASE ~Replayed(map, j, t)
  <2>1. r = [k \in DOMAIN s \cup {j} |-> IF k = j THEN e ELSE s[k]]
    BY <1>3 DEF Recorded, Put
  <2> HIDE DEF s, r
  <2> QED
    BY <1>1, <1>3, <2>1 DEF r
<1> QED
  BY <1>2, <1>3
==============================================================================
