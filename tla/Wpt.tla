--------------------------------- MODULE Wpt ---------------------------------
(***************************************************************************)
(* pkg/wpt: workload proof tokens.  Generate mints a proof bound to a WIT, *)
(* a target URI and optionally a transaction token; Validate, called by    *)
(* concurrent goroutines of one or several processes, checks a proof and   *)
(* then records its jti in the store of its process.                       *)
(*                                                                         *)
(* Validate is three steps because it reads the clock three times: the JWT *)
(* parser reads it once (Check), Record reads it BEFORE it takes the mutex *)
(* (ReadNow), and real time passes again until the mutex is held (Record). *)
(* The critical section itself is one step: every access to the map is     *)
(* inside it.                                                              *)
(*                                                                         *)
(* onTime and late are history: how often the present incarnation of a     *)
(* store has accepted a jti, by the real time of the critical section.     *)
(***************************************************************************)
EXTENDS Integers, FiniteSets, ReplayStore

CONSTANTS
  Jtis,         \* jti values; generateJTI draws 128 random bits, so a proof
                \* minted by Generate is identified with its jti
  NoJti,        \* a proof of another implementation, without a jti claim
  Wits, Keys, Uris, Txns,
  NoTxn,        \* the empty TxnToken
  Nil,          \* an empty or malformed argument
  Calls,        \* goroutines that may be inside Validate at the same time
  Stores,       \* one in-memory store per validating process
  TTLs,         \* GenerateOptions.TTL; 0 asks for the default
  DefaultTTL,
  Skews,        \* clock of the minting host minus clock of the validators;
                \* cutting the claims to whole seconds only adds to it
  MaxTime,      \* bound on the clock
  MaxRestarts   \* bound on process restarts

Tokens == Jtis \cup {NoJti}

ASSUME WptAssumption ==
  /\ NoJti \notin Jtis
  /\ Nil \notin Tokens
  /\ IsFiniteSet(Calls)
  /\ TTLs \subseteq Nat
  /\ DefaultTTL \in Nat \ {0}
  /\ Skews \subseteq Int
  /\ MaxTime \in Nat
  /\ MaxRestarts \in Nat

VARIABLES
  clock,        \* real time, the clock of every validating process
  proofs,       \* the proofs minted so far, by token
  pc,           \* where each call of Validate is
  opts,         \* its ValidateOptions, and the store of its process
  now,          \* the local variable `now' of Record
  seen,         \* the map of each store
  restarts,
  onTime, late

vars == <<clock, proofs, pc, opts, now, seen, restarts, onTime, late>>

Proof == [aud : Uris, wth : Wits, tth : Txns \cup {NoTxn}, key : Keys,
          iat : Int, exp : Int]

Options == [store : Stores, wpt : Tokens \cup {Nil}, wit : Wits, key : Keys,
            uri : Uris, txn : Txns \cup {NoTxn}, replay : BOOLEAN]

PC == {"idle", "check", "read", "lock", "accepted", "invalid", "replayed"}

Never == [j \in Jtis |-> 0]

Init ==
  /\ clock = 0
  /\ proofs = [t \in {} |-> 0]
  /\ pc = [c \in Calls |-> "idle"]
  /\ opts = [c \in Calls |-> Nil]
  /\ now = [c \in Calls |-> 0]
  /\ seen = [s \in Stores |-> NoneSeen]
  /\ restarts = 0
  /\ onTime = [s \in Stores |-> Never]
  /\ late = [s \in Stores |-> Never]

-----------------------------------------------------------------------------
(* Minting. *)

Lifetime(ttl) == IF ttl = 0 THEN DefaultTTL ELSE ttl

\* Generate: a fresh jti, valid from the minting host's present on.  The token
\* NoJti is minted elsewhere and only lacks the jti.
Generate(t, uri, wit, key, txn, ttl, skew) ==
  /\ t \notin DOMAIN proofs
  /\ proofs' = [u \in DOMAIN proofs \cup {t} |->
                  IF u = t
                    THEN [aud |-> uri, wth |-> wit, tth |-> txn, key |-> key,
                          iat |-> clock + skew,
                          exp |-> clock + skew + Lifetime(ttl)]
                    ELSE proofs[u]]
  /\ UNCHANGED <<clock, pc, opts, now, seen, restarts, onTime, late>>

-----------------------------------------------------------------------------
(* Validate. *)

\* A call starts: only minted proofs can be presented, however often and
\* together with whatever WIT, key and URI the caller has.
Begin(c, o) ==
  /\ pc[c] = "idle"
  /\ o.wpt \in DOMAIN proofs \cup {Nil}
  /\ pc' = [pc EXCEPT ![c] = "check"]
  /\ opts' = [opts EXCEPT ![c] = o]
  /\ UNCHANGED <<clock, proofs, now, seen, restarts, onTime, late>>

\* Mutants of Valid: the parser is not asked for the expiry; the binding to the
\* WIT is not checked.
ValidForever(p, o) ==
  /\ p.key = o.key
  /\ p.aud = o.uri
  /\ p.iat <= clock
  /\ p.wth = o.wit
  /\ o.txn # NoTxn => p.tth = o.txn

ValidForAnyWit(p, o) ==
  /\ p.key = o.key
  /\ p.aud = o.uri
  /\ p.iat <= clock /\ clock < p.exp
  /\ o.txn # NoTxn => p.tth = o.txn

\* The parser's checks (signature, audience, nbf and iat, exp; one reading of
\* the clock), then wth, then tth when the caller gave a transaction token.
Valid(p, o) ==
  /\ p.key = o.key
  /\ p.aud = o.uri
  /\ p.iat <= clock /\ clock < p.exp
  /\ p.wth = o.wit
  /\ o.txn # NoTxn => p.tth = o.txn

\* Mutant of Outcome: a missing jti is not refused.
OutcomeWithoutJti(o) ==
  IF o.wpt = Nil \/ ~Valid(proofs[o.wpt], o) THEN "invalid"
  ELSE IF ~o.replay THEN "accepted"
  ELSE "read"

Outcome(o) ==
  IF o.wpt = Nil \/ ~Valid(proofs[o.wpt], o) THEN "invalid"
  ELSE IF ~o.replay THEN "accepted"
  ELSE IF o.wpt = NoJti THEN "invalid"
  ELSE "read"

Check(c) ==
  /\ pc[c] = "check"
  /\ pc' = [pc EXCEPT ![c] = Outcome(opts[c])]
  /\ UNCHANGED <<clock, proofs, opts, now, seen, restarts, onTime, late>>

\* Mutants of ReadNow: the time is rounded up; the jti is already put in the map.
ReadNowAhead(c) ==
  /\ pc[c] = "read"
  /\ now' = [now EXCEPT ![c] = clock + 1]
  /\ pc' = [pc EXCEPT ![c] = "lock"]
  /\ UNCHANGED <<clock, proofs, opts, seen, restarts, onTime, late>>

ReadNowReserving(c) ==
  /\ pc[c] = "read"
  /\ now' = [now EXCEPT ![c] = clock]
  /\ pc' = [pc EXCEPT ![c] = "lock"]
  /\ seen' = [seen EXCEPT ![opts[c].store] =
                Put(@, opts[c].wpt, proofs[opts[c].wpt].exp)]
  /\ UNCHANGED <<clock, proofs, opts, restarts, onTime, late>>

\* now := time.Now(), before mu.Lock().
ReadNow(c) ==
  /\ pc[c] = "read"
  /\ now' = [now EXCEPT ![c] = clock]
  /\ pc' = [pc EXCEPT ![c] = "lock"]
  /\ UNCHANGED <<clock, proofs, opts, seen, restarts, onTime, late>>

\* The critical section, with the time read by ReadNow.
Record(c) ==
  LET s == opts[c].store
      j == opts[c].wpt
      exp == proofs[j].exp
      hit == Replayed(seen[s], j, now[c])
  IN
  /\ pc[c] = "lock"
  /\ seen' = [seen EXCEPT ![s] = Recorded(seen[s], j, exp, now[c])]
  /\ pc' = [pc EXCEPT ![c] = IF hit THEN "replayed" ELSE "accepted"]
  /\ onTime' = IF ~hit /\ clock <= exp
                 THEN [onTime EXCEPT ![s][j] = @ + 1] ELSE onTime
  /\ late' = IF ~hit /\ clock > exp
               THEN [late EXCEPT ![s][j] = @ + 1] ELSE late
  /\ UNCHANGED <<clock, proofs, opts, now, restarts>>

\* The caller has its claims or its error.
Return(c) ==
  /\ pc[c] \in {"accepted", "invalid", "replayed"}
  /\ pc' = [pc EXCEPT ![c] = "idle"]
  /\ opts' = [opts EXCEPT ![c] = Nil]
  /\ now' = [now EXCEPT ![c] = 0]
  /\ UNCHANGED <<clock, proofs, seen, restarts, onTime, late>>

-----------------------------------------------------------------------------
(* The environment. *)

Tick ==
  /\ clock < MaxTime
  /\ clock' = clock + 1
  /\ UNCHANGED <<proofs, pc, opts, now, seen, restarts, onTime, late>>

\* The calls running in the process of a store.
CallsAt(s) == {c \in Calls : pc[c] # "idle" /\ opts[c].store = s}

\* The process dies with its calls and its map, and comes back empty.
Restart(s) ==
  /\ restarts < MaxRestarts
  /\ restarts' = restarts + 1
  /\ pc' = [c \in Calls |-> IF c \in CallsAt(s) THEN "idle" ELSE pc[c]]
  /\ opts' = [c \in Calls |-> IF c \in CallsAt(s) THEN Nil ELSE opts[c]]
  /\ now' = [c \in Calls |-> IF c \in CallsAt(s) THEN 0 ELSE now[c]]
  /\ seen' = [seen EXCEPT ![s] = NoneSeen]
  /\ onTime' = [onTime EXCEPT ![s] = Never]
  /\ late' = [late EXCEPT ![s] = Never]
  /\ UNCHANGED <<clock, proofs>>

-----------------------------------------------------------------------------
Mint == \E t \in Tokens, uri \in Uris, wit \in Wits, key \in Keys,
           txn \in Txns \cup {NoTxn}, ttl \in TTLs, skew \in Skews :
          Generate(t, uri, wit, key, txn, ttl, skew)

Step(c) == Check(c) \/ ReadNow(c) \/ Record(c) \/ Return(c)

Next ==
  \/ Mint
  \/ \E c \in Calls, o \in Options : Begin(c, o)
  \/ \E c \in Calls : Step(c)
  \/ Tick
  \/ \E s \in Stores : Restart(s)

Spec == Init /\ [][Next]_vars

-----------------------------------------------------------------------------
(* Properties. *)

Minted == DOMAIN proofs \cap Jtis

InFlight(s, j) ==
  {c \in Calls : pc[c] \in {"read", "lock"} /\ opts[c].store = s /\ opts[c].wpt = j}

\* Types; a call between its check and its record has a minted proof with a
\* jti and asked for the replay check (Validate's order of early returns).
TypeOK ==
  /\ clock \in Nat
  /\ DOMAIN proofs \subseteq Tokens
  /\ \A t \in DOMAIN proofs : proofs[t] \in Proof
  /\ pc \in [Calls -> PC]
  /\ now \in [Calls -> Nat]
  /\ DOMAIN opts = Calls
  /\ \A c \in Calls :
       pc[c] # "idle" => opts[c] \in Options
                         /\ opts[c].wpt \in DOMAIN proofs \cup {Nil}
  /\ \A c \in Calls :
       pc[c] \in {"read", "lock", "replayed"} => opts[c].wpt \in Minted /\ opts[c].replay
  /\ DOMAIN seen = Stores
  /\ \A s \in Stores : DOMAIN seen[s] \subseteq Minted
  /\ onTime \in [Stores -> [Jtis -> Nat]]
  /\ late \in [Stores -> [Jtis -> Nat]]

\* A store that has not been restarted lets a jti through at most once up to
\* and including the proof's expiry, whatever the interleaving of the calls and
\* however stale the time they sweep with (InMemoryJTIStore.Record).
OnceWhileLive ==
  \A s \in Stores, j \in Jtis : onTime[s][j] <= 1

\* Why: what a store has let through while it was live is still in its map,
\* under the expiry of the proof, until the clock has passed that expiry; no
\* call sweeps with a time that is still to come; and what is in the map was
\* let through by this incarnation.
StoreRemembersLive ==
  /\ \A s \in Stores, j \in Jtis :
       onTime[s][j] > 0 => /\ j \in Minted
                           /\ clock <= proofs[j].exp => j \in DOMAIN seen[s]
  /\ \A s \in Stores : \A j \in DOMAIN seen[s] :
       /\ seen[s][j] = proofs[j].exp
       /\ onTime[s][j] + late[s][j] > 0
  /\ \A c \in Calls : pc[c] = "lock" => now[c] <= clock

\* Past the expiry a jti gets through again only for calls that had passed the
\* expiry check before it, so at most once per goroutine: all that separating
\* the check (validator.go) from the record (store.go) can cost.
LateBounded ==
  \A s \in Stores, j \in Jtis :
    /\ late[s][j] > 0 => j \in Minted /\ clock > proofs[j].exp
    /\ late[s][j] + Cardinality(InFlight(s, j)) <= Cardinality(Calls)

\* ErrReplayed is never a false alarm: the store did accept that jti before,
\* in this incarnation.
ReplayVerdictJustified ==
  \A c \in Calls : pc[c] = "replayed" =>
    LET o == opts[c] IN onTime[o.store][o.wpt] + late[o.store][o.wpt] > 0

\* What the comment on InMemoryJTIStore (store.go:32-34) concludes: evicting
\* expired jtis reopens no replay window, so an incarnation of a store lets a
\* jti through at most once, ever.
EvictionReopensNothing ==
  \A s \in Stores, j \in Jtis : onTime[s][j] + late[s][j] <= 1

-----------------------------------------------------------------------------
\* What Validate promises, stated without goroutines, maps or clocks read at
\* different times (see ProofUse).
Promise == INSTANCE ProofUse WITH
  Places <- Stores,
  Slack <- Cardinality(Calls),
  expiry <- [j \in Minted |-> proofs[j].exp],
  uses <- [s \in Stores |-> [j \in Jtis |-> onTime[s][j] + late[s][j]]]

\* Every step of Validate is a step the promise allows.
ImplementsPromise == Promise!Spec
==============================================================================
