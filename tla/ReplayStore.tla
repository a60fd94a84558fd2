----------------------------- MODULE ReplayStore -----------------------------
(***************************************************************************)
(* The body of the critical section of wpt.InMemoryJTIStore.Record, as     *)
(* operators on the map `seen' from a recorded key to its expiry.          *)
(* httpsig.InMemoryNonceStore.Record and                                   *)
(* wag.AuthorizationServer.consumeJTI have the same critical section and   *)
(* use the same operators.                                                 *)
(***************************************************************************)
EXTENDS Integers, Functions

\* The map of a store that has just been created.
NoneSeen == [key \in {} |-> 0]

\* Mutant of Swept: one expired entry takes all others with it.
SweptTogether(seen, now) ==
  IF \E key \in DOMAIN seen : now > seen[key] THEN NoneSeen ELSE seen

\* What the sweep leaves: every entry that `now' is not after.
Swept(seen, now) == Restrict(seen, {key \in DOMAIN seen : now <= seen[key]})

\* The key is still there after the sweep: Record returns its replay error.
Replayed(seen, key, now) == key \in DOMAIN Swept(seen, now)

Put(seen, key, exp) ==
  [k \in DOMAIN seen \cup {key} |-> IF k = key THEN exp ELSE seen[k]]

\* Mutant of Recorded: an accepted key is not stored.
RecordedNothing(seen, key, exp, now) == Swept(seen, now)

\* The map when Record returns: swept, and with the key added unless it is a
\* replay.
Recorded(seen, key, exp, now) ==
  IF Replayed(seen, key, now)
    THEN Swept(seen, now)
    ELSE Put(Swept(seen, now), key, exp)
==============================================================================
