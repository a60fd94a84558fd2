-------------------------------- MODULE HttpSig --------------------------------
(***************************************************************************)
(* pkg/httpsig: HTTP message signatures, the alternative to WPT.  Sign     *)
(* covers the method, path, query and WIT of a request (and its digest     *)
(* when it has one); Verify checks the signature of the request as it      *)
(* arrived, records its nonce, and then reads the subject of the WIT.      *)
(*                                                                         *)
(* The clock counts ticks, TPS of them to a second: created and expires    *)
(* are whole seconds and Verify compares seconds, but the nonce store      *)
(* compares instants.  That difference is what the module is about.        *)
(***************************************************************************)
EXTENDS Integers, ReplayStore

CONSTANTS
  Nonces,
  Methods, Paths, Queries, Wits, Digests, Auds, Keys,
  Requests,               \* the requests that are made, or arrive changed
  EmptyPath, RootPath,    \* "" and "/"
  Nil,                    \* an absent header, or a missing argument
  BadWit,                 \* a WIT header that is no JWT
  Calls, Stores,
  TPS,                    \* ticks per second
  Leeway,                 \* 5: seconds `created' may lie in the future
  KeepFor,                \* 10 minutes, in ticks
  TTLs, DefaultTTL,       \* SignOptions.TTL, in ticks; 0 asks for the default
  Skews,                  \* signer's clock minus verifier's, in ticks
  MaxTime, MaxCount       \* bounds on the clock and on what `used' counts

ASSUME HttpSigAssumption ==
  /\ TPS \in Nat \ {0}
  /\ {Leeway, KeepFor, MaxTime, MaxCount} \subseteq Nat
  /\ TTLs \subseteq Nat /\ DefaultTTL \in Nat \ {0} /\ Skews \subseteq Int
  /\ Nil \notin Wits \cup Digests \cup Nonces
  /\ BadWit \in Wits
  /\ Requests \subseteq [method : Methods, path : Paths, query : Queries,
                         wit : Wits \cup {Nil}, digest : Digests \cup {Nil}]

VARIABLES
  clock,
  sigs,    \* the signatures made so far, by nonce
  pc, opts, now, keep,
  seen,    \* the nonce store of each process
  used     \* history: accepted records per store, nonce and phase of the clock

vars == <<clock, sigs, pc, opts, now, keep, seen, used>>

Phases == {"before", "second", "after"}

Init ==
  /\ clock = 0
  /\ sigs = [n \in {} |-> 0]
  /\ pc = [c \in Calls |-> "idle"]
  /\ opts = [c \in Calls |-> Nil]
  /\ now = [c \in Calls |-> 0]
  /\ keep = [c \in Calls |-> 0]
  /\ seen = [s \in Stores |-> NoneSeen]
  /\ used = [s \in Stores |-> [n \in Nonces |-> [p \in Phases |-> 0]]]

Unix(tick) == tick \div TPS

-----------------------------------------------------------------------------
(* The signature base. *)

Required == {"@method", "@path", "@query", "workload-identity-token"}

Covered(r) ==
  Required \cup (IF r.digest = Nil THEN {} ELSE {"content-digest"})

\* componentValue, Nil where it returns its error.  (An empty query and "?" are
\* one value already.)
Value(comp, r) ==
  CASE comp = "@method" -> r.method
    [] comp = "@path" -> IF r.path = EmptyPath THEN RootPath ELSE r.path
    [] comp = "@query" -> r.query
    [] comp = "workload-identity-token" -> r.wit
    [] comp = "content-digest" -> r.digest

\* The base is determined by the covered components, their values and the
\* parameters; the parameters travel with the signature.
Base(r, comps) == [comp \in comps |-> Value(comp, r)]

-----------------------------------------------------------------------------
(* Signing. *)

Signature(n, r, comps, key, aud, created, expires) ==
  /\ n \notin DOMAIN sigs
  /\ sigs' = [m \in DOMAIN sigs \cup {n} |->
               IF m = n
                 THEN [base |-> Base(r, comps), comps |-> comps, key |-> key,
                       aud |-> aud, created |-> created, expires |-> expires]
                 ELSE sigs[m]]
  /\ UNCHANGED <<clock, pc, opts, now, keep, seen, used>>

\* Sign: a fresh nonce, created and expires in whole seconds.
Sign(n, r, key, aud, ttl, skew) ==
  /\ r.wit # Nil
  /\ Signature(n, r, Covered(r), key, aud, Unix(clock + skew),
               Unix(clock + skew + IF ttl = 0 THEN DefaultTTL ELSE ttl))

\* Another implementation's signature: without an expiry (a literal expires=0),
\* or not covering the method.
ForeignSign(n, r, key, aud) ==
  /\ r.wit # Nil
  /\ \/ Signature(n, r, Covered(r), key, aud, Unix(clock), 0)
     \/ Signature(n, r, Covered(r) \ {"@method"}, key, aud, Unix(clock),
                  Unix(clock + DefaultTTL))

-----------------------------------------------------------------------------
(* Verify. *)

\* o.sig is the nonce of the Signature-Input and Signature headers, Nil if one
\* is missing or malformed; o.req is the request as it arrived.
Options == [store : Stores, sig : Nonces \cup {Nil}, req : Requests,
            key : Keys, aud : Auds, replay : BOOLEAN]

Begin(c, o) ==
  /\ pc[c] = "idle"
  /\ o.sig \in DOMAIN sigs \cup {Nil}
  /\ pc' = [pc EXCEPT ![c] = "check"]
  /\ opts' = [opts EXCEPT ![c] = o]
  /\ UNCHANGED <<clock, sigs, now, keep, seen, used>>

\* Freshness in whole seconds; expires <= 0 means no expiry.
Fresh(p) ==
  /\ p.created <= Unix(clock) + Leeway
  /\ p.expires > 0 => Unix(clock) <= p.expires

\* The signature verifies over the request as it arrived.
Genuine(p, o) ==
  /\ Nil \notin {Value(comp, o.req) : comp \in p.comps}
  /\ p.base = Base(o.req, p.comps)
  /\ p.key = o.key

\* Mutants of Acceptable: any set of components will do; the signature is not
\* verified before the nonce is spent.
AcceptableUncovered(o) ==
  LET p == sigs[o.sig] IN
  /\ o.req.wit # Nil
  /\ o.sig # Nil
  /\ p.aud = o.aud
  /\ Fresh(p)
  /\ Genuine(p, o)

AcceptableUnverified(o) ==
  LET p == sigs[o.sig] IN
  /\ o.req.wit # Nil
  /\ o.sig # Nil
  /\ p.aud = o.aud
  /\ Fresh(p)
  /\ Required \subseteq p.comps

Acceptable(o) ==
  LET p == sigs[o.sig] IN
  /\ o.req.wit # Nil
  /\ o.sig # Nil
  /\ p.aud = o.aud
  /\ Fresh(p)
  /\ Required \subseteq p.comps
  /\ Genuine(p, o)

Check(c) ==
  /\ pc[c] = "check"
  /\ pc' = [pc EXCEPT ![c] = IF ~Acceptable(opts[c]) THEN "invalid"
                             ELSE IF opts[c].replay THEN "read" ELSE "subject"]
  /\ UNCHANGED <<clock, sigs, opts, now, keep, seen, used>>

\* Mutants of ReadNow: the expiry of the signature is not passed on; the time is
\* rounded up.
ReadNowKeepFor(c) ==
  /\ pc[c] = "read"
  /\ keep' = [keep EXCEPT ![c] = clock + KeepFor]
  /\ now' = [now EXCEPT ![c] = clock]
  /\ pc' = [pc EXCEPT ![c] = "lock"]
  /\ UNCHANGED <<clock, sigs, opts, seen, used>>

ReadNowAhead(c) ==
  /\ pc[c] = "read"
  /\ keep' = [keep EXCEPT ![c] = clock + KeepFor]
  /\ now' = [now EXCEPT ![c] = clock + TPS]
  /\ pc' = [pc EXCEPT ![c] = "lock"]
  /\ UNCHANGED <<clock, sigs, opts, seen, used>>

\* How long to keep the nonce, and Record's reading of the clock, before the
\* lock.
ReadNow(c) ==
  LET expires == sigs[opts[c].sig].expires IN
  /\ pc[c] = "read"
  /\ keep' = [keep EXCEPT ![c] = IF expires > 0 THEN expires * TPS ELSE clock + KeepFor]
  /\ now' = [now EXCEPT ![c] = clock]
  /\ pc' = [pc EXCEPT ![c] = "lock"]
  /\ UNCHANGED <<clock, sigs, opts, seen, used>>

\* Where the clock stands for a nonce: up to the instant the store keeps it to,
\* in the rest of that second, or after it.
Phase(n) ==
  LET expires == sigs[n].expires IN
  IF expires <= 0 \/ clock <= expires * TPS THEN "before"
  ELSE IF Unix(clock) <= expires THEN "second" ELSE "after"

Record(c) ==
  LET s == opts[c].store
      n == opts[c].sig
      hit == Replayed(seen[s], n, now[c])
  IN
  /\ pc[c] = "lock"
  /\ seen' = [seen EXCEPT ![s] = Recorded(seen[s], n, keep[c], now[c])]
  /\ pc' = [pc EXCEPT ![c] = IF hit THEN "replayed" ELSE "subject"]
  /\ used' = IF hit \/ used[s][n][Phase(n)] = MaxCount THEN used
             ELSE [used EXCEPT ![s][n][Phase(n)] = @ + 1]
  /\ UNCHANGED <<clock, sigs, opts, now, keep>>

\* subjectFromWIT: by now the nonce is spent, also when this fails.
Subject(c) ==
  /\ pc[c] = "subject"
  /\ pc' = [pc EXCEPT ![c] = IF opts[c].req.wit = BadWit THEN "invalid" ELSE "accepted"]
  /\ UNCHANGED <<clock, sigs, opts, now, keep, seen, used>>

Return(c) ==
  /\ pc[c] \in {"accepted", "invalid", "replayed"}
  /\ pc' = [pc EXCEPT ![c] = "idle"]
  /\ opts' = [opts EXCEPT ![c] = Nil]
  /\ now' = [now EXCEPT ![c] = 0]
  /\ keep' = [keep EXCEPT ![c] = 0]
  /\ UNCHANGED <<clock, sigs, seen, used>>

-----------------------------------------------------------------------------
Tick ==
  /\ clock < MaxTime
  /\ clock' = clock + 1
  /\ UNCHANGED <<sigs, pc, opts, now, keep, seen, used>>

Signing ==
  \E n \in Nonces, r \in Requests, key \in Keys, aud \in Auds :
    \/ \E ttl \in TTLs, skew \in Skews : Sign(n, r, key, aud, ttl, skew)
    \/ ForeignSign(n, r, key, aud)

Step(c) == Check(c) \/ ReadNow(c) \/ Record(c) \/ Subject(c) \/ Return(c)

Next ==
  \/ Signing
  \/ \E c \in Calls, o \in Options : Begin(c, o)
  \/ \E c \in Calls : Step(c)
  \/ Tick

Spec == Init /\ [][Next]_vars

-----------------------------------------------------------------------------
(* Properties. *)

PC == {"idle", "check", "read", "lock", "subject", "accepted", "invalid", "replayed"}

\* Types, and: past its checks a call has a signature that was really made.
TypeOK ==
  /\ clock \in 0..MaxTime
  /\ DOMAIN sigs \subseteq Nonces
  /\ pc \in [Calls -> PC]
  /\ \A c \in Calls : pc[c] # "idle" => opts[c] \in Options
  /\ \A c \in Calls : pc[c] \in {"read", "lock", "subject", "accepted", "replayed"}
                        => opts[c].sig \in DOMAIN sigs
  /\ now \in [Calls -> 0..MaxTime]
  /\ \A s \in Stores : DOMAIN seen[s] \subseteq DOMAIN sigs
  /\ used \in [Stores -> [Nonces -> [Phases -> 0..MaxCount]]]

\* Up to the instant a signature expires its nonce is let through at most once,
\* whatever the interleaving of the verifications.
OnceBeforeExpiry ==
  \A s \in Stores, n \in DOMAIN sigs :
    sigs[n].expires > 0 => used[s][n]["before"] <= 1

\* NonceStore "records request nonces to prevent replay attacks" (nonce.go:12)
\* and sweeps only expired ones (nonce.go:17-19): as long as Verify's freshness
\* check would accept the signature, its nonce is let through at most once.
OnceWhileFresh ==
  \A s \in Stores, n \in DOMAIN sigs :
    sigs[n].expires > 0 => used[s][n]["before"] + used[s][n]["second"] <= 1

\* A request that is reported verified is the one that was signed, by the key
\* of the WIT, for this audience: nothing the workload relies on was changed on
\* the way, the digest included if it was signed.
VerifiedAsSigned ==
  \A c \in Calls : pc[c] = "accepted" =>
    LET o == opts[c]
        p == sigs[o.sig]
    IN /\ p.key = o.key /\ p.aud = o.aud
       /\ Required \subseteq DOMAIN p.base
       /\ \A comp \in DOMAIN p.base : p.base[comp] = Value(comp, o.req)

\* A request altered on the way costs its sender nothing: a store records a
\* nonce only for a call whose signature verified, so the genuine request still
\* gets through.
OnlyGenuineNoncesRecorded ==
  [][\A s \in Stores : \A n \in DOMAIN seen'[s] \ DOMAIN seen[s] :
       \E c \in Calls : /\ pc[c] # "idle" /\ opts[c].sig = n
                        /\ Genuine(sigs[n], opts[c])]_vars
==============================================================================
