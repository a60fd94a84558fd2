----------------------------------- MODULE Ssf -----------------------------------
(***************************************************************************)
(* pkg/ssf: the transmitter of security event tokens (SET).  Emit signs an *)
(* event and hands it to the in-process channel, if there is room, and to  *)
(* one goroutine per matching push stream.  Emit runs in the goroutines of *)
(* the IdP's handlers, concurrently with stream registration and with the  *)
(* readers of the channel.                                                 *)
(***************************************************************************)
EXTENDS Integers, Sequences, FiniteSets

CONSTANTS
  Streams,       \* stream IDs
  Configs,       \* StreamConfigs that get registered:
                 \* [url, types, auds], url = Nil for poll-only
  EventTypes, Auds, Urls, Nil,
  Calls,         \* goroutines that may be inside Emit
  Receivers,     \* goroutines reading the channel Subscribe returns
  Cap,           \* capacity of the channel, 64
  MaxEvents, MaxRegistrations

ASSUME SsfAssumption ==
  /\ Configs \subseteq [url : Urls \cup {Nil}, types : SUBSET EventTypes,
                        auds : SUBSET Auds]
  /\ Cap \in Nat \ {0}
  /\ {MaxEvents, MaxRegistrations} \subseteq Nat

VARIABLES
  streams,       \* the registered configuration of each stream, Nil if none
  pc, set,       \* where each Emit is, and its SET
  matching,      \* its matchingStreams, as pairs of ID and configuration
  ch,            \* the channel
  pushes,        \* push goroutines: the stream pushed to and the SET
  events,        \* SETs made so far; a SET's jti is its number
  registrations,
  got,           \* history: what the receivers took from the channel
  arrived,       \* history: what the push endpoints were sent
  emitted,       \* history: jtis whose Emit has returned nil
  gone           \* history: streams that were not registered when the call
                 \* began and have not been since

history == <<got, arrived, emitted, gone>>
vars == <<streams, pc, set, matching, ch, pushes, events, registrations, history>>

Init ==
  /\ streams = [i \in Streams |-> Nil]
  /\ pc = [c \in Calls |-> "idle"]
  /\ set = [c \in Calls |-> Nil]
  /\ matching = [c \in Calls |-> {}]
  /\ ch = <<>>
  /\ pushes = {}
  /\ events = 0
  /\ registrations = 0
  /\ got = {}
  /\ arrived = {}
  /\ emitted = {}
  /\ gone = [c \in Calls |-> {}]

-----------------------------------------------------------------------------
RegisterStream(i, cfg) ==
  /\ registrations < MaxRegistrations
  /\ registrations' = registrations + 1
  /\ streams' = [streams EXCEPT ![i] = cfg]
  /\ gone' = [c \in Calls |-> gone[c] \ {i}]
  /\ UNCHANGED <<pc, set, matching, ch, pushes, events, got, arrived, emitted>>

DeregisterStream(i) ==
  /\ streams[i] # Nil
  /\ streams' = [streams EXCEPT ![i] = Nil]
  /\ UNCHANGED <<pc, set, matching, ch, pushes, events, registrations, history>>

-----------------------------------------------------------------------------
(* Emit. *)

\* A SET with a fresh jti.
Begin(c, type) ==
  /\ pc[c] = "idle"
  /\ events < MaxEvents
  /\ events' = events + 1
  /\ set' = [set EXCEPT ![c] = [jti |-> events, type |-> type, auds |-> {}]]
  /\ pc' = [pc EXCEPT ![c] = "match"]
  /\ gone' = [gone EXCEPT ![c] = {i \in Streams : streams[i] = Nil}]
  /\ UNCHANGED <<streams, matching, ch, pushes, registrations, got, arrived, emitted>>

\* An empty list of types asks for all.
StreamWantsEvent(cfg, type) == cfg.types = {} \/ type \in cfg.types

\* Mutant of Match: the list is shared with the other calls.
MatchShared(c) ==
  /\ pc[c] = "match"
  /\ matching' = [matching EXCEPT ![c] =
       UNION {matching[d] : d \in Calls} \cup
       {<<i, streams[i]>> : i \in {j \in Streams :
          streams[j] # Nil /\ StreamWantsEvent(streams[j], set[c].type)}}]
  /\ pc' = [pc EXCEPT ![c] = "sign"]
  /\ UNCHANGED <<streams, set, ch, pushes, events, registrations, history>>

\* The matching streams, under the read lock.
Match(c) ==
  /\ pc[c] = "match"
  /\ matching' = [matching EXCEPT ![c] =
       {<<i, streams[i]>> : i \in {j \in Streams :
          streams[j] # Nil /\ StreamWantsEvent(streams[j], set[c].type)}}]
  /\ pc' = [pc EXCEPT ![c] = "sign"]
  /\ UNCHANGED <<streams, set, ch, pushes, events, registrations, history>>

\* Mutant of Sign: the audiences are read again, from the registry.
SignCurrent(c) ==
  /\ pc[c] = "sign"
  /\ set' = [set EXCEPT ![c].auds =
       UNION {streams[i].auds : i \in {j \in Streams : streams[j] # Nil}}]
  /\ pc' = [pc EXCEPT ![c] = "send"]
  /\ UNCHANGED <<streams, matching, ch, pushes, events, registrations, history>>

\* The union of their audiences goes into the SET, which is signed.
Sign(c) ==
  /\ pc[c] = "sign"
  /\ set' = [set EXCEPT ![c].auds = UNION {m[2].auds : m \in matching[c]}]
  /\ pc' = [pc EXCEPT ![c] = "send"]
  /\ UNCHANGED <<streams, matching, ch, pushes, events, registrations, history>>

\* Mutants of Send: no bound; it waits for room.
SendUnbounded(c) ==
  /\ pc[c] = "send"
  /\ ch' = Append(ch, set[c])
  /\ pc' = [pc EXCEPT ![c] = "push"]
  /\ UNCHANGED <<streams, set, matching, pushes, events, registrations, history>>

SendBlocking(c) == Len(ch) < Cap /\ SendUnbounded(c)

\* The non-blocking send: a full channel drops the SET.
Send(c) ==
  /\ pc[c] = "send"
  /\ ch' = IF Len(ch) < Cap THEN Append(ch, set[c]) ELSE ch
  /\ pc' = [pc EXCEPT ![c] = "push"]
  /\ UNCHANGED <<streams, set, matching, pushes, events, registrations, history>>

\* One goroutine per stream with an endpoint, and Emit returns nil.
Dispatch(c) ==
  /\ pc[c] = "push"
  /\ pushes' = pushes \cup {[stream |-> m[1], cfg |-> m[2], set |-> set[c]] :
                            m \in {n \in matching[c] : n[2].url # Nil}}
  /\ emitted' = emitted \cup {set[c].jti}
  /\ pc' = [pc EXCEPT ![c] = "idle"]
  /\ set' = [set EXCEPT ![c] = Nil]
  /\ matching' = [matching EXCEPT ![c] = {}]
  /\ gone' = [gone EXCEPT ![c] = {}]
  /\ UNCHANGED <<streams, ch, events, registrations, got, arrived>>

-----------------------------------------------------------------------------
(* The push goroutines and the receivers. *)

\* The POST reaches the endpoint; what it answers is ignored.
Push(p) ==
  /\ p \in pushes
  /\ pushes' = pushes \ {p}
  /\ arrived' = arrived \cup {p}
  /\ UNCHANGED <<streams, pc, set, matching, ch, events, registrations,
                 got, emitted, gone>>

\* It fails or times out; nobody retries.
PushFails(p) ==
  /\ p \in pushes
  /\ pushes' = pushes \ {p}
  /\ UNCHANGED <<streams, pc, set, matching, ch, events, registrations, history>>

\* All streams share the channel, so one receiver gets each SET.
Receive(r) ==
  /\ ch # <<>>
  /\ got' = got \cup {<<r, Head(ch)>>}
  /\ ch' = Tail(ch)
  /\ UNCHANGED <<streams, pc, set, matching, pushes, events, registrations,
                 arrived, emitted, gone>>

-----------------------------------------------------------------------------
Emitting(c) == Match(c) \/ Sign(c) \/ Send(c) \/ Dispatch(c)

Delivering == \E p \in pushes : Push(p) \/ PushFails(p)

Next ==
  \/ \E i \in Streams, cfg \in Configs : RegisterStream(i, cfg)
  \/ \E i \in Streams : DeregisterStream(i)
  \/ \E c \in Calls, type \in EventTypes : Begin(c, type)
  \/ \E c \in Calls : Emitting(c)
  \/ Delivering
  \/ \E r \in Receivers : Receive(r)

Spec == Init /\ [][Next]_vars

\* Goroutines run; a push ends within the client's 10 seconds one way or the
\* other.  Nothing makes anybody read the channel.
FairSpec ==
  Spec /\ (\A c \in Calls : WF_vars(Emitting(c))) /\ WF_vars(Delivering)

-----------------------------------------------------------------------------
(* Properties. *)

SETs == [jti : 0..MaxEvents, type : EventTypes, auds : SUBSET Auds]

\* Types; the channel keeps to its capacity.
TypeOK ==
  /\ \A i \in Streams : streams[i] \in Configs \cup {Nil}
  /\ pc \in [Calls -> {"idle", "match", "sign", "send", "push"}]
  /\ \A c \in Calls : pc[c] # "idle" => set[c] \in SETs
  /\ \A c \in Calls : matching[c] \subseteq Streams \X Configs
  /\ ch \in Seq(SETs) /\ Len(ch) <= Cap
  /\ \A p \in pushes \cup arrived :
       p.stream \in Streams /\ p.cfg \in Configs /\ p.set \in SETs

\* A SET pushed to a stream is one the stream asked for, has an endpoint to go
\* to, and names every audience the stream was registered with, also when the
\* stream was changed or removed between the match and the push.
PushFitsItsStream ==
  \A p \in pushes \cup arrived :
    /\ p.cfg.url # Nil
    /\ StreamWantsEvent(p.cfg, p.set.type)
    /\ p.cfg.auds \subseteq p.set.auds

\* No push after deregister (TestDeregisterStream), however the calls overlap:
\* an event whose Emit began when a stream was gone is not pushed to it unless
\* it is registered again meanwhile.
NoPushAfterDeregister ==
  \A c \in Calls : \A m \in matching[c] : m[1] \notin gone[c]

\* "In-process channel is always delivered" (transmitter_test.go:63): the SET
\* of an Emit that returned nil was received or is waiting in the channel.
AlwaysDelivered ==
  \A jti \in emitted :
    \/ \E a \in got : a[2].jti = jti
    \/ \E k \in DOMAIN ch : ch[k].jti = jti

\* Emit returns even if nobody ever reads the channel and no endpoint answers:
\* issuing and revoking at the IdP never wait for a subscriber.
EmitReturns ==
  \A c \in Calls : pc[c] = "match" ~> pc[c] = "idle"
==============================================================================
