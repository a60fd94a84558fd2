------------------------------- MODULE SsfProofs -------------------------------
(***************************************************************************)
(* Theorems about Ssf, for any number of streams, concurrent emissions,    *)
(* registrations, receivers and any capacity of the channel.               *)
(***************************************************************************)
EXTENDS Ssf, TLAPS

USE SsfAssumption

-----------------------------------------------------------------------------
(***************************************************************************)
(* Types.  That the channel keeps to its capacity is an invariant of the   *)
(* code's select with a default case, not of the channel.                  *)
(***************************************************************************)
Types ==
  /\ TypeOK
  /\ events \in 0..MaxEvents
  /\ DOMAIN streams = Streams /\ DOMAIN set = Calls
  /\ DOMAIN matching = Calls /\ DOMAIN gone = Calls

LEMMA TypesInit == Init => Types
<1> SUFFICES ASSUME Init PROVE Types
  OBVIOUS
<1>1. ch \in Seq(SETs) /\ Len(ch) <= Cap
  BY DEF Init
<1> QED
  BY <1>1 DEF Init, Types, TypeOK

\* What a call finds to match: streams that are registered and want the event.
Wanted(c) ==
  {<<i, streams[i]>> : i \in {j \in Streams :
     streams[j] # Nil /\ StreamWantsEvent(streams[j], set[c].type)}}

LEMMA WantedFacts ==
  ASSUME Types, NEW c
  PROVE  /\ Wanted(c) \subseteq Streams \X Configs
         /\ \A m \in Wanted(c) : /\ streams[m[1]] # Nil
                                 /\ StreamWantsEvent(m[2], set[c].type)
BY DEF Wanted, Types, TypeOK

\* The audiences of the SET are those of every stream that was matched.
LEMMA AudiencesFacts ==
  ASSUME Types, NEW c \in Calls
  PROVE  /\ UNION {m[2].auds : m \in matching[c]} \subseteq Auds
         /\ \A m \in matching[c] : m[2].auds \subseteq UNION {n[2].auds : n \in matching[c]}
<1>1. \A m \in matching[c] : m[2] \in Configs /\ m[2].auds \subseteq Auds
  BY DEF Types, TypeOK
<1> QED
  BY <1>1

LEMMA TypesEmitting == ASSUME Types, NEW c \in Calls, Emitting(c) PROVE Types'
<1>1. CASE Match(c)
  <2>1. matching' = [matching EXCEPT ![c] = Wanted(c)]
    BY <1>1 DEF Match, Wanted
  <2>2. \A d \in Calls : matching'[d] \subseteq Streams \X Configs
    BY <2>1, WantedFacts DEF Types, TypeOK
  <2> QED
    BY <1>1, <2>2 DEF Match, Types, TypeOK, history
<1>2. CASE Sign(c)
  <2> DEFINE auds == UNION {m[2].auds : m \in matching[c]}
  <2>1. auds \subseteq Auds /\ set[c] \in SETs
    BY <1>2, AudiencesFacts DEF Sign, Types, TypeOK
  <2>2. set' = [set EXCEPT ![c].auds = auds]
    BY <1>2 DEF Sign
  <2> HIDE DEF auds
  <2>3. set'[c] \in SETs /\ \A d \in Calls \ {c} : set'[d] = set[d]
    BY <2>1, <2>2 DEF SETs, Types
  <2> QED
    BY <1>2, <2>2, <2>3 DEF Sign, Types, TypeOK, history
<1>3. CASE Send(c)
  <2>1. ch \in Seq(SETs) /\ set[c] \in SETs /\ Len(ch) <= Cap
    BY <1>3 DEF Send, Types, TypeOK
  <2>2. (ch' = Append(ch, set[c]) /\ Len(ch) < Cap) \/ ch' = ch
    BY <1>3 DEF Send
  <2>3. ch' \in Seq(SETs) /\ Len(ch') <= Cap
    BY <2>1, <2>2
  <2> QED
    BY <1>3, <2>3 DEF Send, Types, TypeOK, history
<1>4. CASE Dispatch(c)
  <2>1. set[c] \in SETs /\ matching[c] \subseteq Streams \X Configs
    BY <1>4 DEF Dispatch, Types, TypeOK
  <2>2. \A p \in pushes' : p.stream \in Streams /\ p.cfg \in Configs /\ p.set \in SETs
    BY <1>4, <2>1 DEF Dispatch, Types, TypeOK
  <2> QED
    BY <1>4, <2>2 DEF Dispatch, Types, TypeOK
<1> QED
  BY <1>1, <1>2, <1>3, <1>4 DEF Emitting

LEMMA TypesStep == Types /\ [Next]_vars => Types'
<1> SUFFICES ASSUME Types, [Next]_vars PROVE Types'
  OBVIOUS
<1>1. ASSUME NEW i \in Streams, (\E cfg \in Configs : RegisterStream(i, cfg)) \/ DeregisterStream(i)
      PROVE  Types'
  BY <1>1 DEF RegisterStream, DeregisterStream, Types, TypeOK, history
<1>2. ASSUME NEW c \in Calls, NEW type \in EventTypes, Begin(c, type) PROVE Types'
  <2>1. events \in 0..MaxEvents /\ events' \in 0..MaxEvents
    BY <1>2 DEF Begin, Types
  <2>2. [jti |-> events, type |-> type, auds |-> {}] \in SETs
    BY <2>1 DEF SETs
  <2> QED
    BY <1>2, <2>1, <2>2 DEF Begin, Types, TypeOK
<1>3. ASSUME NEW c \in Calls, Emitting(c) PROVE Types'
  BY <1>3, TypesEmitting
<1>4. CASE Delivering
  BY <1>4 DEF Delivering, Push, PushFails, Types, TypeOK, history
<1>5. ASSUME NEW r \in Receivers, Receive(r) PROVE Types'
  <2>1. ch \in Seq(SETs) /\ Len(ch) <= Cap /\ ch # <<>> /\ ch' = Tail(ch)
    BY <1>5 DEF Receive, Types, TypeOK
  <2>2. ch' \in Seq(SETs) /\ Len(ch') <= Cap
    BY <2>1
  <2> QED
    BY <1>5, <2>2 DEF Receive, Types, TypeOK
<1>6. CASE UNCHANGED vars
  BY <1>6 DEF vars, history, Types, TypeOK
<1> QED
  BY <1>1, <1>2, <1>3, <1>4, <1>5, <1>6 DEF Next

LEMMA TypesAlways == Spec => []Types
BY TypesInit, TypesStep, PTL DEF Spec

\* The types of the transmitter; its channel never holds more than its
\* capacity.
THEOREM SsfTypeCorrect == Spec => []TypeOK
<1>1. Types => TypeOK
  BY DEF Types
<1> QED
  BY <1>1, TypesAlways, PTL

-----------------------------------------------------------------------------
(***************************************************************************)
(* What reaches an endpoint.  Emit holds the lock for its match only; what *)
(* it pushes three steps later is right because it kept the configurations *)
(* it matched, not because they are still registered.                      *)
(***************************************************************************)
Fitting ==
  /\ \A c \in Calls : pc[c] \in {"idle", "match"} => matching[c] = {}
  /\ \A c \in Calls : pc[c] # "idle" => \A m \in matching[c] :
       StreamWantsEvent(m[2], set[c].type)
  /\ \A c \in Calls : pc[c] \in {"send", "push"} => \A m \in matching[c] :
       m[2].auds \subseteq set[c].auds
  /\ PushFitsItsStream

LEMMA FittingInit == Init => Fitting
BY DEF Init, Fitting, PushFitsItsStream

LEMMA FittingEmitting ==
  ASSUME Types, Fitting, NEW c \in Calls, Emitting(c)
  PROVE  Fitting'
<1>0. /\ DOMAIN pc = Calls /\ DOMAIN set = Calls /\ DOMAIN matching = Calls
      /\ arrived' = arrived
      /\ \A d \in Calls \ {c} : pc'[d] = pc[d] /\ set'[d] = set[d] /\ matching'[d] = matching[d]
  BY DEF Types, TypeOK, Emitting, Match, Sign, Send, Dispatch, history
<1>1. ASSUME pc'[c] # "idle", NEW m \in matching'[c]
      PROVE  StreamWantsEvent(m[2], set'[c].type)
  <2>1. CASE Match(c)
    <3>1. matching'[c] = Wanted(c) /\ set' = set
      BY <1>0, <2>1 DEF Match, Wanted
    <3> QED
      BY <1>1, <3>1, WantedFacts
  <2>2. CASE Sign(c)
    <3>1. set[c] \in SETs /\ matching' = matching /\ pc[c] # "idle"
      BY <2>2 DEF Sign, Types, TypeOK
    <3>2. set'[c].type = set[c].type
      BY <1>0, <2>2, <3>1 DEF Sign, SETs
    <3> QED
      BY <1>1, <3>1, <3>2 DEF Fitting
  <2>3. CASE Send(c)
    BY <1>1, <2>3 DEF Send, Fitting
  <2>4. CASE Dispatch(c)
    BY <1>0, <1>1, <2>4 DEF Dispatch
  <2> QED
    BY <2>1, <2>2, <2>3, <2>4 DEF Emitting
<1>2. ASSUME pc'[c] \in {"send", "push"}, NEW m \in matching'[c]
      PROVE  m[2].auds \subseteq set'[c].auds
  <2>1. CASE Sign(c)
    <3> DEFINE auds == UNION {n[2].auds : n \in matching[c]}
    <3>1. set' = [set EXCEPT ![c].auds = auds] /\ set[c] \in SETs /\ matching' = matching
      BY <2>1 DEF Sign, Types, TypeOK
    <3>2. m[2].auds \subseteq auds
      BY <1>2, <3>1, AudiencesFacts
    <3> HIDE DEF auds
    <3> QED
      BY <1>0, <3>1, <3>2 DEF SETs
  <2>2. CASE Send(c)
    BY <1>2, <2>2 DEF Send, Fitting
  <2>3. CASE Match(c) \/ Dispatch(c)
    BY <1>0, <1>2, <2>3 DEF Match, Dispatch
  <2> QED
    BY <2>1, <2>2, <2>3 DEF Emitting
<1>3. ASSUME NEW p \in pushes'
      PROVE  p.cfg.url # Nil /\ StreamWantsEvent(p.cfg, p.set.type) /\ p.cfg.auds \subseteq p.set.auds
  <2>1. CASE p \in pushes
    BY <2>1 DEF Fitting, PushFitsItsStream
  <2>2. CASE p \notin pushes
    <3>1. Dispatch(c)
      BY <1>3, <2>2 DEF Emitting, Match, Sign, Send
    <3>2. PICK m \in matching[c] :
            m[2].url # Nil /\ p = [stream |-> m[1], cfg |-> m[2], set |-> set[c]]
      BY <1>3, <2>2, <3>1 DEF Dispatch
    <3>3. p.cfg = m[2] /\ p.set = set[c] /\ pc[c] = "push"
      BY <3>1, <3>2 DEF Dispatch
    <3> QED
      BY <3>2, <3>3 DEF Fitting
  <2> QED
    BY <2>1, <2>2
<1>4. PushFitsItsStream'
  BY <1>0, <1>3 DEF Fitting, PushFitsItsStream
<1>5. pc'[c] \in {"idle", "match"} => matching'[c] = {}
  BY <1>0 DEF Emitting, Match, Sign, Send, Dispatch
<1> QED
  BY <1>0, <1>1, <1>2, <1>4, <1>5 DEF Fitting

LEMMA FittingStep == Types /\ Fitting /\ [Next]_vars => Fitting'
<1> SUFFICES ASSUME Types, Fitting, [Next]_vars PROVE Fitting'
  OBVIOUS
<1>1. ASSUME NEW c \in Calls, NEW type \in EventTypes, Begin(c, type) PROVE Fitting'
  BY <1>1 DEF Begin, Types, TypeOK, Fitting, PushFitsItsStream
<1>2. ASSUME NEW c \in Calls, Emitting(c) PROVE Fitting'
  BY <1>2, FittingEmitting
<1>3. CASE \/ \E i \in Streams, cfg \in Configs : RegisterStream(i, cfg)
           \/ \E i \in Streams : DeregisterStream(i)
           \/ \E r \in Receivers : Receive(r)
           \/ UNCHANGED vars
  BY <1>3 DEF RegisterStream, DeregisterStream, Receive, vars, history, Fitting, PushFitsItsStream
<1>4. CASE Delivering
  BY <1>4 DEF Delivering, Push, PushFails, history, Fitting, PushFitsItsStream
<1> QED
  BY <1>1, <1>2, <1>3, <1>4 DEF Next

\* A SET pushed to a stream is one the stream asked for, goes to an endpoint and
\* names every audience of the stream, also when the stream was changed or
\* removed between the match and the push.
THEOREM PushesFitTheirStreams == Spec => []PushFitsItsStream
<1>1. Fitting => PushFitsItsStream
  BY DEF Fitting
<1> QED
  BY <1>1, TypesAlways, FittingInit, FittingStep, PTL DEF Spec

-----------------------------------------------------------------------------
(***************************************************************************)
(* After a deregistration.  What ties the matches of a call to the streams *)
(* that were gone when it began is that those are still gone at its match. *)
(***************************************************************************)
GoneIsGone ==
  /\ \A c \in Calls, i \in Streams : i \in gone[c] => streams[i] = Nil
  /\ NoPushAfterDeregister

LEMMA GoneInit == Init => GoneIsGone
BY DEF Init, GoneIsGone, NoPushAfterDeregister

LEMMA GoneStep == Types /\ Fitting /\ GoneIsGone /\ [Next]_vars => GoneIsGone'
<1> SUFFICES ASSUME Types, Fitting, GoneIsGone, [Next]_vars PROVE GoneIsGone'
  OBVIOUS
<1>0. /\ DOMAIN streams = Streams /\ DOMAIN matching = Calls /\ DOMAIN gone = Calls
      /\ \A c \in Calls : matching[c] \subseteq Streams \X Configs
  BY DEF Types, TypeOK
<1>1. ASSUME NEW i \in Streams, NEW cfg \in Configs, RegisterStream(i, cfg) PROVE GoneIsGone'
  BY <1>0, <1>1 DEF RegisterStream, GoneIsGone, NoPushAfterDeregister
<1>2. ASSUME NEW i \in Streams, DeregisterStream(i) PROVE GoneIsGone'
  BY <1>0, <1>2 DEF DeregisterStream, GoneIsGone, NoPushAfterDeregister, history
<1>3. ASSUME NEW c \in Calls, NEW type \in EventTypes, Begin(c, type) PROVE GoneIsGone'
  <2>1. matching[c] = {}
    BY <1>3 DEF Begin, Fitting
  <2> QED
    BY <1>0, <1>3, <2>1 DEF Begin, GoneIsGone, NoPushAfterDeregister
<1>4. ASSUME NEW c \in Calls, Match(c) PROVE GoneIsGone'
  <2>1. matching' = [matching EXCEPT ![c] = Wanted(c)] /\ gone' = gone /\ streams' = streams
    BY <1>4 DEF Match, Wanted, history
  <2>2. ASSUME NEW m \in Wanted(c) PROVE m[1] \notin gone[c]
    <3>1. streams[m[1]] # Nil /\ m[1] \in Streams
      BY <2>2, WantedFacts
    <3> QED
      BY <3>1 DEF GoneIsGone
  <2> QED
    BY <1>0, <2>1, <2>2 DEF GoneIsGone, NoPushAfterDeregister
<1>5. ASSUME NEW c \in Calls, Dispatch(c) PROVE GoneIsGone'
  BY <1>0, <1>5 DEF Dispatch, GoneIsGone, NoPushAfterDeregister
<1>6. CASE \/ \E c \in Calls : Sign(c) \/ Send(c)
           \/ Delivering
           \/ \E r \in Receivers : Receive(r)
           \/ UNCHANGED vars
  <2>1. UNCHANGED <<streams, matching, gone>>
    BY <1>6 DEF Sign, Send, Delivering, Push, PushFails, Receive, vars, history
  <2> QED
    BY <2>1 DEF GoneIsGone, NoPushAfterDeregister
<1> QED
  BY <1>1, <1>2, <1>3, <1>4, <1>5, <1>6 DEF Next, Emitting

\* An event whose Emit began when a stream was gone is not pushed to it, unless
\* it was registered again meanwhile, however the calls overlap.
THEOREM NothingAfterDeregister == Spec => []NoPushAfterDeregister
<1>1. GoneIsGone => NoPushAfterDeregister
  BY DEF GoneIsGone
<1> QED
  BY <1>1, TypesAlways, FittingInit, FittingStep, GoneInit, GoneStep, PTL DEF Spec
==============================================================================
