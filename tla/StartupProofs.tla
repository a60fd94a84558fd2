----------------------------- MODULE StartupProofs -----------------------------
(***************************************************************************)
(* Theorems about Startup, for any number of processes and keys and any    *)
(* durations: what the IdP has served under survives in its key file, what *)
(* the clients hold agrees, and a fetcher does not wait longer than it was *)
(* told to.                                                                *)
(***************************************************************************)
EXTENDS Startup, TLAPS

USE StartupAssumption

-----------------------------------------------------------------------------
(* Type correctness. *)

(***************************************************************************)
(* StartupTypeOK is not inductive: that the IdP serves under a key after   *)
(* Load needs that Stat saw a file, and that what is in it was generated.  *)
(***************************************************************************)
Types ==
  /\ StartupTypeOK
  /\ disk \in Keys => disk \in generated
  /\ idpKey \in Keys => idpKey \in generated
  /\ idp = "load" => disk # Nil
  /\ asked \in [Clients -> BOOLEAN]
  /\ key \in [Clients -> Keys \cup {Nil}]
  /\ old \in [Clients -> BOOLEAN]
  /\ \A c \in Clients : asked[c] => idp = "serving"

LEMMA CapFacts == Cap \in Nat
BY DEF Cap

LEMMA TypesInit == Init => Types
<1> SUFFICES ASSUME Init PROVE Types
  OBVIOUS
<1>1. statFailed \in BOOLEAN
  BY DEF Init
<1>2. /\ waited \in [Clients -> 0..Cap] /\ timer \in [Clients -> Nat]
      /\ life \in [Clients -> 0..TTL]
  BY CapFacts DEF Init
<1> QED
  BY <1>1, <1>2 DEF Init, Types, StartupTypeOK

\* The steps of the IdP.
LEMMA TypesIdp ==
  ASSUME Types, StartIdp \/ Stat \/ Load \/ Generate \/ Create \/ Write \/ CrashIdp
  PROVE  Types'
<1>1. CASE StartIdp \/ Stat \/ Load
  BY <1>1 DEF Types, StartupTypeOK, StartIdp, Stat, Load, Fatal, Listening, clients
<1>2. CASE Generate
  BY <1>2 DEF Types, StartupTypeOK, Generate, Listening, clients
<1>4. CASE Create
  BY <1>4 DEF Types, StartupTypeOK, Create, Fatal, clients
<1>5. CASE Write
  BY <1>5 DEF Types, StartupTypeOK, Write, Fatal, Listening, clients
<1>3. CASE CrashIdp
  BY <1>3 DEF Types, StartupTypeOK, CrashIdp, Fatal
<1> QED
  BY <1>1, <1>2, <1>3, <1>4, <1>5

LEMMA TypesExit ==
  ASSUME Types, NEW c \in Clients, Exit(c), UNCHANGED <<keyFile, server>>
  PROVE  Types'
BY CapFacts DEF Types, StartupTypeOK, Exit, Goto, server

LEMMA TypesStart == ASSUME Types, NEW c \in Clients, Start(c) PROVE Types'
BY DEF Types, StartupTypeOK, Start, Goto, server

LEMMA TypesSend == ASSUME Types, NEW c \in Clients, Send(c) PROVE Types'
BY DEF Types, StartupTypeOK, Send, Goto, server

LEMMA TypesAnswer == ASSUME Types, NEW c \in Clients, Answer(c) PROVE Types'
BY DEF Types, StartupTypeOK, Answer, Goto, server

LEMMA TypesFailed ==
  ASSUME Types, NEW c \in Clients, Refused(c) \/ Break(c) \/ TimeOut(c)
  PROVE  Types'
<1>1. pc[c] = "sent" /\ Failed(c)
  BY DEF Refused, Break, TimeOut
<1> QED
  BY <1>1 DEF Types, StartupTypeOK, Failed, Goto, server

LEMMA TypesRetry == ASSUME Types, NEW c \in Clients, Retry(c) PROVE Types'
<1>1. CASE DeadlinePassed(c)
  BY <1>1, TypesExit DEF Retry
<1>2. CASE ~DeadlinePassed(c)
  BY <1>2 DEF Types, StartupTypeOK, Retry, SleepThenTry, Goto, server
<1> QED
  BY <1>1, <1>2

LEMMA TypesWake == ASSUME Types, NEW c \in Clients, Wake(c) PROVE Types'
BY DEF Types, StartupTypeOK, Wake, Goto, server

LEMMA TypesListen == ASSUME Types, NEW c \in Clients, Listen(c) PROVE Types'
<1>1. CASE Exit(c)
  BY <1>1, TypesExit DEF Listen
<1>2. CASE ~Exit(c)
  BY <1>2 DEF Types, StartupTypeOK, Listen, Goto, server
<1> QED
  BY <1>1, <1>2

LEMMA TypesCrash == ASSUME Types, NEW c \in Clients, Crash(c) PROVE Types'
BY TypesExit DEF Crash

LEMMA TypesTick == Types /\ Tick => Types'
<1> SUFFICES ASSUME Types, Tick PROVE Types'
  OBVIOUS
<1>1. /\ waited' \in [Clients -> 0..Cap]
      /\ timer' \in [Clients -> Nat]
      /\ life' \in [Clients -> 0..TTL]
  BY CapFacts DEF Types, StartupTypeOK, Tick, Less
<1> QED
  BY <1>1 DEF Types, StartupTypeOK, Tick, server

LEMMA TypesStep == Types /\ [Next]_vars => Types'
<1> SUFFICES ASSUME Types, [Next]_vars PROVE Types'
  OBVIOUS
<1>1. CASE StartIdp \/ Stat \/ Load \/ Generate \/ Create \/ Write \/ CrashIdp
  BY <1>1, TypesIdp
<1>2. ASSUME NEW c \in Clients, Start(c) \/ Step(c) \/ Crash(c)
      PROVE  Types'
  BY <1>2, TypesStart, TypesSend, TypesAnswer, TypesFailed, TypesRetry, TypesWake,
     TypesListen, TypesCrash DEF Step
<1>3. CASE Tick
  BY <1>3, TypesTick
<1>4. CASE UNCHANGED vars
  BY <1>4 DEF vars, server, clients, Types, StartupTypeOK
<1> QED
  BY <1>1, <1>2, <1>3, <1>4 DEF Next

LEMMA Typing == Spec => []Types
BY TypesInit, TypesStep, PTL DEF Spec

\* The types of Startup, and that a client holds a key if and only if it has
\* had its answer.
THEOREM StartupTypeCorrect == Spec => []StartupTypeOK
BY Typing, PTL DEF Types

-----------------------------------------------------------------------------
(***************************************************************************)
(* The key file.  That a key in the file survives needs that the IdP never *)
(* generates another once it has served: while os.Stat has not failed on   *)
(* the file, what the IdP generates or writes, it does before it serves    *)
(* for the first time, and what it serves under afterwards is what it      *)
(* loads.                                                                  *)
(***************************************************************************)
FirstStart ==
  /\ idp \in {"generate", "create", "write"} => published = {}
  /\ idp = "serving" => idpKey = disk

KeyFileInv == keyFile /\ ~statFailed => KeyKept /\ FirstStart

LEMMA KeyFileInit == Init => KeyFileInv
BY DEF Init, KeyFileInv, KeyKept, FirstStart

LEMMA KeyFileStep == Types /\ KeyFileInv /\ [Next]_vars => KeyFileInv'
<1> SUFFICES ASSUME Types, KeyFileInv, [Next]_vars, keyFile, ~statFailed'
             PROVE  (KeyKept /\ FirstStart)'
  BY DEF KeyFileInv, Next, StartIdp, Stat, Load, Generate, Create, Write, CrashIdp, Tick,
     Step, Start, Send, Answer, Refused, Break, TimeOut, Failed, Retry, Wake, Listen, Crash, vars
<1>0. ~statFailed
  BY DEF Next, StartIdp, Stat, Load, Generate, Create, Write, CrashIdp, Tick, Step, Start,
     Send, Answer, Refused, Break, TimeOut, Failed, Retry, Wake, Listen, Crash, server, vars
<1> USE <1>0 DEF KeyFileInv, KeyKept, FirstStart
\* There is a file with the key, or the IdP has not served yet.
<1>1. CASE StartIdp \/ Stat
  BY <1>1 DEF StartIdp, Stat, Types, StartupTypeOK
<1>2. CASE Load
  BY <1>2 DEF Load, Fatal, Listening, Types, StartupTypeOK
<1>3. CASE Generate \/ Create
  BY <1>3 DEF Generate, Create, Fatal, Listening, Types, StartupTypeOK
<1>4. CASE Write
  BY <1>4 DEF Write, Fatal, Listening, Types, StartupTypeOK
<1>5. CASE CrashIdp
  BY <1>5 DEF CrashIdp, Fatal
<1>6. CASE UNCHANGED <<keyFile, server>>
  BY <1>6 DEF server
<1>7. ASSUME NEW c \in Clients, Start(c) \/ Step(c) \/ Crash(c)
      PROVE  UNCHANGED <<keyFile, server>>
  BY <1>7 DEF Start, Step, Send, Answer, Refused, Break, TimeOut, Failed, Retry, Wake, Listen, Crash
<1> QED
  BY <1>1, <1>2, <1>3, <1>4, <1>5, <1>6, <1>7 DEF Next, Tick, vars

LEMMA KeyFileInvariance == Spec => []KeyFileInv
BY Typing, KeyFileInit, KeyFileStep, PTL DEF Spec

\* With a key file on which os.Stat never fails the IdP has one key in all its
\* lives once it has served, and that key stays in the file, whole, wherever it
\* crashes and whichever of its other steps fails.
THEOREM KeyNeverLost == Spec => []KeyKept
<1>1. KeyFileInv => KeyKept
  BY DEF KeyFileInv, KeyKept
<1> QED
  BY <1>1, KeyFileInvariance, PTL

-----------------------------------------------------------------------------
(***************************************************************************)
(* What the clients hold.  Each got it from an IdP that served under it;   *)
(* unless the IdP has gone since, it still serves under that very key.     *)
(***************************************************************************)
HeldKeys ==
  \A c \in Clients : key[c] # Nil =>
    /\ key[c] \in published
    /\ ~old[c] => idp = "serving" /\ idpKey = key[c]

ServedKey == idp = "serving" => idpKey \in published

LEMMA HeldStep == Types /\ HeldKeys /\ ServedKey /\ [Next]_vars => (HeldKeys /\ ServedKey)'
<1> SUFFICES ASSUME Types, HeldKeys, ServedKey, [Next]_vars PROVE (HeldKeys /\ ServedKey)'
  OBVIOUS
<1> USE DEF HeldKeys, ServedKey
<1>1. CASE StartIdp \/ Stat \/ Load
  BY <1>1 DEF StartIdp, Stat, Load, Fatal, Listening, clients
<1>2. CASE Generate \/ Create \/ Write
  BY <1>2 DEF Generate, Create, Write, Fatal, Listening, clients
<1>3. CASE CrashIdp
  BY <1>3 DEF CrashIdp, Fatal
<1>4. ASSUME NEW c \in Clients, Start(c) \/ Step(c) \/ Crash(c) PROVE (HeldKeys /\ ServedKey)'
  <2>1. UNCHANGED server
    BY <1>4 DEF Start, Step, Send, Answer, Refused, Break, TimeOut, Failed, Retry, Wake, Listen, Crash
  <2>2. CASE Answer(c)
    BY <2>1, <2>2 DEF Answer, server, Types, StartupTypeOK
  <2>3. CASE Exit(c)
    BY <2>1, <2>3 DEF Exit, server, Types, StartupTypeOK
  <2>4. CASE UNCHANGED <<key, old>>
    BY <2>1, <2>4 DEF server
  <2> QED
    BY <1>4, <2>2, <2>3, <2>4 DEF Start, Step, Send, Refused, Break, TimeOut, Failed, Retry,
       SleepThenTry, Wake, Listen, Crash
<1>5. CASE Tick
  BY <1>5 DEF Tick, server
<1>6. CASE UNCHANGED vars
  BY <1>6 DEF vars, server, clients
<1> QED
  BY <1>1, <1>2, <1>3, <1>4, <1>5, <1>6 DEF Next

LEMMA HeldInvariance == Spec => [](HeldKeys /\ ServedKey)
<1>1. Init => HeldKeys /\ ServedKey
  BY DEF Init, HeldKeys, ServedKey
<1> QED
  BY <1>1, Typing, HeldStep, PTL DEF Spec

\* A workload B knows the key of every WIT a workload A presents to it: always
\* if there is a key file on which os.Stat has never failed, and else while the
\* IdP lives.
THEOREM HeldWitsVerify == Spec => []WitsVerify
<1>1. Types /\ KeyFileInv /\ HeldKeys => WitsVerify
  BY DEF Types, StartupTypeOK, KeyFileInv, KeyKept, HeldKeys, WitsVerify, Clients
<1> QED
  BY <1>1, Typing, KeyFileInvariance, HeldInvariance, PTL

-----------------------------------------------------------------------------
(***************************************************************************)
(* The time a start takes.  An attempt is made only up to one pause after  *)
(* the deadline, and what is left of a timer is still to be waited for.    *)
(***************************************************************************)
OnSchedule ==
  /\ \A c \in Clients : pc[c] = "down" => waited[c] = 0
  /\ \A c \in Fetchers :
       /\ pc[c] = "try" => waited[c] <= IdpWait + Pause
       /\ pc[c] = "sent" => waited[c] + timer[c] <= IdpWait + Pause + Timeout
       /\ pc[c] \in {"failed", "config"} => waited[c] <= IdpWait + Pause + Timeout
       /\ pc[c] = "pause" => waited[c] + timer[c] <= IdpWait + Pause

LEMMA ScheduleExit ==
  ASSUME Types, OnSchedule, NEW c \in Clients, Exit(c)
  PROVE  OnSchedule'
BY DEF Types, StartupTypeOK, OnSchedule, Exit, Goto, Clients

LEMMA ScheduleClient ==
  ASSUME Types, OnSchedule, NEW c \in Clients, Start(c) \/ Step(c) \/ Crash(c)
  PROVE  OnSchedule'
<1> USE DEF Types, StartupTypeOK, OnSchedule, Goto, Clients
<1>1. CASE Exit(c)
  BY <1>1, ScheduleExit
<1>2. CASE Start(c) \/ Wake(c)
  BY <1>2 DEF Start, Wake
<1>3. CASE Send(c)
  BY <1>3 DEF Send
<1>4. CASE Answer(c)
  BY <1>4 DEF Answer
<1>5. CASE Refused(c) \/ Break(c) \/ TimeOut(c)
  <2>1. pc[c] = "sent" /\ Failed(c)
    BY <1>5 DEF Refused, Break, TimeOut
  <2> QED
    BY <2>1 DEF Failed
<1>6. CASE Retry(c) /\ ~Exit(c)
  BY <1>6 DEF Retry, DeadlinePassed, SleepThenTry
<1>7. CASE Listen(c) /\ ~Exit(c)
  BY <1>7 DEF Listen
<1> QED
  BY <1>1, <1>2, <1>3, <1>4, <1>5, <1>6, <1>7 DEF Step, Crash

LEMMA ScheduleTick == ASSUME Types, OnSchedule, Tick PROVE OnSchedule'
<1>1. ASSUME NEW c \in Clients
      PROVE  /\ timer[c] \in Nat /\ waited[c] \in Nat /\ waited'[c] \in Nat
             /\ timer'[c] = IF timer[c] = 0 THEN 0 ELSE timer[c] - 1
             /\ waited'[c] \in {waited[c], waited[c] + 1}
             /\ pc'[c] = pc[c]
  <2>1. timer[c] \in Nat /\ waited[c] \in 0..Cap
    BY DEF Types, StartupTypeOK
  <2> QED
    BY <2>1, CapFacts DEF Tick, Less
<1>2. ASSUME NEW c \in Clients, pc'[c] = "down" PROVE waited'[c] = 0
  <2>1. pc[c] = "down" /\ waited[c] = 0
    BY <1>1, <1>2 DEF OnSchedule
  <2> QED
    BY <2>1 DEF Tick, Starting
<1>3. ASSUME NEW c \in Fetchers
      PROVE  /\ pc[c] \notin {"try", "failed", "config"}
             /\ pc[c] \in {"sent", "pause"} => timer[c] # 0
  BY DEF Tick, Due, Clients
<1>4. ASSUME NEW c \in Fetchers, pc[c] \in {"sent", "pause"}
      PROVE  waited'[c] + timer'[c] <= waited[c] + timer[c]
  BY <1>1, <1>3, <1>4 DEF Clients
<1>5. ASSUME NEW c \in Fetchers
      PROVE  /\ pc'[c] = "sent" => waited'[c] + timer'[c] <= IdpWait + Pause + Timeout
             /\ pc'[c] = "pause" => waited'[c] + timer'[c] <= IdpWait + Pause
  BY <1>1, <1>4 DEF OnSchedule, Clients
<1> QED
  BY <1>1, <1>2, <1>3, <1>5 DEF OnSchedule, Clients

LEMMA ScheduleStep == Types /\ OnSchedule /\ [Next]_vars => OnSchedule'
<1> SUFFICES ASSUME Types, OnSchedule, [Next]_vars PROVE OnSchedule'
  OBVIOUS
<1>1. CASE UNCHANGED <<pc, waited, timer>>
  BY <1>1 DEF OnSchedule
<1>2. CASE ~UNCHANGED <<pc, waited, timer>>
  BY <1>2, ScheduleClient, ScheduleTick DEF Next, StartIdp, Stat, Load, Generate,
     Create, Write, CrashIdp, vars, clients
<1> QED
  BY <1>1, <1>2

\* A process that fetches the IdP's key has it, or has exited, at most one
\* pause and one attempt after the time it was given.
THEOREM FetchersDoNotOverstay == Spec => []StartBounded
<1>1. Init => OnSchedule
  BY DEF Init, OnSchedule, Clients
<1>2. Types /\ OnSchedule => StartBounded
  BY DEF Types, StartupTypeOK, OnSchedule, StartBounded, Starting, Clients
<1> QED
  BY <1>1, <1>2, Typing, ScheduleStep, PTL DEF Spec
==============================================================================
