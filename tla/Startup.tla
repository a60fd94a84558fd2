-------------------------------- MODULE Startup --------------------------------
(***************************************************************************)
(* The programs: cmd/idp with its key file, cmd/workload-a, which obtains  *)
(* one WIT for its life, and cmd/workload-b and cmd/token-exchange, which  *)
(* fetch the IdP's key once for theirs.  They start in any order, retry,   *)
(* give up, crash and are started again by systemd (Restart=on-failure).   *)
(*                                                                         *)
(* Time is counted in the timers of the processes, so no clock is needed:  *)
(* waited[c] is the time since c started (it stops counting at Cap), and   *)
(* timer[c] what is left of an HTTP timeout or of a pause.  An action that *)
(* is due is not overtaken by time.                                        *)
(***************************************************************************)
EXTENDS Integers, FiniteSets

CONSTANTS
  Keys,        \* the signing keys the IdP generates, none of them twice
  Obtainers,   \* processes of cmd/workload-a
  Fetchers,    \* processes of cmd/workload-b and cmd/token-exchange
  Nil,
  Broken,      \* the contents of a key file that was created and not yet written
  IdpWait,     \* --idp-wait
  Pause,       \* time.Sleep between two attempts
  Timeout,     \* http.Client.Timeout of the fetchers; the obtainers have none
  TTL          \* of a WIT

Clients == Obtainers \cup Fetchers

ASSUME StartupAssumption ==
  /\ Obtainers \cap Fetchers = {}
  /\ {Nil, Broken} \cap Keys = {} /\ Nil # Broken
  /\ {IdpWait, Pause, Timeout, TTL} \subseteq Nat \ {0}

VARIABLES
  keyFile,       \* the IdP was given --key-file; never changes
  disk,          \* the file: Nil (absent), Broken, or a key
  idp, idpKey,   \* where the IdP is, and its signing key
  generated,
  published,     \* history: the keys the IdP has served under
  statFailed,    \* history: os.Stat has failed on a key file that is there
  pc, waited, timer,
  asked,         \* the client's request has reached the IdP that runs now
  key,           \* what a client got: the key of its WIT, or the IdP's
  life,          \* what is left of the WIT's lifetime
  old            \* history: the IdP was gone since the client got it

server == <<disk, idp, idpKey, generated, published, statFailed>>
clients == <<pc, waited, timer, asked, key, life, old>>
vars == <<keyFile, server, clients>>

Init ==
  /\ keyFile \in BOOLEAN
  /\ disk = Nil /\ idp = "down" /\ idpKey = Nil
  /\ generated = {} /\ published = {} /\ statFailed = FALSE
  /\ pc = [c \in Clients |-> "down"]
  /\ waited = [c \in Clients |-> 0]
  /\ timer = [c \in Clients |-> 0]
  /\ asked = [c \in Clients |-> FALSE]
  /\ key = [c \in Clients |-> Nil]
  /\ life = [c \in Clients |-> 0]
  /\ old = [c \in Clients |-> FALSE]

-----------------------------------------------------------------------------
(* cmd/idp: loadOrGenerateKey, then ListenAndServe. *)

Listening(k) == idp' = "serving" /\ idpKey' = k /\ published' = published \cup {k}

Fatal == idp' = "down" /\ idpKey' = Nil /\ UNCHANGED published

StartIdp ==
  /\ idp = "down"
  /\ idp' = IF keyFile THEN "stat" ELSE "generate"
  /\ UNCHANGED <<keyFile, disk, idpKey, generated, published, statFailed, clients>>

\* Mutant of Stat: a key is generated at every start.
StatIgnored ==
  /\ idp = "stat"
  /\ idp' = "generate"
  /\ UNCHANGED <<keyFile, disk, idpKey, generated, published, statFailed, clients>>

\* Whatever error os.Stat returns, the file is taken to be absent.
Stat ==
  /\ idp = "stat"
  /\ \/ idp' = (IF disk = Nil THEN "generate" ELSE "load") /\ UNCHANGED statFailed
     \/ disk # Nil /\ idp' = "generate" /\ statFailed' = TRUE
  /\ UNCHANGED <<keyFile, disk, idpKey, generated, published, clients>>

\* LoadECPrivateKey fails on a file that cannot be read or has no whole PEM
\* block: log.Fatal.
Load ==
  /\ idp = "load"
  /\ \/ disk # Broken /\ Listening(disk)
     \/ Fatal
  /\ UNCHANGED <<keyFile, disk, generated, statFailed, clients>>

Generate ==
  /\ idp = "generate"
  /\ \E k \in Keys \ generated :
       /\ generated' = generated \cup {k}
       /\ IF keyFile THEN idp' = "create" /\ idpKey' = k /\ UNCHANGED published
                     ELSE Listening(k)
  /\ UNCHANGED <<keyFile, disk, statFailed, clients>>

\* Mutant of Create: the error of SaveECPrivateKey is ignored.
CreateUnchecked ==
  /\ idp = "create"
  /\ \/ disk' = Broken /\ idp' = "write" /\ UNCHANGED <<idpKey, published>>
     \/ UNCHANGED disk /\ Listening(idpKey)
  /\ UNCHANGED <<keyFile, generated, statFailed, clients>>

\* os.WriteFile opens the file with O_CREATE and O_TRUNC, which empties one that
\* is there, or fails.
Create ==
  /\ idp = "create"
  /\ \/ disk' = Broken /\ idp' = "write" /\ UNCHANGED <<idpKey, published>>
     \/ UNCHANGED disk /\ Fatal
  /\ UNCHANGED <<keyFile, generated, statFailed, clients>>

\* Then it writes the key, or fails and leaves what is there.
Write ==
  /\ idp = "write"
  /\ \/ disk' = idpKey /\ Listening(idpKey)
     \/ UNCHANGED disk /\ Fatal
  /\ UNCHANGED <<keyFile, generated, statFailed, clients>>

\* Mutant of CrashIdp: the key outlives the process.
CrashIdpKept ==
  /\ idp # "down"
  /\ idp' = "down"
  /\ asked' = [c \in Clients |-> FALSE]
  /\ old' = [c \in Clients |-> key[c] # Nil]
  /\ UNCHANGED <<keyFile, disk, idpKey, generated, published, statFailed, pc, waited, timer,
                 key, life>>

\* The process ends, at any point (the port is taken, it is killed): what it
\* has in memory is lost, and so are the requests it was answering.
CrashIdp ==
  /\ idp # "down"
  /\ Fatal
  /\ asked' = [c \in Clients |-> FALSE]
  /\ old' = [c \in Clients |-> key[c] # Nil]
  /\ UNCHANGED <<keyFile, disk, generated, statFailed, pc, waited, timer, key, life>>

-----------------------------------------------------------------------------
(* The clients: obtainWITWithRetry and fetchJWKSWithRetry. *)

Goto(c, l) == pc' = [pc EXCEPT ![c] = l]

\* The process is gone, and with it what it held.
Exit(c) ==
  /\ Goto(c, "down")
  /\ waited' = [waited EXCEPT ![c] = 0]
  /\ timer' = [timer EXCEPT ![c] = 0]
  /\ asked' = [asked EXCEPT ![c] = FALSE]
  /\ key' = [key EXCEPT ![c] = Nil]
  /\ life' = [life EXCEPT ![c] = 0]
  /\ old' = [old EXCEPT ![c] = FALSE]

Start(c) ==
  /\ pc[c] = "down"
  /\ Goto(c, "try")
  /\ UNCHANGED <<keyFile, server, waited, timer, asked, key, life, old>>

Send(c) ==
  /\ pc[c] = "try"
  /\ Goto(c, "sent")
  /\ asked' = [asked EXCEPT ![c] = idp = "serving"]
  /\ timer' = [timer EXCEPT ![c] = Timeout]
  /\ UNCHANGED <<keyFile, server, waited, key, life, old>>

\* IssueHandler answers with a WIT under its signing key, JWKSHandler with the
\* public half of it.
Answer(c) ==
  /\ pc[c] = "sent" /\ asked[c]
  /\ Goto(c, "config")
  /\ asked' = [asked EXCEPT ![c] = FALSE]
  /\ timer' = [timer EXCEPT ![c] = 0]
  /\ key' = [key EXCEPT ![c] = idpKey]
  /\ life' = [life EXCEPT ![c] = IF c \in Obtainers THEN TTL ELSE 0]
  /\ UNCHANGED <<keyFile, server, waited, old>>

Failed(c) ==
  /\ Goto(c, "failed")
  /\ asked' = [asked EXCEPT ![c] = FALSE]
  /\ timer' = [timer EXCEPT ![c] = 0]
  /\ UNCHANGED <<keyFile, server, waited, key, life, old>>

\* The IdP answers, but not with a token or a key the client can use: it refuses
\* the request, or the answer does not parse.
Refused(c) == pc[c] = "sent" /\ asked[c] /\ Failed(c)

\* Nobody there: the connection is refused or broken, or cannot be made.
Break(c) == pc[c] = "sent" /\ ~asked[c] /\ Failed(c)

TimeOut(c) == pc[c] = "sent" /\ c \in Fetchers /\ timer[c] = 0 /\ Failed(c)

DeadlinePassed(c) == waited[c] > IdpWait

SleepThenTry(c) ==
  /\ Goto(c, "pause")
  /\ timer' = [timer EXCEPT ![c] = Pause]
  /\ UNCHANGED <<waited, asked, key, life, old>>

\* Mutants of Retry: the deadline is never looked at; it is looked at a pause
\* too late.
RetryForever(c) ==
  /\ pc[c] = "failed"
  /\ SleepThenTry(c)
  /\ UNCHANGED <<keyFile, server>>

RetryLate(c) ==
  /\ pc[c] = "failed"
  /\ IF waited[c] > IdpWait + Pause THEN Exit(c) ELSE SleepThenTry(c)
  /\ UNCHANGED <<keyFile, server>>

\* After the deadline the process exits; before it, it tries again.
Retry(c) ==
  /\ pc[c] = "failed"
  /\ IF DeadlinePassed(c) THEN Exit(c) ELSE SleepThenTry(c)
  /\ UNCHANGED <<keyFile, server>>

Wake(c) ==
  /\ pc[c] = "pause" /\ timer[c] = 0
  /\ Goto(c, "try")
  /\ UNCHANGED <<keyFile, server, waited, timer, asked, key, life, old>>

\* The TLS files load and the port is free, or the process exits.
Listen(c) ==
  /\ pc[c] = "config"
  /\ \/ Goto(c, "serving") /\ UNCHANGED <<waited, timer, asked, key, life, old>>
     \/ Exit(c)
  /\ UNCHANGED <<keyFile, server>>

Crash(c) ==
  /\ pc[c] # "down"
  /\ Exit(c)
  /\ UNCHANGED <<keyFile, server>>

-----------------------------------------------------------------------------
Cap == IdpWait + Pause + Timeout + 1

Due(c) ==
  \/ pc[c] \in {"try", "failed", "config"}
  \/ timer[c] = 0 /\ (pc[c] = "pause" \/ (pc[c] = "sent" /\ c \in Fetchers))

Less(n) == IF n = 0 THEN 0 ELSE n - 1

Starting(c) == pc[c] \in {"try", "sent", "failed", "pause", "config"}

Tick ==
  /\ \A c \in Clients : ~Due(c)
  /\ waited' = [c \in Clients |-> IF Starting(c) /\ waited[c] < Cap
                                  THEN waited[c] + 1 ELSE waited[c]]
  /\ timer' = [c \in Clients |-> Less(timer[c])]
  /\ life' = [c \in Clients |-> Less(life[c])]
  /\ UNCHANGED <<keyFile, server, pc, asked, key, old>>

Step(c) ==
  \/ Send(c) \/ Answer(c) \/ Refused(c) \/ Break(c) \/ TimeOut(c)
  \/ Retry(c) \/ Wake(c) \/ Listen(c)

Next ==
  \/ StartIdp \/ Stat \/ Load \/ Generate \/ Create \/ Write \/ CrashIdp
  \/ \E c \in Clients : Start(c) \/ Step(c) \/ Crash(c)
  \/ Tick

Spec == Init /\ [][Next]_vars

\* What a process does by itself is done.  The fetchers need nothing of the
\* IdP or the network; a request of an obtainer is answered or breaks.
Fairness ==
  /\ \A c \in Clients :
       WF_vars(Send(c) \/ TimeOut(c) \/ Retry(c) \/ Wake(c) \/ Listen(c))
  /\ \A c \in Obtainers : WF_vars(Answer(c) \/ Refused(c) \/ Break(c))
  /\ SF_vars(Tick)

FairSpec == Spec /\ Fairness

-----------------------------------------------------------------------------
(* Properties. *)

\* Types; which processes hold something.
StartupTypeOK ==
  /\ keyFile \in BOOLEAN
  /\ disk \in Keys \cup {Nil, Broken}
  /\ idp \in {"down", "stat", "load", "generate", "create", "write", "serving"}
  /\ IF idp \in {"create", "write", "serving"} THEN idpKey \in Keys ELSE idpKey = Nil
  /\ statFailed \in BOOLEAN
  /\ published \subseteq generated /\ generated \subseteq Keys
  /\ pc \in [Clients -> {"down", "try", "sent", "failed", "pause", "config", "serving"}]
  /\ waited \in [Clients -> 0..Cap]
  /\ timer \in [Clients -> Nat] /\ life \in [Clients -> 0..TTL]
  /\ \A c \in Clients :
       IF pc[c] \in {"config", "serving"} THEN key[c] \in Keys ELSE key[c] = Nil

\* With a key file, "the key survives VM restarts without rotating tokens"
\* (README.md:998), for it is loaded "if present" and another is generated "if
\* absent" (cmd/idp/main.go:49-50): from the IdP's first answer on there is one
\* key, and the file holds it.
KeySurvives == keyFile /\ published # {} => published = {disk}

\* What the code keeps of this: wherever the IdP crashes, and whatever reading,
\* creating or writing the file fails, from its first answer on there is one key
\* and the file holds it whole, so that a later start can load it, unless
\* os.Stat fails on the file.
KeyKept == keyFile /\ ~statFailed /\ published # {} => published = {disk}

\* Workload B and the exchange, which never look at the JWKS again, know the key
\* of every WIT that a workload A holds: with a key file on which os.Stat has
\* never failed always, and otherwise as long as the IdP has not gone down since
\* either of them asked.
WitsVerify ==
  \A a \in Obtainers, b \in Fetchers :
    /\ pc[a] = "serving" /\ life[a] > 0
    /\ pc[b] = "serving"
    /\ (keyFile /\ ~statFailed) \/ ~(old[a] \/ old[b])
    => key[a] = key[b]

\* "Max time to wait for IdP JWKS to become available" (workload-b/main.go:30) is
\* exceeded by at most one pause and one attempt, whatever the IdP does.
StartBounded ==
  \A c \in Fetchers : Starting(c) => waited[c] <= IdpWait + Pause + Timeout

\* Every start ends: the process serves or has exited.
StartEnds ==
  \A c \in Clients : pc[c] = "try" ~> pc[c] \in {"serving", "down"}
==============================================================================
