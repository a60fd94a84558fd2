------------------------------- MODULE WimseAuth -------------------------------
(***************************************************************************)
(* internal/workload: the client that attaches a WIT and a fresh WPT to    *)
(* every request, and the Gin middleware WIMSEAuth that lets a request     *)
(* reach its handler.  One goroutine per request; the proof is validated   *)
(* by the same goroutine, as a call of Wpt with the same name.             *)
(*                                                                         *)
(* The network may duplicate: http.Transport may resend a request, headers *)
(* unchanged, when a kept-alive connection dies, and nothing in this code  *)
(* rules out a copy; so a request may arrive any number of times, at any   *)
(* process.                                                                *)
(***************************************************************************)
EXTENDS Wpt, Wit

CONSTANTS
  WitOf,        \* the WIT record of each WIT
  IdpIssuer,    \* the validator's issuer ID
  IdpKey,       \* and the IdP public key it was created with
  Clients,
  ClientWit,    \* Client.wit, fixed by NewClient
  ClientKey     \* Client.workloadKey

ASSUME WimseAuthAssumption ==
  /\ ClientWit \in [Clients -> Wits]
  /\ ClientKey \in [Clients -> Keys]
  /\ \A w \in Wits : WitOf[w].cnf \in Keys
  /\ 0 \in TTLs

VARIABLES
  http,   \* where each request is in the middleware
  req,    \* its headers, its URI, the process it arrived at
  ctx,    \* CtxWITClaims of its Gin context
  runs    \* history: handler runs per process incarnation and proof

authVars == <<http, req, ctx, runs>>
allVars == <<vars, authVars>>

HTTP == {"none", "wit", "proof", "handler", "ok", "unauthorized"}

\* "Nil" is a missing header or one without the "WPT " scheme.
Request == [store : Stores, wit : Wits \cup {Nil}, wpt : Tokens \cup {Nil},
            uri : Uris]

AuthInit ==
  /\ Init
  /\ http = [c \in Calls |-> "none"]
  /\ req = [c \in Calls |-> Nil]
  /\ ctx = [c \in Calls |-> Nil]
  /\ runs = [s \in Stores |-> Never]

-----------------------------------------------------------------------------
\* Client.Get and Client.Post: a proof for this URL and this client's WIT, with
\* the default lifetime and no transaction token, by the clock of its host.
ClientCall(cl, j, url, skew) ==
  /\ Generate(j, url, ClientWit[cl], ClientKey[cl], NoTxn, 0, skew)
  /\ UNCHANGED authVars

\* A request arrives.  Which headers it combines is up to its sender; the URI
\* is rebuilt from the Host header and the request line, so it is what the
\* sender addressed.
Receive(c, r) ==
  /\ http[c] = "none"
  /\ r.wpt \in DOMAIN proofs \cup {Nil}
  /\ http' = [http EXCEPT ![c] = "wit"]
  /\ req' = [req EXCEPT ![c] = r]
  /\ UNCHANGED <<vars, ctx, runs>>

WitAccepted(r) ==
  /\ r.wit # Nil
  /\ WitValid(WitOf[r.wit], IdpIssuer, IdpKey, clock)

\* The WIT or the Authorization header is refused: AbortWithStatusJSON(401).
RefuseHeaders(c) ==
  /\ http[c] = "wit"
  /\ ~WitAccepted(req[c]) \/ req[c].wpt = Nil
  /\ http' = [http EXCEPT ![c] = "unauthorized"]
  /\ UNCHANGED <<vars, req, ctx, runs>>

\* Mutants of CheckProof: the replay check is not asked for; every request gets
\* a validator of its own, with a new store.
CheckProofUnrecorded(c) ==
  /\ http[c] = "wit"
  /\ WitAccepted(req[c]) /\ req[c].wpt # Nil
  /\ Begin(c, [store |-> req[c].store, wpt |-> req[c].wpt, wit |-> req[c].wit,
               key |-> WitOf[req[c].wit].cnf, uri |-> req[c].uri,
               txn |-> NoTxn, replay |-> FALSE])
  /\ http' = [http EXCEPT ![c] = "proof"]
  /\ UNCHANGED <<req, ctx, runs>>

CheckProofNewStore(c) ==
  /\ http[c] = "wit"
  /\ WitAccepted(req[c]) /\ req[c].wpt # Nil
  /\ pc' = [pc EXCEPT ![c] = "check"]
  /\ opts' = [opts EXCEPT ![c] =
       [store |-> req[c].store, wpt |-> req[c].wpt, wit |-> req[c].wit,
        key |-> WitOf[req[c].wit].cnf, uri |-> req[c].uri,
        txn |-> NoTxn, replay |-> TRUE]]
  /\ seen' = [seen EXCEPT ![req[c].store] = NoneSeen]
  /\ http' = [http EXCEPT ![c] = "proof"]
  /\ UNCHANGED <<clock, proofs, now, restarts, onTime, late, req, ctx, runs>>

\* Both are there and the WIT is valid: Validate is called with the key of the
\* WIT's cnf claim.
CheckProof(c) ==
  /\ http[c] = "wit"
  /\ WitAccepted(req[c]) /\ req[c].wpt # Nil
  /\ Begin(c, [store |-> req[c].store, wpt |-> req[c].wpt, wit |-> req[c].wit,
               key |-> WitOf[req[c].wit].cnf, uri |-> req[c].uri,
               txn |-> NoTxn, replay |-> TRUE])
  /\ http' = [http EXCEPT ![c] = "proof"]
  /\ UNCHANGED <<req, ctx, runs>>

\* Validate goes on.
Validate(c) ==
  /\ http[c] = "proof"
  /\ Check(c) \/ ReadNow(c) \/ Record(c)
  /\ UNCHANGED authVars

\* Mutant of Admit: a replay is only logged.
AdmitReplayed(c) ==
  /\ http[c] = "proof"
  /\ pc[c] \in {"accepted", "replayed"}
  /\ Return(c)
  /\ http' = [http EXCEPT ![c] = "handler"]
  /\ ctx' = [ctx EXCEPT ![c] = req[c].wit]
  /\ runs' = [runs EXCEPT ![req[c].store][req[c].wpt] = @ + 1]
  /\ UNCHANGED req

\* Validate returned claims: c.Set, then c.Next runs the handler.
Admit(c) ==
  /\ http[c] = "proof"
  /\ pc[c] = "accepted"
  /\ Return(c)
  /\ http' = [http EXCEPT ![c] = "handler"]
  /\ ctx' = [ctx EXCEPT ![c] = req[c].wit]
  /\ runs' = [runs EXCEPT ![req[c].store][req[c].wpt] = @ + 1]
  /\ UNCHANGED req

\* Mutants of RefuseProof: the answer does not wait for Validate; a replay is not
\* answered.
RefuseProofEarly(c) ==
  /\ http[c] = "proof"
  /\ pc[c] \in {"check", "read", "lock"}
  /\ http' = [http EXCEPT ![c] = "unauthorized"]
  /\ UNCHANGED <<vars, req, ctx, runs>>

RefuseInvalid(c) ==
  /\ http[c] = "proof"
  /\ pc[c] = "invalid"
  /\ Return(c)
  /\ http' = [http EXCEPT ![c] = "unauthorized"]
  /\ UNCHANGED <<req, ctx, runs>>

\* Validate returned an error: 401.
RefuseProof(c) ==
  /\ http[c] = "proof"
  /\ pc[c] \in {"invalid", "replayed"}
  /\ Return(c)
  /\ http' = [http EXCEPT ![c] = "unauthorized"]
  /\ UNCHANGED <<req, ctx, runs>>

\* EchoHandler answers with CallerSubject.
Handle(c) ==
  /\ http[c] = "handler"
  /\ http' = [http EXCEPT ![c] = "ok"]
  /\ UNCHANGED <<vars, req, ctx, runs>>

\* The response is written and the context released.
Respond(c) ==
  /\ http[c] \in {"ok", "unauthorized"}
  /\ http' = [http EXCEPT ![c] = "none"]
  /\ req' = [req EXCEPT ![c] = Nil]
  /\ ctx' = [ctx EXCEPT ![c] = Nil]
  /\ UNCHANGED <<vars, runs>>

\* A process dies with its requests, its validations and its replay store.
Crash(s) ==
  LET Dead(c) == http[c] # "none" /\ req[c].store = s IN
  /\ Restart(s)
  /\ http' = [c \in Calls |-> IF Dead(c) THEN "none" ELSE http[c]]
  /\ req' = [c \in Calls |-> IF Dead(c) THEN Nil ELSE req[c]]
  /\ ctx' = [c \in Calls |-> IF Dead(c) THEN Nil ELSE ctx[c]]
  /\ runs' = [runs EXCEPT ![s] = Never]

-----------------------------------------------------------------------------
Serve(c) ==
  \/ RefuseHeaders(c) \/ CheckProof(c) \/ Validate(c)
  \/ Admit(c) \/ RefuseProof(c) \/ Handle(c) \/ Respond(c)

AuthNext ==
  \/ \E cl \in Clients, j \in Jtis, url \in Uris, skew \in Skews :
       ClientCall(cl, j, url, skew)
  \/ \E c \in Calls, r \in Request : Receive(c, r)
  \/ \E c \in Calls : Serve(c)
  \/ Tick /\ UNCHANGED authVars
  \/ \E s \in Stores : Crash(s)

AuthSpec == AuthInit /\ [][AuthNext]_allVars

\* net/http runs the goroutine of every request it has accepted.
FairAuthSpec == AuthSpec /\ \A c \in Calls : WF_allVars(Serve(c))

-----------------------------------------------------------------------------
(* Properties. *)

\* Types, and the agreement of the middleware's and the validation's progress.
AuthTypeOK ==
  /\ TypeOK
  /\ http \in [Calls -> HTTP]
  /\ \A c \in Calls : IF http[c] = "none" THEN req[c] = Nil
                                          ELSE req[c] \in Request
  /\ \A c \in Calls : http[c] = "proof" <=> pc[c] # "idle"
  /\ runs \in [Stores -> [Jtis -> Nat]]

\* Whenever a handler can see a caller, the caller named by the context is the
\* subject of a WIT of the trusted IdP, and the holder of that WIT's cnf key
\* made a proof for that very WIT and this request's URI.
CallerIsProven ==
  \A c \in Calls : ctx[c] # Nil =>
    LET wit == WitOf[ctx[c]] IN
    /\ wit.iss = IdpIssuer /\ wit.signer = IdpKey
    /\ \E j \in Minted : /\ proofs[j].key = wit.cnf
                         /\ proofs[j].wth = ctx[c]
                         /\ proofs[j].aud = req[c].uri

\* A handler runs once for every accepted proof and never otherwise: what the
\* stores let through and what the handlers saw differ only by the requests
\* between the two.
RunsMatchAcceptances ==
  \A s \in Stores, j \in Jtis :
    runs[s][j] + Cardinality({c \in Calls : /\ pc[c] = "accepted"
                                            /\ opts[c].store = s
                                            /\ opts[c].wpt = j})
      = onTime[s][j] + late[s][j]

\* A client's single call makes a handler run at most once per process and
\* incarnation while its proof is live, however often the transport resends it.
HandlerRunsOnceWhileLive ==
  \A s \in Stores, j \in Minted : clock <= proofs[j].exp => runs[s][j] <= 1

\* Every request that is received is answered, or dies with its process.
RequestsAnswered ==
  \A c \in Calls : http[c] = "wit" ~> http[c] = "none"

\* The middleware uses the validator as Wpt says it may be used, so that what
\* is shown of Wpt holds of the validators behind the middleware.
ImplementsWpt == Spec
==============================================================================
