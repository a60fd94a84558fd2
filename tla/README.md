# Verification of the WIMSE identity fabric

TLA+ modules that model the Go code of this repository, TLC configurations that
check them on small instances, and proofs checked by TLAPS. The reference is
the code; where a comment, a test or the README of the repository says
something else, a run shows the difference.

Run inside this directory: `tlc -config MCWpt.cfg MCWpt.tla` for a run (the
table below names module and configuration), `tlapm TokensProofs.tla` for
the proofs of a module (section 4 lists them; each takes less than a minute).

## 1. Inventory

| Component | State | Operations | Interacts with |
|---|---|---|---|
| `pkg/wpt` proof tokens | replay store: map jti -> expiry, per process | Generate, Validate, Record | middleware (same goroutine), clock |
| `internal/workload` | per request: Gin context; per client: WIT and key | Client.Get/Post, WIMSEAuth, EchoHandler | wit, wpt, network |
| `pkg/wit` identity tokens | none | Issue, Validate | IdP, middleware, exchange |
| `pkg/httpsig` message signatures | nonce store, per process | Sign, Verify, Record | network, clock |
| `pkg/federation` | in memory: EC and SS maps, cache (`sync.Map`); over HTTP: the cache only | Register*, Resolve of both resolvers, statement building | exchange, endpoints of IdPs and anchors |
| `pkg/ssf`, `pkg/caep` | streams, channel of 64 | RegisterStream, DeregisterStream, Emit, push, Subscribe | IdP handlers, push endpoints |
| `pkg/wag` grants | platforms, used jtis | RegisterPlatform, Exchange, consumeJTI | platforms, clock |
| `internal/exchange`, `cmd/token-exchange` | policy (constant), a signing key made at start, the source IdP's key | ExchangeHandler, ResolveIssuerKey, MapSubject, start-up with retry | federation, wit, IdP |
| `internal/idp`, `cmd/idp` | signing key (file or memory) | issue, JWKS, revoke, entity config, fetch | wit, ssf, federation |
| `cmd/workload-a`, `cmd/workload-b` | one WIT / one JWKS for the life of the process | start-up with retry | IdP |
| `pkg/sdwit` | none; the holder keeps the full token | Issue, Present, Validate, RevealedClaims | |
| `pkg/txntoken` | none | Issue, Validate | `wpt` binds a proof to one |
| `pkg/identitychaining`, `pkg/spiffeclientauth` | none | a validated WIT becomes a grant or an access token | wit |
| `pkg/keys` | files | JWK and PEM encoding, TLS set-up | all |
| `cmd/demo-wasm`, `demo`, `infra`, `scripts` | | demonstration and deployment | |

What is hard here, and what correctness means:

* **Time read more than once.** Every validator checks an expiry and then records
  a jti or nonce, with different readings of the clock. Correct: while a token
  is live it is let through once; after that, how often is bounded.
* **Concurrent validations** of the same token. Correct: one wins, a refusal has
  a cause, handlers run as often as validations succeed.
* **A duplicating network, crashes, replicas.** The stores are in memory: the
  guarantee is per process incarnation, and must hold for each.
* **Caches filled outside the lock that empties them** (resolver). Correct: every
  answer is certified and in date.
* **Credentials made out of credentials** (exchange, grants, SPIFFE client
  authentication), by services that validate at one time and issue at another,
  and several kinds of JWT under one key. Correct: through any number of steps an
  identity stays that of one workload, no kind passes for another, and what has
  expired stays so.
* **Programs that ask once** for a WIT or a key, start in any order, and an IdP
  that restarts with or without its key file. Correct: whoever got something can
  use it for as long as the code can promise, and a start ends.
* **Asynchronous delivery with a bounded channel** (SSF). Correct: nobody waits,
  what is pushed is what was asked for, nothing is pushed to a stream that was
  gone.

`PROJECT.json` lists every hazard at its line, with the properties that cover it.

## 2. Modules

    ReplayStore  (operators)      Wit  (operators)      ProofUse  (abstract)
        |    \                      |                       |
        |     +--------- Wpt -------|------ implements -----+
        |                    \      |
   HttpSig, Wag            WimseAuth    (Wpt + client, network, middleware)

     FedResolver      Ssf      Startup     (Wag implements ProofUse too)

     Wit --- SdWit (operators) --- Tokens

    proofs:  ReplayStoreProofs  (operators on the map; used by the next three)
             WimseAuthProofs (also those about Wpt), HttpSigProofs, WagProofs,
             FedResolverProofs, SsfProofs, StartupProofs, TokensProofs

`ReplayStore` is the critical section of `InMemoryJTIStore.Record` as operators on
the map. `httpsig.InMemoryNonceStore.Record` has the same body, and so has
`wag.AuthorizationServer.consumeJTI`.

`Wpt` has one action per piece of `Generate` and `Validate` between two
observations of shared state: `Generate`; `Begin` (arguments); `Check` (parser,
wth, tth; one reading of the clock); `ReadNow` (Record's reading of the clock,
which is before the mutex); `Record` (the critical section); `Return`. `pc`,
`opts`, `now` are the goroutine's locals, `seen` the maps, `clock` is real time.
`Restart` empties a store and kills its calls. `onTime` and `late` are history
variables: acceptances per store incarnation and jti, by the real time of the
critical section. Signatures are modelled by the key that made them; hashes and
tokens by identity, since only minted tokens can carry a valid signature.

`ProofUse` says what users of a replay store may rely on, without goroutines,
maps or several clocks: a live proof is used at most once at a place, an expired
one at most Slack more times, and a place may forget. `Wpt` implements it with
`uses <- onTime + late` and `Slack <- Cardinality(Calls)`.

`WimseAuth` EXTENDS `Wpt`: the goroutine of a request walks through the
middleware (`Receive`, `RefuseHeaders`, `CheckProof`, `Admit`, `RefuseProof`,
`Handle`, `Respond`) and in the middle is a call of `Wpt`. A request combines any
WIT with any minted proof and any URI, and may arrive any number of times. A
client's clock may differ from the server's, by the skew of its call. The two early
returns for a missing or invalid WIT and a missing proof are one action: they have
the same effect.

`HttpSig` counts time in ticks, TPS to a second, because `Verify` compares whole
seconds and the nonce store instants. Requests are records of the covered
components; `ForeignSign` adds signatures that the code accepts or refuses but
`Sign` never makes (no expiry; method not covered).

`Wag` splits `Exchange` at the two critical sections and the readings of the
clock: `Match` (matchPlatform), `Verify`, `Consume` (consumeJTI, which reads the
clock inside the lock), `Mint`. `Mint` may fail: the grant is then consumed for
nothing, as in the code. `Issue` is `PlatformIssuer.Issue`; `ForeignIssue`
a platform of another make, which may set the distinguishing claim, reuse a jti
or leave it out. jtis and grants are told apart here, because the jtis of all
platforms share one map. `Wag` implements `ProofUse` for grants at one place.

`FedResolver` is both resolvers; `kind` says which and never changes. `Resolve` is
split at every access to shared state: cache read, cache delete, the verification
of each statement (each reads the clock), cache write. In memory `Read` is the two
map reads under one read lock. Over HTTP `FetchEC` and `FetchSS` are the requests
to the IdP and to one trusted anchor after the other (`todo`), with whatever is
published at that moment: a key may be rotated between the two, a request may
fail, and an anchor whose statement does not verify is passed over (`Refuse`). An
anchor serves whatever statement it is configured with, whoever signed it: what
`Resolve` verifies is all that stands between that and an answer. In memory `Register*` is one step: the map write and the cache delete happen under
the mutex, and a reader of the cache between the two sees what it would have seen
before both. Over HTTP what is published changes when an IdP or an anchor is
configured anew, and no cache hears of it.

`Startup` is the programs. The IdP walks through `loadOrGenerateKey` (`Stat`,
`Load`, `Generate`, `Create`, `Write`; the file exists, broken, between the last
two) and serves. Each of these may fail, and a failed `Stat` counts as an absent
file, whatever the error: the IdP goes on to overwrite the key that is there
(`statFailed` is the history of it). A client walks through its retry loop (`Send`,
`Answer`, `Refused`, `Break`, `TimeOut`, `Retry`, `Wake`) and then listens.
Obtainers (workload A) get a WIT, with no timeout on the request; Fetchers
(workload B, the exchange) get the IdP's key, with one. Anything may crash
anywhere and be started again. Instead of a clock there is the time since each start and what is left of each timer.

`SdWit` has `Issue`, `Present` and `Validate` of `pkg/sdwit` as operators: a string
is a JWT, which lists hashes, and disclosures, each at a place of its own. Nothing
depends on their order, but the same one may be there twice.

`Tokens` composes what makes and takes credentials: `IssueHandler`, the SD WIT and
transaction token issuers, and the three services that validate a WIT and issue
something for it (`Begin*` with the validation, `Finish*` with the issuing, each
with its reading of the clock). Every JWT ever issued or presented may be handed
to every service. What the federation resolver answers is the set of keys it may
certify for an issuer; `FedResolver` is about how it comes to them.

`Ssf` splits `Emit` at the read lock, the signature, the channel send and the
start of the push goroutines, which then run on their own.

Definitions whose comment begins with "Mutant" are not used by the
specifications. Each is a plausible error in one operation; substituted for it,
TLC reports the property that guards against it. They show that the properties
are not vacuous.

## 3. Runs

| Run | Module, cfg | Shows |
|---|---|---|
| `wpt` | MCWpt | 2 goroutines, 2 proofs, 1 store, a minting clock that may be ahead, 1 restart: TypeOK, OnceWhileLive, StoreRemembersLive, LateBounded, ReplayVerdictJustified, and that Wpt implements ProofUse |
| `wpt_eviction` | MCWpt, `_eviction` | *violated*: "evicting an expired JTI cannot reopen a replay window" (store.go:32-34) |
| `auth` | MCWimseAuth | 2 requests at a time, 3 clients, 3 WITs, 1 crash: CallerIsProven, RunsMatchAcceptances, HandlerRunsOnceWhileLive, RequestsAnswered, and that the composition is a behaviour of Wpt |
| `httpsig` | MCHttpSig | OnceBeforeExpiry under interleaving, half-second ticks; VerifiedAsSigned, OnlyGenuineNoncesRecorded under changed requests |
| `httpsig_boundary` | MCHttpSig, `_boundary` | *violated*: the nonce is kept as long as the signature is valid (nonce.go:12, 17-19) |
| `federation` | MCFedResolver | both resolvers, 2 calls, a key rotation, 2 anchors and an untrusted one, statements signed by the wrong one: AnswersAreCertified, NoAnswerFromExpired |
| `federation_stale` | MCFedResolver, `_stale` | *violated*: registering "invalidate[s] cached resolution" (resolver.go:70), so that what is cached is what is registered |
| `startup` | MCStartup | an IdP with and without a key file, a workload A and a fetcher, file operations that fail: KeyKept, WitsVerify, StartBounded, StartEnds |
| `tokens` | MCTokens | 2 domains, an exchange in each direction, one key for every kind of token: IdentityPreserved, NoRevival, KindsKeptApart, ClaimsAsIssued, HiddenStaysHidden |
| `wag` | MCWag | 2 grants, 2 goroutines, 2 tenants of one issuer, one of them registered with an empty value, mintings that fail, 1 restart: TokensPaidFor, TokenVouchedFor, AmbiguityRefused, and that Wag implements ProofUse |
| `ssf` | MCSsf | PushFitsItsStream, NoPushAfterDeregister, EmitReturns |
| `ssf_full` | MCSsf, `_full` | *violated*: "in-process channel is always delivered" (transmitter_test.go:63) |

Two smaller configurations, not among the runs of `PROJECT.json`, show two more
places where the code does not keep what its texts say: `MCWag_empty.cfg` violates
`ClaimDemanded` and `MCStartup_stat.cfg` violates `KeySurvives`.

### What the violations say

* **Eviction.** Two calls pass the parser's check just before the expiry. The first
  records; the clock passes the expiry; the second sweeps the entry and records
  again. The comment overlooks that check and record read the clock separately.
  `LateBounded` says what remains true, and is proved: late uses are at most the
  goroutines that were between the two steps.
* **Boundary second.** A signature with `expires = T` is accepted until the end of
  second T, its nonce is swept right after the beginning of it. In between nothing
  bounds how often it is accepted: each Record sweeps what the one before put there.
* **Stale cache.** A `Resolve` under way during a registration stores the old key
  after the cache was cleared. It stays certified and in date (the two invariants
  that hold), but is no longer what is registered.
* **Full channel.** The event is dropped and Emit returns nil.
* **Empty claim value** (`MCWag_empty.cfg`). "When set, every grant MUST carry the
  claim with exactly this value; grants lacking it are rejected" (pkg/wag/server.go:24-25).
  An absent distinguishing claim is read as "", so a platform registered with the
  claim and the value "" takes grants that lack it.
  `TokenVouchedFor` has this as its one exception.
* **Failed stat** (`MCStartup_stat.cfg`). "The key survives VM restarts without rotating
  tokens" (README.md:998). `loadOrGenerateKey` (cmd/idp/main.go:54) takes every error of
  `os.Stat` for an absent file, not only that there is none. The IdP then generates
  a key, and `os.WriteFile` truncates the file with the old one. `KeyKept` is what
  holds as long as that has not happened: no crash and no other failure loses the key.

### Differences noticed without a run

* README.md:526 says the exchange "re-issues a semantically equivalent WIT with
  IdP-B's signing key". `cmd/token-exchange/main.go:46` makes a key of its own at
  every start and publishes it nowhere.
* `pkg/sdwit/presentation.go:18` says "To reveal all disclosures, pass nil"; nil
  reveals none.
* `pkg/identitychaining/issuer.go:31` says a "zero or negative" ttl is replaced;
  only zero is. Line 47 says of the jti "prevents replay"; no validator records it.
* `pkg/sdwit/claims.go:27-28` has the proof's wth hash "the full SD-JWT string" and
  adds "Selective presentation does not affect WPT generation or validation". `wpt`
  hashes the string it is given, so a proof made over the full string does not
  match a request that carries a presentation; the holder has to prove what it
  presents.
* The flag text of `cmd/workload-a/main.go:28` promises a "Max time to wait". The
  request at line 114 has no timeout, so an IdP that accepts it and does not answer
  is waited for without end. `StartBounded` is therefore about the fetchers only.

### Bounds, and why they are enough

* Calls: 2. The races are between one call's steps and the steps of another that
  sweeps, records or registers meanwhile. The theorems of section 4 remove the bound.
* Two proofs in `wpt`, because the sweep of one walks over the entry of the other;
  one proof, nonce or entity where operations on different ones do not touch each
  other. One store: processes share nothing but the clock and the minted proofs,
  and the theorems hold for any set of stores. Transaction tokens are left empty
  in the runs; they only add a conjunct to `Valid`.
* Time: a lifetime of 1 or 2 and a clock that runs at least one past every expiry,
  so that each reading of the clock can fall before, at and after it. In `HttpSig`
  two ticks to a second, the least that tells a second from an instant.
* `FedResolver`: two trusted anchors, so that the second is asked after the first
  failed, and a third the EC may name in vain; three registrations, for the two
  statements of one key and one of the next; a lifetime of 2 for every statement.
  Among the statements offered are one about another entity, one signed by the
  untrusted anchor that the first EC names and one signed by a trusted anchor that it
  does not name, each with the key that is asked for: only the check it fails keeps
  it out.
* `Wag`: a tenant registered with a value, one with the empty value and one without
  the claim; grants with the value, without the claim and with the value of another
  tenant. Two registrations at a time, the least that are ambiguous.
* `Startup`: a wait of 2, a pause and a timeout of 1 in place of 2 minutes, 3 and
  10 seconds: the deadline falls before, in and after an attempt. `StartBounded`
  adds the three up and does not depend on which is longest. Two keys, so that the
  IdP can lose one; the WIT lives for 3. The time since a start is capped at 5, one
  more than the bound allows.
* `Tokens`: four credentials or presentations, enough to go round the circle of two
  exchanges and back; lifetimes of 1 and time up to 2, so that an exchange can begin
  before the expiry and finish after it. One IdP is also there as it
  was before a restart, with its old key, which the static map no longer names; SD
  WITs of two workloads have disclosures to mix; and a WIT is for the audience a
  grant has.
* Skew: the minting clock may be ahead (`HttpSig`: beyond the leeway). The
  truncation of NumericDate to seconds moves iat and exp alike and is a skew too.
* `MaxRestarts`, `MaxRegistrations`, `MaxEvents`: 1 to 3, enough for an old and a
  new value and a call on either side. The channel has capacity 1 in place of 64:
  two events fill and overflow it.
* Deadlock is not checked: with these bounds a behaviour ends when the clock and
  the inputs are used up. In `auth`, `ssf` and `startup` liveness properties show that no
  call is left behind; in the others no step of a call waits for another party.
* Symmetry (of goroutines, jtis, processes, keys) is used in `wpt`, `httpsig`,
  `federation`, `wag` and `tokens` only, which have no liveness property.

### Fairness

Weak fairness of the steps of a goroutine, per goroutine: the Go scheduler runs
runnable goroutines, `sync.Mutex` starves no waiter, and no step in these
operations waits for another party. In `Ssf` also of the pushes, whose HTTP
client has a timeout of 10 seconds. No fairness is assumed for the clock, for
callers, registrations, the network, receivers of the channel or crashes.

In `Startup`, of each client: weak fairness of what it does by itself (send, time
out, look at the deadline, wake up, listen). A fetcher needs nothing else. An
obtainer's request has no timeout, so `StartEnds` also assumes that such a request
is answered or its connection breaks. Strong fairness of `Tick` says that time
does not stop; it never overtakes an action that is due. None of it is about the
IdP, which may stay away, crash at every step and never listen, nor about starts
and crashes.

## 4. Proofs

Every invariant, action property and refinement of section 3 that holds is a theorem,
for every value of the constants: any number of goroutines, processes, tokens, domains and
clients, any lifetimes and clocks. The assumptions are those the modules declare
(`WptAssumption`, ...): the configuration is well-typed, `Nil` is no value, lifetimes
and bounds are naturals, and the following, which the code justifies.

* `WimseAuthAssumption` has `0 \in TTLs`: the client leaves TTL at zero.
* `WptAssumption` and `WagAssumption` have finitely many `Calls`: goroutines.
* `StartupAssumption`: no process is workload A and a fetcher at once.
* `TokensAssumption`: an exchange's key is no IdP's (`cmd/token-exchange` makes its
  own), and requests have a subject and a key, without which `Issue` refuses.

Each proof has one lemma per action. Types come first, with what the types of one
module need about its control state. The rest of this section is about the
inductive invariants: what had to be added to a property, and why.

### Wpt (`WimseAuthProofs`, part 1)

* `TypeCorrect`; `AtMostOnceWhileLive`, `LiveIsRemembered`, `NoFalseAlarm`:
  `OnceWhileLive`, `StoreRemembersLive`, `ReplayVerdictJustified`. `OnceWhileLive` is
  not inductive: from "accepted once" alone it does not follow that a second Record
  is refused. The inductive invariant `Inv` adds `StoreRemembersLive`: a live jti
  that was let through is in the map, under its own expiry; no call holds a `now`
  ahead of the clock; and what is in the map was let through. Then a sweep with
  any `now <= clock` keeps every entry with `clock <= exp`. `SweptFacts` and
  `RecordedFacts` (`ReplayStoreProofs`) say what sweep and record do to a map.
* `LateUsesAreBounded`: `LateBounded`. Its sum of late uses and calls in flight
  does not grow: past the expiry `Check` lets nobody in, and `Record` takes a call
  out of flight for each late use it adds.
* `KeepsPromise`: `Spec => ImplementsPromise`, the refinement: `Generate` maps to
  `Mint`, an accepting `Record` to `UseLive` or `UseLate` by the clock, `Tick` to
  `Elapse`, `Restart` to `Forget`, the rest to stutters.

### WimseAuth (`WimseAuthProofs`, part 2)

* `AuthTypeCorrect`. Which validations a crash ends is said by `Wpt`, which requests
  by `WimseAuth`; they agree because a request at its proof has passed exactly its
  own `Arguments` to Validate.
* `MiddlewareImplementsWpt`: `AuthSpec => Spec`. The step that needs an argument is
  the one into `Begin`: what the middleware passes is among what `Wpt` lets its
  callers pass. With it the theorems of part 1 hold behind the middleware.
* `HandlersSeeProvenCallers`: `CallerIsProven`. `Proven` follows a request from the
  validated WIT over the check of the proof to the context.
* `HandlersMatchAcceptances`: `RunsMatchAcceptances`, by counting: a call is counted
  when Record accepts it and when its handler starts, and in between it is in a
  finite set of which the two steps add and remove one.
* `OneHandlerPerLiveProof`: `HandlerRunsOnceWhileLive`, from the previous one and
  `OnceWhileLive` by way of the refinement.

### HttpSig (`HttpSigProofs`)

* `HttpSigTypeCorrect`; `VerifiedMeansSigned`: `VerifiedAsSigned` is about calls that
  return. `Checked` says it of every place after `Check`: all of it but the expiry,
  which does not stay true.
* `NoncesAreGenuine`: the action property `OnlyGenuineNoncesRecorded`, from `Checked`.
* `NonceOnceBeforeExpiry`: `OnceBeforeExpiry`. `Remembers` is like `Inv` of `Wpt`, up to
  the instant of the expiry, which is where the second run shows that it ends.

### FedResolver (`FedResolverProofs`)

* `FedTypeCorrect`; `AnswersCertified`: `AnswersAreCertified`. `ChainInv` says at each
  place of a call what has been established of its two statements, that a statement
  asked for over HTTP came from a trusted anchor the EC names, and that every cache
  entry has been through all of it. Nothing in it is about what is registered or
  published now: that is why registrations and rotations cannot disturb it.
* `ExpiredNotAnswered`: `NoAnswerFromExpired`. `DateInv` compares with the clock at
  the beginning of the call: each check has a later reading.

### Wag (`WagProofs`)

* `WagTypeCorrect`; `TokensAreVouchedFor`: `TokenVouchedFor`, along with the call
  (`Held`: its registration claims its grant; `Backed`: and signed it).
* `AmbiguousGrantsRefused`: `AmbiguityRefused`. A call past `Match` found at most one
  of the registrations there were when it began; registrations only come after those,
  so what it counted stays what it would count.
* `TokensArePaidFor`: `TokensPaidFor`, by counting the calls that are between the
  consumption and the minting. It is not an equality: a minting that fails leaves a
  consumption without a token.
* `GrantsKeepPromise`: the refinement of `ProofUse`. `Spent` ties a live grant to the
  entry of its jti, with the grant's own expiry, although another platform may use
  the same jti: that is refused as long as the entry is there, and sweeps leave it.

### Ssf (`SsfProofs`)

* `SsfTypeCorrect`, with the capacity of the channel; `PushesFitTheirStreams`:
  `PushFitsItsStream`. A call pushes the configurations it matched under the lock,
  and its SET has the audiences of all of them (`Fitting`).
* `NothingAfterDeregister`: `NoPushAfterDeregister`. What was gone when the call began
  and was not registered since is not in the map when it matches.

### Startup (`StartupProofs`)

* `StartupTypeCorrect`; `KeyNeverLost`: `KeyKept`. As long as `os.Stat` has not failed
  on the file the IdP may generate and write a key only before it has served for the
  first time (`FirstStart`), since it serves only under what is then on disk, and a
  file that is there is loaded or refused.
* `HeldWitsVerify`: `WitsVerify`. A client's key was served under, and is the running
  IdP's unless that IdP has gone since. With a key file, and no failed `os.Stat`,
  `KeyKept` makes all published keys one.
* `FetchersDoNotOverstay`: `StartBounded`, with the bound each place of the loop
  leaves to the rest of it.

### Tokens (`TokensProofs`)

* `TokensTypeCorrect`; `KindsAreDistinct`: `KindsKeptApart`. Each kind of JWT has its
  own typ, and what is shown of an SD WIT is its JWT unchanged.
* `IdentitySurvivesExchange`: `IdentityPreserved`. Not inductive without `Authorised`:
  when a call finishes, what it holds is what its service trusted and allowed when it
  began. `MadeOfNext` is the lemma that one exchange more stays within what exchanges
  can make of a subject; that a chain begins at an IdP needs that the keys of IdPs
  and exchanges differ.
* `ExpiredStaysExpired`: the action property `NoRevival`. A WIT accepted was in date,
  and a WIT issued for it is for the same key.
* `ClaimsAreTrue`: `ClaimsAsIssued`. The invariant `WellMade` is only that every SD WIT
  was made by `IssueSd` of some claims. `OnlyIssuedClaims` concludes what a verifier
  may believe, for any number of disclosures of any origin (the run tries one or two),
  and `ChosenIsSeen` what it sees of a holder's choice.
* `NothingElseDisclosed`: `HiddenStaysHidden`.

### Only model-checked

* `RequestsAnswered`, `StartEnds`, `EmitReturns`: liveness, with
  fairness and ENABLED.

## 5. Not modelled

* Encodings (JWT, JWK with its coordinates, PEM, header syntax, SET) beyond the
  values they carry; cryptography (a signature verifies under its key only, random
  ids, salts and keys are fresh); error texts and logging; URL spelling.
* X.509 certificates and TLS (`pkg/keys/mtls.go`, `cmd/gen-ca`, `cmd/gen-cert`): they
  hand files to `crypto/tls` and keep no state. `Startup` has that loading them may
  fail.
* A loss of power: a crash in `Startup` ends a process, and what `os.WriteFile` has
  written stays written. Two IdPs with one key file: each may overwrite the other's;
  the deployment starts one.
* The metadata of the SSF configuration endpoint; ParseSET and the CAEP payloads;
  `RevealedClaims` and `FullPresentation`; request context and authorization details
  of transaction tokens; the `act` claim; scopes of grants. They decide nothing.
* `cmd/demo-wasm`, `demo`, `infra`, `scripts`: demonstration and deployment.

## 6. Plan

Done, in this order: the replay store and `Wpt`, its abstract specification and
proofs; the composition `WimseAuth`; `HttpSig`; `FedResolver`; `Ssf`; `Wag`; the HTTP
resolver in `FedResolver`; `Startup`; `SdWit` and `Tokens`; the proofs about `Startup`,
`FedResolver`, `WimseAuth`, `HttpSig`, `Wag`, `Ssf` and `Tokens`.

Next: an abstract specification of the resolvers (an answer is a certified, dated
fact) and the proof that `FedResolver` implements it for both kinds.
