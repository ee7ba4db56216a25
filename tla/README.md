# temporal-untrusted-workers: a verification project

temporal-proxy is a gRPC proxy between Temporal workers that are not trusted
and a Temporal server. A worker may only poll its own task queues, and may only
answer tasks that the proxy saw handed out to its own scope. The server's task
tokens are opaque, so the proxy remembers, in a *token store*, the namespace and
queue it believes each token belongs to. Nearly everything that can go wrong
goes wrong between that store, the server's own idea of its tasks, and calls
that run at the same time.

This directory holds TLA+ models of the proxy, the TLC runs that check them on
small instances, and TLAPS proofs of the safety properties for every instance.
`PROJECT.json` lists components, runs, mutants, the map from definitions to
source lines, hazards, findings and theorems.

## 1. The system

| part | source | state | operations | interacts with |
|---|---|---|---|---|
| unary interceptor | `internal/proxy/interceptor.go` | none of its own; one goroutine per call | allowlist, credentials, `authorizeRequest`, handler, delete, put, log | authenticator, token store, forwarding server |
| forwarding server | `internal/proxy/server.go` | none | one method per allowed RPC | upstream client |
| RPC allowlist | `internal/rpcpolicy` | constant table | category and Terminal flag per RPC | interceptor |
| scope extraction | `internal/scope` | none | fields of requests and responses, `ValidateCommands` | interceptor |
| billable actions | `internal/actions` | none | `FromRequest` | interceptor (log) |
| authenticators | `internal/auth` | table loaded once | `Authenticate` | interceptor, Google's validator |
| local token cache | `internal/tokencache/cache.go` | 32 shards, each a map, a recency list and a mutex; janitor goroutine | `Put`, `Get`, `Delete`, `Close`, sweep | interceptor |
| Valkey token store | `internal/tokencache/valkey.go` | in Valkey, shared by all instances | `Put`, `Get` (GETEX), `Delete`, each with a timeout | interceptor, Valkey |
| configuration | `internal/config` | environment | `Load`, `validate` | main |
| upstream dialing | `internal/upstream` | one connection | `Dial` | main |
| process lifecycle | `cmd/temporal-proxy/main.go` | signals, server, store | start, serve, graceful stop | all |
| child supervisor | `examples/dynamic-worker-ts/src/child-supervisor.ts`, `run-workers.ts` | children, stopping, failure, exit code | child events, signals, `shutdown` | worker processes |
| verify examples | `examples/verify-worker` (Go), `verify-worker-ts`, `verify-client`, `internal/verifytls` | two workflow runs on the server | worker: connect, answer tasks; client: start, wait, read history, terminate | proxy (worker), Temporal server (client) |

Hard behaviours:

* A call is a chain of separate atomic steps (lookup, upstream call, delete,
  one put per token) with no lock around it; other calls, other instances, task
  timeouts on the server, expiry and eviction happen in between.
* Failure of every step: the upstream call fails with or without effect; Valkey
  calls fail, and a write given up by its timeout may still be carried out
  later; the process dies between any two steps.
* The interceptor never learns the scope of a token from the server. It records
  the scope of the *request*, so the truth of the store rests on the request
  checks, and for eagerly dispatched activities on `ValidateCommands`.
* The janitor compares expiry with the time of a tick that may be old, shard
  after shard, while callers renew tokens.
* A Valkey command may be carried out long after its caller gave up, and the
  server counts whole milliseconds.
* Start-up and shutdown: six things can fail after others were opened; signals
  arrive before, while and after they are listened for; calls use what `run`
  closes.
* The supervisor's callbacks (errors, closes, signals) come in any order.
* The verify client takes the *absence* of an event after five seconds for a
  denial by the proxy.

What makes the parts correct: work is fetched, answered and started only in the
caller's scope as the *server* sees it; a token a worker holds works for as long as its task is open
(unless the store lost it); a consumed token is gone; nobody is denied without
cause; the action log is a lower bound; the cache keeps what it owes, answers only what was put, stays within its cap and gets rid of
what nobody asks for. A process starts as configured or not at all, stops
without cutting calls off and leaves nothing open; the supervisor ends after its
last child and reports every failure that is not part of a shutdown; the verify programs connect as they
are told and vouch only for what the proxy did.

## 2. Modules

| module | models |
|---|---|
| `StoreValues` | the value of a token store as a function, and its updates |
| `TokenStore` | abstract specification: what `tokencache.Store` promises its caller |
| `LocalCache` | `cache.go` step by step |
| `LocalCacheProofs` | theorems about `LocalCache` |
| `RpcPolicy`, `Scope`, `Actions`, `Auth` | pure parts: allowlist, scope checks, action counts, authenticators |
| `ValkeyStore` | `valkey.go`: commands, replies, deadlines, TTL, and the server behind them |
| `ValkeyStoreProofs` | theorems about `ValkeyStore` |
| `Proxy` | composition: calls of the interceptor, instances, stores, the upstream server |
| `ProxyProofs` | theorems about `Proxy`: what holds in every state of every call |
| `ProxyHistoryProofs` | theorems about `Proxy` over a token's whole life |
| `GuardedServer` | abstract specification: what the proxy promises the owner of the server |
| `GuardProofs` | `Proxy` implements `GuardedServer` |
| `Config` | `config.go`: `Load` and `validate` as functions of the environment |
| `Lifecycle` | `main.go` and `upstream.go`: one process from start to exit |
| `LifecycleProofs` | theorems about `Lifecycle` and `Config` |
| `Supervisor` | `child-supervisor.ts` and `run-workers.ts` |
| `SupervisorProofs` | theorems about `Supervisor` |
| `Verify` | the verify worker and client, end to end |
| `VerifyProofs` | theorems about `Verify` |
| `MC...` | instances for TLC |

Two abstract specifications tie the modules together. `LocalCache` and
`ValkeyStore` are both shown to implement `TokenStore` (refinement mapping
`Visible`: a token's entry is what its shard's map holds, or what the server
holds under its key and has not expired; calls and answers are the same `event`,
so a `Put` has to store and a `Delete` has to remove). `Proxy` uses the same
store values, so every forgetting that `TokenStore` allows is in the proxy runs.
`Proxy` is shown to implement `GuardedServer`, in which there is no token store:
each change of the server's tasks is made for one admitted identity, in one of
its queues. `Lifecycle` uses `Config` and the file checks of `Auth`; `Verify`
uses `Scope` and `Auth` for the proxy's decisions.

### LocalCache

State: the clock, `shardOf` (the hash with its random seed: any function), for
each shard `items` (map) and `ll` (recency list), the ticker's one-slot channel
`tick`, the `janitor` goroutine, `closed`, the `event` (the call a step completed
with its argument or answer: what a caller observes), and the histories `granted` (last put
and last touch of each token) and `since` (the tokens touched since a token's
last touch), which only properties read. A shard method runs under its mutex and is one action:
`PutExisting`/`PutNew`, `GetHit`/`GetExpired`/`GetAbsent`, `Delete`. `GetHit`
reads the clock twice as the code does, so time may pass in between. The janitor
takes one action per shard (`JanitorSweeps`), all with the tick's time.
`DropFromBack` is put's eviction loop in one definition: map and list have the
same size, so the loop keeps the first `PerShard` elements. `Removed` takes
elements out of a list; it is defined by the positions that stay, and not with
`SelectSeq`, because the prover cannot reason about a recursive operator that
takes an operator. Abstracted: the ticker interval ("at any time"), the 32 shards
(a constant).

### Proxy

State: for each slot of `Calls` a program counter and the call's locals; `store`
(one per instance with the local backend, one shared with Valkey); `late`
(Valkey writes whose calls were given up); `tasks` (the server's tasks by
token); and histories. Steps, in the code's order:

| action | code |
|---|---|
| `Receive` | allowlist, credentials, authenticator, and `authorizeRequest` up to the lookup |
| `LookupHit`, `LookupMiss`, `LookupFails` | `cache.Get` and the checks on its entry |
| `UpstreamSucceeds`, `UpstreamResponseLost`, `UpstreamFails` | the handler |
| `Evict`, `EvictFails` | `cache.Delete` of a terminal RPC |
| `Record`, `RecordFails` | one round of the put loop |
| `Reply`, `Done` | action log, answer; the slot is free again |
| `StoreForgets`, `LateWrite`, `Crash` | expiry or eviction; a late Valkey write; process death and restart |
| `TaskTimesOut` | server-side timeout |

All checks of `Receive` read only the request and constants, so taking them in
one step loses no interleaving. A failed Valkey write enters `late` and is
carried out at once, later or never. External, modelled from what `src/` relies
on: the server issues each token once, answers are accepted only while the task
is open, a poll gets a task of the queue it asked for, a sticky queue only
serves its normal queue (`scope.go:81-95`), a completion may return the next
workflow task of the same queue and activities its own commands scheduled.
Strings are model values; a request is one record with the scoping fields of
every message. Left out: log wording, the `proto.Message` type assertions, the
capability flag that `DescribeNamespace` clears.

Some fields of a request reach the server without a check, and the model keeps
them that way: the namespace of a command that signals or cancels another workflow
and nexus operations (`validateCommand` looks at three kinds of command,
`scope.go:213-219`), and the sticky queue and heartbeat of `ShutdownWorker`
(`interceptor.go:251-266`). `WorkDirected` and `WorkTouched` say which fields
`WorkStaysInScope` is about; these are not among them. The actions of a completion
(`Actions`) are a set with as many elements for each command as it is billed, so
that their number is a cardinality and not a recursive sum.

### ValkeyStore

State: `ttl` (any of `TTLs`; the clock counts in units of which `Ms` make a
millisecond), the server's clock and `db`, one `call` per caller (idle, waiting,
replied), `orphans` (commands that outlive their calls), `open`, the `event`, and
the history `touched`. `Put`, `Get` and `Delete` send a command built with
`TokenKey`, `Encode` and `TtlMilliseconds`; `Served` carries it out; `Return`
reads the reply; `TimesOut` is the deadline of `contextWithOptionalTimeout`,
`Aborted` the end of the caller's own context, of the connection or of the
client. A command given up is lost or stays on its way (`ServedLate`,
`NeverServed`). External: the server takes commands one by one, refuses an
expiry that is not positive, expires keys by its truncated clock, may lose keys,
and other programs may write under them (`KeyOverwritten`: the value does not
parse). SHA-256 is taken to be injective.

### Config and Lifecycle

`Config` has no state: an environment maps variables to texts or `Unset`, and
`LoadErrors` is the set of problems `Load` reports, each the set of variables
its message names. `Lifecycle` is `run()` step by step (`LoadConfig`,
`BuildAuthenticator`, `DialUpstream`, `NewLocalCache` or `PrepareValkey`,
`ValkeyConnects`, `ConnectFails`, `PingAnswered`, `PingFails`, `Listen`,
`Notify`, `SelectSignal`, `SelectServeErr`, `GracefulStopReturns`,
`RunDeferred`, `Exit`), with `built` (which branch each switch took), `defers`
(the deferred functions), `why` (what `run()` gave up for) and `status`, and the
histories `cut` and `requested` (a signal was caught: not the same as `ctxDone`,
which the deferred `stop` sets too). Constructors fail as in the code: for an
argument they check, for a file, or because a library refuses (`grpc.NewClient` an
address it cannot parse, which `Load` lets by; `idtoken.NewValidator`). Connecting
to Valkey ends by the dialer's timeout or `ConnWriteTimeout`, for which the library
has defaults. Beside it run the serving
goroutine, signals, and calls that use store, upstream connection and store, in
the interceptor's order. External, from grpc-go: `Serve` returns when accepting
fails, with open connections going on; `GracefulStop` lets calls in until every
client has heard and waits for all of them. Left out: `configureLogging`, and
variables that are only passed on.

### Supervisor

One action per callback (`OnError`, `OnClose`, `OnSignal`), per spawned child,
and for `runWorkers` going on after `completion`. Children exit, fail to start
or obey a signal at any time; what happened to a child is pending until its
callback runs. Two histories are kept apart from the code's own flags: `fate` (how
each child came to its end, recorded when it does) and `openAtSignal` (the
children map when the first signal came). External, from Node: `error` is followed by `close`; `spawn` may
throw; a signal without a listener, or a second one after `once`, kills the
process. Left out: prefixing of output, and errors of `kill`.

### Verify

A deployment `dep` gives the environment of worker and client (namespace, queue,
credential and TLS settings), language of the
worker, route (through the proxy or past it), the proxy's authentication mode and
the endpoints' certificates. The worker resolves its credential, connects and
answers tasks, each request being decided by `AuthorizeRequest` and
`ValidateCommands` of `Scope`; the client goes through `main` call by call. `runs`
is the server's record of both workflows, `blocked` a history of denied
completions. The Temporal SDK, TLS handshakes and the server's task timeouts are
external.

## 3. Runs

| run | bounds | checks |
|---|---|---|
| `local_lru` | 3 tokens, 2 shards, cap 2, TTL 1, clock to 3 | `TypeOK`, `ListMatchesMap`, `LiveTokensRetained`, `RemovalsAreJustified` |
| `local_contract` | 2 tokens, 2 entries, 2 shards, clock to 2, fair | `HitsAreCurrent`, `ImplementsStore`, `ExpiredAreSwept` |
| `local_documented_cap` | maxSize 3, 2 shards | expected violation, see 6 |
| `proxy_local` | 2 calls, 1 instance, 2 tokens, local | `TypeOK`, `WorkStaysInScope`, `LogIsLowerBound` |
| `proxy_valkey` | 2 calls, 2 instances, 2 tokens, Valkey | `CacheMatchesUpstream`, `OpenTokensStayCached`, `ConsumedTokensForgotten` |
| `proxy_eager` | 1 call, 3 tokens, Valkey | `ImplementsGuard` with several tokens per response |
| `proxy_policy` | 1 call, 1 token, Valkey, every RPC and field value | `NoInternalError`, `WorkStaysInScope`, `DenialsAreDeserved` |
| `valkey` | 2 callers, 1 token, 2 entries, 1 orphan, 2 units a millisecond, TTLs 1 and 3, clock to 6, fair | `TypeOK`, `RetainedForTTL`, `HitsAreCurrent`, `ImplementsStore`, `CallsReturn` |
| `supervisor` | 3 children, fair | `SettledAfterLastChild`, `EveryoneTold`, `RejectedForCause`, `NeverSucceeds`, `StopsInTheEnd` |
| `lifecycle` | 2 calls, 6,710 environments: a development and a production one with up to two variables changed, fair | `StartFailsForCause`, `ServesAsConfigured`, `FixedInTwoRounds`, `CallsKeepTheirResources`, `SuccessMeansStopped`, `NothingLeftOpen`, `StartupEnds`, `SignalEndsProcess` |
| `verify` | 1,570 deployments: a local and a Cloud Run one with up to two settings changed, fair | `ForbiddenNeverScheduled`, `ResultVouchesForIdentity`, `ConnectsAsAsked`, `CleansUp`, `ClientEnds` |
| `verify_claim` | the documented local deployment | expected violation, see 6 |

The properties, in words:

* `ListMatchesMap`: the list and the map of a shard hold the same tokens, once
  each, within the cap.
* `LiveTokensRetained`: a token put, not deleted, used within the TTL and among
  its shard's `PerShard` most recently used is there, with its last entry.
* `RemovalsAreJustified`: a token goes only if deleted, expired by the *real*
  clock, or least recently used in a full shard.
* `HitsAreCurrent` (both stores): Get never answers with a deleted, replaced or
  expired entry; for Valkey, expired means older than the TTL and what rounding
  adds.
* `ExpiredAreSwept`: expired tokens nobody asks for go away.
* `CacheMatchesUpstream`: every entry stored or on its way is the server's own
  scope of that token's task.
* `WorkStaysInScope`: work is fetched, answered and reported on only in the
  caller's namespace and queues, by the server's record; activities, children and
  continuations stay on the task's queue. The unchecked fields of section 2 are
  outside this promise.
* `OpenTokensStayCached`: a token a worker was given stays until its task closes
  or the store loses it by itself.
* `ConsumedTokensForgotten`: acknowledged final answers leave no token behind
  unless the delete failed.
* `LogIsLowerBound`: logged actions never exceed billed ones (README: "lower
  bound"), also when two calls race to complete one task.
* `DenialsAreDeserved`: PermissionDenied is only answered for cause.
* `NoInternalError`: "missing task queue scope" is unreachable.
* `ImplementsGuard`: see section 2.
* `RetainedForTTL`: a token set or read within the TTL is found, though the
  server truncates its clock and counts whole milliseconds, and though the TTL
  may be below one.
* `CallsReturn`: every store call returns even if Valkey never answers.
* `SettledAfterLastChild`, `EveryoneTold`, `RejectedForCause`, `NeverSucceeds`,
  `StopsInTheEnd`: the supervisor's promise settles after the last child; once
  stopping, every running child has been sent a signal; the promise is rejected
  only with the failure of a child that did not start or ended untold, and
  resolved only if all started and any that ended untold was still to be closed
  when the first signal came (such a crash is taken for part of the shutdown); a
  supervisor that ends by
  itself never exits with 0; once stopping, it ends.
* `StartFailsForCause`, `ServesAsConfigured`, `FixedInTwoRounds`: past `Load`,
  the start fails only for a library, the network or an unusable file of a mode in
  use, never for an argument that `validate` should have refused; a proxy that
  serves took the branches its environment names, though each switch has a default
  branch; and whichever modes were meant, fixing what the first error message names
  leaves only what a mistyped mode requires, which the second names completely.
* `CallsKeepTheirResources`, `SuccessMeansStopped`, `NothingLeftOpen`: no call
  finds store or connection closed when the proxy stops for a signal; status 0
  means a caught signal and no call cut off, never a listener that failed; every error path closes what was
  opened.
* `StartupEnds`, `SignalEndsProcess`: a silent Valkey cannot hang the start; a
  signal ends the process once the calls in flight end.
* `ForbiddenNeverScheduled`, `ResultVouchesForIdentity`, `ConnectsAsAsked`,
  `CleansUp`, `ClientEnds`: no worker behind the proxy gets the forbidden
  activity scheduled, and the client raises its alarm only over a scheduled one;
  a result of EchoWorkflow came from a worker with a credential that the proxy
  accepts for the queue; mistyped TLS settings stop a program instead of weakening its
  connection; a client whose calls succeed leaves no workflow running; the client
  ends.

Why the bounds are enough to be interesting: two tokens and two calls let one
call delete, record or lose the token another has looked up; a cap of 2 with
three tokens makes eviction happen in one shard and not in the other; the clock
runs past two TTLs, so a tick can be received after the tokens it would have
removed were renewed; three tokens let a workflow task completion return a
workflow task and an activity. In `valkey` the TTLs are half a millisecond and one
and a half, the two cases of rounding, and the clock runs past the expiry of
either. Keys do not interact, so one token is enough there; the second caller and
the orphan reorder commands on it. Three children are one that fails, one that
is told and one whose close comes in between. Environments and deployments with
two changes reach every pair of settings that interact (a mode and what it
requires). Eager dispatch, query answers and heartbeats are in the traffic of
`proxy_eager`, `proxy_local` and `proxy_policy`, not of `proxy_valkey`, which has
two calls on two instances; that its invariants hold with them is in the proofs,
which take any traffic. `MaxDispatch` (tasks per response), `MaxActions`
(billed actions per task), `MaxTime` and `Orphanage` are bounds of the model and
not of the code. Every property has a mutant of the code that breaks it (`PROJECT.json`).
Symmetry over tokens, calls and instances is used in safety runs only.

Deadlock checking is on except in the two verify runs, whose programs end;
`Lifecycle` and `Supervisor` have an explicit step for a process that is gone
(`Over`), so that a process that hangs is found.

## 4. Fairness

* `LocalCache!FairSpec`: time passes, the runtime delivers ticks, the janitor
  goroutine is scheduled. Nothing obliges anyone to call the cache.
* `ValkeyStore!FairSpec`: deadlines pass and goroutines that have their reply go
  on. Nothing is assumed of the server or the connection.
* `Lifecycle!FairSpec`: `run()` and the serving goroutine are scheduled, deadlines
  pass, clients hear of the shutdown, and every call ends (the server
  answers long polls, store calls have timeouts). Nobody need call, signal, or answer a dial.
* `Supervisor!FairSpec`: Node runs pending callbacks, and a child that was sent a
  signal ends (the SDK's handlers shut the worker down). No child need exit on
  its own.
* `Verify!FairSpec`: the client's process runs and its 60-second timer fires. The
  worker need not do anything, and no call need fail before the deadline.

## 5. Theorems

Every invariant, action property and refinement that a passing run checks is also
proved with TLAPS, for all values of the constants that satisfy the named
assumptions; only liveness is left to TLC. The runs show the same formulas on
small instances.

Assumptions on constants, all evaluated by TLC in the runs: numbers in range
(`TimeAssumption`, `SizeAssumption`, `TtlAssumption`); `None`, `Empty` and `Unset`
are no real values (`NoneAssumption`, `EmptyAssumption`, `UnsetAssumption`,
`ChildrenAssumption`, which also asks for a child: `startChildSupervisor` throws
for an empty list); requests are well formed and authenticators answer with identities
(`RequestAssumption` and the others of `Proxy`); an environment has a text or
`Unset` for each variable that `Load` reads (`EnvsAssumption`); and in `Verify` no
configured identity is authorized for the forbidden queue (`ForbiddenAssumption`:
what the example deploys, and what its check presupposes).

`LocalCacheProofs`: any number of shards, tokens and callers, any cap and TTL.

* `TypeCorrect` (`TypeOK`), `HitsCurrent` (`HitsAreCurrent`), `Implementation`
  (`ImplementsStore`), from `Inv`, which ties each held item to the history of
  calls: a token is only in the shard it hashes to, its entry is the last one put
  and its expiry is exactly its last touch plus the TTL. The refinement is by
  cases on the actions: sweeps map to `Forget`, an expired get to `Miss`, the clock
  and the ticker to a `Forget` of nothing.
* `ListInStep` (`ListMatchesMap`), `Retained` (`LiveTokensRetained`), `Justified`
  (`RemovalsAreJustified`), from `Retention` on top of it. `LiveTokensRetained`
  says nothing about tokens that are gone and nothing about order, so it is not
  inductive. `Retention` adds: the janitor's tick is never ahead of the clock;
  each list has its map's tokens once each, and a token nearer to the front was
  used after those behind it; a token that was put, not deleted and is gone has
  expired or has been overtaken by `PerShard` others. The order is what makes an
  evicted token overtaken: all that is kept was used after it. The lemmas about
  lists rest on one: the ranks of the positions that stay map them one to one
  onto `1..n` (an injection between finite sets of one size is onto), which
  replaces an induction.

`ValkeyStoreProofs`: any number of callers and late commands, any TTL and unit.

* `TypeCorrect` (`TypeOK`), `RetainedInv` (`RetainedForTTL`), `HitsCurrent`
  (`HitsAreCurrent`), `Implementation` (`ImplementsStore`). The invariant says that
  commands on their way, waiting or orphaned, carry the key of their token, an
  encoded entry and the TTL in milliseconds, and that what the server holds
  expires a TTL after the last use. `RoundsUp` (the milliseconds cover the TTL, by
  less than one) and the division of the server's clock give both bounds:
  rounding up makes up for truncation, and adds less than two milliseconds.

`ProxyProofs`: any number of calls, instances and tokens, any requests, any
authenticator, both backends.

* `TypeCorrect`, `CacheTruth` (`CacheMatchesUpstream`), `OpenTokens`
  (`OpenTokensStayCached`), `ScopeSafety` (`WorkStaysInScope`), `NoInternal`
  (`NoInternalError`), all from one inductive invariant `Inv`:
  * `StoresTrue`, `LateTrue`: entries, stored or late, name issued tasks and
    their true scope; a late delete belongs to a closed task;
  * `DeliveredHeld`: tokens given to workers are held, lost by the store, or of
    closed tasks;
  * `CallOK(c)`: what each phase of a call has established: permitted; after
    the lookup `Scoped` (the request's token is the caller's by the server's
    record); after the upstream call `Handed` (every token of the response is of
    the scope about to be recorded, and a queue is known); while recording, the
    tokens recorded so far are held.

  None of the parts is inductive alone: truth of the store needs `Handed`,
  `Handed` needs `Scoped` and `ValidateCommands`, and `Scoped` needs truth of
  the store at the lookup. That other calls cannot disturb a call in between
  follows from two facts about every step: the server never moves or reopens a
  task (`Grows`) and held tokens stay held (`Keeps`). With them one lemma per
  action suffices.

`ProxyHistoryProofs`: the same instances, and what happens to a token from the
first response that names it to the last answer.

* `ConsumedGone` (`ConsumedTokensForgotten`), `LogBounded` (`LogIsLowerBound`),
  `DenialsForCause` (`DenialsAreDeserved`), from `Inv` and `History`:
  * `Placed(t)`: one response waits to record a token, or one failed put may still
    be carried out, and until then no store has it and no call has used it;
    afterwards one store has it, and every call that uses it is at that store; a
    call that finished its task has deleted it, or the delete failed. A delete
    would otherwise race with a put that brings the token back.
  * `Bills`: what is logged, plus the heartbeats that are still to be logged, plus
    the actions of the one call that finished the task, is at most what was
    billed. That two calls cannot both have finished a task is part of it.
  * `Coded`: a call has no code before it is answered, so a denial comes from one
    of the steps that deny. There an entitled caller's token is in the store,
    with the entry of the server's record, by `Inv`.

`GuardProofs`:

* `GuardImplemented` (`ImplementsGuard`), from `Inv` above. `Forwarded` maps each
  call that is at the server to the identity it was let through for. Passing the
  checks maps to `Admit`, a success upstream or a lost response to `Serve`,
  failure and crashes to `Abandon`, a task timeout to `TimesOut`, everything else
  to a stutter. The case that carries the weight is `Serve`: the queue it needs
  is the request's own for polls, and for answers the one of the task that
  `Scoped` establishes; `ValidateCommands` keeps the tasks that a completion
  opens on that queue, and a call closes at most the task it names.

`LifecycleProofs`: every environment, every disk, any number of calls.

* `StartFailures` (`StartFailsForCause`), `BuiltAsConfigured`
  (`ServesAsConfigured`), `NoCallCut` (`CallsKeepTheirResources`),
  `SuccessIsAStop` (`SuccessMeansStopped`), `AllClosed` (`NothingLeftOpen`), from an
  invariant that follows `run()`: at each step, what is open and which deferred
  functions will close it, what has been built from the accepted configuration and
  that the files it needed were usable, that `run()` gave up for a file only if one
  of a mode in use is not, that `ctxDone` comes from a caught signal until the
  deferred `stop`, and when calls can be in flight (only between `Notify` and the end of
  `GracefulStop`, or after a failed listener).
* `TwoRounds` (`FixedInTwoRounds`): about `Load` alone, with one lemma per part of
  `validate`. `OneRound` shows that a requirement that fails names the variables it
  is about, and that the texts they are set to satisfy every requirement that
  mentions them, the ones not reported because a mode was wrong included, except
  what the modes chosen to be demanding ask for; these errors are reported in the
  second round, and setting them right disturbs nothing else.

`SupervisorProofs`: any set of children.

* `Settling`, `Telling`, `Rejecting`, `Exiting`. The invariant: the children map
  holds exactly the processes whose close has not been handled, `stopping` is set
  by a failure or by a signal that leaves an exit code, the failure that is kept is of
  a child whose fate was not its being told, and while nothing has stopped nobody
  was told, so that a close before the first signal is of a child that ended by
  itself.

`VerifyProofs`: any deployments and authenticator under `ForbiddenAssumption`.

* `NeverScheduled`, `ResultVouches`, `ConnectionsKept`, `NothingLeftRunning`. The
  invariant: a worker that holds a task through the proxy was authorized for the
  client's queue, the forbidden activity does not exist on that route, and the
  client's place in `main` says which runs can be there. `OptionsKept` shows the Go
  and the TypeScript TLS settings to keep to what was asked, for any settings.

Only model-checked: the liveness properties (`ExpiredAreSwept`,
`CallsReturn`, `StopsInTheEnd`, `StartupEnds`, `SignalEndsProcess`, `ClientEnds`): liveness under fairness, and `ENABLED`, are out of
the prover's reach. The two expected violations are shown by TLC's traces.

## 6. Findings

* `cache.go:140-142` says the effective cap is `maxSize` "rounded up to a
  multiple of the shard count"; `cache.go:144` rounds *down* (and to at least
  one per shard). `local_documented_cap` shows a live token evicted although the
  documented cap has room for it.

* `verify-client/main.go:102` logs "confirmed: CrossQueueWorkflow's
  forbidden-queue activity command was blocked by the proxy", and `README.md:175`
  says the client "asserts the cross-queue command was blocked". The client only
  sleeps five seconds (`main.go:81`) and finds no `ActivityTaskScheduled` event:
  `verify_claim` shows the line logged when the worker stopped, or had not
  answered yet, so that nothing was sent and nothing blocked.

Two more things a reader should know, which the properties state as exceptions and
no run shows by itself:

* `config.go:85-88` says all problems "are collected and returned together". What
  a mistyped mode requires is not looked at until the mode is right: with
  `AUTH_MODE` mistyped and `JWT_AUDIENCE` missing, the second is named by the next
  message only. `FixedInTwoRounds` says that this is the only case.
* `child-supervisor.ts:74-87`: a child that crashed, with its close still pending
  when a signal comes, is not reported as a failure. `RejectedForCause` says that
  this is the only case.

## 7. Plan

All properties other than liveness are proved. What is left is upkeep, and the
non-temporal half of the liveness arguments: for each liveness property, that the
system is never stuck short of the goal (some helpful step's guard holds), which
the invariants above should give.

## 8. Not modelled

* The `WorkerCommands` capability that `DescribeNamespace` clears in responses
  (`server.go`): it changes what an SDK tries, which is not in the repository,
  and not what the interceptor allows.
* The dynamic worker example's `worker.ts`, `config.ts`, `start-workflows.ts` and
  bundle builder: straight-line programs against the Temporal SDK, whose
  credential and TLS code is the one modelled in `Verify`. To the supervisor they
  are processes that start, fail and end.
* Pure pass-through and formatting: addresses, server names, password, log level,
  `configureLogging`, output prefixing, log wording.
* Libraries: TLS, gRPC, the Valkey client, the Temporal SDK, Google's token
  validator, Node. They appear as what `src/` relies on, marked external in the
  map.
