# Formal model of cobra-proxy

TLA+ modules for the parts of cobra-proxy whose correctness depends on ordering:
the start of the process from its environment, the HTTP path through Pingora with
its identity hand-offs and cache, circuit isolation, the per-account data
allowance, account admission, the account database with its credentials, the
destination circuit breaker, and the bridge tasks with their shutdown drain.
Everything is translated from `src/src/*.rs`; line numbers below refer to those
files. `PROJECT.json` has the exact correspondence of definitions and lines.

## The system

cobra-proxy accepts CONNECT and ordinary HTTP requests on a public listener and
carries them over Tor. A *bridge* (tokio tasks) owns the listeners. A CONNECT
becomes a Tor stream directly; an ordinary request is forwarded to an in-process
Pingora proxy, which comes back to the bridge through a Unix socket, once per
upstream connection. In production mode each request is authenticated against an
SQLite account database and charged to an account.

| Component | State | Operations | Hard because |
|---|---|---|---|
| Isolation store (main.rs 149-265) | identity -> token, group key, last use, expiry | `material_for`, `rotate` | lazy expiry, eviction and rotation interleave with connects that hold older material |
| Connect with retry (4060-4117) | attempt, deadline | two attempts, rotation, backoff | the entry can change hands during the backoff |
| Pingora path (3212-3381) | `RequestCtx`, upstream pool | `request_filter`, `upstream_peer` | only the group key separates pooled connections |
| Customer data limiter (466-720) | (account, period) -> live budget | `ensure_available`, `open_session`, `allow`, `checkpoint` | budgets are cached, evicted and reloaded while tunnels use them |
| Tunnel copy loop (2676-2928) | chunk per direction, counters | read, reserve, write, record, checkpoint, idle timeout | two directions, a checkpoint await that suspends both, failure in the middle of a write |
| Usage table (account_management.rs 2183-2368) | requests and bytes per workspace and period | `record_usage`, `record_usage_if_allowed` | the commit and the in-memory counters are two steps |
| Admission controller (2564-2756) | account -> limits, limiter, tunnel counter | `check_request_rate`, `try_acquire_tunnel`, guard drop | atomics without a lock, eviction by `strong_count`, limits that change |
| Circuit breaker (main.rs 998-1083) | destination -> failures, open until | `allow`, `record_failure`, `record_success` | late results, concurrent probes, bounded map |
| Bridge tasks (2135-2325, 3607-4058) | `JoinSet`, semaphores, gauge | accept, join, drain | permits must survive every way out of a task; the deadline races completions |
| Account database and credentials (1414-2066) | accounts, workspaces, keys, devices | provisioning, rotate, revoke, authenticate | credentials change while requests that used them run |
| Downstream contexts, bridge leases (722-875) | address -> context, token -> scope | register, issue, resolve, drop | identity travels through Pingora by address and by lease, and addresses and streams are reused |
| HTTP cache (1141-1519, 3383-3476) | scoped key -> response | access decision, key, response policy | responses outlive sessions, group keys and the request that fetched them |
| Request parsing, destination policy (1535-1863) | none | header loop, reserved headers, host classes | several readers of one head must agree |
| Configuration and start (private_ingress.rs, main.rs 935-996, 4449-4533; account_management.rs 1336-1412) | environment, files, database file, capacities | one read after another, create, migrate, bind | combinations of settings; a kill or another instance between two steps |
| Request scheduler (request_scheduler.rs) | bounded FIFO | enqueue, admit, cancel | not compiled: main.rs declares no module for it |

## Modules

| Module | Models | Extended by |
|---|---|---|
| `Isolation` | isolation store, request filter and pool, connect with retry | `MCIsolation` (TLC), `IsolationProofs` (TLAPS) |
| `CustomerData` | live budgets, tunnel copy loop, checkpoints | `MCCustomerData`, `CustomerDataProofs` with `Sums` |
| `Tunnels` | task registry, semaphores, circuit breaker, drain | `MCTunnels`, `TunnelsProofs` |
| `Admission` | authentication outcome, rate check, request quota, tunnel guard | `MCAdmission`, `AdmissionProofs` |
| `Accounts` | account database, workspaces, keys, devices, authentication | `MCAccounts`, `AccountsProofs` |
| `ProxyRequest` | what is read in a request head; destination and cache-origin policies (operators) | `Startup` |
| `Startup` | environment, files, database file, `main` up to `run_forever` | `HttpPath` |
| `HttpPath` | public handler, context store, Pingora's hooks, leases, pool, cache | `Service` |
| `Service` | start, service and end of one process after another | `MCService`, `StartupProofs`, `HttpPathProofs` |
| `TenantHttp` | what the HTTP path promises to tenants (abstract) | refined by `Service` |

The modules meet at the gates of `handle_connect_request` (4119-4373): the
breaker and the permits are in `Tunnels`, the account guard in `Admission`, the
data session in `CustomerData`, the connect in `Isolation`. Each module keeps the
other gates as a choice between success and failure. `Accounts` looks inside the
step that `Admission` calls `Authenticate`. `Service` composes `Startup` and
`HttpPath`: requests are served under the capacities, the mode and the cache
policy that the start-up read, and a process that ends leaves the database only.

**Isolation.** An identity is the resolved isolation identity. In production it
is a keyed hash of account, workspace, destination and caller sub-identity; here
it is a model value, which assumes that the hash has no collisions. Each store
method holds the mutex throughout and is one step. Tokens and group keys come
from counters; `MaxFresh` bounds them. `MaterialFor` keeps the order of the code:
drop expired entries, look up, evict the least recently used entry when full,
insert. A bridge task goes `attempt -> building -> open`, or through `backoff` to
its second attempt; `AttemptPastDeadline` is the early return at 4075, which has
already touched the store. Pingora is external. The model lets it reuse any idle
connection with the request's group key (`PoolMatch`). The real pool also
compares the origin, so this allows more than it does.

**CustomerData.** A live budget is an `Arc`, named by the sequence number of the
call that created it, so that two budgets for one account would be visible.
`Idle` is `Arc::strong_count == 1`. A tunnel's chunk is reserved by `Allow`
before it is written and recorded after it was written. When the copy future is
dropped, any part of the chunk may have been sent (`EndTunnel`, `more`). A
checkpoint is three steps: the delta is taken, the transaction commits, the
persisted counters follow. `ProcessEnd` is a crash or the drain's abort; a
transaction in progress may or may not have committed, because it runs in a
blocking thread that the abort does not reach. Bytes are totals of both
directions. The one-MiB and five-second triggers are one action that may fire
whenever there is something to persist.

**Tunnels.** One step is what a task does between two awaits. A permit is held
exactly in the program points where its guard is in the task's future, so the
release on every path is a consequence of leaving those points (`DropAll`).
Writing an error response is a state of its own (`refusing`, `failing`), because
it awaits the client without a timeout. `streak` and `owned` are histories for
the properties. After `DrainDeadline` aborted tasks may still finish the step
they are in.

**Admission.** `Authenticate` reads the limits once and the request carries them
from then on, so that a plan change can be overwritten by an older request
(`UpdateLimits` takes over the caller's limits). `PlanPrevails` says how far that
goes: `settled` is the history of the requests that called `try_acquire_tunnel`
when nobody with other limits than the plan's was left to call it, and those stay
within the plan in force. The load, the comparison with the limit
and the compare-and-swap of `try_acquire_tunnel` are separate steps. Whether the
rate limiter passes a request is a choice: `governor` is external.

**Accounts.** Each table is a sequence, since rows get increasing ids and none is
deleted. An `AccountDatabase` method holds the connection mutex and is one step;
`stored` is the outcome of the last statement and the commit of a two-statement
transaction. `issue_api_key` and `rotate_api_key` release the mutex between their
generation attempts, so a call in progress is state (`calls`) and each attempt
(`Insert`, `Rotate`, `Collide`) is a step. A secret is named by its row: a
generated secret is new, and its digest matches no other row. A refused
authentication changes nothing and is not a step; `grants` is the history of
those that succeeded, and `root` in a key row the history of its rotations.

A second administrator's rotation (`OtherRotates`) is one step, between any two
steps of the first. `suspended` and `closed` are tested alike everywhere, so one
inactive status stands for both.

**ProxyRequest.** A head is a record of what the checks tell apart. Its headers are a
function from positions, not all of which need be used, to headers: taking one out
keeps the places of the others. A header is a name and a value, a host is a class (public, private, loopback, ...) with a name,
a spelling and a port; `normalized_authority` forgets the spelling and adds the
default port of the scheme. The target of a request is relative, or absolute and
then agrees with the Host header or not; an absolute `https` target is accepted
too, but its origin is not one that is cached. The public handler checks all four reserved headers, Pingora's
`request_filter` only the two isolation headers, and both take off all four.

**Startup.** A setting is unset, blank, not Unicode, malformed or text, because
the readers differ in these cases: `optional_value` takes a blank for an unset
variable, the cache TTL and the shutdown seconds do not, and
`SingleTierPolicy` refuses even a blank in development. A file is its kind,
whether only its owner can use it, and a class of content. `usize` has the width
`UsizeMax`, so `checked_mul` really can fail. The steps of `main` follow its
order: ingress settings, TLS material, pepper file, database, capacities,
policies, Tor bootstrap; then the bridge binds its listeners beside Pingora, and a
bridge that fails to bind leaves Pingora running without it. Looking at the database path, creating
the file, reading the schema version and migrating are four steps, and another
instance of the program may create or migrate the file between them.

**HttpPath.** Sockets are named by their local address `p`; the kernel gives a
handler any address whose session in Pingora is over. `conn` is the public
handler, `session` Pingora's end with its `RequestCtx`, `bridge` a CONNECT stream
between Pingora and the bridge. The handler's `local_addr`, `register`, write and
copy are steps; so are the drops of the guard and of the socket, in the reverse
order of declaration. Any local process may connect to Pingora (`LocalConnect`).
Generations, nonces, group keys and lease tokens, which the code never repeats,
are named by the least number no state component refers to any more, so the state
space is finite without a bound on how long the process runs. Pingora may keep or close a
stream, retry on a reused one, abandon a request at any point and read what
follows a request if keep-alive allows it. It only logs an error of
`request_cache_filter` and goes upstream without the cache, so a development request
whose target disagrees with its Host header is proxied; `upstream_peer` is what fails
without a usable Host. `upstream_request_filter` is what the origin gets to see: the
head without reserved headers, and whether the stream is to be closed. `sender` is a history: the context of the connection that wrote
the request, against which `Attributed` compares what Pingora works with.

**TenantHttp and the refinement.** The abstract state is, per socket, the tenant
that owns the request, the tenant on whose account it is answered with the source
of the answer (an origin or the store), and the set of tenants with stored
responses. `Service` maps `owner` to the tenant admitted on
the connection that sent the request, `served` to the scope the bridge charges
for the stream (or the tenant whose cached response is sent), and `held` to the
tenants in the cache. `ImplementsTenantHttp` is the abstract specification as a
property of the run `service`: every step of the handlers, hooks, leases, pool and
cache is a step or a stutter of it.

## Runs

| Run | Question | Result |
|---|---|---|
| `isolation` | Do circuits, pooled connections and retries stay isolated? | holds, 705k states |
| `isolation_bound` | Is the store's size fixed? (README.md:208) | violated |
| `customer_data` | Is the allowance shared, respected and charged once? | holds, 1.2M states |
| `customer_data_cap` | Is the cap exact within one process? (README.md:320) | violated |
| `customer_data_shutdown` | Is usage persisted when a tunnel closes? (README.md:171) | violated |
| `customer_data_live` | With one budget, is the cap exact, and do copy loops end? | holds |
| `customer_data_stalled` | Does the idle timeout close every abandoned tunnel? (README.md:240) | violated |
| `tunnels` | Are permits conserved, the breaker effective, the drain's report exact, and do drains and CONNECT setups end? | holds, 385k states |
| `admission` | Do concurrent requests respect tunnel and request limits, and does a changed plan prevail? | holds, 2.4M states |
| `admission_quota` | Is the request quota per account? (README.md:252) | violated |
| `accounts` | Do the tables stay whole, identities in one workspace, and do rotation and revocation mean what they say, whoever interleaves? | holds, 572k states |
| `service` | Does every environment end in an error or a sound configuration, and is every HTTP request attributed, leased, cached and charged to its tenant? | holds, 1.37M states |

In `tunnels` the size of the breaker's map is part of the type invariant; in
`customer_data`, `admission` and `accounts` the types are the first conjuncts of
`AllowanceRespected`, `GuardsCounted` and `LookupTotal`. `service` has nine
properties. Five are about identity: the context store (`DownstreamExact`), what
Pingora works with (`Attributed`), leases and streams (`LeasesExact`), the cache
(`CacheIsolated`) and the refinement. `CacheFresh` bounds how long a response is
served. Three are about the start: `CapacitiesFit`, `OpenOnlyOnLoopback` and `DatabaseIntact`.

What the violations show:

* `isolation_bound`: a task connects for i1, i2 evicts i1's entry, the connect
  fails, and `rotate` inserts i1 again without evicting (244-258). The excess is
  bounded by the connects in progress and ends with the expiry.
* `customer_data_cap`: a write sends its bytes and then fails, so they are
  reserved but never recorded. Once the tunnel is gone its budget is idle; another
  account's request evicts it; the next load reads the lower figure of the table
  (609-645). Without eviction the cap is exact: `customer_data_live` checks it, and
  `CapIsExactWithoutEviction` proves it.
* `customer_data_shutdown`: the drain deadline aborts a tunnel in its copy loop
  (2307) and with it the usage since the last checkpoint.
* `customer_data_stalled`: the bytes that came with the CONNECT header are written
  before the copy loop starts (4290-4295), so its idle timer does not cover them,
  and no other timeout does. The tunnel is established by then, the `200` has been
  sent. Once in the loop every tunnel ends: `CopiesEnd` in `customer_data_live`.
* `admission_quota`: `check_usage_allowance` compares the account's limit with
  the row of one workspace (account_management.rs 2536).

### Bounds

Caches have one entry, so that every load for a second identity, budget, account
or destination evicts or fails; two of each then suffice to reach eviction,
re-creation and overflow. Two tunnels (or connects) of one account race; three
requests let two of them race while a third evicts. Two tasks compete for the one
permit of each kind that has a queue, and one of them may finish while the drain
aborts the other; a third would wait like the second, and the safety theorems hold
for any number.
`Limit = 2` with reads of one or two bytes reaches the exact boundary, the
truncated read and the refusal. Breaker threshold 2 and cooldown 2 separate one
failure from an open breaker and its last instant from the end of the cooldown.
The two plans of `admission` allow more requests than tunnels, so that the quota
never hides the tunnel limit, and six limiter calls take all three requests to
their tunnels.
In `accounts` two accounts and up to two workspaces cover both a foreign account
and a foreign workspace of the same account, and two device rows let one
certificate be registered, revoked and offered again. Three key rows are a key and
two rival successors; three public ids and two attempts reach collision, retry and
exhaustion. `MaxUpdates = 1` allows one update of an account or workspace row at
any point, and `MaxRows = 7` leaves out only the databases in which every table is
full at once. `StripeIds` is empty there: the Stripe id is one more unique column,
checked like the email.
In `service` the tenants are two workspaces of one account, the closest two
identities can be. Two connections on two addresses let one be closed and its
address reused while the other runs; one stream and one cached object make them
meet in the pool and in the cache; two group keys are a session's key before and
after a rotation, or a session beside a strict request. `LeasesPerConnection` is 2
(4 in the code); a session has one lease at a time, so the registry is never full
here. The environments are a good production one and an empty one, each with
up to two variables changed, which covers every pair of the alternative settings,
and a production one with one connection and the longest cache lifetime, where a
stored response is served, ages and expires at the absolute bound.
With `UsizeMax = 7` four connections overflow the product for the leases and five
cached accounts the one for the budgets.
`MaxGroups` bounds the group keys in use at a time.
`MaxSequence`, `MaxFresh` and `MaxTime` only bound how long a process runs. In
`Isolation` and `CustomerData` the process may also restart at any point.

Requests, tunnels, connections and addresses are symmetric sets in the runs without
liveness properties. The run `customer_data` uses a VIEW without the histories
`sent` and `base`, which no action and none of its properties reads.

Deadlock is checked in every run: a process can always restart or end, and in
`Accounts` a call can always begin or end. `Service` never stops either: a process
that is down may be started again.

### Fairness

* `tunnels` assumes weak fairness of the drain, which its own timers drive
  (2279, 2311), and of the setup of a CONNECT, whose waits have timeouts
  (2582-2607, 2930-2955, 4065-4085). Nothing is assumed of clients, of copies or
  of aborted tasks.
* `customer_data_live` and `customer_data_stalled` assume that the idle timer of a
  copy loop fires and that database calls return (`Progress`). Nothing is assumed of
  clients and Tor streams: the `200` response (4253) and the bytes that came with the
  CONNECT header (4290-4295) are written under no timeout and need not end.

## Proofs

Every safety invariant, every action property and the refinement that a passing run
checks is also proved, for every value of the constants that satisfies the named
assumptions of the modules. The assumptions are what the code or the machine
guarantees: capacities, thresholds, lifetimes and permits are positive (asserted or
checked by the constructors), defaults lie in the ranges their readers accept, and
what is counted or summed is finite: requests, tasks, connections, tunnels,
workspaces, the headers of one head. The rest is about shape: a plan is a pair of a
name and limits, a head has the fields `IsHead` lists, a lifetime is a natural
number. The sets of connections, tunnels, tenants, accounts, environments and heads,
and all bounds, are arbitrary.

`PROJECT.json` lists the theorems; the proof modules are named after what they are
about. A theorem is the step from an inductive invariant to its property.

| Proof module | Inductive invariant | Theorems |
|---|---|---|
| `IsolationProofs` | `IsolationInv` | `IsolationTypeCorrect`, `StreamsIsolated`, `PoolIsolated`, `RetryIsFresh`, `MaterialIsStable`, `MaterialIsNeverStale` |
| `CustomerDataProofs` | `BudgetInv`, `AccountingInv`, `CapKept` | `BudgetShared`, `BudgetCapped`, `AllowanceIsRespected`, `NothingIsChargedTwice`, `ClosedTunnelsArePersisted`, `CapIsExactWithoutEviction` |
| `AdmissionProofs` | `AdmissionInv`, `PlanHeld` | `AccountsShareOneState`, `CountersExact`, `TunnelLimitHolds`, `WorkspaceQuotaHolds`, `PlansPrevail` |
| `TunnelsProofs` | `TunnelsInv` | `TunnelsTyped`, `PermitsAreConserved`, `DrainIsExact`, `DrainIsConfirmed`, `BreakerIsProtective` |
| `AccountsProofs` | `AccountsInv` | `LookupsAreTotal`, `PlansAreIntact`, `GrantsAreScoped`, `CredentialsArePinned`, `LinesHaveOneActive`, `RotationsKeepAccess`, `RevocationsAreFinal` |
| `StartupProofs` | `StartInv` | `StartIsFollowed`, `CapacitiesAlwaysFit`, `DatabaseStaysIntact` |
| `HttpPathProofs` | `ServiceInv` | `ServiceIsKept`, `ContextsAreExact`, `RequestsAreAttributed`, `LeasesAreExact`, `CacheIsAlwaysIsolated`, `CacheStaysFresh`, `OpenOnlyLocally`, `TenantsAreServedApart` |
| `Sums` | | laws of sums over finite sets, used by `CustomerDataProofs` |

**Isolation.** `CircuitIsolation` alone is not inductive: a task may fetch a token
from the store, so the store's entries must be known to be owned too. `IsolationInv`
adds: everything in use was issued by the counters (`Issued`), so fresh material is
new; a token belongs to one identity, whether in the store or in a task
(`TokenOwner`); a group key to one identity and mode (`GroupOwner`); each request is
tied to one connection (`ServingLink`); the token of a failed attempt is out of the
store for good (`FailedTokenGone`). The action properties rest on one more lemma: a
step leaves the store alone, empties it, or writes one identity (`StoreMoves`).

**Customer data.** `BudgetInv` is `SharedBudget` with the types it needs. Its core is
`EvictionKeeps`: a budget that an open tunnel draws from is not idle, so eviction
leaves it in the map. `AccountingInv` keeps the books. For every budget, the table
plus what is outstanding is at most the charge of the live budget, and the table lies
between what the tunnels certainly put there (`InTableIn`) and the most they may have
put there (`LedgerIn`). Two bounds are needed because a tunnel that was cut short in a
checkpoint does not know whether it was committed. When one tunnel moves, each sum
moves by the change of its term (`OneTunnelSums`), so every action comes down to the
fields of one record. `ProcessEnd` moves many tunnels at once, and is the one place
where sums are regrouped by workspace (`SumPartition`).

`CapIsExactWithoutEviction` is the positive side of the run `customer_data_cap`:
under `RoomForAll` (the map has room for every budget) the cap is exact, for any
number of tunnels. `CapKept` says that a cached budget was charged for everything
that is on the wire or may still get there, and that an uncached one has not been
used by this process. Eviction is what breaks the second half.

**Sums.** `SumFunctionOnSet` of the community modules folds a set in an order given by
`CHOOSE`. An induction theorem with an operator parameter is out of the provers'
reach, so each law is proved from a smallest subset that would break it
(`SmallestSubset`, from the well-foundedness of strict inclusion on finite sets).

**Admission.** The limit holds because the counter is exact, the counter because every
caller uses the state in the map, and that because an Arc has one owner (`ArcOwned`)
and a request holds one exactly between two points (`ArcHeld`). Plans change between
the points where limits are read and used, so the invariant also says that any limits
in use were once the account's (`LimitsGranted`, `Compared`).

`PlansPrevail` needs a second invariant. `PlanHeld` says of a settled request that
the state it compares with carries the plan in force, that no request of the account
still brings other limits to `state_for`, and that the count it found is below the
plan's. A plan change takes the requests of its account out of `settled`; nothing else
makes an old limit reappear, because authentication reads the plan.

**Tunnels.** The breaker, the tasks with their permits, and the drain have an
invariant each, and every action is one of a few kinds of change to each
(`TaskMove` and the like). `StreakKnown` relates the entry of a destination to the
history of its failures; the probe after a cooldown, which lowers the entry to one
below the threshold, is why it is not an equality. `DrainCounts` says per phase what
the drain has counted and what it still has to join.

**Accounts.** `GrantsScoped` and `CredentialsPinned` look back at rows that may have
been revoked or rotated since, so `AccountsInv` has uniqueness over all rows
(`Unique`), the scope of every credential (`Scoped`) and that an identity names the
rows that matched (`GrantsNamed`). `OneActive` is `OneActivePerLine` without
cardinalities.

**Start-up.** Settings are used several steps after they were read. `StartInv`
records, for every point of `main`, what the checks before it established of the
environment and of the database, which another instance may be opening.

**HTTP path and refinement.** No property of `HttpPath` is inductive by itself. The
context store is exact because the handler drops its guard before its socket; a
request is attributed because the store is exact and because nothing reaches Pingora
before the registration (`SocketsOK`); a stream is charged to the tenant of its
request because the group key it is pooled under belongs to that tenant (`BridgeOK`,
`CtxOK`); a cached response has the tenant of the request that fetched it
(`EntryOK`). `HttpInv` states all of this, and `ServiceInv` joins it to `StartInv`,
since the permits that bound the connections come from the configuration. There is
one lemma per action; `ConnectionsKeep`, `RequestsKeep`, `StreamsKeep` and
`CacheKeeps` say which part of the invariant a step of another part cannot disturb.

`TenantsAreServedApart` proves `Spec => ImplementsTenantHttp`. First, the refinement
mapping only depends on what each session shows (`Views`: its owner and its answer).
Then every step of `Service` is one of six kinds (`Quiet`, `Begins`, `Answers`,
`Finishes`, `Ends`, `Vanishes`: `EveryStepIsViewed`), and each kind is a step of
`TenantHttp` or a stutter (`ViewStepIsPromised`).

Only model-checked:

* the liveness properties `CopiesEnd`, `DrainEnds` and `SetupEnds`, because
  fairness and ENABLED are out of the prover's reach;
* that the mutated definitions break the properties, and the five disagreements with
  the documentation, which are counterexamples.

## Assumptions

* Keyed hashes are injective, so an isolation identity or a cache scope is the
  tuple of what is hashed; random lease tokens and secrets do not repeat.
* The kernel does not hand out a local address again while Pingora still has a
  session for it. Pingora's pool is keyed at least by destination and group key.
* Environment and files do not change during a start, except for the database.
* A second instance appears only while this one opens the database.
  README.md:173 allows one process per database; two that run at once would also
  contend for the Unix socket, which is not modelled.
* In development mode a caller may name itself like a generated identity
  (`strict-1`, `anonymous-1`) and share its circuit; no property is about that.

## Not modelled

* Arti, Pingora, SQLite, governor, rustls and tokio, except for how the code uses
  them. Pingora's cache lock only delays requests and is left out. The token
  bucket of the rate limiter is governor's: whether it passes a request is a choice.
* Poisoned mutexes and panics; a panicking task ends like an aborted one.
* Metrics other than the active-task gauge, logging, response texts.
* `IsolationStore::put`, which only tests and commented-out code call.
* `request_scheduler.rs`: the file belongs to no compiled module.
* Two service processes that both serve from one database.
* The composition of `Admission`, `CustomerData` and `HttpPath` over one usage table:
  each treats the gates of the others as choices, which allows more behaviours.

## Plan

Every component that the program compiles is modelled, and the safety properties are
proved. What could still be added: a composition of `Admission`, `CustomerData` and
`HttpPath` over one usage table, as a theorem that uses their invariants side by side.
