# Verification of bashfuldb

TLA+ specifications of bashfuldb, a replicated document database in Rust, with
TLC configurations and TLAPS proofs. Paths below are relative to the root of the
repository's sources; `PROJECT.json` maps every definition to its lines.

## Inventory

| Part | State | Operations | What is hard about it |
|---|---|---|---|
| Quorum replication (`crates/bashfuldb-replication`: `coordinator.rs`) | operations in progress, their RPCs, repair tasks | `quorum_read`, `quorum_write`, `quorum_delete`, sloppy hints, read repair | parallel RPCs that fail before or after they are applied, repair after the read returned, conflict resolution |
| Replica store, hinted handoff (`replica.rs`, `hints.rs`) | documents, hints | `handle_write`, `handle_delete`, `handle_read`, `store_hint`, delivery passes | blind overwrite, deliver-then-delete, expiry, colliding keys |
| Idempotency cache (`idempotency.rs`) | entry per key | `get`, `store`, eviction | check and store under two locks, lost by a restart |
| Anti-entropy (`anti_entropy.rs`) | none | range hash | a skeleton |
| Hybrid clock (`crates/bashfuldb-clock`: `hlc.rs`, `traits.rs`) | one timestamp | `tick`, `update`, `now`, `from_persisted` | system clocks that step back, the 16-bit counter, restarts |
| Vector clock (`vector_clock.rs`) | map node to timestamp | `increment`, `merge`, `compare` | capacity, partial order |
| Membership (`crates/bashfuldb-cluster`: `membership.rs`, `node_state.rs`) | table of records, ring | `upsert_local_member`, `transition_state`, `merge_remote_digests` | concurrent changes, reordered gossip, a ring that must follow |
| Gossip and failure detector (`gossip.rs`, `failure_detector.rs`) | heartbeats, running evaluation | tick, `handle_incoming`, evaluation | read and change under two locks, silence against late messages |
| Ring (`ring.rs`) | virtual nodes | `add_node`, `remove_node`, `owners_for_key` | distinct owners, wrap-around |
| Schema (`crates/bashfuldb-schema`) | indexes, version, log, snapshot | `create_index`, `drop_index`, `converge_from_gossip`, materialization | three-step persistence, concurrent versions, tasks that outlive their index |
| Operations (`crates/bashfuldb-ops`) | snapshots, health, counters | create, restore, validate and prune snapshots, traffic priority | two-batch restore, wake-ups, scans during writes |
| Storage (`crates/bashfuldb-storage`) | column families | put, delete, scan, batch, snapshot | atomic batches |
| API (`crates/bashfuldb-api`) | second idempotency cache | create, get, upsert, delete, list | If-Match and write are two steps, cursors |
| Authentication (`crates/bashfuldb-auth`) | users, roles, tokens | create user, login, refresh, revoke, check | check-then-store |
| Wire protocol (`crates/bashfuldb-protocol`) | connections | accept, handshake, commands, shutdown | limits, draining |
| Documents (`crates/bashfuldb-document`) | none | encode, decode, validate | sequential |
| SDK, main program | none | none | placeholders |

How they interact: the API asks a coordinator; the coordinator takes timestamps
from the clock, owners from the membership's ring, and sends writes to replica
stores, which keep documents and hints in a storage engine. Gossip carries
membership tables and the schema version and merges the clocks.
No program in the repository connects these parts yet: the tests do, with simulated
transports, and the models follow the code's own interfaces and those transports.

## Modules

| Module | Models |
|---|---|
| `Versions` | vector clocks (`increment`, `compare`) and `resolve_two` |
| `Replication` | coordinator, replica stores, hints and idempotency cache, for one object |
| `MCReplication` | symmetry and the scripted clients of one run |
| `ReplicationProofs` | theorems about `Replication` |
| `HybridClock` | `WallClock` on every node |
| `Membership` | tables, gossip engine, failure detector, transport |
| `Ring` | `owners_for_key` over the rings of `Membership` |
| `Cluster` | composes `HybridClock` and `Ring` (with `Membership`) for a run |
| `ClusterProofs` | theorems about `HybridClock`, `Membership` and `Ring` |
| `Schema`, `MCSchema` | the schema service on every node; the workloads of its run |
| `SchemaSteps`, `SchemaCounts`, `SchemaProofs` | what the steps of `Schema` do and keep; what they do to the numbers it counts; the theorems |
| `Storage` | the storage engines, as operators on a database |
| `Backup` | `FsBackupManager` and `SnapshotScheduler`, over `Storage` |
| `Traffic` | `TrafficPriorityController` |
| `Slo` | `SloTracker` |
| `Operations` | composes `Backup`, `Traffic` and `Slo` |
| `BackupProofs` | theorems about `Storage` and `Backup` |
| `Auth` | `AuthService` and `RbacAuthorizer` |
| `Resp` | the lines, values and commands of the wire protocol |
| `Parser` | the RESP parser and serializer, as recursive operators on lines |
| `Server` | the TCP server, over `Auth`, with the parser and the serializer as parameters |
| `Sessions` | what the TCP server promises (`Server` implements it) |
| `Api` | the HTTP handlers, over `Auth` |
| `ServiceProofs` | theorems about `Api`, `Auth` and `Sessions` |
| `Pagination` | `paginate_ids` and a client that follows cursors |
| `ServerProofs` | theorems about `Server`, `Pagination`, `Slo` and `Traffic` |
| `Service` | composes `Server`, `Parser`, `Api` and `Pagination` for a run |

Definitions with an underscore in the name (`RemoteWrite_Unrouted`, ...; not the constants)
are deliberate faults: putting one in the place of `X` must break the property that
`PROJECT.json` pairs it with. No specification uses them.

### Replication

An operation `o` is a task of its coordinator: `phase[o]` is the await it is at
(`stamp`, `broadcast`, `hints`, `read`) or its result. `rpc[o]` has one entry per
owner. A step of the model is the code between two awaits that others can observe:

* `SubmitWrite`, `SubmitDelete`, `SubmitRead`: up to the first await; the write looks
  up the idempotency cache under its lock.
* `StampAndBroadcast`, `StampFails`: `clock.tick()`.
* `WriteRpc`, `RpcFails`, `AckLost`: an RPC is applied, is not, or is applied and
  reported as failed. `FinishBroadcast` waits for all of them, as `broadcast_write` does.
* `StoreHint`, `HintRpcFails`, `HintAckLost`, `FinishHints`: `store_sloppy_hints`, one
  failed owner and one fallback per iteration; stored hints count toward W.
* `ReadRpc`, `FinishRead`, `RepairWrite`, `RepairFails`: answers are folded with
  `ResolveTwo` in the order of arrival; the repair task runs after the read returned.
* `StartPass`, `DeliverHint`, `RemoveDelivered`, `DeliveryFails`, `DeliveryAckLost`,
  `DiscardExpired`, `PassFails`: a delivery pass over a snapshot of the hints.
* `EvictExpired`, `Cancel`, `Restart`: the cache's TTL, a dropped future, a crash.

`placed`, `expired`, `forgotten`, `strict`, `seen`, `regressed` are history variables;
no guard reads them. `Retire` frees the slot of a finished read and is bookkeeping.

Abstractions and assumptions: one object; the owners do not change during a run; a
timestamp is a number above all earlier ones of its coordinator, *also after a restart*
(nothing in the sources saves a clock yet; `from_persisted` gives this only if the saved
value is not older than the last tick or the system clock has not gone back); an RPC
aborted by `Cancel` or `Restart` is not applied later; panics of RPC tasks are left out;
decimal timestamps in hint keys have equal length, so keys sort like numbers; malformed
hints, which no step creates, are left out.

### HybridClock

`state[n]` is the `Hlc` in the mutex, `wall[n]` what `system_time_ms()` returns (any value
at any time), `persisted[n]` the saved value. Calls that fail with `LogicalOverflow`
change nothing and are no steps. The 48 bits of physical time are not bounded.
`AheadOfPersisted` is what `from_persisted` gives: a restarted clock is ahead of the saved value,
or equal to it where the counter cannot go on, and then its next tick fails.

### Membership

One record per member with state, generation and timestamp, as in `MemberRecord`. An
engine is one task: `GossipTick` and `HandleIncoming` need it idle; an evaluation is
`EvaluateRead` and `EvaluateApply` per node because the code locks the table twice, and
operators (`UpsertLocalMember`, `TransitionState`) may come in between. `Silence` is
the moment phi passes the threshold, possible after two heartbeats. `FailureSpreads` says what
gossip is for: without operators, what one node takes for Down everyone does in the end, the
node itself included.

Abstractions: timestamps are Lamport counters and only ticks that stamp a record count;
a message sent when `MaxMsgs` are in flight is dropped; a change of an operator between
the merge and the reply of `handle_incoming` is taken after the reply; addresses, events,
the schema version and the engine's shutdown are left out.

### Ring

A hash is any placement of virtual nodes: what the owners of a key depend on is the order
in which a walk from the key meets virtual nodes, so `Walks` is the set of all such orders,
and `OwnersForKey` goes along one as the code's loop does: `Visit` passes over virtual nodes that
are not on the ring, `Collect` over nodes it has and over all once it has enough. `OwnersMoveLittle`
is an action property over the rings that `Membership` produces: owners are distinct and as
many as there can be, and a node that stays on the ring becomes an owner of a key, or ceases
to be one, only because of nodes that came or went. `owners_for_key` with n = 0 returns one owner, and so
does the operator. Two virtual nodes at one 64-bit position are left out.

### Schema

One collection. Each node has its memory (indexes, version), its log, its metadata snapshot,
the rows of its indexes and the map of active ones. A call of `create_index` or
`drop_index` is a task that goes through the code's steps: checks, version, append of the
entry to the log, its newline, change of the memory, snapshot (image taken, then written); materialization and
the swap follow as a background task. `converge_from_gossip` fetches entries in up to three
attempts, of which a node has one in progress. A crash loses the memory and the tasks; a
restart reads the snapshot, or the log if there is none, as `restore_state` does.

The properties are as strong as the code allows, and their exceptions are worth knowing:

* `AckedSurvives`: an acknowledged index is found after a restart, unless a snapshot of an
  older image was written after a newer one by an overlapping call. The log still has it,
  but `restore_state` does not read the log when there is a snapshot.
* `ListedIsLogged`: an index that is listed anywhere is in the log of its creator. That the log
  can be read is another matter: `append_log_entry` writes the entry and the newline with two
  writes and without a lock, so that two entries may end up on one line (`lines`), after which
  `read_log_entries` fails for the whole file. Peers then fetch nothing, and a node without a
  snapshot does not start. The property says that this needs calls that overlap, fail or crash.
* `QuotaBounded`: the quota can be exceeded by calls that overlap, and by a replacement whose
  field lost its index to a drop before its task made the new one active (`revived`). The bound
  counts both. Entries that come from another node, or from the log after a restart, are applied
  without a check; the property is about a node that takes all the calls and does not crash.
  `QuotaStrict` is the quota as the configuration's comment states it, and is violated.
* `VersionsUnique`, `Converges`: two writers, or a writer that crashes, can give one version
  to two entries, of which another node skips one. `VersionsUnique` is about a single
  writer that does not crash; `Converges` also needs calls that do not overlap, since
  entries appended out of order are skipped too, and no replacements.
* `ServedIsBuilt`: an index becomes active when it is applied, before it is built
  (`.github/agents/schema-agent.agent.md:74` describes the opposite order), and queries use
  it once it is ready; until then the field has no usable index, also if a replaced one
  was ready. Nothing materializes after a restart or on a node that learnt of an index by
  gossip. After overlapping replacements the active index may be one that is no longer
  listed; the property is about listed ones.

`gone`, `lost` and `revived` are history variables; no guard reads them. The entries of a log
are sorted by counting: the r-th entry is the one that r entries come no later than.

Left out: identifier checks, timestamps, the version of a collection (nothing reads it). The
check of the quota and the version that the call takes right after it are one step (`TakeVersion`);
the code's order, in which another call may come between the two, only pairs the same checks with
versions in another order, and no property of overlapping calls compares the two. Each of the two writes of an append is atomic, or fails with part of the entry written.

### Storage, Backup, Traffic, Slo

`Storage` has the batch, the scan and the checkpoint of both engines; only RocksDB survives a
crash. Two column families stand for six that no code tells apart. A batch has the mutations
of a set in some order (`Batch`), since those that a scan yields are about different keys.

`Backup` has two callers, the scheduler and an operator. A step is one access to the engine or
the file system: `create` scans family by family and writes two files, `restore` clears in
one batch, refills in a second one and validates, `prune` deletes from a listing it
took before. The smoke test compares any rows of the dump, which includes the first `smoke_keys`
that the code compares; no property relies on it. Client writes and a crash come in between. `RestoreIsExact` says that a restore
that reports success gives back the database the snapshot was made from, if nobody else wrote
during either; `ArtifactsMatch` relates the two files of a snapshot under overlapping creates, deletes and
prunes. A snapshot may be torn by writes between two scans, and a crash between the batches
of a restore leaves an empty database: the code promises neither.

`Traffic` is the code by single accesses to its atomics. `background_yield_if_needed` loads
the counters and only then registers with `notified()`, so a task can miss the notification
that would have woken it; `SleepsOnlyIfBlocked` says that this is the only way a task sleeps
when it need not. Cancelling `run_background` (its counter stays raised) is left out.

`Slo` has one latency class. Ratios in floating point are products of whole numbers here
(the code's `ceil` of 0.95 n is the same number for every window up to 10,000).
A sorted queue is given by the places of its samples (`Sorted`). `P95IsQuantile` compares the
index arithmetic with the definition of a quantile,
`RollbackOnBreach` the events with the history of all requests.

### Auth, Parser, Server, Sessions, Api, Pagination

`Auth`: a token is its claims and its key, signatures are deterministic, a password is right
or wrong. `create_user` is a step for each of its accesses to storage: the users of the tenant,
their roles, the name, the store. It stores under a new id or under one that the request names,
and then replaces the user who has it. `login` and `refresh` read the user and then the roles, and a
user may be replaced in between: the token then has the tenant of the one and the roles of the
other. `AccountsUnique` holds up to overlapping calls, for the users that are
stored (`before` forgets a user who is replaced). `TokenLifetime` is an
equivalence with exceptions of its own: tokens issued to one user in the same second with the
same tenant and roles are one string and are revoked together; revocations are in memory, so an
HS256 token is valid again after a restart; a logout leaves the refresh token valid, and a user
who is replaced keeps the tokens. `Login`, for the handshake of `Server`, is one step: no user is
stored in that scenario.

`Parser` works on the lines and sizes of `Resp`. `Server` takes what parses and what writes a
value as the constants `Parse` and `Encode`, which the run sets to `ParseCommand` and `Serialize`;
it gives the parser what clients have sent, and models the
accept loop, permits, the outcome of the TLS handshake, banner, handshake, command loop, error
limit and shutdown. Clients send commands, values that are none, and values that cannot be read:
numbers that are none, empty lines and lines that are not UTF-8, bulk lengths above the limit or
below that of the payload, arrays too deep, each alone or within an array. `RepliesInOrder` holds
for all but the values that an error leaves a rest of (`LeavesRest`), which is read as further
values. A connection keeps its claims after its token expires, as in the code. Left out are
limits on the length of a line and bulk lengths that reach into the next line.

`Sessions` is the abstract specification: a bounded number of connections, which enter only for
the user whose credentials their client has shown (`shown`) and while that user has an access
token that verifies (`valid`), commands only on connections that have entered, no
connection after shutdown, an end after the last one. `Server` implements it (`KeepsPromise`): a
connection is present while it holds its permit, and it has entered once its claims are set.

`Api`: a step runs from one await to the next. The coordinator is what a caller sees of it: a
register per object whose read may fail, whose write may fail and still have happened, with an
idempotency cache of its own. `Replication` does not implement this register in all cases
(see Findings), so `ConditionalWrite` and `RepeatsAgree` are about the handlers.
`RepeatsAgree`: a repeated create is given the object of the first, except where requests
overlapped or were cancelled; then a retry may get 409, because every attempt of `create_object` generates a
new id and the coordinator compares it. `ConditionalWrite`: an update with If-Match that
succeeds replaced that version, or created an object that did not exist, which `upsert_object`
does not compare with anything; unless another write came between read and write, or the read
failed, which `upsert_object` treats as no object. The entries of the API's cache are
keyed by the key only, and only a lookup drops the expired ones.

`Pagination`: the list changes between pages. `PagesCoverList` says what a client that
followed all cursors has seen, unless a cursor's object was deleted: then the walk starts
again. An explicit limit of 0 gives one empty page. `list_objects` itself pages an empty list,
since the coordinator cannot scan.

## Runs

| Run | Bounds | Distinct states | Shows |
|---|---|---|---|
| `cluster` | 2 clocks, times 0..2, logical 0..1; 3 nodes of which 2 run, 2 operator calls, 1 fault, 1 message in flight, 2 virtual nodes each, 2 replicas | 622,959 | `ClockTypeOK`, `BoundedDrift`, `AheadOfPersisted`, `StrictlyIncreasing`, `TypeOK`, `RingIsHealthy`, `RecordsAuthentic`, `RecordsAdvance`, `OwnersMoveLittle` |
| `handoff` | 2 owners, 1 fallback, 2 coordinators, R = W = 2, 2 writes or deletes, 2 faults | 411,015 | `TypeOK`, `CopiesIntact`, `EqualVersionsSameCopy`, `AckedByW`, `HandoffComplete` |
| `reads` | 3 owners, 1 coordinator outside them, R = W = 2, 3 operations, 2 at a time, 2 faults | 655,157 | `FreshRead` |
| `cache_and_progress` | 1 owner, 1 fallback, 2 writes, 1 key, 2 bodies, 2 faults, fair | 52,071 | `CacheMatchesAcks`, `OperationsEnd`, `HintsReachTarget` |
| `failure` | 2 meshed nodes, no operator, 1 fault, 1 message in flight, fair | 76,289 | `FailureSpreads` |
| `schema` | six workloads on 1 or 2 nodes, 2 fields, quota 1, at most 3 calls, 1 fault, fair | 258,158 | `TypeOK`, `ListedIsLogged`, `AckedSurvives`, `QuotaBounded`, `ServedIsBuilt`, `VersionsUnique`, `Converges` |
| `operations` | 2 values, retention 1, clock to 3, 3 calls, 1 client write, 1 crash; 2 clients, 2 tasks, limit 1, 5 rounds; 3 latencies, window 20, 22 requests of which 2 differ from the one before | 1,700,631 | `RestoreIsExact`, `ArtifactsMatch`, `RetentionKept`, `SleepsOnlyIfBlocked`, `P95IsQuantile`, `RollbackOnBreach` |
| `service` | 3 users, 3 sessions, clock to 3, 2 processes; 3 connections, limit 2, 1 error; 3 requests, 1 key, 2 payloads; 4 ids, pages up to 2, 2 edits | 680,971 | `AccountsUnique`, `TokenLifetime`, `RepliesInOrder`, `KeepsPromise`, `ShutdownDrains`, `RepeatsAgree`, `ConditionalWrite`, `PagesCoverList` |
| `stale_repair` | 3 owners, 1 coordinator, one operation at a time, 3 faults | violated | `LaterWriteWins` |
| `conflict_order` | 3 owners, 2 coordinators, delete, write, write, read, no fault | violated | `CausallyLaterWins` |
| `quota` | 1 node, 2 calls at a time, 2 fields, quota 1, no fault | violated | `QuotaStrict` |
| `recovery` | 2 meshed nodes, no fault | violated | `DownIfNoRecovery` |

Why the bounds reach the cases: a logical limit of 1 puts the overflow two ticks away;
two owners with W = 2 need the fallback as soon as one RPC fails, and the second fault
hits the hint, its delivery or a restart; three owners with R = W = 2 are the smallest
cluster whose quorums meet in one node; two operations are needed for a stale overwrite,
a colliding hint and a race on an idempotency key. Two nodes suffice for a table to be
merged, reordered with an operator's change and answered; disagreements that need three
running nodes are not reached, while the third member gives rings of up to three nodes.
Two schema calls give every order of log, memory and snapshot of two tasks, and the third
one a replaced index; two callers and three calls give every pair of overlapping backup calls
and a restore after it. A background limit of 1 with two tasks and two clients lets both
notifications race with a task that falls asleep; in a window of 20 the 95th percentile is for
the first time not the largest latency, and 22 requests trim it twice. Three connections exceed a limit of two; three requests are two that overlap
and a retry. `cluster`, `operations` and `service` choose one part (or scenario) per behaviour, as these
parts share no state that the others change; `schema` chooses one workload. Symmetry permutes owners that do not coordinate, and only
in runs without temporal properties.

Deadlock checking is off where a bounded client has nothing left to ask.

Fairness. `Replication`: weak fairness of every operation and of every node's delivery
task, because the runtime polls a task that can go on and the delivery task has a timer;
each of their steps may still be a failure until `MaxFaults` is used up, which states
that failures stop. Clients, restarts and evictions are not fair. `Membership`: weak
fairness of a running evaluation; strong fairness of a tick toward each peer (the peer is
chosen at random each time) and of the handling of messages of each peer, which says that
a link that keeps being used delivers in the end. Silence, operators and losses are not fair.
`Schema`: weak fairness of the tasks (the runtime polls them) and of hearing a peer's version
(gossip repeats). `Server`: weak fairness of connection tasks whose client has closed, which
read the end of the stream, and of the end of the join at shutdown. Clients are not
fair: shutdown waits for them without a timeout, so `ShutdownDrains` assumes that they close.

## Findings

* `stale_repair`: the repair task of a read overwrites a later write, since
  `handle_write` does not compare versions; the next quorum read returns the older write.
  `reads` shows that this regression of a replica is the only way within its bounds.
* `conflict_order`: folding `resolve_two` can choose a tombstone that is causally before
  another answer, although the rules put causality first.
* `quota`: overlapping calls of `create_index` exceed the "strict maximum" of indexes.
* `recovery`: a suspected peer that is heard from again is still marked Down.

Four more are stated by properties of passing runs, whose conditions are what the code needs and
the documents do not mention: entries of the schema log on one line (`ListedIsLogged`), a
restarted clock that is not ahead of the saved value (`AheadOfPersisted`), two users of a tenant
(`AccountsUnique`), and If-Match on an object that does not exist (`ConditionalWrite`). Without the
condition TLC violates each of them in the same run.

## Proofs

Every theorem below states a property that a run checks (`SessionsGuarded` excepted) for all
values of the constants.

`ClusterProofs` on `HybridClock`, for any set of clocks, any limit of the counter and any
system times:

* `ClocksTyped`, `ClocksIncrease` (from it, with one lemma each for `tick` and `update`);
* `DriftIsBounded`: inductive with the bound on the present system times added;
* `RestartsAhead`: an action property, from the invariant that a clock is not behind its saved
  value: the saved value only changes to the clock's own and a restart continues from it. `PackedOrder` shows that the order
  used is that of the packed 64-bit value.

`ReplicationProofs`, for any cluster, owners, R, W, number of operations and faults:

* `TypeCorrect`: `TypeOK` is not inductive, since a step builds its copy from the
  request and timestamp its phase promises. `Shape` adds what each phase implies.
* `CopiesStayIntact`: with `Inv == TypeOK /\ Shape`; an operation that has its timestamp
  keeps request and timestamp (`Kept`), so a copy once written stays the copy of its
  operation, and each action only moves such copies or makes the operation's own.
* `VersionsIdentifyCopies`: adds `Stamps` (no coordinator has used a timestamp above its
  clock, no two operations share one). A version is a clock with one entry, equal clocks
  have the same coordinator and timestamp, hence the same operation and copy.
* `CacheAgreesWithAcks`: the coordinator's idempotency cache and the acknowledgements agree in
  both directions. Inductive with `Inv`: an acknowledged operation stays acknowledged, with its
  request and timestamp, and `CacheSteps` lists the actions that touch the cache.
* `HandoffLosesNothing`: adds `HandoffInv` (hints are of stamped operations; a hint that a
  pass has delivered is at its target). A hint goes only by a step that leaves a reason.
* `AcksAreHeld`: an acknowledged write or delete was applied on, or hinted to, W different
  nodes. `AckInv` relates what the operation counts (RPCs acknowledged, hints stored) to what
  the nodes had; the hints of one operation have different fallbacks, which are no owners, so
  the numbers add up.
* `ReadsAreFresh`, *if there is one coordinator and R + W exceeds the number of owners*: a
  quorum read returns a version no older than any write that W owners had acknowledged when
  it began, until a replica has replaced a version by an older one. `FreshInv` says that W
  owners hold such a write or a later one, and that the best answer of a running read is not
  older than it as soon as one of these W has answered (`QuorumSeen`); when R owners have
  answered, one of them is among the W, by counting.

`ClusterProofs` on `Membership` and `Ring`, for any cluster, mesh, targets and bounds: `TypesHold`, `RingFollowsTable`,
`GossipIsAuthentic` from one inductive invariant, and `TablesAdvance` from it. The invariant
is the conjunction of the three (lemma `IInvImplies`), regrouped by what an action can
disturb: that a record built from a table is typed and made by someone needs the same of
every table and message. A merge is treated once, as a lemma, for
all the actions that contain one. `OwnersStay` adds the ring, for any finite number of nodes, any
virtual nodes, replicas and placement. Its loop invariant (`Collected`) says that after i virtual
nodes the owners are distinct nodes of the ring in the order in which the walk first met them, and
all it met unless there are enough; it holds at the end of the walk by `Reached` (below). Of two nodes
that are on both rings, both rings meet the same one first, so no two rings prefer differently
(`OwnersAgree`).

`SchemaSteps`, `SchemaCounts` and `SchemaProofs`, for any cluster, fields, workload, quota and
number of faults. `SchemaInv` is inductive; its conjuncts follow the code's own order of
steps, and every step of a call, of a convergence, of a crash and of a restart is first shown to be
a `Move`, `Born`, `SyncMove`, `Crashed` or `Restarted` (`Kinds`), which say what it changes:

* `SchemaTypes`: `TypeInv` says what a call, a convergence and a node hold at each step. That no
  version exceeds the number of calls is a count: no version anywhere is above the number of
  calls that have taken one (`VersionInv`).
* `SchemaListedIsLogged`, from `TypeInv`: every state, snapshot, image and fetched entry lists
  only indexes that are in their creator's log (`Listable`), since the append precedes the apply.
  `LinesInv`: on a node whose calls do not overlap, crash or fail, the file is open exactly while a
  call has its newline to write, so that no append finds it so.
* `SchemaServedIsBuilt`: `BuildInv` says that a ready index was created here and has passed its
  build, that a listed ready one has its rows, and that a task that deletes rows does so for an
  index that has left the list for good. `RunInv`: what is not running has no tasks and nothing ready.
* `SchemaAckedSurvives`: `AckInv` says that whatever an image waiting to be written lists of its
  node's indexes is still in the state, or was dropped or replaced; and that an acknowledged index
  is in the snapshot and in the state, or in `gone` or `lost`.
* `SchemaVersionsUnique`: `SteadyInv` says that the counter of a node that takes all the calls is
  ahead of every version anywhere, so that convergence never runs on it, and that no two
  calls have one version (`Distinct`).
* `SchemaQuotaBounded`: the fields with an index, together with those that calls past the check
  are about to give one (`Claimed`), are within the bound (`QuotaInv`): a call passes the check
  only below the quota, and at most width - 1 others have passed and not yet applied.

What a log replayed entry by entry yields is proved for every log: the loop of `ApplyEntries` is a
recursive function on 0 .. n, and a set that has 0, and with i - 1 also i, has n (`Reached`, from
the well-foundedness of the natural numbers); the set is that of the i at which the claim
holds. `SchemaSteps` and `SchemaCounts` state these facts as hypotheses (`LoopFacts`), and
`SchemaProofs` discharges them.

`BackupProofs` on `Backup` over `Storage`. The theorems are about the component by itself
(`BackupSpec`); in `Operations` no other part changes its state, and every behaviour of the run is one
of `BackupSpec`:

* `RestoresAreExact`, for any values, retention, engine, calls, client writes and crashes. First,
  what a batch does to a database, by `Reached` over its mutations (`BatchRuns`): deleting
  every key that is present leaves nothing (`ClearEmpties`), and putting the rows of a dump into an
  empty database gives the dump (`FillRestores`). Then `RestoreInv`: where a call is and
  what it has gathered (`Typed`); what an undisturbed call knows of the database, up to the dump
  being all of it (`Progress`); that the snapshot which a restore has read cannot be made anew
  under it (`Source`); and that the rows on disk are those of the database the snapshot was
  taken of (`Kept`).
* `ArtifactsAgree`, for any database, callers and crashes: `BackupInv` says that there is no
  manifest while a snapshot is being made, that the data file then is what the manifest will
  describe (`CallOk`), and that two calls make one snapshot only in the same second, which is
  recorded (`Alone`).
* `SnapshotsAreRetained` (an action property), from the same invariant: what a prune has
  listed was too old when it was listed, and still is.

`ServerProofs` on `Slo` and `Traffic`, likewise by themselves (`SloSpec`, `TrafficSpec`):

* `PercentileIsQuantile`, for any window and latencies: every place from 1 to n is taken by
  one sample (`PlacesFilled`), and the one at place ceil(0.95 n) is the quantile.
* `RollbacksFollowBudget`, for any window and budget: `SloInv` says that the queue is the last
  part of all requests recorded. The events are compared with a count over
  the history; counting from another number on (`ShiftCounts`) does not change a count.
* `NobodySleepsInVain`, for any finite set of clients, any tasks and any limit:
  the counter of clients is the number of guards held, and a task
  that has loaded counters, or sleeps on them, can still count on a notification to come, or is
  recorded as missed.

`ServerProofs` on `Pagination`, for any ids, page size and number of edits: `PagesAreComplete`. While no
cursor is lost, the client has nothing twice, has nothing of what lies behind its cursor, and has all that
stayed of what lies before it (`OnTrack`, in `PageInv`). An insertion or a deletion keeps the order of what
it leaves (`Follows`), which is all that `OnTrack` needs of the list.

`ServerProofs` on `Server`, for any finite set of connections, any limits, any frames and *any* parser and
serializer, while users log in, refresh and log out and tokens expire (`ServerSpec`): `ServerKeepsPromise`, the refinement `KeepsPromise`. Every action
is first shown to be one of five kinds for its connection (`Stays`, `Leaves`, `Opens`, `Enters`,
`Executes`), each of which is a step of `Sessions` or a stutter, or to be a shutdown or its end. `Admitted`
is the invariant: permits and tasks add up to the limit, and a token that a handshake was given by `login` is that
user's; `Issued` says that every session is one of a stored user. A connection enters only in a step in which
`verify` accepts the token it waits with, which is one of a session, so its user is among `Valid`.

`ServiceProofs` on `Sessions`, for any connections and users: `SessionsGuarded`, that the limit is kept and
that a connection executes commands for one user only, whom it got by valid credentials before the first. With the
refinement, it holds of `Server`.

`ServiceProofs` on `Api` and `Auth`, for any requests, objects, keys, payloads, users and tokens:

* `ConditionalWriteHolds`. The strengthening (`Sound`) is that the version a handler has read is
  still the current one until the request is recorded as overtaken; the other conjuncts are
  types and the range of versions. The authenticator and the clock may do anything.
* `RepeatsAreAnswered`, for any clock that does not go back. `RepeatInv` says that entries of the
  API's cache are of answered requests; that an entry of the coordinator's cache was made by a
  request which, once answered, has left an entry in the API's cache that is not older; that a
  request which found nothing in the first cache finds something in the second only if
  another one overlapped it or was cancelled (`FoundNothing`); and that later requests
  stop at the first cache while a created object is remembered (`Remembered`). Every
  action is first shown to be a `RepeatStep`, and the conjuncts are proved for that.
* `AccountsAreUnique` and `TokensLiveExactly`, with all the steps of `Auth` interleaved
  (`AuthSpec`). A call of `create_user` has compared its user with those stored when it began, as
  far as it has come (`Compared`), less those who have been replaced since; what is revoked was logged out in the running process
  (`TokenInv`), so a token is refused exactly for its reasons.

Most leaves of the longer modules name Zenon: in a long module tlapm takes seconds to translate
a step for the SMT solver, and gives up after five. SMT has the leaves Zenon cannot do.
A longer limit (`SMTT(30)`, `ZenonT(40)`) is on leaves that a slow machine would not do in the usual one.

All theorems rest on the named assumptions `ReplicationAssumption`, `AbsentAssumption` (the
absence of a document is no document), `MaxEntriesAssumption`,
`ClockAssumption`, `MembershipAssumption`, `SchemaAssumption`, `TrafficAssumption`, `BackupAssumption`,
`SloAssumption`, `AuthAssumption`, `ApiAssumption`, `RingAssumption`, `ServerAssumption` and
`PageAssumption` (bounds and durations are natural numbers, nodes and connections are finitely many), and on the modelling assumptions above.

Only model-checked, and why:

* `RepliesInOrder`: it compares all replies with what a recursive parser makes of all lines, which
  needs induction over nested values. The prover's SMT backend does not accept recursive operators, so
  `Parser` stays out of the modules with theorems.
* `OperationsEnd`, `HintsReachTarget`, `FailureSpreads`, `Converges`, `ShutdownDrains`:
  temporal under fairness.

## Not modelled

* Anti-entropy: a skeleton without state changes. The SDK and the main program: placeholders.
* The document codec and its validation: sequential, without state, covered by its tests.
* Metrics, node health and the observability server of `bashfuldb-ops`: counters and text.
* Engine snapshots of `bashfuldb-storage` (`MemSnapshot`, `RocksDbSnapshot`): no other crate
  takes one. Poisoned locks, compaction options.
* Timestamps across a coordinator's restart: nothing in the sources saves or restores a clock,
  so `Replication` assumes that they are not reused.
* Owners that change during an operation: `Ring` shows how little moves, and `Replication`
  has fixed owners. Quorums over two different rings need not meet.
* Agreement of tables after conflicting operators: the code does not give it, since a newer
  record that is no valid successor is ignored.
* The router, the JSON forms, error texts, TLS certificates.
