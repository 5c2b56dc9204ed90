------------------------------- MODULE Schema -------------------------------
(***************************************************************************)
(* The schema manager of crates/bashfuldb-schema on every node: secondary  *)
(* indexes of one collection, the log and the snapshot that persist them,  *)
(* the background tasks that build and drop index rows, and the exchange   *)
(* of log entries that gossip triggers.                                    *)
(*                                                                         *)
(* A call of create_index or drop_index and the task it spawns are one     *)
(* process, call k; a step is what runs between two locks, awaits or       *)
(* writes, but for the version that a call takes right after its check of  *)
(* the quota, which is one step with it.  A log entry is named by the call *)
(* that made it, and the k-th call creates index k, so that uuids are      *)
(* fresh.  The versions of collections and the timestamps of entries are   *)
(* left out: nothing reads them.                                           *)
(***************************************************************************)
EXTENDS Naturals, FiniteSets, Sequences

CONSTANTS
  Node,
  Field,
  Limit,      \* max_secondary_indexes_per_collection
  Workloads,  \* what clients and machines do: see Workload
  MaxCalls,   \* bound: calls of create_index and drop_index
  MaxFaults,  \* bound: crashes and failed writes
  NoIndex,    \* no index
  NoState     \* no snapshot, no serialized state

Call == 1 .. MaxCalls
Index == Call

\* nodes: the cluster; writers: the nodes that receive calls; calls: how many in
\* all; width: how many at a time on a node; crashing: the nodes that may crash or
\* fail to write; replacing: whether clients create an index for a field that has
\* one.
Workload == [nodes : SUBSET Node, writers : SUBSET Node, calls : Call, width : Nat \ {0},
             crashing : SUBSET Node, replacing : BOOLEAN]

VARIABLES
  workload, \* the workload of this behaviour, fixed
  up,       \* the nodes that run
  version,  \* version[n]: the AtomicU64
  state,    \* state[n]: the SchemaState behind the lock
  log,      \* log[n]: the calls in schema.log, in the order of the file
  lines,    \* lines[n]: whether the entries of schema.log are lines of their own, see LineForms
  snap,     \* snap[n]: the state in the METADATA column family
  rows,     \* rows[n]: the indexes whose rows are in the INDEXES column family
  ready,    \* ready[n]: the indexes the materializer calls ready
  call,     \* call[k]: the k-th call, for the calls made so far
  sync,     \* sync[n]: the converge_from_gossip that runs on n
  faults,   \* faults that have happened
  gone,     \* history: indexes that were dropped or replaced
  lost,     \* history: indexes that the last snapshot their node wrote lacked while its state had them
  revived   \* history: replacements that were made active for a field that had no index by then

disk == <<log, lines, snap, rows>>
memory == <<version, state, ready>>
history == <<gone, lost, revived>>
vars == <<workload, up, disk, memory, call, sync, faults, history>>

-----------------------------------------------------------------------------
\* SchemaState, with a version in V.
SchemaState(V) == [version : V, indexes : SUBSET Index,
                   active_by_field : [Field -> Index \cup {NoIndex}]]

ASSUME SchemaAssumption ==
  /\ Workloads \subseteq Workload
  /\ {Limit, MaxCalls, MaxFaults} \subseteq Nat
  /\ NoIndex \notin Index /\ NoState \notin SchemaState(Nat)

EmptyState == [version |-> 0, indexes |-> {}, active_by_field |-> [f \in Field |-> NoIndex]]

Idle == [pc |-> "idle", from |-> CHOOSE n \in Node : TRUE, target |-> 0, tries |-> 0,
         entries |-> <<>>, image |-> NoState]

Calls == DOMAIN call
Of(n) == {k \in Calls : call[k].node = n}
Active(n, f) == state[n].active_by_field[f]

\* apply_entry_mut.
ApplyEntry(st, e) ==
  [version |-> e.version,
   indexes |-> IF e.op = "create" THEN st.indexes \cup {e.index} ELSE st.indexes \ {e.index},
   active_by_field |->
     IF e.op = "create" THEN [st.active_by_field EXCEPT ![e.field] = e.index]
     ELSE [st.active_by_field EXCEPT ![e.field] = IF @ = e.index THEN NoIndex ELSE @]]

\* read_log_entries, log_entries_since: the entries of a log with a version over v,
\* sorted by version.  The sort is stable: the r-th entry is the one that r entries,
\* with itself, come no later than.
Newer_SkipsNext(l, v) == {i \in DOMAIN l : call[l[i]].version > v + 1}

Newer(l, v) == {i \in DOMAIN l : call[l[i]].version > v}

NoLater(l, i, j) ==
  \/ call[l[i]].version < call[l[j]].version
  \/ call[l[i]].version = call[l[j]].version /\ i <= j

Rank(l, v, i) == Cardinality({j \in Newer(l, v) : NoLater(l, j, i)})

EntriesSince(l, v) ==
  [r \in 1 .. Cardinality(Newer(l, v)) |-> l[CHOOSE i \in Newer(l, v) : Rank(l, v, i) = r]]

\* apply_entries: entries that are not newer than the state are skipped.
ApplyNewer(st, e) == IF e.version <= st.version THEN st ELSE ApplyEntry(st, e)

ApplyEntries(st, entries) ==
  LET applied[i \in 0 .. Len(entries)] ==
        IF i = 0 THEN st ELSE ApplyNewer(applied[i - 1], call[entries[i]])
  IN  applied[Len(entries)]

\* "whole": every entry of the file is a line; "open": so it is, and the last one has
\* no newline yet; "broken": entries share a line, or one is cut short, and
\* read_log_entries fails for the whole file.
LineForms == {"whole", "open", "broken"}

Readable(n) == lines[n] # "broken"

\* restore_state, replay_from_log: the snapshot if there is one, else the log.
Restored(n) ==
  IF snap[n] # NoState THEN snap[n] ELSE ApplyEntries(EmptyState, EntriesSince(log[n], 0))

\* query_index_for_field.
Served(n, f) ==
  IF Active(n, f) \in ready[n] THEN Active(n, f) ELSE NoIndex

-----------------------------------------------------------------------------
Init ==
  /\ workload \in Workloads
  /\ up = workload.nodes
  /\ version = [n \in Node |-> 0]
  /\ state = [n \in Node |-> EmptyState]
  /\ log = [n \in Node |-> <<>>]
  /\ lines = [n \in Node |-> "whole"]
  /\ snap = [n \in Node |-> NoState]
  /\ rows = [n \in Node |-> {}]
  /\ ready = [n \in Node |-> {}]
  /\ call = <<>>
  /\ sync = [n \in Node |-> Idle]
  /\ faults = 0
  /\ gone = {}
  /\ lost = {}
  /\ revived = {}

\* Calls a client waits for; the tasks they spawn are not among them.
Waiting == {"quota", "append", "newline", "apply", "save", "put"}

MayCall(n) ==
  /\ n \in up \cap workload.writers
  /\ Len(call) < workload.calls
  /\ Cardinality({k \in Of(n) : call[k].pc \in Waiting}) < workload.width

NewCall(op, n, f, i, old, pc) ==
  call' = Append(call, [op |-> op, node |-> n, field |-> f, index |-> i, old |-> old,
                        version |-> 0, pc |-> pc, acked |-> FALSE, image |-> NoState])

Goto(k, pc) == call' = [call EXCEPT ![k].pc = pc]

\* create_index up to the end of its first lock: the index it will replace.
CreateIndex(n, f) ==
  /\ MayCall(n)
  /\ workload.replacing \/ Active(n, f) = NoIndex
  /\ NewCall("create", n, f, Len(call) + 1,
             IF Active(n, f) \in state[n].indexes THEN Active(n, f) ELSE NoIndex, "quota")
  /\ UNCHANGED <<workload, up, disk, memory, sync, faults, history>>

\* The check of the quota, under a lock of its own.
OverQuota_OffByOne(n) ==
  Cardinality({f \in Field : Active(n, f) # NoIndex}) > Limit

OverQuota(n) ==
  Cardinality({f \in Field : Active(n, f) # NoIndex}) >= Limit

\* next_version is a fetch_add on the counter.
NextVersion_OfState(n) == state[n].version + 1

NextVersion_Twice(n) == version[n] + 2

NextVersion(n) == version[n] + 1

QuotaExceeded(k) ==
  /\ call[k].pc = "quota"
  /\ OverQuota(call[k].node) /\ call[k].old = NoIndex
  /\ Goto(k, "failed")
  /\ UNCHANGED <<workload, up, disk, memory, sync, faults, history>>

TakeVersion(k) ==
  LET n == call[k].node IN
  /\ call[k].pc = "quota"
  /\ ~OverQuota(n) \/ call[k].old # NoIndex
  /\ version' = [version EXCEPT ![n] = NextVersion(n)]
  /\ call' = [call EXCEPT ![k] = [@ EXCEPT !.pc = "append", !.version = NextVersion(n)]]
  /\ UNCHANGED <<workload, up, disk, state, ready, sync, faults, history>>

\* drop_index up to its append: the index is listed, and the version is taken.
DropIndex(n, i) ==
  /\ MayCall(n)
  /\ i \in state[n].indexes
  /\ version' = [version EXCEPT ![n] = NextVersion(n)]
  /\ call' = Append(call, [op |-> "drop", node |-> n, field |-> call[i].field, index |-> i,
                           old |-> NoIndex, version |-> NextVersion(n), pc |-> "append",
                           acked |-> FALSE, image |-> NoState])
  /\ gone' = gone \cup {i}
  /\ UNCHANGED <<workload, up, disk, state, ready, sync, faults, lost, revived>>

\* append_log_entry writes the entry at the end of the file, behind whatever other
\* calls have put there ...
AppendLog_Dropped(k) ==
  /\ call[k].pc = "append"
  /\ Goto(k, "newline")
  /\ UNCHANGED <<workload, up, disk, memory, sync, faults, history>>

AppendLog(k) ==
  LET n == call[k].node IN
  /\ call[k].pc = "append"
  /\ log' = [log EXCEPT ![n] = Append(@, k)]
  /\ lines' = [lines EXCEPT ![n] = IF @ = "whole" THEN "open" ELSE "broken"]
  /\ Goto(k, "newline")
  /\ UNCHANGED <<workload, up, snap, rows, memory, sync, faults, history>>

\* ... and then, with a second write, the newline.
EndLine(k) ==
  LET n == call[k].node IN
  /\ call[k].pc = "newline"
  /\ lines' = [lines EXCEPT ![n] = IF @ = "open" THEN "whole" ELSE @]
  /\ Goto(k, "apply")
  /\ UNCHANGED <<workload, up, log, snap, rows, memory, sync, faults, history>>

\* The entry is applied under the write lock, whatever the state's version is by
\* now.  create_index then sets the active index once more if it replaces none.
ApplyCall(k) ==
  LET n == call[k].node IN
  /\ call[k].pc = "apply"
  /\ state' = [state EXCEPT ![n] = ApplyEntry(@, call[k])]
  /\ Goto(k, "save")
  /\ UNCHANGED <<workload, up, disk, version, ready, sync, faults, history>>

\* persist_state_snapshot: the state is serialized under the read lock ...
Serialize(k) ==
  /\ call[k].pc \in {"save", "resave"}
  /\ call' = [call EXCEPT ![k] = [@ EXCEPT !.pc = IF call[k].pc = "save" THEN "put" ELSE "reput",
                                         !.image = state[call[k].node]]]
  /\ UNCHANGED <<workload, up, disk, memory, sync, faults, history>>

\* ... and written after it is released, whatever the state is by now.
WriteSnapshot_Lost(n, image) ==
  /\ snap' = snap
  /\ lost' = (lost \cup (state[n].indexes \cap Of(n))) \ (image.indexes \cap Of(n))

WriteSnapshot(n, image) ==
  /\ snap' = [snap EXCEPT ![n] = image]
  /\ lost' = (lost \cup (state[n].indexes \cap Of(n))) \ (image.indexes \cap Of(n))

\* The snapshot is on disk: the call returns Ok and its task starts.
PutSnapshot(k) ==
  /\ call[k].pc = "put"
  /\ WriteSnapshot(call[k].node, call[k].image)
  /\ call' = [call EXCEPT ![k] = [@ EXCEPT !.pc = IF call[k].op = "create" THEN "rows" ELSE "unrow",
                                         !.image = NoState, !.acked = TRUE]]
  /\ UNCHANGED <<workload, up, log, lines, rows, memory, sync, faults, gone, revived>>

\* A write of the log, of the snapshot or of index rows fails: the call returns the
\* error, or its task ends, and what was done so far stays; a write of the log may
\* have left part of the entry.  A task that cannot delete the rows of the index it
\* replaced still persists the state.
CallFails(k) ==
  /\ call[k].pc \in {"append", "newline", "put", "rows", "unrow", "reput"}
  /\ call[k].node \in workload.crashing
  /\ faults < MaxFaults
  /\ faults' = faults + 1
  /\ call' = [call EXCEPT ![k] = [@ EXCEPT !.pc = IF call[k].pc = "unrow" /\ call[k].op = "create"
                                                THEN "resave" ELSE "failed",
                                         !.image = NoState]]
  /\ \/ lines' = lines
     \/ call[k].pc = "append" /\ lines' = [lines EXCEPT ![call[k].node] = "broken"]
  /\ UNCHANGED <<workload, up, log, snap, rows, memory, sync, history>>

-----------------------------------------------------------------------------
\* materialize: the rows are written, then the index is ready.
BuildRows_ReadyFirst(k) ==
  LET n == call[k].node IN
  /\ call[k].pc = "rows"
  /\ ready' = [ready EXCEPT ![n] = @ \cup {k}]
  /\ Goto(k, "ready")
  /\ UNCHANGED <<workload, up, disk, version, state, sync, faults, history>>

BuildRows(k) ==
  LET n == call[k].node IN
  /\ call[k].pc = "rows"
  /\ rows' = [rows EXCEPT ![n] = @ \cup {k}]
  /\ Goto(k, "ready")
  /\ UNCHANGED <<workload, up, log, lines, snap, memory, sync, faults, history>>

MarkReady(k) ==
  LET n == call[k].node IN
  /\ call[k].pc = "ready"
  /\ ready' = [ready EXCEPT ![n] = @ \cup {k}]
  /\ Goto(k, IF call[k].old = NoIndex THEN "done" ELSE "swap")
  /\ UNCHANGED <<workload, up, disk, version, state, sync, faults, history>>

\* The task of a replacement: the new index is made active and the old one is
\* taken off the list, under one write lock.
Swap(k) ==
  LET n == call[k].node IN
  /\ call[k].pc = "swap"
  /\ state' = [state EXCEPT ![n].active_by_field[call[k].field] = k,
                            ![n].indexes = @ \ {call[k].old}]
  /\ gone' = gone \cup {call[k].old}
  /\ revived' = IF Active(n, call[k].field) = NoIndex THEN revived \cup {k} ELSE revived
  /\ Goto(k, "unrow")
  /\ UNCHANGED <<workload, up, disk, version, ready, sync, faults, lost>>

\* drop_materialized, of a dropped index or of the one that was replaced: its
\* rows are deleted, then it is no longer ready.
Dropped(k) == IF call[k].op = "create" THEN call[k].old ELSE call[k].index

DropRows(k) ==
  LET n == call[k].node IN
  /\ call[k].pc = "unrow"
  /\ rows' = [rows EXCEPT ![n] = @ \ {Dropped(k)}]
  /\ Goto(k, "unready")
  /\ UNCHANGED <<workload, up, log, lines, snap, memory, sync, faults, history>>

DropReady(k) ==
  LET n == call[k].node IN
  /\ call[k].pc = "unready"
  /\ ready' = [ready EXCEPT ![n] = @ \ {Dropped(k)}]
  /\ Goto(k, IF call[k].op = "create" THEN "resave" ELSE "done")
  /\ UNCHANGED <<workload, up, disk, version, state, sync, faults, history>>

\* The task of a replacement persists the state after the swap.
PutAfterSwap(k) ==
  /\ call[k].pc = "reput"
  /\ WriteSnapshot(call[k].node, call[k].image)
  /\ call' = [call EXCEPT ![k] = [@ EXCEPT !.pc = "done", !.image = NoState]]
  /\ UNCHANGED <<workload, up, log, lines, rows, memory, sync, faults, gone, revived>>

-----------------------------------------------------------------------------
SetSync(n, s) == sync' = [sync EXCEPT ![n] = s]

\* The i-th attempt to fetch the entries of m up to version v.
Try(m, v, i) == [pc |-> "fetch", from |-> m, target |-> v, tries |-> i, entries |-> <<>>,
                 image |-> NoState]

\* converge_from_gossip, on a message of m that carries a higher version.
HearVersion(n, m) ==
  /\ {n, m} \subseteq up /\ sync[n].pc = "idle"
  /\ version[m] > version[n]
  /\ SetSync(n, Try(m, version[m], 1))
  /\ UNCHANGED <<workload, up, disk, memory, call, faults, history>>

\* The next of three attempts, or none.
NextTry(s) == IF s.tries < 3 THEN Try(s.from, s.target, s.tries + 1) ELSE Idle

\* fetch_since: the sender answers from its log, or not at all; converge_from_gossip
\* then ends with the error.
Fetch(n) ==
  LET m == sync[n].from
      entries == EntriesSince(log[m], version[n])
  IN
  /\ n \in up /\ sync[n].pc = "fetch"
  /\ SetSync(n, IF m \notin up \/ ~Readable(m) THEN Idle
                ELSE IF entries = <<>> THEN NextTry(sync[n])
                ELSE [sync[n] EXCEPT !.pc = "apply", !.entries = entries])
  /\ UNCHANGED <<workload, up, disk, memory, call, faults, history>>

\* apply_entries: the counter takes the version of the state.
SyncApply(n) ==
  /\ n \in up /\ sync[n].pc = "apply"
  /\ state' = [state EXCEPT ![n] = ApplyEntries(@, sync[n].entries)]
  /\ version' = [version EXCEPT ![n] = state'[n].version]
  /\ SetSync(n, [sync[n] EXCEPT !.pc = "save", !.entries = <<>>])
  /\ UNCHANGED <<workload, up, disk, ready, call, faults, history>>

SyncSerialize(n) ==
  /\ n \in up /\ sync[n].pc = "save"
  /\ SetSync(n, [sync[n] EXCEPT !.pc = "put", !.image = state[n]])
  /\ UNCHANGED <<workload, up, disk, memory, call, faults, history>>

\* The snapshot is written; the attempts end when the target is reached.
SyncPut(n) ==
  /\ n \in up /\ sync[n].pc = "put"
  /\ WriteSnapshot(n, sync[n].image)
  /\ SetSync(n, IF version[n] >= sync[n].target THEN Idle ELSE NextTry(sync[n]))
  /\ UNCHANGED <<workload, up, log, lines, rows, memory, call, faults, gone, revived>>

SyncFails(n) ==
  /\ n \in up \cap workload.crashing /\ sync[n].pc = "put"
  /\ faults < MaxFaults
  /\ faults' = faults + 1
  /\ SetSync(n, Idle)
  /\ UNCHANGED <<workload, up, disk, memory, call, history>>

-----------------------------------------------------------------------------
\* The process ends: its memory is lost, and so are its calls and tasks.
Crash(n) ==
  /\ n \in up \cap workload.crashing
  /\ faults < MaxFaults
  /\ faults' = faults + 1
  /\ up' = up \ {n}
  /\ version' = [version EXCEPT ![n] = 0]
  /\ state' = [state EXCEPT ![n] = EmptyState]
  /\ ready' = [ready EXCEPT ![n] = {}]
  /\ call' = [k \in Calls |-> IF call[k].node = n
                              THEN [call[k] EXCEPT !.pc = "done", !.image = NoState]
                              ELSE call[k]]
  /\ SetSync(n, Idle)
  /\ UNCHANGED <<workload, disk, history>>

\* DefaultSchemaManager::new fails if there is no snapshot and the log cannot be
\* read.  A state that comes from the log is persisted.
Restart(n) ==
  /\ n \in workload.nodes \ up
  /\ snap[n] # NoState \/ Readable(n)
  /\ up' = up \cup {n}
  /\ state' = [state EXCEPT ![n] = Restored(n)]
  /\ version' = [version EXCEPT ![n] = Restored(n).version]
  /\ snap' = IF snap[n] = NoState /\ log[n] # <<>>
             THEN [snap EXCEPT ![n] = Restored(n)] ELSE snap
  /\ UNCHANGED <<workload, log, lines, rows, ready, call, sync, faults, history>>

CallStep(k) ==
  \/ QuotaExceeded(k) \/ TakeVersion(k) \/ AppendLog(k) \/ EndLine(k) \/ ApplyCall(k)
  \/ Serialize(k) \/ PutSnapshot(k) \/ BuildRows(k) \/ MarkReady(k) \/ Swap(k) \/ DropRows(k)
  \/ DropReady(k) \/ PutAfterSwap(k)

SyncStep(n) == Fetch(n) \/ SyncApply(n) \/ SyncSerialize(n) \/ SyncPut(n)

Next ==
  \/ \E n \in Node, f \in Field : CreateIndex(n, f)
  \/ \E n \in Node, i \in Index : DropIndex(n, i)
  \/ \E k \in Calls : CallStep(k) \/ CallFails(k)
  \/ \E n, m \in Node : HearVersion(n, m)
  \/ \E n \in Node : SyncStep(n) \/ SyncFails(n) \/ Crash(n) \/ Restart(n)

Spec == Init /\ [][Next]_vars

\* The runtime does not stop running calls and tasks, and nodes gossip again and again.
FairSpec ==
  /\ Spec
  /\ WF_vars(\E k \in Calls : CallStep(k))
  /\ \A n \in Node : WF_vars(SyncStep(n) \/ \E m \in Node : HearVersion(n, m))

-----------------------------------------------------------------------------
Pcs == Waiting \cup {"failed", "rows", "ready", "swap", "unrow", "unready", "resave",
                     "reput", "done"}

(* Types of the state.  The counter of versions and the calls stay in range. *)
TypeOK ==
  /\ workload \in Workloads /\ up \subseteq Node
  /\ version \in [Node -> 0 .. MaxCalls]
  /\ state \in [Node -> SchemaState(0 .. MaxCalls)]
  /\ log \in [Node -> Seq(Call)] /\ lines \in [Node -> LineForms]
  /\ snap \in [Node -> SchemaState(0 .. MaxCalls) \cup {NoState}]
  /\ rows \in [Node -> SUBSET Index] /\ ready \in [Node -> SUBSET Index]
  /\ Calls \subseteq Call
  /\ \A k \in Calls : call[k].pc \in Pcs /\ call[k].index \in Index
  /\ faults \in 0 .. MaxFaults /\ {gone, lost, revived} \subseteq SUBSET Index

(* An index that any node lists, in memory or in its snapshot, is in the log of
   the node that created it, whichever calls overlapped or were cut off by a
   crash: create_index appends to the log before it applies the entry.  Other
   nodes can fetch it from there as long as read_log_entries succeeds.  It does on
   a node that makes its calls one after the other and neither crashes nor fails
   to write; append_log_entry writes an entry and its newline separately, so that
   two calls that overlap, or one that is cut off, can put two entries on a line. *)
ListedIsLogged ==
  /\ \A n \in Node :
       \A i \in state[n].indexes \cup (IF snap[n] = NoState THEN {} ELSE snap[n].indexes) :
         \E j \in DOMAIN log[call[i].node] : log[call[i].node][j] = i
  /\ \A n \in Node : workload.width = 1 /\ n \notin workload.crashing => Readable(n)

(* An index whose creation was acknowledged, and that was neither dropped nor
   replaced, is in the memory of its node and would be there after a restart.
   The one exception is an index that was in memory while a snapshot without it
   was written, which two overlapping persist_state_snapshot can do: the log
   still has the index, but restore_state does not read it.                  *)
AckedSurvives ==
  \A k \in Calls :
    LET n == call[k].node IN
    call[k].op = "create" /\ call[k].acked /\ k \notin gone \cup lost =>
      /\ k \in Restored(n).indexes
      /\ n \in up => k \in state[n].indexes

SteadyWriter(n) == workload.writers = {n} /\ n \notin workload.crashing

(* On a node that takes all the calls and does not crash, the quota of create_index
   holds up to the calls that overlap: at most Limit + width - 1 fields have an
   index, and one more for every replacement whose task made its index active again
   after the field had lost its index to a drop.  The check and the change are under
   different locks, and the task checks nothing; entries that come from other nodes,
   or from the log after a restart, are applied without a check, and are outside
   this bound.                                                               *)
QuotaBounded ==
  \A n \in Node : SteadyWriter(n) =>
    Cardinality({f \in Field : Active(n, f) # NoIndex})
      <= Limit + workload.width - 1 + Cardinality(revived)

(* max_secondary_indexes_per_collection as its comment has it, "Strict maximum number
   of secondary indexes per collection": no node lists more than Limit of them.  Two
   overlapping create_index calls both pass the check before either is applied. *)
QuotaStrict ==
  \A n \in Node : Cardinality({f \in Field : Active(n, f) # NoIndex}) <= Limit

(* An index that queries are sent to, and that is still listed, has its rows:
   materialize sets ready after the last row, and rows are deleted only after the
   index has left the list.                                                  *)
ServedIsBuilt ==
  \A n \in up, f \in Field :
    Served(n, f) \in state[n].indexes => Served(n, f) \in rows[n]

(* If one node takes all the calls and does not crash, no two of its log entries
   have the same version, however its calls overlap.                         *)
VersionsUnique ==
  \A n \in Node : SteadyWriter(n) =>
    \A i, j \in DOMAIN log[n] : i # j => call[log[n][i]].version # call[log[n][j]].version

Orderly(n) == SteadyWriter(n) /\ workload.width = 1 /\ ~workload.replacing

(* If one node takes all the calls, one after the other, does not crash and never
   replaces an index, every node that stays up ends with its indexes: gossip
   makes converge_from_gossip fetch what is missing, also after a crash of the
   node that fetches.                                                        *)
Converges ==
  \A n \in Node : Orderly(n) =>
    <>[](\A m \in up : state[m].indexes = state[n].indexes
                       /\ state[m].active_by_field = state[n].active_by_field)
=============================================================================
