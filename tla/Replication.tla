---------------------------- MODULE Replication -----------------------------
(***************************************************************************)
(* Quorum replication of one object: QuorumCoordinator (coordinator.rs),   *)
(* ReplicaStore (replica.rs), IdempotencyStore (idempotency.rs) and the    *)
(* hint delivery task (hints.rs) of crates/bashfuldb-replication.          *)
(*                                                                         *)
(* Every node may coordinate.  A client operation is a task of its         *)
(* coordinator; its RPCs run in parallel and interleave with those of      *)
(* every other operation, with read repair and with hint delivery.  An RPC *)
(* may fail before or after the target has applied it.                     *)
(***************************************************************************)
EXTENDS Versions

CONSTANTS
  Node,          \* membership.all_nodes()
  Owners,        \* membership.owners_for_key(key, n): the N owners of the key
  Coordinators,  \* the nodes clients send requests to
  Docs,          \* document bodies
  IKeys,         \* idempotency keys
  NoDoc, NoKey, Absent,   \* the three uses of Option::None
  R, W,          \* QuorumConfig.r, QuorumConfig.w
  Kinds,         \* the operations the clients of this instance issue
  MaxOps,        \* bound: operation slots (a finished read frees its slot)
  MaxInFlight,   \* bound: operations running at the same time
  MaxTime,       \* bound: the last timestamp a clock can return
  MaxFaults      \* bound: failures, losses, expiries and restarts

ASSUME ReplicationAssumption ==
  /\ Owners \subseteq Node /\ IsFiniteSet(Node)
  /\ Coordinators \subseteq Node
  /\ NoDoc \notin Docs /\ NoKey \notin IKeys
  /\ R \in Nat \ {0} /\ W \in Nat \ {0}
  /\ Kinds \subseteq {"write", "delete", "read"}
  /\ MaxOps \in Nat /\ MaxInFlight \in Nat /\ MaxTime \in Nat
  /\ MaxFaults \in Nat

VARIABLES
  req,        \* what the client asked for
  phase,      \* where the operation is
  hlc,        \* the timestamp of a write or a delete (0 before it has one)
  rpc,        \* the state of the operation's RPC to each owner
  tried,      \* <<failed owner, fallback>> pairs store_sloppy_hints has used
  hinted,     \* the pairs of `tried` whose hint was stored
  responses,  \* what each owner answered to a read
  best,       \* the winner among the answers so far
  repair,     \* the stale owners the repair task of a read has still to write
  clock,      \* the last timestamp of each coordinator's clock
  idem,       \* the idempotency cache of each coordinator
  replica,    \* the document each node stores (`default` column family)
  hints,      \* the hints each node stores (`hints` column family)
  todo,       \* the hints of the running delivery pass still to be visited
  delivered,  \* the hint of the pass that its target has, not yet deleted
  placed,     \* history: the versions each node has ever stored
  expired,    \* history: the hints dropped because of their age
  forgotten,  \* history: the operations whose cache entry was evicted
  faults,     \* the failures so far, up to MaxFaults
  strict,     \* history: the writes and deletes acknowledged by W owners
  seen,       \* history: `strict` as it was when a read began
  regressed   \* history: a replica has replaced a version by an older one

opVars    == <<req, phase, hlc, rpc, tried, hinted, responses, best, repair>>
nodeVars  == <<replica, placed, regressed>>
hintVars  == <<hints, todo, delivered, expired>>
cacheVars == <<idem, forgotten>>
readVars  == <<strict, seen>>
vars == <<opVars, clock, nodeVars, hintVars, cacheVars, faults, readVars>>

-----------------------------------------------------------------------------
(* Types and small helpers.                                                *)

Op == 1 .. MaxOps
Time == 0 .. MaxTime
Fallbacks == Node \ Owners

NoRequest == [kind |-> "none", coord |-> Absent, doc |-> NoDoc, ikey |-> NoKey]
Request == [kind : Kinds, coord : Coordinators, doc : Docs \cup {NoDoc},
            ikey : IKeys \cup {NoKey}]

Running == {"stamp", "broadcast", "hints", "read"}
Finished == {"ok", "err", "replayed", "conflict", "lost"}

VersionedDoc == [document : Docs \cup {NoDoc}, version : VectorClock(Node, Time),
                 hlc : Time, is_tombstone : BOOLEAN]
Hint == [target : Owners, versioned : VersionedDoc]
CacheEntry == [doc : Docs, version : VectorClock(Node, Time)]

\* None is not a document and not a cache entry.
ASSUME AbsentAssumption == Absent \notin VersionedDoc /\ Absent \notin CacheEntry

Mutates(o) == req[o].kind \in {"write", "delete"}
RpcIn(o, s) == {n \in Owners : rpc[o][n] = s}
Acked(o) == RpcIn(o, "acked")
Failed(o) == RpcIn(o, "failed")

\* A fresh VectorClock with the one entry of the coordinator.
Version(o) == Increment(EmptyClock, req[o].coord, hlc[o])

-----------------------------------------------------------------------------
(* The replica: what an RPC makes a node store.                            *)

HandleWrite(doc, version, h) == LiveDoc(doc, version, h)
HandleDelete(version, h) == Tombstone(NoDoc, version, h)

\* Fault: every request goes to handle_write.
RemoteWrite_Unrouted(doc, version, h) == HandleWrite(doc, version, h)

\* remote_write of a request that is not a hint: the transport routes a
\* request without a document to handle_delete.
RemoteWrite(doc, version, h) ==
  IF doc = NoDoc THEN HandleDelete(version, h) ELSE HandleWrite(doc, version, h)

\* Both handlers overwrite what the node has, whatever its version.
Put(n, vdoc) ==
  /\ replica' = [replica EXCEPT ![n] = vdoc]
  /\ placed' = [placed EXCEPT ![n] = @ \cup {vdoc.version}]
  /\ regressed' = (regressed \/ (replica[n] # Absent
                                 /\ Compare(vdoc.version, replica[n].version) = "Before"))

\* store_hint: the key of a hint is {target}/{hlc}/{object_id}, so a hint
\* with the same target and timestamp is replaced.
SameKey(h, g) == h.target = g.target /\ h.versioned.hlc = g.versioned.hlc

StoreHintAt(n, h) == hints' = [hints EXCEPT ![n] = {g \in @ : ~SameKey(g, h)} \cup {h}]

\* Fault: the hint is addressed to the coordinator, not to the failed owner.
HintFor_ToCoordinator(o, t) ==
  [target |-> req[o].coord,
   versioned |-> [document |-> req[o].doc, version |-> Version(o), hlc |-> hlc[o],
                  is_tombstone |-> (req[o].doc = NoDoc)]]

HintFor(o, t) ==
  [target |-> t,
   versioned |-> [document |-> req[o].doc, version |-> Version(o), hlc |-> hlc[o],
                  is_tombstone |-> (req[o].doc = NoDoc)]]

-----------------------------------------------------------------------------
Init ==
  /\ req = [o \in Op |-> NoRequest]
  /\ phase = [o \in Op |-> "idle"]
  /\ hlc = [o \in Op |-> 0]
  /\ rpc = [o \in Op |-> [n \in Owners |-> "none"]]
  /\ tried = [o \in Op |-> {}]
  /\ hinted = [o \in Op |-> {}]
  /\ responses = [o \in Op |-> [n \in Owners |-> Absent]]
  /\ best = [o \in Op |-> Absent]
  /\ repair = [o \in Op |-> {}]
  /\ clock = [c \in Coordinators |-> 0]
  /\ idem = [c \in Coordinators |-> [k \in IKeys |-> Absent]]
  /\ replica = [n \in Node |-> Absent]
  /\ hints = [n \in Node |-> {}]
  /\ todo = [n \in Node |-> {}]
  /\ delivered = [n \in Node |-> {}]
  /\ placed = [n \in Node |-> {}]
  /\ expired = [n \in Node |-> {}]
  /\ forgotten = {}
  /\ faults = 0
  /\ strict = {}
  /\ seen = [o \in Op |-> {}]
  /\ regressed = FALSE

\* A step that takes a failure from the bound.
Fault == faults < MaxFaults /\ faults' = faults + 1

-----------------------------------------------------------------------------
(* Client operations.                                                      *)

\* A slot for a new operation, under the bounds of the instance.
FreeSlot(o) ==
  /\ phase[o] = "idle"
  /\ \A p \in Op : p < o => phase[p] # "idle"
  /\ Cardinality({p \in Op : phase[p] \in Running}) < MaxInFlight

\* IdempotencyStore::get, under the lock: a known key answers at once, with
\* the cached result or with a conflict.
CacheLookup(r) ==
  IF r.ikey = NoKey \/ idem[r.coord][r.ikey] = Absent THEN "stamp"
  ELSE IF idem[r.coord][r.ikey].doc = r.doc THEN "replayed" ELSE "conflict"

SubmitWrite(o, r) ==
  /\ FreeSlot(o)
  /\ r.kind = "write" /\ r.doc # NoDoc
  /\ req' = [req EXCEPT ![o] = r]
  /\ phase' = [phase EXCEPT ![o] = CacheLookup(r)]
  /\ UNCHANGED <<hlc, rpc, tried, hinted, responses, best, repair, clock, nodeVars,
                 hintVars, cacheVars, readVars, faults>>

SubmitDelete(o, r) ==
  /\ FreeSlot(o)
  /\ r.kind = "delete" /\ r.doc = NoDoc /\ r.ikey = NoKey
  /\ req' = [req EXCEPT ![o] = r]
  /\ phase' = [phase EXCEPT ![o] = "stamp"]
  /\ UNCHANGED <<hlc, rpc, tried, hinted, responses, best, repair, clock, nodeVars,
                 hintVars, cacheVars, readVars, faults>>

SubmitRead(o, r) ==
  /\ FreeSlot(o)
  /\ r.kind = "read" /\ r.doc = NoDoc /\ r.ikey = NoKey
  /\ req' = [req EXCEPT ![o] = r]
  /\ phase' = [phase EXCEPT ![o] = "read"]
  /\ rpc' = [rpc EXCEPT ![o] = [n \in Owners |-> "sent"]]
  /\ seen' = [seen EXCEPT ![o] = strict]
  /\ UNCHANGED <<hlc, tried, hinted, responses, best, repair, clock, nodeVars,
                 hintVars, cacheVars, strict, faults>>

\* Fault: the clock may return its last timestamp again.
StampAndBroadcast_Repeated(o) ==
  /\ phase[o] = "stamp"
  /\ \E t \in Time \ {0} :
       /\ t >= clock[req[o].coord]
       /\ clock' = [clock EXCEPT ![req[o].coord] = t]
       /\ hlc' = [hlc EXCEPT ![o] = t]
  /\ phase' = [phase EXCEPT ![o] = "broadcast"]
  /\ rpc' = [rpc EXCEPT ![o] = [n \in Owners |-> "sent"]]
  /\ UNCHANGED <<req, tried, hinted, responses, best, repair, nodeVars, hintVars,
                 cacheVars, readVars, faults>>

\* clock.tick() returns a timestamp above every earlier one of this clock;
\* then the request goes to all owners.
StampAndBroadcast(o) ==
  /\ phase[o] = "stamp"
  /\ \E t \in Time :
       /\ t > clock[req[o].coord]
       /\ clock' = [clock EXCEPT ![req[o].coord] = t]
       /\ hlc' = [hlc EXCEPT ![o] = t]
  /\ phase' = [phase EXCEPT ![o] = "broadcast"]
  /\ rpc' = [rpc EXCEPT ![o] = [n \in Owners |-> "sent"]]
  /\ UNCHANGED <<req, tried, hinted, responses, best, repair, nodeVars, hintVars,
                 cacheVars, readVars, faults>>

\* tick() may also fail (LogicalOverflow): the operation ends.
StampFails(o) ==
  /\ phase[o] = "stamp"
  /\ IF clock[req[o].coord] = MaxTime THEN UNCHANGED faults ELSE Fault
  /\ phase' = [phase EXCEPT ![o] = "err"]
  /\ UNCHANGED <<req, hlc, rpc, tried, hinted, responses, best, repair, clock, nodeVars,
                 hintVars, cacheVars, readVars>>

WriteRpc(o, n) ==
  /\ phase[o] = "broadcast" /\ rpc[o][n] = "sent"
  /\ Put(n, RemoteWrite(req[o].doc, Version(o), hlc[o]))
  /\ rpc' = [rpc EXCEPT ![o][n] = "acked"]
  /\ UNCHANGED <<req, phase, hlc, tried, hinted, responses, best, repair, clock, hintVars,
                 cacheVars, readVars, faults>>

\* The target was not reached.
RpcFails(o, n) ==
  /\ Fault
  /\ phase[o] \in {"broadcast", "read"} /\ rpc[o][n] = "sent"
  /\ rpc' = [rpc EXCEPT ![o][n] = "failed"]
  /\ UNCHANGED <<req, phase, hlc, tried, hinted, responses, best, repair, clock, nodeVars,
                 hintVars, cacheVars, readVars>>

\* The target applied the write and its answer was lost.
AckLost(o, n) ==
  /\ Fault
  /\ phase[o] = "broadcast" /\ rpc[o][n] = "sent"
  /\ Put(n, RemoteWrite(req[o].doc, Version(o), hlc[o]))
  /\ rpc' = [rpc EXCEPT ![o][n] = "failed"]
  /\ UNCHANGED <<req, phase, hlc, tried, hinted, responses, best, repair, clock, hintVars,
                 cacheVars, readVars>>

\* The locals of an operation end with it.
ClearRpcs(o) == rpc' = [rpc EXCEPT ![o] = [n \in Owners |-> "none"]]

\* IdempotencyStore::store, under the lock: an insert that replaces.
CacheStore(o) ==
  idem' = IF req[o].ikey = NoKey THEN idem
          ELSE [idem EXCEPT ![req[o].coord][req[o].ikey] =
                  [doc |-> req[o].doc, version |-> Version(o)]]

\* Fault: wait for W acknowledgments, however many RPCs fail.
FinishBroadcast_WaitForW(o) ==
  /\ phase[o] = "broadcast" /\ Cardinality(Acked(o)) >= W
  /\ phase' = [phase EXCEPT ![o] = "ok"]
  /\ strict' = strict \cup {o}
  /\ CacheStore(o)
  /\ ClearRpcs(o)
  /\ UNCHANGED <<req, hlc, tried, hinted, responses, best, repair, clock, nodeVars,
                 hintVars, forgotten, seen, faults>>

\* broadcast_write waits for every RPC; W acknowledgments end the operation,
\* fewer start the sloppy quorum.
FinishBroadcast(o) ==
  /\ phase[o] = "broadcast" /\ RpcIn(o, "sent") = {}
  /\ IF Cardinality(Acked(o)) >= W
     THEN /\ phase' = [phase EXCEPT ![o] = "ok"]
          /\ strict' = strict \cup {o}
          /\ CacheStore(o)
          /\ ClearRpcs(o)
     ELSE /\ phase' = [phase EXCEPT ![o] = "hints"]
          /\ UNCHANGED <<idem, rpc, strict>>
  /\ UNCHANGED <<req, hlc, tried, hinted, responses, best, repair, clock, nodeVars,
                 hintVars, forgotten, seen, faults>>

TriedOwners(o) == {p[1] : p \in tried[o]}
TriedFallbacks(o) == {p[2] : p \in tried[o]}

\* Fault: owners are not filtered out of the fallbacks.
NextHint_AnyNode(o) ==
  IF Cardinality(tried[o]) >= W THEN {}
  ELSE (Failed(o) \ TriedOwners(o)) \X (Node \ TriedFallbacks(o))

\* The owners and fallbacks the loop of store_sloppy_hints may visit next: an
\* iteration takes the next failed owner, up to min(failed, W) of them, and the
\* next non-owner, whether or not the previous hint was stored.
NextHint(o) ==
  IF Cardinality(tried[o]) >= W THEN {}
  ELSE (Failed(o) \ TriedOwners(o)) \X (Fallbacks \ TriedFallbacks(o))

StoreHint(o, t, f) ==
  /\ phase[o] = "hints" /\ <<t, f>> \in NextHint(o)
  /\ tried' = [tried EXCEPT ![o] = @ \cup {<<t, f>>}]
  /\ hinted' = [hinted EXCEPT ![o] = @ \cup {<<t, f>>}]
  /\ StoreHintAt(f, HintFor(o, t))
  /\ UNCHANGED <<req, phase, hlc, rpc, responses, best, repair, clock, nodeVars,
                 todo, delivered, expired, cacheVars, readVars, faults>>

HintRpcFails(o, t, f) ==
  /\ Fault
  /\ phase[o] = "hints" /\ <<t, f>> \in NextHint(o)
  /\ tried' = [tried EXCEPT ![o] = @ \cup {<<t, f>>}]
  /\ UNCHANGED <<req, phase, hlc, rpc, hinted, responses, best, repair, clock, nodeVars,
                 hintVars, cacheVars, readVars>>

\* The fallback stored the hint and its answer was lost: it does not count.
HintAckLost(o, t, f) ==
  /\ Fault
  /\ phase[o] = "hints" /\ <<t, f>> \in NextHint(o)
  /\ tried' = [tried EXCEPT ![o] = @ \cup {<<t, f>>}]
  /\ StoreHintAt(f, HintFor(o, t))
  /\ UNCHANGED <<req, phase, hlc, rpc, hinted, responses, best, repair, clock, nodeVars,
                 todo, delivered, expired, cacheVars, readVars>>

\* Fault: a write acknowledged with the help of hints is not cached.
FinishHints_NotCached(o) ==
  /\ phase[o] = "hints" /\ NextHint(o) = {}
  /\ phase' = [phase EXCEPT ![o] =
       IF Cardinality(Acked(o)) + Cardinality(hinted[o]) >= W THEN "ok" ELSE "err"]
  /\ ClearRpcs(o)
  /\ tried' = [tried EXCEPT ![o] = {}]
  /\ UNCHANGED <<req, hlc, hinted, responses, best, repair, clock, nodeVars,
                 hintVars, cacheVars, readVars, faults>>

\* Stored hints count as acknowledgments.
FinishHints(o) ==
  /\ phase[o] = "hints" /\ NextHint(o) = {}
  /\ IF Cardinality(Acked(o)) + Cardinality(hinted[o]) >= W
     THEN /\ phase' = [phase EXCEPT ![o] = "ok"]
          /\ CacheStore(o)
     ELSE /\ phase' = [phase EXCEPT ![o] = "err"]
          /\ UNCHANGED idem
  /\ ClearRpcs(o)
  /\ tried' = [tried EXCEPT ![o] = {}]
  /\ UNCHANGED <<req, hlc, hinted, responses, best, repair, clock, nodeVars,
                 hintVars, forgotten, readVars, faults>>

\* An owner answers a read.  resolve_conflict folds resolve_two over the
\* documents in the order of their arrival: `best` is the fold so far.
ReadRpc(o, n) ==
  /\ phase[o] = "read" /\ rpc[o][n] = "sent"
  /\ rpc' = [rpc EXCEPT ![o][n] = "acked"]
  /\ responses' = [responses EXCEPT ![o][n] = replica[n]]
  /\ best' = [best EXCEPT ![o] = IF replica[n] = Absent THEN @
                                 ELSE IF @ = Absent THEN replica[n]
                                 ELSE ResolveTwo(@, replica[n])]
  /\ UNCHANGED <<req, phase, hlc, tried, hinted, repair, clock, nodeVars, hintVars,
                 cacheVars, readVars, faults>>

Stale(o) ==
  {n \in Acked(o) : \/ responses[o][n] = Absent
                    \/ Compare(responses[o][n].version, best[o].version)
                         \in {"Before", "Concurrent"}}

\* Every owner has answered or failed: the read returns `best` and spawns the
\* task that repairs the stale owners.
FinishRead(o) ==
  /\ phase[o] = "read" /\ RpcIn(o, "sent") = {}
  /\ IF Cardinality(Acked(o)) < R
     THEN /\ phase' = [phase EXCEPT ![o] = "err"]
          /\ UNCHANGED repair
     ELSE /\ phase' = [phase EXCEPT ![o] = "ok"]
          /\ repair' = [repair EXCEPT ![o] = IF best[o] = Absent THEN {} ELSE Stale(o)]
  /\ ClearRpcs(o)
  /\ responses' = [responses EXCEPT ![o] = [n \in Owners |-> Absent]]
  /\ UNCHANGED <<req, hlc, tried, hinted, best, clock, nodeVars,
                 hintVars, cacheVars, readVars, faults>>

\* The repair task writes the winner to the stale owners one by one.
RepairWrite(o, n) ==
  /\ n \in repair[o]
  /\ Put(n, RemoteWrite(best[o].document, best[o].version, best[o].hlc))
  /\ repair' = [repair EXCEPT ![o] = @ \ {n}]
  /\ UNCHANGED <<req, phase, hlc, rpc, tried, hinted, responses, best, clock, hintVars,
                 cacheVars, readVars, faults>>

RepairFails(o, n) ==
  /\ Fault
  /\ n \in repair[o]
  /\ repair' = [repair EXCEPT ![o] = @ \ {n}]
  /\ UNCHANGED <<req, phase, hlc, rpc, tried, hinted, responses, best, clock, nodeVars,
                 hintVars, cacheVars, readVars>>

\* A finished read whose repair task has ended frees its slot.
Retire(o) ==
  /\ req[o].kind = "read" /\ phase[o] \in Finished /\ repair[o] = {}
  /\ req' = [req EXCEPT ![o] = NoRequest]
  /\ phase' = [phase EXCEPT ![o] = "idle"]
  /\ best' = [best EXCEPT ![o] = Absent]
  /\ seen' = [seen EXCEPT ![o] = {}]
  /\ UNCHANGED <<hlc, rpc, tried, hinted, responses, repair, clock, nodeVars, hintVars,
                 cacheVars, strict,
                 faults>>

\* The caller drops the future of a running operation: its JoinSet aborts the
\* RPCs that are still out, and nothing after them happens.
Cancel(o) ==
  /\ Fault
  /\ phase[o] \in Running
  /\ phase' = [phase EXCEPT ![o] = "lost"]
  /\ ClearRpcs(o)
  /\ tried' = [tried EXCEPT ![o] = {}]
  /\ responses' = [responses EXCEPT ![o] = [n \in Owners |-> Absent]]
  /\ UNCHANGED <<req, hlc, hinted, best, repair, clock, nodeVars,
                 hintVars, cacheVars, readVars>>

-----------------------------------------------------------------------------
(* Background tasks, ageing and restarts.                                  *)

\* deliver_pending_hints scans a snapshot of the hints ...
StartPass(n) ==
  /\ todo[n] = {} /\ hints[n] # {}
  /\ todo' = [todo EXCEPT ![n] = hints[n]]
  /\ UNCHANGED <<opVars, clock, nodeVars, hints, delivered, expired, cacheVars, readVars, faults>>

\* ... in the order of the keys: per target, the oldest first (the decimal
\* timestamps in the keys have the same number of digits).
NextInPass(n) ==
  {h \in todo[n] : \A g \in todo[n] :
     g.target = h.target => h.versioned.hlc <= g.versioned.hlc}

DeleteHint(n, h) == hints' = [hints EXCEPT ![n] = {g \in @ : ~SameKey(g, h)}]

DeliverHint(n, h) ==
  /\ delivered[n] = {} /\ h \in NextInPass(n)
  /\ Put(h.target, RemoteWrite(h.versioned.document, h.versioned.version, h.versioned.hlc))
  /\ delivered' = [delivered EXCEPT ![n] = {h}]
  /\ UNCHANGED <<opVars, clock, hints, todo, expired, cacheVars, readVars, faults>>

\* The delivered hint is deleted in a second step.
RemoveDelivered(n, h) ==
  /\ h \in delivered[n]
  /\ DeleteHint(n, h)
  /\ todo' = [todo EXCEPT ![n] = @ \ {h}]
  /\ delivered' = [delivered EXCEPT ![n] = {}]
  /\ UNCHANGED <<opVars, clock, nodeVars, expired, cacheVars, readVars, faults>>

\* Fault: the hint is deleted whatever remote_write returned.
DeliveryFails_Deleted(n, h) ==
  /\ Fault
  /\ delivered[n] = {} /\ h \in NextInPass(n)
  /\ DeleteHint(n, h)
  /\ todo' = [todo EXCEPT ![n] = @ \ {h}]
  /\ UNCHANGED <<opVars, clock, nodeVars, delivered, expired, cacheVars, readVars>>

\* The target was not reached: the hint stays for a later pass.
DeliveryFails(n, h) ==
  /\ Fault
  /\ delivered[n] = {} /\ h \in NextInPass(n)
  /\ todo' = [todo EXCEPT ![n] = @ \ {h}]
  /\ UNCHANGED <<opVars, clock, nodeVars, hints, delivered, expired, cacheVars, readVars>>

\* The target stored it and its answer was lost: the hint stays as well.
DeliveryAckLost(n, h) ==
  /\ Fault
  /\ delivered[n] = {} /\ h \in NextInPass(n)
  /\ Put(h.target, RemoteWrite(h.versioned.document, h.versioned.version, h.versioned.hlc))
  /\ todo' = [todo EXCEPT ![n] = @ \ {h}]
  /\ UNCHANGED <<opVars, clock, hints, delivered, expired, cacheVars, readVars>>

\* A storage error while scanning or deleting ends the pass.
PassFails(n) ==
  /\ Fault
  /\ todo[n] # {}
  /\ todo' = [todo EXCEPT ![n] = {}]
  /\ delivered' = [delivered EXCEPT ![n] = {}]
  /\ UNCHANGED <<opVars, clock, nodeVars, hints, expired, cacheVars, readVars>>

\* The hint is more than HINT_TTL_MS (24 h) old.
DiscardExpired(n, h) ==
  /\ Fault
  /\ delivered[n] = {} /\ h \in NextInPass(n)
  /\ DeleteHint(n, h)
  /\ todo' = [todo EXCEPT ![n] = @ \ {h}]
  /\ expired' = [expired EXCEPT ![n] = @ \cup {h}]
  /\ UNCHANGED <<opVars, clock, nodeVars, delivered, cacheVars, readVars>>

AckedAt(c) == {o \in Op : Mutates(o) /\ phase[o] = "ok" /\ req[o].coord = c}

\* An entry older than TTL (15 min) is evicted by the next get or store.
EvictExpired(c, k) ==
  /\ Fault
  /\ idem[c][k] # Absent
  /\ idem' = [idem EXCEPT ![c][k] = Absent]
  /\ forgotten' = forgotten \cup {o \in AckedAt(c) : req[o].ikey = k}
  /\ UNCHANGED <<opVars, clock, nodeVars, hintVars, readVars>>

RunningAt(n) == {o \in Op : phase[o] \in Running /\ req[o].coord = n}

\* A node restarts: its tasks and its idempotency cache are gone, its storage
\* and the timestamps it has used are not.
Restart(n) ==
  /\ Fault
  /\ phase' = [o \in Op |-> IF o \in RunningAt(n) THEN "lost" ELSE phase[o]]
  /\ rpc' = [o \in Op |-> IF o \in RunningAt(n) THEN [m \in Owners |-> "none"] ELSE rpc[o]]
  /\ tried' = [o \in Op |-> IF o \in RunningAt(n) THEN {} ELSE tried[o]]
  /\ responses' = [o \in Op |-> IF o \in RunningAt(n) THEN [m \in Owners |-> Absent]
                                ELSE responses[o]]
  /\ repair' = [o \in Op |-> IF req[o].coord = n THEN {} ELSE repair[o]]
  /\ idem' = [c \in Coordinators |-> IF c = n THEN [k \in IKeys |-> Absent] ELSE idem[c]]
  /\ forgotten' = forgotten \cup AckedAt(n)
  /\ todo' = [todo EXCEPT ![n] = {}]
  /\ delivered' = [delivered EXCEPT ![n] = {}]
  /\ UNCHANGED <<req, hlc, hinted, best, clock, nodeVars, hints, expired, readVars>>

-----------------------------------------------------------------------------
Submit(o) == \E r \in Request : SubmitWrite(o, r) \/ SubmitDelete(o, r) \/ SubmitRead(o, r)

MutationStep(o) ==
  \/ StampAndBroadcast(o) \/ StampFails(o)
  \/ \E n \in Owners : WriteRpc(o, n) \/ RpcFails(o, n) \/ AckLost(o, n)
  \/ FinishBroadcast(o)
  \/ \E t \in Owners, f \in Node :
       StoreHint(o, t, f) \/ HintRpcFails(o, t, f) \/ HintAckLost(o, t, f)
  \/ FinishHints(o)

ReadStep(o) ==
  \/ \E n \in Owners : ReadRpc(o, n)
  \/ FinishRead(o)
  \/ \E n \in Owners : RepairWrite(o, n) \/ RepairFails(o, n)
  \/ Retire(o)

HintStep(n) ==
  \/ StartPass(n) \/ PassFails(n)
  \/ \E h \in todo[n] :
       \/ DeliverHint(n, h) \/ DeliveryFails(n, h)
       \/ DeliveryAckLost(n, h) \/ DiscardExpired(n, h)
  \/ \E h \in delivered[n] : RemoveDelivered(n, h)

Next ==
  \/ \E o \in Op : Submit(o) \/ MutationStep(o) \/ ReadStep(o) \/ Cancel(o)
  \/ \E n \in Node : HintStep(n) \/ Restart(n)
  \/ \E c \in Coordinators, k \in IKeys : EvictExpired(c, k)

Spec == Init /\ [][Next]_vars

\* The runtime polls every task that can go on, and the delivery task of every
\* node runs at each tick of its interval.  No client need issue anything.
Fairness ==
  /\ \A o \in Op : WF_vars(MutationStep(o)) /\ WF_vars(ReadStep(o))
  /\ \A n \in Node : WF_vars(HintStep(n))

FairSpec == Spec /\ Fairness

-----------------------------------------------------------------------------
(* Properties.                                                             *)

\* Types, and the roles of nodes: store_sloppy_hints addresses hints to owners
\* and keeps them on non-owners, and read repair writes to owners only.
TypeOK ==
  /\ req \in [Op -> Request \cup {NoRequest}]
  /\ phase \in [Op -> {"idle"} \cup Running \cup Finished]
  /\ hlc \in [Op -> Time]
  /\ rpc \in [Op -> [Owners -> {"none", "sent", "acked", "failed"}]]
  /\ tried \in [Op -> SUBSET (Owners \X Fallbacks)]
  /\ hinted \in [Op -> SUBSET (Owners \X Fallbacks)]
  /\ responses \in [Op -> [Owners -> VersionedDoc \cup {Absent}]]
  /\ best \in [Op -> VersionedDoc \cup {Absent}]
  /\ repair \in [Op -> SUBSET Owners]
  /\ clock \in [Coordinators -> Time]
  /\ idem \in [Coordinators -> [IKeys -> CacheEntry \cup {Absent}]]
  /\ replica \in [Node -> VersionedDoc \cup {Absent}]
  /\ hints \in [Node -> SUBSET Hint]
  /\ todo \in [Node -> SUBSET Hint]
  /\ delivered \in [Node -> SUBSET Hint]
  /\ placed \in [Node -> SUBSET VectorClock(Node, Time)]
  /\ expired \in [Node -> SUBSET Hint]
  /\ forgotten \subseteq Op
  /\ strict \subseteq Op
  /\ seen \in [Op -> SUBSET Op]
  /\ regressed \in BOOLEAN
  /\ faults \in 0 .. MaxFaults

\* What operation o makes the replicas store.
CopyOf(o) == [document |-> req[o].doc, version |-> Version(o), hlc |-> hlc[o],
              is_tombstone |-> (req[o].kind = "delete")]

Stamped(o) == Mutates(o) /\ hlc[o] > 0

IsWritten(v) == \E o \in Op : Stamped(o) /\ v = CopyOf(o)

\* Every copy in the system is the one of the operation that wrote it,
\* whichever path it took (write, delete, hint, handoff, repair): the
\* document, the tombstone flag, the timestamp and the version belong
\* together.
CopiesIntact ==
  /\ \A n \in Node : replica[n] # Absent => IsWritten(replica[n])
  /\ \A n \in Node : \A h \in hints[n] \cup todo[n] \cup delivered[n] : IsWritten(h.versioned)
  /\ \A o \in Op : best[o] # Absent => IsWritten(best[o])

\* compare never calls two different documents "Equal": two copies with equal
\* versions are the same copy, so a replica that read repair skips because of
\* an equal version does hold the winner.
EqualVersionsSameCopy ==
  \A m, n \in Node :
    (/\ replica[m] # Absent /\ replica[n] # Absent
     /\ Compare(replica[m].version, replica[n].version) = "Equal")
      => replica[m] = replica[n]

\* The nodes that have stored the version of o or a hint with it.
HolderNodes(o) == {n \in Node : Version(o) \in placed[n]} \cup {p[2] : p \in hinted[o]}

\* A write or delete that quorum_write or quorum_delete acknowledged was stored
\* by W different nodes: as the document on an owner or as a hint on a
\* non-owner.
AckedByW ==
  \A o \in Op : (Mutates(o) /\ phase[o] = "ok") => Cardinality(HolderNodes(o)) >= W

HintKept(o, t, f) ==
  \/ HintFor(o, t) \in hints[f]
  \/ Version(o) \in placed[t]
  \/ HintFor(o, t) \in expired[f]
Collides(o) ==
  \E p \in Op : Stamped(p) /\ req[p].coord # req[o].coord /\ hlc[p] = hlc[o]

\* A hint of store_hint disappears from deliver_pending_hints only once its
\* target has stored the version, or because it expired, or because another
\* coordinator's hint took its key (same target, timestamp and object).
HandoffComplete ==
  \A o \in Op : \A p \in hinted[o] : HintKept(o, p[1], p[2]) \/ Collides(o)

\* The idempotency cache and the acknowledgments agree: an acknowledged write
\* with a key is remembered until it is evicted or its coordinator restarts,
\* and an entry is the result of an acknowledged write of that key and body.
CacheMatchesAcks ==
  /\ \A o \in Op : (phase[o] = "ok" /\ Mutates(o) /\ req[o].ikey # NoKey /\ o \notin forgotten)
        => idem[req[o].coord][req[o].ikey] # Absent
  /\ \A c \in Coordinators, k \in IKeys : idem[c][k] # Absent =>
        \E o \in Op : /\ phase[o] = "ok" /\ req[o].kind = "write"
                      /\ req[o].coord = c /\ req[o].ikey = k
                      /\ idem[c][k] = [doc |-> req[o].doc, version |-> Version(o)]

\* With one coordinator, a read that succeeds returns a version no older than
\* any write or delete that W owners had acknowledged when the read began,
\* unless some replica has replaced a newer version by an older one.
FreshRead ==
  \A o \in Op : (req[o].kind = "read" /\ phase[o] = "ok" /\ ~regressed) =>
    \A p \in seen[o] :
      /\ best[o] # Absent
      /\ Compare(Version(p), best[o].version) \in {"Equal", "Before"}

\* Every operation ends: broadcast_write, quorum_read and store_sloppy_hints
\* wait only for RPCs that return.
OperationsEnd == \A o \in Op : phase[o] \in Running ~> phase[o] \notin Running

\* Hinted handoff: when the failures stop, a stored hint reaches its target,
\* unless it expired first or another hint took its key.
HintsReachTarget ==
  \A o \in Op, t \in Owners, f \in Fallbacks :
    <<t, f>> \in hinted[o] ~> \/ Version(o) \in placed[t]
                             \/ HintFor(o, t) \in expired[f]
                             \/ Collides(o)

\* "doc2 was written after doc1; it should win": with one coordinator, a read
\* that succeeds returns a version no older than any write that W owners had
\* acknowledged when it began.  FreshRead without its exception; handle_write
\* lets a delayed read repair break it.
LaterWriteWins ==
  \A o \in Op : (req[o].kind = "read" /\ phase[o] = "ok") =>
    \A p \in seen[o] :
      /\ best[o] # Absent
      /\ Compare(Version(p), best[o].version) \in {"Equal", "Before"}

\* "Causally-later version wins outright": what resolve_conflict chooses for a
\* read that is about to return is not causally before another answer of it.
CausallyLaterWins ==
  \A o \in Op : (phase[o] = "read" /\ RpcIn(o, "sent") = {}) =>
    \A n \in Acked(o) : responses[o][n] # Absent =>
      Compare(responses[o][n].version, best[o].version) # "After"

=============================================================================
