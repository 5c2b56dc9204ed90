-------------------------- MODULE ReplicationProofs -------------------------
(***************************************************************************)
(* Replication, for every number of nodes, owners, coordinators and        *)
(* operations, every R and W and any number of faults.                     *)
(*                                                                         *)
(* The types; what is stored: a copy stays the one its operation wrote, a  *)
(* version names one copy, the idempotency cache holds what was            *)
(* acknowledged, and no hint is lost; and what the quorums guarantee: how  *)
(* many nodes hold an acknowledged write, and what a read that overlaps a  *)
(* write quorum returns.                                                   *)
(***************************************************************************)
EXTENDS Replication, FiniteSetTheorems, TLAPS

-----------------------------------------------------------------------------
(* Operators.                                                              *)

\* The empty set has no elements; increment compares len() with MAX_ENTRIES.
LEMMA EmptyCount == Cardinality({}) = 0
BY FS_EmptySet, Zenon

\* A fresh vector clock has the one entry of its coordinator.
LEMMA VersionIsSingle ==
  ASSUME NEW c, NEW h \in Nat
  PROVE  Increment(EmptyClock, c, h) = [m \in {c} |-> h]
<1>1. DOMAIN EmptyClock = {}
  BY Zenon DEF EmptyClock
<1>2. ~IncrementFails(EmptyClock, c)
  BY <1>1, MaxEntriesAssumption, EmptyCount DEF IncrementFails
<1>3. MaxHlc(Entry(EmptyClock, c), h) = h
  BY <1>1 DEF MaxHlc, Entry
<1> QED BY Zenon, <1>1, <1>2, <1>3 DEF Increment

\* The version of an operation is a vector clock over the nodes.
LEMMA VersionType ==
  ASSUME NEW c \in Node, NEW h \in Time
  PROVE  Increment(EmptyClock, c, h) \in VectorClock(Node, Time)
<1>1. h \in Nat
  BY ReplicationAssumption DEF Time
<1>2. [m \in {c} |-> h] \in [{c} -> Time]
  OBVIOUS
<1>3. {c} \in SUBSET Node
  OBVIOUS
<1> QED BY ZenonT(30), <1>1, <1>2, <1>3, VersionIsSingle DEF VectorClock

\* What a replica stores for a write or a delete is a versioned document.
LEMMA RemoteWriteType ==
  ASSUME NEW d \in Docs \cup {NoDoc}, NEW v \in VectorClock(Node, Time), NEW h \in Time
  PROVE  RemoteWrite(d, v, h) \in VersionedDoc
BY Zenon DEF RemoteWrite, HandleWrite, HandleDelete, LiveDoc, Tombstone, VersionedDoc

\* The winner of two versions is one of them: nothing is merged.
LEMMA ResolveTwoChooses ==
  ASSUME NEW a, NEW b
  PROVE  ResolveTwo(a, b) \in {a, b}
BY Zenon DEF ResolveTwo, ResolveConcurrent

-----------------------------------------------------------------------------
(* Types.                                                                  *)

\* What the phase of an operation says about its request, its timestamp and
\* its repair task.  TypeOK is inductive only together with this.
ShapeOf(o) ==
  /\ phase[o] = "idle" => req[o] = NoRequest
  /\ phase[o] # "idle" => req[o] \in Request
  /\ req[o].kind = "write" => req[o].doc # NoDoc
  /\ req[o].kind \in {"delete", "read"} => req[o].doc = NoDoc /\ req[o].ikey = NoKey
  /\ phase[o] \in {"stamp", "broadcast", "hints"} => Mutates(o)
  /\ phase[o] = "read" => req[o].kind = "read"
  /\ phase[o] \in {"broadcast", "hints"} => hlc[o] > 0
  /\ (phase[o] \in {"idle", "stamp"} \/ req[o].kind = "read") => hlc[o] = 0
  /\ repair[o] # {} => best[o] # Absent /\ req[o].kind = "read"
Shape == \A o \in Op : ShapeOf(o)

Inv == TypeOK /\ Shape

\* What most steps need of TypeOK: the domains of the functions they update,
\* and that timestamps are numbers.
LEMMA Domains ==
  ASSUME TypeOK
  PROVE  /\ DOMAIN req = Op /\ DOMAIN phase = Op /\ DOMAIN hlc = Op
         /\ DOMAIN repair = Op /\ DOMAIN best = Op /\ DOMAIN clock = Coordinators
         /\ DOMAIN replica = Node /\ DOMAIN hints = Node /\ DOMAIN todo = Node
         /\ DOMAIN delivered = Node
BY Zenon DEF TypeOK

\* Timestamps are natural numbers.
LEMMA Times ==
  ASSUME TypeOK
  PROVE  /\ \A o \in Op : hlc[o] \in Nat
         /\ \A c \in Coordinators : clock[c] \in Nat
         /\ Time \subseteq Nat
<1>1. hlc \in [Op -> Time] /\ clock \in [Coordinators -> Time]
  BY Zenon DEF TypeOK
<1>2. Time \subseteq Nat
  BY ReplicationAssumption DEF Time
<1> QED BY Zenon, <1>1, <1>2

\* The shape of one operation.
LEMMA ShapeAt ==
  ASSUME Inv, NEW o \in Op
  PROVE  ShapeOf(o)
BY Zenon DEF Inv, Shape

\* hlc is 0 until the clock has ticked for the operation.
LEMMA Unstamped ==
  ASSUME NEW o \in Op, hlc[o] = 0
  PROVE  ~Stamped(o)
BY DEF Stamped

\* A timestamp that has been given out is not 0.
LEMMA StampedPositive ==
  ASSUME TypeOK, NEW o \in Op, Stamped(o)
  PROVE  hlc[o] \in Nat \ {0}
<1>1. hlc[o] \in Nat
  BY Zenon, Times
<1> QED BY <1>1 DEF Stamped

\* An operation with a timestamp has a request.
LEMMA StampedRuns ==
  ASSUME Inv, NEW o \in Op, Stamped(o)
  PROVE  phase[o] # "idle"
BY ShapeAt DEF ShapeOf, Stamped, Mutates, NoRequest

\* The operation's own copy, for an operation that has a request.
LEMMA OpTypes ==
  ASSUME Inv, NEW o \in Op, phase[o] # "idle"
  PROVE  /\ req[o].coord \in Coordinators /\ req[o].coord \in Node
         /\ req[o].doc \in Docs \cup {NoDoc}
         /\ req[o].ikey \in IKeys \cup {NoKey}
         /\ Version(o) \in VectorClock(Node, Time)
         /\ RemoteWrite(req[o].doc, Version(o), hlc[o]) \in VersionedDoc
<1>1. req[o] \in Request /\ hlc[o] \in Time
  BY Zenon DEF Inv, Shape, ShapeOf, TypeOK
<1>2. /\ req[o].coord \in Coordinators /\ req[o].coord \in Node
      /\ req[o].doc \in Docs \cup {NoDoc}
      /\ req[o].ikey \in IKeys \cup {NoKey}
  BY Zenon, <1>1, ReplicationAssumption DEF Request
<1>3. Version(o) \in VectorClock(Node, Time)
  BY Zenon, <1>1, <1>2, VersionType DEF Version
<1> QED BY Zenon, <1>1, <1>2, <1>3, RemoteWriteType

\* A coordinator builds well-formed hints.
LEMMA HintForType ==
  ASSUME Inv, NEW o \in Op, phase[o] # "idle", NEW t \in Owners
  PROVE  HintFor(o, t) \in Hint
<1>1. hlc[o] \in Time
  BY Zenon DEF Inv, TypeOK
<1> QED BY Zenon, <1>1, OpTypes DEF HintFor, Hint, VersionedDoc

\* Storing a versioned document keeps the types of the stores.
LEMMA PutType ==
  ASSUME TypeOK, NEW n \in Node, NEW v \in VersionedDoc, Put(n, v)
  PROVE  /\ replica' \in [Node -> VersionedDoc \cup {Absent}]
         /\ placed' \in [Node -> SUBSET VectorClock(Node, Time)]
         /\ regressed' \in BOOLEAN
<1>1. v.version \in VectorClock(Node, Time)
  BY Zenon DEF VersionedDoc
<1>2. replica' \in [Node -> VersionedDoc \cup {Absent}]
  BY Zenon DEF Put, TypeOK
<1>3. placed' \in [Node -> SUBSET VectorClock(Node, Time)]
  BY Zenon, <1>1 DEF Put, TypeOK
<1>4. regressed' \in BOOLEAN
  BY Zenon DEF Put, TypeOK
<1> QED BY Zenon, <1>2, <1>3, <1>4

\* Storing an acknowledgement keeps the type of the idempotency caches.
LEMMA CacheStoreType ==
  ASSUME Inv, NEW o \in Op, phase[o] \in {"broadcast", "hints"}, CacheStore(o)
  PROVE  idem' \in [Coordinators -> [IKeys -> CacheEntry \cup {Absent}]]
<1>1. CASE req[o].ikey = NoKey
  BY Zenon, <1>1 DEF CacheStore, Inv, TypeOK
<1>2. CASE req[o].ikey # NoKey
  <2>1. req[o].kind = "write" /\ req[o].doc \in Docs
    BY Zenon, <1>2, OpTypes DEF Inv, Shape, ShapeOf, Mutates
  <2>2. [doc |-> req[o].doc, version |-> Version(o)] \in CacheEntry
    BY Zenon, <2>1, OpTypes DEF CacheEntry
  <2>3. req[o].ikey \in IKeys /\ req[o].coord \in Coordinators
    BY Zenon, <1>2, OpTypes
  <2> QED BY Zenon, <1>2, <2>2, <2>3 DEF CacheStore, Inv, TypeOK
<1> QED BY Zenon, <1>1, <1>2

\* An operation whose variables do not change keeps its shape.
LEMMA ShapeElsewhere ==
  ASSUME NEW p \in Op, ShapeOf(p), req'[p] = req[p], phase'[p] = phase[p], hlc'[p] = hlc[p],
         repair'[p] = repair[p], best'[p] = best[p]
  PROVE  ShapeOf(p)'
BY Zenon DEF ShapeOf, Mutates

\* A step that touches no operation keeps the shape of all of them.
LEMMA ShapeKept ==
  ASSUME Shape, UNCHANGED <<req, phase, hlc, repair, best>>
  PROVE  Shape'
BY Zenon, ShapeElsewhere DEF Shape

\* The first step of a client operation: the idempotency lookup of a write, or
\* the start of a delete or of a read.
LEMMA SubmitKeepsTypes ==
  ASSUME Inv, NEW o \in Op, Submit(o)
  PROVE  Inv'
<1> USE DEF Inv
<1>1. ASSUME NEW r \in Request, SubmitWrite(o, r)
      PROVE  Inv'
  <2>1. TypeOK'
    BY Zenon, <1>1, ReplicationAssumption
    DEF SubmitWrite, FreeSlot, CacheLookup, Running, Finished, TypeOK, opVars, nodeVars,
        hintVars, cacheVars, readVars
  <2>2. Shape'
    <3>1. ASSUME NEW p \in Op, p # o
          PROVE  ShapeOf(p)'
      BY Zenon, <1>1, <3>1, Domains, ShapeElsewhere DEF SubmitWrite, Shape
    <3>2. req[o] = NoRequest /\ hlc[o] = 0 /\ repair[o] = {}
      BY <1>1, ShapeAt DEF SubmitWrite, FreeSlot, ShapeOf, NoRequest
    <3>3. /\ req'[o] = r /\ phase'[o] \in {"stamp", "replayed", "conflict"}
          /\ hlc'[o] = 0 /\ repair'[o] = {}
      BY Zenon, <1>1, <3>2, Domains DEF SubmitWrite, CacheLookup
    <3>4. ShapeOf(o)'
      BY Zenon, <1>1, <3>3 DEF SubmitWrite, ShapeOf, Mutates
    <3> QED BY Zenon, <3>1, <3>4 DEF Shape
  <2> QED BY Zenon, <2>1, <2>2
<1>2. ASSUME NEW r \in Request, SubmitDelete(o, r)
      PROVE  Inv'
  <2>1. TypeOK'
    BY Zenon, <1>2, ReplicationAssumption
    DEF SubmitDelete, FreeSlot, Running, Finished, TypeOK, opVars, nodeVars, hintVars,
        cacheVars, readVars
  <2>2. Shape'
    <3>1. ASSUME NEW p \in Op, p # o
          PROVE  ShapeOf(p)'
      BY Zenon, <1>2, <3>1, Domains, ShapeElsewhere DEF SubmitDelete, Shape
    <3>2. req[o] = NoRequest /\ hlc[o] = 0 /\ repair[o] = {}
      BY <1>2, ShapeAt DEF SubmitDelete, FreeSlot, ShapeOf, NoRequest
    <3>3. req'[o] = r /\ phase'[o] = "stamp" /\ hlc'[o] = 0 /\ repair'[o] = {}
      BY Zenon, <1>2, <3>2, Domains DEF SubmitDelete
    <3>4. ShapeOf(o)'
      BY Zenon, <1>2, <3>3 DEF SubmitDelete, ShapeOf, Mutates
    <3> QED BY Zenon, <3>1, <3>4 DEF Shape
  <2> QED BY Zenon, <2>1, <2>2
<1>3. ASSUME NEW r \in Request, SubmitRead(o, r)
      PROVE  Inv'
  <2>1. TypeOK'
    BY Zenon, <1>3, ReplicationAssumption
    DEF SubmitRead, FreeSlot, Running, Finished, TypeOK, opVars, nodeVars, hintVars,
        cacheVars, readVars
  <2>2. Shape'
    <3>1. ASSUME NEW p \in Op, p # o
          PROVE  ShapeOf(p)'
      BY Zenon, <1>3, <3>1, Domains, ShapeElsewhere DEF SubmitRead, Shape
    <3>2. req[o] = NoRequest /\ hlc[o] = 0 /\ repair[o] = {}
      BY <1>3, ShapeAt DEF SubmitRead, FreeSlot, ShapeOf, NoRequest
    <3>3. req'[o] = r /\ phase'[o] = "read" /\ hlc'[o] = 0 /\ repair'[o] = {}
      BY Zenon, <1>3, <3>2, Domains DEF SubmitRead
    <3>4. ShapeOf(o)'
      BY Zenon, <1>3, <3>3 DEF SubmitRead, ShapeOf, Mutates
    <3> QED BY Zenon, <3>1, <3>4 DEF Shape
  <2> QED BY Zenon, <2>1, <2>2
<1> QED BY Zenon, <1>1, <1>2, <1>3 DEF Submit

\* The steps of quorum_write and quorum_delete: the clock, the broadcast, the
\* sloppy hints and the store into the idempotency cache.
LEMMA MutationStepKeepsTypes ==
  ASSUME Inv, NEW o \in Op, MutationStep(o)
  PROVE  Inv'
<1> USE DEF Inv
<1>1. CASE StampAndBroadcast(o)
  <2>1. TypeOK'
    <3>1. hlc' \in [Op -> Time] /\ clock' \in [Coordinators -> Time]
      <4>1. PICK t \in Time : /\ clock' = [clock EXCEPT ![req[o].coord] = t]
                              /\ hlc' = [hlc EXCEPT ![o] = t]
        BY Zenon, <1>1 DEF StampAndBroadcast
      <4>2. hlc \in [Op -> Time] /\ clock \in [Coordinators -> Time]
        BY Zenon DEF TypeOK
      <4> QED BY Zenon, <4>1, <4>2
    <3>2. phase' \in [Op -> {"idle"} \cup Running \cup Finished]
      BY Zenon, <1>1 DEF StampAndBroadcast, Running, TypeOK
    <3>3. rpc' \in [Op -> [Owners -> {"none", "sent", "acked", "failed"}]]
      BY Zenon, <1>1 DEF StampAndBroadcast, TypeOK
    <3>4. UNCHANGED <<req, tried, hinted, responses, best, repair, nodeVars, hintVars,
                      cacheVars, readVars, faults>>
      BY Zenon, <1>1 DEF StampAndBroadcast
    <3> QED BY Zenon, <3>1, <3>2, <3>3, <3>4
            DEF TypeOK, nodeVars, hintVars, cacheVars, readVars
  <2>2. Shape'
    <3>1. ASSUME NEW p \in Op, p # o
          PROVE  ShapeOf(p)'
      BY Zenon, <1>1, <3>1, Domains, ShapeElsewhere DEF StampAndBroadcast, Shape
    <3>2. phase'[o] = "broadcast" /\ hlc'[o] > 0
      <4>1. PICK t \in Time : t > clock[req[o].coord] /\ hlc' = [hlc EXCEPT ![o] = t]
        BY Zenon, <1>1 DEF StampAndBroadcast
      <4>2. phase[o] = "stamp" /\ phase' = [phase EXCEPT ![o] = "broadcast"]
        BY Zenon, <1>1 DEF StampAndBroadcast
      <4>3. req[o].coord \in Coordinators
        BY Zenon, <4>2, OpTypes
      <4>4. t \in Nat /\ clock[req[o].coord] \in Nat
        BY Zenon, <4>3, Times
      <4> QED BY <4>1, <4>2, <4>4, Domains
    <3>3. ShapeOf(o)'
      BY Zenon, <1>1, <3>2, ShapeAt, Domains DEF StampAndBroadcast, ShapeOf, Mutates
    <3> QED BY Zenon, <3>1, <3>3 DEF Shape
  <2> QED BY Zenon, <2>1, <2>2
<1>2. CASE StampFails(o)
  <2>1. TypeOK'
    BY <1>2, ReplicationAssumption
    DEF StampFails, Fault, Running, Finished, TypeOK, opVars, nodeVars, hintVars, cacheVars,
        readVars
  <2>2. Shape'
    <3>1. ASSUME NEW p \in Op, p # o
          PROVE  ShapeOf(p)'
      BY Zenon, <1>2, <3>1, Domains, ShapeElsewhere DEF StampFails, Shape
    <3>2. ShapeOf(o)'
      BY Zenon, <1>2, Domains, ShapeAt DEF StampFails, ShapeOf, Mutates
    <3> QED BY Zenon, <3>1, <3>2 DEF Shape
  <2> QED BY Zenon, <2>1, <2>2
<1>3. ASSUME NEW n \in Owners, WriteRpc(o, n)
      PROVE  Inv'
  <2>1. n \in Node /\ phase[o] # "idle" /\ Put(n, RemoteWrite(req[o].doc, Version(o), hlc[o]))
    BY Zenon, <1>3, ReplicationAssumption DEF WriteRpc
  <2>2. /\ replica' \in [Node -> VersionedDoc \cup {Absent}]
        /\ placed' \in [Node -> SUBSET VectorClock(Node, Time)]
        /\ regressed' \in BOOLEAN
    BY Zenon, <2>1, OpTypes, PutType
  <2>3. TypeOK'
    BY Zenon, <1>3, <2>2, ReplicationAssumption
    DEF WriteRpc, TypeOK, opVars, nodeVars, hintVars, cacheVars, readVars
  <2>4. Shape'
    BY Zenon, <1>3, ShapeKept DEF WriteRpc, opVars
  <2> QED BY Zenon, <2>3, <2>4
<1>4. ASSUME NEW n \in Owners, RpcFails(o, n)
      PROVE  Inv'
  <2>1. TypeOK'
    BY <1>4, ReplicationAssumption
    DEF RpcFails, Fault, TypeOK, opVars, nodeVars, hintVars, cacheVars, readVars
  <2>2. Shape'
    BY Zenon, <1>4, ShapeKept DEF RpcFails, opVars
  <2> QED BY Zenon, <2>1, <2>2
<1>5. ASSUME NEW n \in Owners, AckLost(o, n)
      PROVE  Inv'
  <2>1. n \in Node /\ phase[o] # "idle" /\ Put(n, RemoteWrite(req[o].doc, Version(o), hlc[o]))
    BY Zenon, <1>5, ReplicationAssumption DEF AckLost
  <2>2. /\ replica' \in [Node -> VersionedDoc \cup {Absent}]
        /\ placed' \in [Node -> SUBSET VectorClock(Node, Time)]
        /\ regressed' \in BOOLEAN
    BY Zenon, <2>1, OpTypes, PutType
  <2>3. TypeOK'
    BY <1>5, <2>2, ReplicationAssumption
    DEF AckLost, Fault, TypeOK, opVars, nodeVars, hintVars, cacheVars, readVars
  <2>4. Shape'
    BY Zenon, <1>5, ShapeKept DEF AckLost, opVars
  <2> QED BY Zenon, <2>3, <2>4
<1>6. CASE FinishBroadcast(o)
  <2>1. idem' \in [Coordinators -> [IKeys -> CacheEntry \cup {Absent}]]
    BY Zenon, <1>6, CacheStoreType DEF FinishBroadcast, TypeOK
  <2>2. /\ phase' \in [Op -> {"idle"} \cup Running \cup Finished]
        /\ strict' \subseteq Op
        /\ rpc' \in [Op -> [Owners -> {"none", "sent", "acked", "failed"}]]
    <3>1. CASE Cardinality(Acked(o)) >= W
      <4>1. /\ phase' = [phase EXCEPT ![o] = "ok"]
            /\ strict' = strict \cup {o}
            /\ rpc' = [rpc EXCEPT ![o] = [n \in Owners |-> "none"]]
        BY Zenon, <1>6, <3>1 DEF FinishBroadcast, ClearRpcs
      <4>2. [n \in Owners |-> "none"] \in [Owners -> {"none", "sent", "acked", "failed"}]
        OBVIOUS
      <4> QED BY Zenon, <4>1, <4>2 DEF Running, Finished, TypeOK
    <3>2. CASE ~(Cardinality(Acked(o)) >= W)
      <4>1. phase' = [phase EXCEPT ![o] = "hints"] /\ UNCHANGED <<strict, rpc>>
        BY Zenon, <1>6, <3>2 DEF FinishBroadcast
      <4> QED BY Zenon, <4>1 DEF Running, Finished, TypeOK
    <3> QED BY Zenon, <3>1, <3>2
  <2>3. TypeOK'
    <3>1. UNCHANGED <<req, hlc, tried, hinted, responses, best, repair, clock, nodeVars,
                      hintVars, forgotten, seen, faults>>
      BY Zenon, <1>6 DEF FinishBroadcast
    <3> QED BY Zenon, <2>1, <2>2, <3>1 DEF TypeOK, nodeVars, hintVars
  <2>4. Shape'
    <3>1. ASSUME NEW p \in Op, p # o
          PROVE  ShapeOf(p)'
      BY Zenon, <1>6, <3>1, Domains, ShapeElsewhere DEF FinishBroadcast, Shape
    <3>2. ShapeOf(o)'
      BY Zenon, <1>6, Domains, ShapeAt DEF FinishBroadcast, ShapeOf, Mutates
    <3> QED BY Zenon, <3>1, <3>2 DEF Shape
  <2> QED BY Zenon, <2>3, <2>4
<1>7. ASSUME NEW t \in Owners, NEW f \in Node, StoreHint(o, t, f)
      PROVE  Inv'
  <2>1. HintFor(o, t) \in Hint
    BY Zenon, <1>7, HintForType DEF StoreHint
  <2>2. TypeOK'
    BY <1>7, <2>1, ReplicationAssumption
    DEF StoreHint, NextHint, StoreHintAt, Fallbacks, TypeOK, opVars, nodeVars, hintVars,
        cacheVars, readVars
  <2>3. Shape'
    BY Zenon, <1>7, ShapeKept DEF StoreHint, opVars
  <2> QED BY Zenon, <2>2, <2>3
<1>8. ASSUME NEW t \in Owners, NEW f \in Node, HintRpcFails(o, t, f)
      PROVE  Inv'
  <2>1. TypeOK'
    BY <1>8, ReplicationAssumption
    DEF HintRpcFails, Fault, NextHint, Fallbacks, TypeOK, opVars, nodeVars, hintVars,
        cacheVars, readVars
  <2>2. Shape'
    BY Zenon, <1>8, ShapeKept DEF HintRpcFails, opVars
  <2> QED BY Zenon, <2>1, <2>2
<1>9. ASSUME NEW t \in Owners, NEW f \in Node, HintAckLost(o, t, f)
      PROVE  Inv'
  <2>1. HintFor(o, t) \in Hint
    BY Zenon, <1>9, HintForType DEF HintAckLost
  <2>2. TypeOK'
    BY <1>9, <2>1, ReplicationAssumption
    DEF HintAckLost, Fault, NextHint, StoreHintAt, Fallbacks, TypeOK, opVars, nodeVars,
        hintVars, cacheVars, readVars
  <2>3. Shape'
    BY Zenon, <1>9, ShapeKept DEF HintAckLost, opVars
  <2> QED BY Zenon, <2>2, <2>3
<1>10. CASE FinishHints(o)
  <2>1. idem' \in [Coordinators -> [IKeys -> CacheEntry \cup {Absent}]]
    BY Zenon, <1>10, CacheStoreType DEF FinishHints, TypeOK
  <2>2. TypeOK'
    BY Zenon, <1>10, <2>1, ReplicationAssumption
    DEF FinishHints, ClearRpcs, Running, Finished, TypeOK, opVars, nodeVars, hintVars,
        cacheVars, readVars
  <2>3. Shape'
    <3>1. ASSUME NEW p \in Op, p # o
          PROVE  ShapeOf(p)'
      BY Zenon, <1>10, <3>1, Domains, ShapeElsewhere DEF FinishHints, Shape
    <3>2. ShapeOf(o)'
      BY Zenon, <1>10, Domains, ShapeAt DEF FinishHints, ShapeOf, Mutates
    <3> QED BY Zenon, <3>1, <3>2 DEF Shape
  <2> QED BY Zenon, <2>2, <2>3
<1> QED BY Zenon, <1>1, <1>2, <1>3, <1>4, <1>5, <1>6, <1>7, <1>8, <1>9, <1>10 DEF MutationStep

\* The steps of quorum_read, with its read repair.
LEMMA ReadStepKeepsTypes ==
  ASSUME Inv, NEW o \in Op, ReadStep(o)
  PROVE  Inv'
<1> USE DEF Inv
<1>1. ASSUME NEW n \in Owners, ReadRpc(o, n)
      PROVE  Inv'
  <2>1. /\ n \in Node /\ replica[n] \in VersionedDoc \cup {Absent}
        /\ best[o] \in VersionedDoc \cup {Absent}
    BY Zenon, ReplicationAssumption DEF TypeOK
  <2>2. best' \in [Op -> VersionedDoc \cup {Absent}]
    BY Zenon, <1>1, <2>1, ResolveTwoChooses DEF ReadRpc, TypeOK
  <2>3. TypeOK'
    BY Zenon, <1>1, <2>1, <2>2, ReplicationAssumption
    DEF ReadRpc, TypeOK, opVars, nodeVars, hintVars, cacheVars, readVars
  <2>4. Shape'
    <3>1. ASSUME NEW p \in Op, p # o
          PROVE  ShapeOf(p)'
      BY Zenon, <1>1, <3>1, Domains, ShapeElsewhere DEF ReadRpc, Shape
    <3>2. repair[o] # {} => best'[o] # Absent
      BY <1>1, <2>1, ResolveTwoChooses DEF ReadRpc, TypeOK, Shape, ShapeOf
    <3>3. ShapeOf(o)'
      BY Zenon, <1>1, <3>2 DEF ReadRpc, Shape, ShapeOf, Mutates
    <3> QED BY Zenon, <3>1, <3>3 DEF Shape
  <2> QED BY Zenon, <2>3, <2>4
<1>2. CASE FinishRead(o)
  <2>1. repair' \in [Op -> SUBSET Owners]
    <3>1. Stale(o) \in SUBSET Owners
      BY Zenon DEF Stale, Acked, RpcIn
    <3>2. \/ repair' = repair
          \/ repair' = [repair EXCEPT ![o] = IF best[o] = Absent THEN {} ELSE Stale(o)]
      BY Zenon, <1>2 DEF FinishRead
    <3> QED BY Zenon, <3>1, <3>2 DEF TypeOK
  <2>2. TypeOK'
    BY Zenon, <1>2, <2>1, ReplicationAssumption
    DEF FinishRead, ClearRpcs, Running, Finished, TypeOK, opVars, nodeVars, hintVars,
        cacheVars, readVars
  <2>3. Shape'
    <3>1. ASSUME NEW p \in Op, p # o
          PROVE  ShapeOf(p)'
      BY Zenon, <1>2, <3>1, Domains, ShapeElsewhere DEF FinishRead, Shape
    <3>2. ShapeOf(o)'
      BY Zenon, <1>2, Domains, ShapeAt DEF FinishRead, ShapeOf, Mutates
    <3> QED BY Zenon, <3>1, <3>2 DEF Shape
  <2> QED BY Zenon, <2>2, <2>3
<1>3. ASSUME NEW n \in Owners, RepairWrite(o, n)
      PROVE  Inv'
  <2>1. n \in Node /\ best[o] \in VersionedDoc
    BY Zenon, <1>3, ReplicationAssumption DEF RepairWrite, TypeOK, Shape, ShapeOf
  <2>2. /\ replica' \in [Node -> VersionedDoc \cup {Absent}]
        /\ placed' \in [Node -> SUBSET VectorClock(Node, Time)]
        /\ regressed' \in BOOLEAN
    BY Zenon, <1>3, <2>1, RemoteWriteType, PutType DEF RepairWrite, VersionedDoc
  <2>3. TypeOK'
    BY Zenon, <1>3, <2>2, ReplicationAssumption
    DEF RepairWrite, TypeOK, opVars, nodeVars, hintVars, cacheVars, readVars
  <2>4. Shape'
    <3>1. ASSUME NEW p \in Op, p # o
          PROVE  ShapeOf(p)'
      BY Zenon, <1>3, <3>1, Domains, ShapeElsewhere DEF RepairWrite, Shape
    <3>2. ShapeOf(o)'
      BY Zenon, <1>3, Domains, ShapeAt DEF RepairWrite, ShapeOf, Mutates
    <3> QED BY Zenon, <3>1, <3>2 DEF Shape
  <2> QED BY Zenon, <2>3, <2>4
<1>4. ASSUME NEW n \in Owners, RepairFails(o, n)
      PROVE  Inv'
  <2>1. TypeOK'
    BY <1>4, ReplicationAssumption
    DEF RepairFails, Fault, TypeOK, opVars, nodeVars, hintVars, cacheVars, readVars
  <2>2. Shape'
    <3>1. ASSUME NEW p \in Op, p # o
          PROVE  ShapeOf(p)'
      BY Zenon, <1>4, <3>1, Domains, ShapeElsewhere DEF RepairFails, Shape
    <3>2. ShapeOf(o)'
      BY Zenon, <1>4, Domains, ShapeAt DEF RepairFails, ShapeOf, Mutates
    <3> QED BY Zenon, <3>1, <3>2 DEF Shape
  <2> QED BY Zenon, <2>1, <2>2
<1>5. CASE Retire(o)
  <2>1. TypeOK'
    BY Zenon, <1>5, ReplicationAssumption
    DEF Retire, NoRequest, Finished, TypeOK, opVars, nodeVars, hintVars, cacheVars, readVars
  <2>2. Shape'
    <3>1. ASSUME NEW p \in Op, p # o
          PROVE  ShapeOf(p)'
      BY Zenon, <1>5, <3>1, Domains, ShapeElsewhere DEF Retire, Shape
    <3>2. ShapeOf(o)'
      BY Zenon, <1>5, Domains, ShapeAt DEF Retire, ShapeOf, Mutates, Finished, NoRequest
    <3> QED BY Zenon, <3>1, <3>2 DEF Shape
  <2> QED BY Zenon, <2>1, <2>2
<1> QED BY Zenon, <1>1, <1>2, <1>3, <1>4, <1>5 DEF ReadStep

\* A client that goes away drops the future of its operation.
LEMMA CancelKeepsTypes ==
  ASSUME Inv, NEW o \in Op, Cancel(o)
  PROVE  Inv'
<1> USE DEF Inv
<1>1. TypeOK'
  BY ReplicationAssumption
  DEF Cancel, Fault, ClearRpcs, Running, Finished, TypeOK, opVars, nodeVars, hintVars,
      cacheVars, readVars
<1>2. Shape'
  <2>1. ASSUME NEW p \in Op, p # o
        PROVE  ShapeOf(p)'
    BY Zenon, <2>1, Domains, ShapeElsewhere DEF Cancel, Shape
  <2>2. ShapeOf(o)'
    BY Zenon, Domains, ShapeAt DEF Cancel, ShapeOf, Mutates, Running
  <2> QED BY Zenon, <2>1, <2>2 DEF Shape
<1> QED BY Zenon, <1>1, <1>2

\* The steps of a delivery pass of hinted handoff.
LEMMA HintStepKeepsTypes ==
  ASSUME Inv, NEW n \in Node, HintStep(n)
  PROVE  Inv'
<1> USE DEF Inv
<1>1. CASE StartPass(n)
  <2>1. TypeOK'
    BY Zenon, <1>1, ReplicationAssumption
    DEF StartPass, TypeOK, opVars, nodeVars, hintVars, cacheVars, readVars
  <2>2. Shape'
    BY Zenon, <1>1, ShapeKept DEF StartPass, opVars
  <2> QED BY Zenon, <2>1, <2>2
<1>2. CASE PassFails(n)
  <2>1. TypeOK'
    BY <1>2, ReplicationAssumption
    DEF PassFails, Fault, TypeOK, opVars, nodeVars, hintVars, cacheVars, readVars
  <2>2. Shape'
    BY Zenon, <1>2, ShapeKept DEF PassFails, opVars
  <2> QED BY Zenon, <2>1, <2>2
<1>3. ASSUME NEW h \in todo[n], DeliverHint(n, h)
      PROVE  Inv'
  <2>1. h.target \in Node /\ h.versioned \in VersionedDoc
    BY <1>3, ReplicationAssumption DEF TypeOK, Hint
  <2>2. /\ replica' \in [Node -> VersionedDoc \cup {Absent}]
        /\ placed' \in [Node -> SUBSET VectorClock(Node, Time)]
        /\ regressed' \in BOOLEAN
    BY Zenon, <1>3, <2>1, RemoteWriteType, PutType DEF DeliverHint, VersionedDoc
  <2>3. TypeOK'
    <3>1. delivered' \in [Node -> SUBSET Hint]
      BY <1>3 DEF DeliverHint, TypeOK
    <3>2. UNCHANGED <<opVars, clock, hints, todo, expired, cacheVars, readVars, faults>>
      BY Zenon, <1>3 DEF DeliverHint
    <3> QED BY Zenon, <2>2, <3>1, <3>2 DEF TypeOK, opVars, cacheVars, readVars
  <2>4. Shape'
    BY Zenon, <1>3, ShapeKept DEF DeliverHint, opVars
  <2> QED BY Zenon, <2>3, <2>4
<1>4. ASSUME NEW h \in delivered[n], RemoveDelivered(n, h)
      PROVE  Inv'
  <2>1. TypeOK'
    BY Zenon, <1>4, ReplicationAssumption
    DEF RemoveDelivered, DeleteHint, TypeOK, opVars, nodeVars, hintVars, cacheVars, readVars
  <2>2. Shape'
    BY Zenon, <1>4, ShapeKept DEF RemoveDelivered, opVars
  <2> QED BY Zenon, <2>1, <2>2
<1>5. ASSUME NEW h \in todo[n], DeliveryFails(n, h)
      PROVE  Inv'
  <2>1. TypeOK'
    BY <1>5, ReplicationAssumption
    DEF DeliveryFails, Fault, TypeOK, opVars, nodeVars, hintVars, cacheVars, readVars
  <2>2. Shape'
    BY Zenon, <1>5, ShapeKept DEF DeliveryFails, opVars
  <2> QED BY Zenon, <2>1, <2>2
<1>6. ASSUME NEW h \in todo[n], DeliveryAckLost(n, h)
      PROVE  Inv'
  <2>1. h.target \in Node /\ h.versioned \in VersionedDoc
    BY <1>6, ReplicationAssumption DEF TypeOK, Hint
  <2>2. /\ replica' \in [Node -> VersionedDoc \cup {Absent}]
        /\ placed' \in [Node -> SUBSET VectorClock(Node, Time)]
        /\ regressed' \in BOOLEAN
    BY Zenon, <1>6, <2>1, RemoteWriteType, PutType DEF DeliveryAckLost, VersionedDoc
  <2>3. TypeOK'
    <3>1. todo' \in [Node -> SUBSET Hint]
      BY Zenon, <1>6 DEF DeliveryAckLost, TypeOK
    <3>2. faults' \in 0 .. MaxFaults
      BY <1>6, ReplicationAssumption DEF DeliveryAckLost, Fault, TypeOK
    <3>3. UNCHANGED <<opVars, clock, hints, delivered, expired, cacheVars, readVars>>
      BY Zenon, <1>6 DEF DeliveryAckLost
    <3> QED BY Zenon, <2>2, <3>1, <3>2, <3>3 DEF TypeOK, opVars, cacheVars, readVars
  <2>4. Shape'
    BY Zenon, <1>6, ShapeKept DEF DeliveryAckLost, opVars
  <2> QED BY Zenon, <2>3, <2>4
<1>7. ASSUME NEW h \in todo[n], DiscardExpired(n, h)
      PROVE  Inv'
  <2>1. TypeOK'
    BY <1>7, ReplicationAssumption
    DEF DiscardExpired, Fault, DeleteHint, TypeOK, opVars, nodeVars, hintVars, cacheVars,
        readVars
  <2>2. Shape'
    BY Zenon, <1>7, ShapeKept DEF DiscardExpired, opVars
  <2> QED BY Zenon, <2>1, <2>2
<1> QED BY Zenon, <1>1, <1>2, <1>3, <1>4, <1>5, <1>6, <1>7 DEF HintStep

\* A restart ends the operations of a node and empties its caches.
LEMMA RestartKeepsTypes ==
  ASSUME Inv, NEW n \in Node, Restart(n)
  PROVE  Inv'
<1> USE DEF Inv
<1>1. TypeOK'
  <2>1. phase' \in [Op -> {"idle"} \cup Running \cup Finished]
    BY Zenon DEF Restart, Finished, TypeOK
  <2>2. /\ rpc' \in [Op -> [Owners -> {"none", "sent", "acked", "failed"}]]
        /\ tried' \in [Op -> SUBSET (Owners \X Fallbacks)]
    BY Zenon DEF Restart, TypeOK
  <2>3. /\ responses' \in [Op -> [Owners -> VersionedDoc \cup {Absent}]]
        /\ repair' \in [Op -> SUBSET Owners]
    BY Zenon DEF Restart, TypeOK
  <2>4. idem' \in [Coordinators -> [IKeys -> CacheEntry \cup {Absent}]]
    BY Zenon DEF Restart, TypeOK
  <2>5. forgotten' \subseteq Op
    BY Zenon DEF Restart, AckedAt, TypeOK
  <2>6. todo' \in [Node -> SUBSET Hint] /\ delivered' \in [Node -> SUBSET Hint]
    BY Zenon DEF Restart, TypeOK
  <2>7. faults' \in 0 .. MaxFaults
    BY ReplicationAssumption DEF Restart, Fault, TypeOK
  <2>8. UNCHANGED <<req, hlc, hinted, best, clock, nodeVars, hints, expired, readVars>>
    BY Zenon DEF Restart
  <2> QED BY Zenon, <2>1, <2>2, <2>3, <2>4, <2>5, <2>6, <2>7, <2>8
          DEF TypeOK, nodeVars, readVars
<1>2. Shape'
  <2>1. ASSUME NEW o \in Op
        PROVE  ShapeOf(o)'
    <3>1. /\ req'[o] = req[o] /\ hlc'[o] = hlc[o] /\ best'[o] = best[o]
          /\ repair'[o] \in {{}, repair[o]}
          /\ phase'[o] = phase[o] \/ (phase[o] \in Running /\ phase'[o] = "lost")
      BY Zenon DEF Restart, RunningAt
    <3>2. ShapeOf(o)
      BY Zenon, ShapeAt
    <3> QED BY Zenon, <3>1, <3>2 DEF ShapeOf, Mutates, Running
  <2> QED BY Zenon, <2>1 DEF Shape
<1> QED BY Zenon, <1>1, <1>2

\* Every step of Next keeps the types and the shape of operations.
LEMMA NextKeepsTypes == Inv /\ [Next]_vars => Inv'
<1> SUFFICES ASSUME Inv, [Next]_vars
             PROVE  Inv'
  OBVIOUS
<1>1. ASSUME NEW c \in Coordinators, NEW k \in IKeys, EvictExpired(c, k)
      PROVE  Inv'
  <2> USE DEF Inv
  <2>1. TypeOK'
    <3>1. idem' \in [Coordinators -> [IKeys -> CacheEntry \cup {Absent}]]
      BY Zenon, <1>1 DEF EvictExpired, TypeOK
    <3>2. forgotten' \subseteq Op
      BY Zenon, <1>1 DEF EvictExpired, AckedAt, TypeOK
    <3>3. faults' \in 0 .. MaxFaults
      BY <1>1, ReplicationAssumption DEF EvictExpired, Fault, TypeOK
    <3> QED BY Zenon, <1>1, <3>1, <3>2, <3>3
            DEF EvictExpired, TypeOK, opVars, nodeVars, hintVars, cacheVars, readVars
  <2>2. Shape'
    BY Zenon, <1>1, ShapeKept DEF EvictExpired, opVars
  <2> QED BY Zenon, <2>1, <2>2
<1>2. CASE UNCHANGED vars
  BY Zenon, <1>2
  DEF Inv, vars, TypeOK, Shape, ShapeOf, Mutates, opVars, nodeVars, hintVars, cacheVars, readVars
<1> QED BY Zenon, <1>1, <1>2, SubmitKeepsTypes, MutationStepKeepsTypes, ReadStepKeepsTypes,
           CancelKeepsTypes, HintStepKeepsTypes, RestartKeepsTypes DEF Next

\* An empty cluster with idle operations satisfies the invariant.
LEMMA InitTypes == Init => Inv
<1> SUFFICES ASSUME Init
             PROVE  Inv
  OBVIOUS
<1>1. TypeOK
  <2>1. 0 \in Time /\ 0 \in 0 .. MaxFaults
    BY ReplicationAssumption DEF Time
  <2>2. /\ req \in [Op -> Request \cup {NoRequest}]
        /\ phase \in [Op -> {"idle"} \cup Running \cup Finished]
        /\ hlc \in [Op -> Time]
        /\ rpc \in [Op -> [Owners -> {"none", "sent", "acked", "failed"}]]
        /\ tried \in [Op -> SUBSET (Owners \X Fallbacks)]
        /\ hinted \in [Op -> SUBSET (Owners \X Fallbacks)]
    BY Zenon, <2>1 DEF Init
  <2>3. /\ responses \in [Op -> [Owners -> VersionedDoc \cup {Absent}]]
        /\ best \in [Op -> VersionedDoc \cup {Absent}]
        /\ repair \in [Op -> SUBSET Owners]
        /\ clock \in [Coordinators -> Time]
        /\ idem \in [Coordinators -> [IKeys -> CacheEntry \cup {Absent}]]
        /\ seen \in [Op -> SUBSET Op]
    BY Zenon, <2>1 DEF Init
  <2>4. /\ replica \in [Node -> VersionedDoc \cup {Absent}]
        /\ hints \in [Node -> SUBSET Hint]
        /\ todo \in [Node -> SUBSET Hint]
        /\ delivered \in [Node -> SUBSET Hint]
        /\ placed \in [Node -> SUBSET VectorClock(Node, Time)]
        /\ expired \in [Node -> SUBSET Hint]
    BY Zenon DEF Init
  <2>5. forgotten \subseteq Op /\ strict \subseteq Op /\ faults \in 0 .. MaxFaults
    BY Zenon, <2>1 DEF Init
  <2>6. regressed \in BOOLEAN
    BY Zenon DEF Init
  <2> QED BY Zenon, <2>2, <2>3, <2>4, <2>5, <2>6 DEF TypeOK
<1>2. Shape
  BY Zenon DEF Init, Shape, ShapeOf, NoRequest, Mutates
<1> QED BY Zenon, <1>1, <1>2 DEF Inv

\* Operations, replicas, hints and caches keep their types in every behaviour:
\* in particular every hint is addressed to an owner, read repair only writes
\* owners, and hints are only asked of nodes that are not owners.
THEOREM TypeCorrect == Spec => []TypeOK
<1>1. Spec => []Inv
  BY InitTypes, NextKeepsTypes, PTL DEF Spec
<1>2. Inv => TypeOK
  BY Zenon DEF Inv
<1> QED BY <1>1, <1>2, PTL

-----------------------------------------------------------------------------
(* Copies and their operations.                                            *)

\* An operation that has its timestamp keeps its request and its timestamp.
Kept == \A o \in Op : Stamped(o) => req'[o] = req[o] /\ hlc'[o] = hlc[o]

\* A copy of an operation is its copy after any step that keeps the stamped
\* operations.
LEMMA WrittenStays ==
  ASSUME Kept, NEW v, IsWritten(v)
  PROVE  \E o \in Op : Stamped(o)' /\ v = CopyOf(o)'
<1>1. PICK o \in Op : Stamped(o) /\ v = CopyOf(o)
  BY Zenon DEF IsWritten
<1>2. req'[o] = req[o] /\ hlc'[o] = hlc[o]
  BY Zenon, <1>1 DEF Kept
<1>3. Stamped(o)' /\ CopyOf(o)' = CopyOf(o)
  BY Zenon, <1>1, <1>2 DEF Stamped, Mutates, CopyOf, Version
<1> QED BY Zenon, <1>1, <1>3

\* CopiesIntact survives a step whose every copy was there before or is the
\* copy of an operation.
LEMMA CopiesFrom ==
  ASSUME CopiesIntact, Kept,
         \A n \in Node : replica'[n] = replica[n] \/ IsWritten(replica'[n]),
         \A n \in Node : \A h \in hints'[n] \cup todo'[n] \cup delivered'[n] :
            h \in hints[n] \cup todo[n] \cup delivered[n] \/ IsWritten(h.versioned),
         \A o \in Op : best'[o] \in {best[o], Absent} \/ IsWritten(best'[o])
  PROVE  CopiesIntact'
<1>1. ASSUME NEW n \in Node, replica'[n] # Absent
      PROVE  IsWritten(replica'[n])
  BY Zenon, <1>1 DEF CopiesIntact
<1>2. ASSUME NEW n \in Node, NEW h \in hints'[n] \cup todo'[n] \cup delivered'[n]
      PROVE  IsWritten(h.versioned)
  BY Zenon, <1>2 DEF CopiesIntact
<1>3. ASSUME NEW o \in Op, best'[o] # Absent
      PROVE  IsWritten(best'[o])
  BY Zenon, <1>3 DEF CopiesIntact
<1>4. \A n \in Node : replica'[n] # Absent =>
        \E o \in Op : Stamped(o)' /\ replica'[n] = CopyOf(o)'
  BY Zenon, <1>1, WrittenStays
<1>5. \A n \in Node : \A h \in hints'[n] \cup todo'[n] \cup delivered'[n] :
        \E o \in Op : Stamped(o)' /\ h.versioned = CopyOf(o)'
  BY Zenon, <1>2, WrittenStays
<1>6. \A p \in Op : best'[p] # Absent =>
        \E o \in Op : Stamped(o)' /\ best'[p] = CopyOf(o)'
  BY Zenon, <1>3, WrittenStays
<1> QED BY Zenon, <1>4, <1>5, <1>6 DEF CopiesIntact, IsWritten

\* What the broadcast of an operation makes an owner store, and what its
\* hints carry, is its copy.
LEMMA OwnCopy ==
  ASSUME Inv, NEW o \in Op, phase[o] \in {"broadcast", "hints"}, NEW t
  PROVE  /\ IsWritten(RemoteWrite(req[o].doc, Version(o), hlc[o]))
         /\ IsWritten(HintFor(o, t).versioned)
<1>1. Mutates(o) /\ hlc[o] > 0
  BY Zenon DEF Inv, Shape, ShapeOf
<1>2. (req[o].kind = "delete") = (req[o].doc = NoDoc)
  BY Zenon, <1>1 DEF Inv, Shape, ShapeOf, Mutates
<1>3. RemoteWrite(req[o].doc, Version(o), hlc[o]) = CopyOf(o)
  <2>1. CASE req[o].doc = NoDoc
    BY Zenon, <1>2, <2>1 DEF RemoteWrite, HandleDelete, Tombstone, CopyOf
  <2>2. CASE req[o].doc # NoDoc
    BY Zenon, <1>2, <2>2 DEF RemoteWrite, HandleWrite, LiveDoc, CopyOf
  <2> QED BY Zenon, <2>1, <2>2
<1>4. HintFor(o, t).versioned = CopyOf(o)
  BY Zenon, <1>2 DEF HintFor, CopyOf
<1> QED BY Zenon, <1>1, <1>3, <1>4 DEF IsWritten, Stamped

\* Sending a copy on (read repair, handoff) does not change it: the transport
\* tells a tombstone from a document as the first write did.
LEMMA ForwardedCopy ==
  ASSUME Inv, NEW v, IsWritten(v)
  PROVE  RemoteWrite(v.document, v.version, v.hlc) = v
<1>1. PICK o \in Op : Stamped(o) /\ v = CopyOf(o)
  BY Zenon DEF IsWritten
<1>2. (req[o].kind = "delete") = (req[o].doc = NoDoc)
  BY Zenon, <1>1 DEF Inv, Shape, ShapeOf, Stamped, Mutates
<1>3. /\ v.document = req[o].doc /\ v.version = Version(o) /\ v.hlc = hlc[o]
  BY Zenon, <1>1 DEF CopyOf
<1>4. CASE req[o].doc = NoDoc
  BY Zenon, <1>1, <1>2, <1>3, <1>4 DEF RemoteWrite, HandleDelete, Tombstone, CopyOf
<1>5. CASE req[o].doc # NoDoc
  BY Zenon, <1>1, <1>2, <1>3, <1>5 DEF RemoteWrite, HandleWrite, LiveDoc, CopyOf
<1> QED BY Zenon, <1>4, <1>5

\* A node that stores a copy of an operation adds no other.
LEMMA PutCopy ==
  ASSUME TypeOK, NEW n \in Node, NEW v, IsWritten(v), Put(n, v)
  PROVE  \A m \in Node : replica'[m] = replica[m] \/ IsWritten(replica'[m])
BY Zenon, Domains DEF Put

\* The steps that change a request or a timestamp: the first ones of an
\* operation and the end of a read.  No other step does.
StampStep ==
  \E o \in Op : \/ Submit(o) \/ StampAndBroadcast(o) \/ Retire(o)

\* Any other step leaves requests, timestamps and clocks alone.
LEMMA StampsOnlyThere ==
  ASSUME [Next]_vars
  PROVE  StampStep \/ UNCHANGED <<req, hlc, clock>>
<1>1. ASSUME NEW o \in Op, StampFails(o)
      PROVE  UNCHANGED <<req, hlc, clock>>
  BY Zenon, <1>1 DEF StampFails
<1>2. ASSUME NEW o \in Op, NEW n \in Owners, WriteRpc(o, n)
      PROVE  UNCHANGED <<req, hlc, clock>>
  BY Zenon, <1>2 DEF WriteRpc
<1>3. ASSUME NEW o \in Op, NEW n \in Owners, RpcFails(o, n)
      PROVE  UNCHANGED <<req, hlc, clock>>
  BY Zenon, <1>3 DEF RpcFails
<1>4. ASSUME NEW o \in Op, NEW n \in Owners, AckLost(o, n)
      PROVE  UNCHANGED <<req, hlc, clock>>
  BY Zenon, <1>4 DEF AckLost
<1>5. ASSUME NEW o \in Op, FinishBroadcast(o)
      PROVE  UNCHANGED <<req, hlc, clock>>
  BY Zenon, <1>5 DEF FinishBroadcast
<1>6. ASSUME NEW o \in Op, NEW t \in Owners, NEW f \in Node, StoreHint(o, t, f)
      PROVE  UNCHANGED <<req, hlc, clock>>
  BY Zenon, <1>6 DEF StoreHint
<1>7. ASSUME NEW o \in Op, NEW t \in Owners, NEW f \in Node, HintRpcFails(o, t, f)
      PROVE  UNCHANGED <<req, hlc, clock>>
  BY Zenon, <1>7 DEF HintRpcFails
<1>8. ASSUME NEW o \in Op, NEW t \in Owners, NEW f \in Node, HintAckLost(o, t, f)
      PROVE  UNCHANGED <<req, hlc, clock>>
  BY Zenon, <1>8 DEF HintAckLost
<1>9. ASSUME NEW o \in Op, FinishHints(o)
      PROVE  UNCHANGED <<req, hlc, clock>>
  BY Zenon, <1>9 DEF FinishHints
<1>10. ASSUME NEW o \in Op, NEW n \in Owners, ReadRpc(o, n)
      PROVE  UNCHANGED <<req, hlc, clock>>
  BY Zenon, <1>10 DEF ReadRpc
<1>11. ASSUME NEW o \in Op, FinishRead(o)
      PROVE  UNCHANGED <<req, hlc, clock>>
  BY Zenon, <1>11 DEF FinishRead
<1>12. ASSUME NEW o \in Op, NEW n \in Owners, RepairWrite(o, n)
      PROVE  UNCHANGED <<req, hlc, clock>>
  BY Zenon, <1>12 DEF RepairWrite
<1>13. ASSUME NEW o \in Op, NEW n \in Owners, RepairFails(o, n)
      PROVE  UNCHANGED <<req, hlc, clock>>
  BY Zenon, <1>13 DEF RepairFails
<1>14. ASSUME NEW o \in Op, Cancel(o)
      PROVE  UNCHANGED <<req, hlc, clock>>
  BY Zenon, <1>14 DEF Cancel
<1>15. ASSUME NEW n \in Node, HintStep(n) \/ Restart(n)
      PROVE  UNCHANGED <<req, hlc, clock>>
  BY Zenon, <1>15 DEF HintStep, StartPass, PassFails, DeliverHint, DeliveryFails, DeliveryAckLost,
    DiscardExpired, RemoveDelivered, Restart, opVars
<1>16. ASSUME NEW c \in Coordinators, NEW k \in IKeys, EvictExpired(c, k)
      PROVE  UNCHANGED <<req, hlc, clock>>
  BY Zenon, <1>16 DEF EvictExpired, opVars
<1>17. CASE UNCHANGED vars
  BY Zenon, <1>17 DEF vars, opVars
<1> QED BY Zenon, <1>1, <1>2, <1>3, <1>4, <1>5, <1>6, <1>7, <1>8, <1>9,
    <1>10, <1>11, <1>12, <1>13, <1>14, <1>15, <1>16, <1>17
    DEF Next, MutationStep, ReadStep, StampStep

\* No step changes the request or the timestamp of a stamped operation.
LEMMA KeptByNext ==
  ASSUME Inv, [Next]_vars
  PROVE  Kept
<1>1. CASE UNCHANGED <<req, hlc, clock>>
  BY Zenon, <1>1 DEF Kept
<1>2. ASSUME NEW o \in Op, Submit(o)
      PROVE  Kept
  <2>1. ~Stamped(o)
    BY Zenon, <1>2, StampedRuns DEF Submit, SubmitWrite, SubmitDelete, SubmitRead, FreeSlot
  <2>2. /\ hlc' = hlc
        /\ \E r \in Request : req' = [req EXCEPT ![o] = r]
    BY Zenon, <1>2 DEF Submit, SubmitWrite, SubmitDelete, SubmitRead
  <2> QED BY Zenon, <2>1, <2>2, Domains DEF Kept, Inv
<1>3. ASSUME NEW o \in Op, StampAndBroadcast(o)
      PROVE  Kept
  <2>1. ~Stamped(o)
    <3>1. phase[o] = "stamp"
      BY Zenon, <1>3 DEF StampAndBroadcast
    <3>2. hlc[o] = 0
      BY Zenon, <3>1, ShapeAt DEF ShapeOf
    <3> QED BY Zenon, <3>2, Unstamped
  <2>2. /\ req' = req
        /\ \E t \in Time : hlc' = [hlc EXCEPT ![o] = t]
    BY Zenon, <1>3 DEF StampAndBroadcast
  <2> QED BY Zenon, <2>1, <2>2, Domains DEF Kept, Inv
<1>4. ASSUME NEW o \in Op, Retire(o)
      PROVE  Kept
  <2>1. ~Stamped(o)
    BY Zenon, <1>4 DEF Retire, Stamped, Mutates
  <2>2. hlc' = hlc /\ req' = [req EXCEPT ![o] = NoRequest]
    BY Zenon, <1>4 DEF Retire
  <2> QED BY Zenon, <2>1, <2>2, Domains DEF Kept, Inv
<1> QED BY Zenon, <1>1, <1>2, <1>3, <1>4, StampsOnlyThere DEF StampStep

\* Hinted handoff forwards the copies it holds, and a restart only drops some.
LEMMA HintsKeepCopies ==
  ASSUME Inv, CopiesIntact, Kept, NEW n \in Node, HintStep(n) \/ Restart(n)
  PROVE  CopiesIntact'
<1> USE DEF Inv
<1>1. ASSUME NEW h \in todo[n], DeliverHint(n, h) \/ DeliveryAckLost(n, h)
       PROVE  CopiesIntact'
  <2>1. /\ Put(h.target, RemoteWrite(h.versioned.document, h.versioned.version, h.versioned.hlc))
        /\ UNCHANGED <<hints, best>>
    BY Zenon, <1>1 DEF DeliverHint, DeliveryAckLost, opVars
  <2>2. IsWritten(h.versioned)
    BY Zenon DEF CopiesIntact
  <2>3. Put(h.target, h.versioned)
    BY Zenon, <2>1, <2>2, ForwardedCopy
  <2>4. h.target \in Node
    BY ReplicationAssumption DEF TypeOK, Hint
  <2>5. \A m \in Node : replica'[m] = replica[m] \/ IsWritten(replica'[m])
    BY Zenon, <2>2, <2>3, <2>4, PutCopy
  <2>6. \A m \in Node : \A g \in hints'[m] \cup todo'[m] \cup delivered'[m] :
           g \in hints[m] \cup todo[m] \cup delivered[m]
    <3>1. CASE DeliverHint(n, h)
      <4>1. todo' = todo /\ delivered' = [delivered EXCEPT ![n] = {h}]
        BY Zenon, <3>1 DEF DeliverHint
      <4>2. \A m \in Node : delivered'[m] \subseteq delivered[m] \cup todo[m]
        BY Zenon, <4>1, Domains
      <4> QED BY Zenon, <2>1, <4>1, <4>2
    <3>2. CASE DeliveryAckLost(n, h)
      <4>1. delivered' = delivered /\ todo' = [todo EXCEPT ![n] = @ \ {h}]
        BY Zenon, <3>2 DEF DeliveryAckLost
      <4>2. \A m \in Node : todo'[m] \subseteq todo[m]
        BY Zenon, <4>1, Domains
      <4> QED BY Zenon, <2>1, <4>1, <4>2
    <3> QED BY Zenon, <1>1, <3>1, <3>2
  <2> QED BY Zenon, <2>1, <2>5, <2>6, CopiesFrom
<1>2. ASSUME NEW h,
              DeliveryFails(n, h) \/ DiscardExpired(n, h) \/ RemoveDelivered(n, h)
       PROVE  CopiesIntact'
  <2>1. UNCHANGED <<replica, best>>
    BY Zenon, <1>2 DEF DeliveryFails, DiscardExpired, RemoveDelivered, opVars, nodeVars
  <2>2. \A m \in Node : todo'[m] \subseteq todo[m]
    BY Zenon, <1>2, Domains DEF DeliveryFails, DiscardExpired, RemoveDelivered, hintVars
  <2>3. \A m \in Node : hints'[m] \subseteq hints[m]
    BY <1>2, Domains DEF DeliveryFails, DiscardExpired, RemoveDelivered, DeleteHint
  <2>4. \A m \in Node : delivered'[m] \subseteq delivered[m]
    BY Zenon, <1>2, Domains DEF DeliveryFails, DiscardExpired, RemoveDelivered, hintVars
  <2>5. \A m \in Node : \A g \in hints'[m] \cup todo'[m] \cup delivered'[m] :
           g \in hints[m] \cup todo[m] \cup delivered[m]
    BY Zenon, <2>2, <2>3, <2>4
  <2> QED BY Zenon, <2>1, <2>5, CopiesFrom
<1>3. CASE StartPass(n) \/ PassFails(n) \/ Restart(n)
  <2>1. UNCHANGED <<replica, best, hints>>
    BY Zenon, <1>3 DEF StartPass, PassFails, Restart, opVars, nodeVars
  <2>2. \A m \in Node : todo'[m] \subseteq todo[m] \cup hints[m]
    BY Zenon, <1>3, Domains DEF StartPass, PassFails, Restart, hintVars
  <2>3. \A m \in Node : delivered'[m] \subseteq delivered[m]
    BY Zenon, <1>3, Domains DEF StartPass, PassFails, Restart, hintVars
  <2>4. \A m \in Node : \A g \in hints'[m] \cup todo'[m] \cup delivered'[m] :
           g \in hints[m] \cup todo[m] \cup delivered[m]
    BY Zenon, <2>1, <2>2, <2>3
  <2> QED BY Zenon, <2>1, <2>4, CopiesFrom
<1> QED BY Zenon, <1>1, <1>2, <1>3 DEF HintStep

\* Every step of Next keeps CopiesIntact.
LEMMA NextKeepsCopies == Inv /\ CopiesIntact /\ [Next]_vars => CopiesIntact'
<1> SUFFICES ASSUME Inv, CopiesIntact, [Next]_vars
             PROVE  CopiesIntact'
  OBVIOUS
<1> USE DEF Inv
<1>a. Kept
  BY Zenon, KeptByNext
<1>b. ASSUME UNCHANGED <<replica, hints, todo, delivered, best>>
      PROVE  CopiesIntact'
  BY Zenon, <1>a, <1>b, CopiesFrom
<1>1. ASSUME NEW o \in Op, Submit(o)
      PROVE  CopiesIntact'
  BY Zenon, <1>1, <1>b DEF Submit, SubmitWrite, SubmitDelete, SubmitRead, nodeVars, hintVars
<1>2. ASSUME NEW o \in Op, StampAndBroadcast(o) \/ StampFails(o)
      PROVE  CopiesIntact'
  BY Zenon, <1>2, <1>b DEF StampAndBroadcast, StampFails, nodeVars, hintVars
<1>3. ASSUME NEW o \in Op, FinishBroadcast(o)
      PROVE  CopiesIntact'
  BY Zenon, <1>3, <1>b DEF FinishBroadcast, nodeVars, hintVars
<1>4. ASSUME NEW o \in Op, FinishHints(o)
      PROVE  CopiesIntact'
  BY Zenon, <1>4, <1>b DEF FinishHints, nodeVars, hintVars
<1>5. ASSUME NEW o \in Op, FinishRead(o) \/ Cancel(o)
      PROVE  CopiesIntact'
  BY Zenon, <1>5, <1>b DEF FinishRead, Cancel, nodeVars, hintVars
<1>6. ASSUME NEW o \in Op, NEW n \in Owners, RpcFails(o, n) \/ RepairFails(o, n)
      PROVE  CopiesIntact'
  BY Zenon, <1>6, <1>b DEF RpcFails, RepairFails, nodeVars, hintVars
<1>7. ASSUME NEW o \in Op, NEW t \in Owners, NEW f \in Node, HintRpcFails(o, t, f)
      PROVE  CopiesIntact'
  BY Zenon, <1>7, <1>b DEF HintRpcFails, nodeVars, hintVars
<1>8. ASSUME NEW c \in Coordinators, NEW k \in IKeys, EvictExpired(c, k)
      PROVE  CopiesIntact'
  BY Zenon, <1>8, <1>b DEF EvictExpired, opVars, nodeVars, hintVars
<1>9. ASSUME NEW o \in Op, NEW n \in Owners, WriteRpc(o, n) \/ AckLost(o, n)
      PROVE  CopiesIntact'
  <2>1. /\ phase[o] = "broadcast" /\ Put(n, RemoteWrite(req[o].doc, Version(o), hlc[o]))
        /\ UNCHANGED <<hints, todo, delivered, best>>
    BY Zenon, <1>9 DEF WriteRpc, AckLost, hintVars
  <2>2. \A m \in Node : replica'[m] = replica[m] \/ IsWritten(replica'[m])
    BY Zenon, <2>1, OwnCopy, PutCopy, ReplicationAssumption
  <2> QED BY Zenon, <1>a, <2>1, <2>2, CopiesFrom
<1>10. ASSUME NEW o \in Op, NEW t \in Owners, NEW f \in Node,
              StoreHint(o, t, f) \/ HintAckLost(o, t, f)
       PROVE  CopiesIntact'
  <2>1. /\ phase[o] = "hints" /\ StoreHintAt(f, HintFor(o, t))
        /\ UNCHANGED <<replica, todo, delivered, best>>
    BY Zenon, <1>10 DEF StoreHint, HintAckLost, nodeVars
  <2>2. \A n \in Node : hints'[n] \subseteq hints[n] \cup {HintFor(o, t)}
    BY Zenon, <2>1, Domains DEF StoreHintAt
  <2>3. IsWritten(HintFor(o, t).versioned)
    BY Zenon, <2>1, OwnCopy
  <2>4. \A n \in Node : \A h \in hints'[n] \cup todo'[n] \cup delivered'[n] :
           h \in hints[n] \cup todo[n] \cup delivered[n] \/ IsWritten(h.versioned)
    BY Zenon, <2>1, <2>2, <2>3
  <2> QED BY Zenon, <1>a, <2>1, <2>4, CopiesFrom
<1>11. ASSUME NEW o \in Op, NEW n \in Owners, ReadRpc(o, n)
       PROVE  CopiesIntact'
  <2>1. UNCHANGED <<replica, hints, todo, delivered>>
    BY Zenon, <1>11 DEF ReadRpc, nodeVars, hintVars
  <2>2. \A p \in Op : best'[p] \in {best[p], Absent} \/ IsWritten(best'[p])
    <3>1. best' \in [Op -> VersionedDoc \cup {Absent}] /\ \A p \in Op : p # o => best'[p] = best[p]
      BY Zenon, <1>11, NextKeepsTypes DEF ReadRpc, TypeOK
    <3>2. best'[o] \in {best[o], replica[n]}
      BY Zenon, <1>11, ResolveTwoChooses DEF ReadRpc, TypeOK
    <3>3. replica[n] # Absent => IsWritten(replica[n])
      BY Zenon, ReplicationAssumption DEF CopiesIntact
    <3> QED BY Zenon, <3>1, <3>2, <3>3
  <2> QED BY Zenon, <1>a, <2>1, <2>2, CopiesFrom
<1>12. ASSUME NEW o \in Op, Retire(o)
       PROVE  CopiesIntact'
  <2>1. /\ UNCHANGED <<replica, hints, todo, delivered>>
        /\ \A p \in Op : best'[p] \in {best[p], Absent}
    BY Zenon, <1>12, Domains DEF Retire, nodeVars, hintVars
  <2> QED BY Zenon, <1>a, <2>1, CopiesFrom
<1>13. ASSUME NEW o \in Op, NEW n \in Owners, RepairWrite(o, n)
       PROVE  CopiesIntact'
  <2>1. /\ n \in repair[o]
        /\ Put(n, RemoteWrite(best[o].document, best[o].version, best[o].hlc))
        /\ UNCHANGED <<hints, todo, delivered, best>>
    BY Zenon, <1>13 DEF RepairWrite, hintVars
  <2>2. IsWritten(best[o])
    BY Zenon, <2>1, ShapeAt DEF CopiesIntact, ShapeOf
  <2>3. Put(n, best[o])
    BY Zenon, <2>1, <2>2, ForwardedCopy
  <2>4. \A m \in Node : replica'[m] = replica[m] \/ IsWritten(replica'[m])
    BY Zenon, <2>2, <2>3, PutCopy, ReplicationAssumption
  <2> QED BY Zenon, <1>a, <2>1, <2>4, CopiesFrom
<1>14. CASE UNCHANGED vars
  BY Zenon, <1>14, <1>b DEF vars, opVars, nodeVars, hintVars
<1> QED BY Zenon, <1>a, <1>1, <1>2, <1>3, <1>4, <1>5, <1>6, <1>7, <1>8, <1>9, <1>10, <1>11, <1>12, <1>13,
    <1>14, HintsKeepCopies DEF Next, MutationStep, ReadStep

\* Whichever path a copy takes (the broadcast, a hint, the handoff of the hint,
\* read repair of a merged answer), it stays the copy of one operation: for
\* every number of nodes, operations, failures and restarts.
THEOREM CopiesStayIntact == Spec => []CopiesIntact
<1>1. Init => CopiesIntact
  BY Zenon DEF Init, CopiesIntact
<1>2. Init => Inv
  BY Zenon, InitTypes
<1>3. Inv /\ CopiesIntact /\ [Next]_vars => Inv' /\ CopiesIntact'
  BY Zenon, NextKeepsTypes, NextKeepsCopies
<1> QED BY <1>1, <1>2, <1>3, PTL DEF Spec

-----------------------------------------------------------------------------
(* Versions identify copies.                                               *)

\* tick() never returns a timestamp twice: the timestamps a coordinator has
\* used are not above its clock, and no two operations share one.
Stamps ==
  /\ \A o \in Op : Stamped(o) => hlc[o] <= clock[req[o].coord]
  /\ \A o, p \in Op : (/\ Stamped(o) /\ Stamped(p)
                       /\ req[o].coord = req[p].coord /\ hlc[o] = hlc[p]) => o = p

\* A tick is above all earlier ones of its coordinator, so it repeats none.
LEMMA NextKeepsStamps == Inv /\ Stamps /\ [Next]_vars => Stamps'
<1> SUFFICES ASSUME Inv, Stamps, [Next]_vars
             PROVE  Stamps'
  OBVIOUS
<1>1. CASE UNCHANGED <<req, hlc, clock>>
  BY Zenon, <1>1 DEF Stamps, Stamped, Mutates
<1>2. ASSUME NEW o \in Op, Submit(o) \/ Retire(o)
      PROVE  Stamps'
  <2>1. hlc[o] = 0 /\ hlc' = hlc /\ clock' = clock
    BY Zenon, <1>2, ShapeAt DEF Submit, SubmitWrite, SubmitDelete, SubmitRead, Retire, FreeSlot, ShapeOf
  <2>2. \A p \in Op : p # o => req'[p] = req[p]
    BY Zenon, <1>2, Domains DEF Submit, SubmitWrite, SubmitDelete, SubmitRead, Retire, Inv
  <2>3. \A p \in Op : Stamped(p)' => p # o /\ Stamped(p) /\ req'[p] = req[p]
    <3> SUFFICES ASSUME NEW p \in Op, Stamped(p)'
                 PROVE  p # o /\ Stamped(p) /\ req'[p] = req[p]
      OBVIOUS
    <3>1. hlc'[p] > 0 /\ hlc'[p] = hlc[p]
      BY Zenon, <2>1 DEF Stamped
    <3>2. p # o
      BY <2>1, <3>1
    <3>3. req'[p] = req[p]
      BY Zenon, <2>2, <3>2
    <3> QED BY Zenon, <3>1, <3>2, <3>3 DEF Stamped, Mutates
  <2> QED BY Zenon, <2>1, <2>3 DEF Stamps
<1>3. ASSUME NEW o \in Op, StampAndBroadcast(o)
      PROVE  Stamps'
  <2>1. PICK t \in Time : /\ t > clock[req[o].coord]
                          /\ clock' = [clock EXCEPT ![req[o].coord] = t]
                          /\ hlc' = [hlc EXCEPT ![o] = t]
    BY Zenon, <1>3 DEF StampAndBroadcast
  <2>2. req' = req /\ phase[o] = "stamp"
    BY Zenon, <1>3 DEF StampAndBroadcast
  <2>3. req[o].coord \in Coordinators
    BY Zenon, <2>2, OpTypes
  <2>4. hlc'[o] = t /\ \A p \in Op : p # o => hlc'[p] = hlc[p]
    BY Zenon, <2>1, Domains DEF Inv
  <2>5. clock'[req[o].coord] = t
    BY Zenon, <2>1, <2>3, Domains DEF Inv
  <2>6. ASSUME NEW p \in Op, p # o, Stamped(p)'
        PROVE  /\ Stamped(p) /\ hlc'[p] = hlc[p]
               /\ hlc[p] <= clock[req[p].coord]
               /\ req[p].coord \in Coordinators
    <3>1. Stamped(p) /\ hlc'[p] = hlc[p]
      BY Zenon, <2>2, <2>4, <2>6 DEF Stamped, Mutates
    <3>2. phase[p] # "idle"
      BY Zenon, <3>1, StampedRuns
    <3> QED BY Zenon, <3>1, <3>2, OpTypes DEF Stamps
  <2>7. t \in Nat /\ \A c \in Coordinators : clock[c] \in Nat
    BY Zenon, Times DEF Inv
  <2>8. \A p \in Op : hlc[p] \in Nat
    BY Zenon, Times DEF Inv
  <2>9. ASSUME NEW p \in Op, Stamped(p)'
        PROVE  hlc'[p] <= clock'[req'[p].coord]
    <3>1. CASE p = o
      BY <2>2, <2>4, <2>5, <2>7, <3>1
    <3>2. CASE p # o /\ req[p].coord = req[o].coord
      BY <2>1, <2>2, <2>3, <2>5, <2>6, <2>7, <2>8, <2>9, <3>2
    <3>3. CASE p # o /\ req[p].coord # req[o].coord
      <4>1. clock'[req[p].coord] = clock[req[p].coord]
        BY Zenon, <2>1, <2>6, <2>9, <3>3, Domains DEF Inv
      <4> QED BY Zenon, <2>2, <2>6, <2>9, <3>3, <4>1
    <3> QED BY Zenon, <3>1, <3>2, <3>3
  <2>10. ASSUME NEW p \in Op, NEW q \in Op, Stamped(p)', Stamped(q)',
                req'[p].coord = req'[q].coord, hlc'[p] = hlc'[q]
         PROVE  p = q
    <3>1. ASSUME NEW x \in Op, x # o, Stamped(x)', req[x].coord = req[o].coord
          PROVE  hlc'[x] # t
      BY <2>1, <2>3, <2>6, <2>7, <2>8, <3>1
    <3>2. CASE p # o /\ q # o
      BY Zenon, <2>2, <2>6, <2>10, <3>2 DEF Stamps
    <3>3. CASE p = o \/ q = o
      BY Zenon, <2>2, <2>4, <2>10, <3>1, <3>3
    <3> QED BY Zenon, <3>2, <3>3
  <2> QED BY Zenon, <2>9, <2>10 DEF Stamps
<1> QED BY Zenon, <1>1, <1>2, <1>3, StampsOnlyThere DEF StampStep

\* compare tells the versions of two operations apart unless they have the
\* same coordinator and the same timestamp.
LEMMA EqualSingleClocks ==
  ASSUME NEW c, NEW d, NEW h \in Nat \ {0}, NEW k \in Nat \ {0},
         Compare(Increment(EmptyClock, c, h), Increment(EmptyClock, d, k)) = "Equal"
  PROVE  c = d /\ h = k
<1> DEFINE v == [m \in {c} |-> h]
           w == [m \in {d} |-> k]
<1>1. Compare(v, w) = "Equal"
  BY Zenon, VersionIsSingle
<1>2. ClockLe(v, w) /\ ClockLe(w, v)
  BY Zenon, <1>1 DEF Compare
<1>3. /\ Entry(v, c) = h /\ Entry(w, d) = k
      /\ c # d => Entry(w, c) = 0
  BY Zenon DEF Entry
<1>4. /\ Entry(v, c) <= Entry(w, c) /\ Entry(v, d) <= Entry(w, d)
      /\ Entry(w, d) <= Entry(v, d)
  BY Zenon, <1>2 DEF ClockLe
<1> HIDE DEF v, w
<1> QED BY <1>3, <1>4

\* What read repair relies on when it skips a replica whose version compares
\* as equal to the winner's: that replica holds the winner.
THEOREM VersionsIdentifyCopies == Spec => []EqualVersionsSameCopy
<1>1. Inv /\ CopiesIntact /\ Stamps => EqualVersionsSameCopy
  <2> SUFFICES ASSUME Inv, CopiesIntact, Stamps, NEW m \in Node, NEW n \in Node,
                      replica[m] # Absent, replica[n] # Absent,
                      Compare(replica[m].version, replica[n].version) = "Equal"
               PROVE  replica[m] = replica[n]
    BY Zenon DEF EqualVersionsSameCopy
  <2>1. PICK o \in Op : Stamped(o) /\ replica[m] = CopyOf(o)
    BY Zenon DEF CopiesIntact, IsWritten
  <2>2. PICK p \in Op : Stamped(p) /\ replica[n] = CopyOf(p)
    BY Zenon DEF CopiesIntact, IsWritten
  <2>3. Compare(Version(o), Version(p)) = "Equal"
    BY <2>1, <2>2 DEF CopyOf
  <2>4. hlc[o] \in Nat \ {0} /\ hlc[p] \in Nat \ {0}
    BY Zenon, <2>1, <2>2, StampedPositive DEF Inv
  <2>5. req[o].coord = req[p].coord /\ hlc[o] = hlc[p]
    BY Zenon, <2>3, <2>4, EqualSingleClocks DEF Version
  <2>6. o = p
    BY Zenon, <2>1, <2>2, <2>5 DEF Stamps
  <2> QED BY Zenon, <2>1, <2>2, <2>6
<1>2. Init => Inv /\ CopiesIntact /\ Stamps
  <2>1. Init => CopiesIntact
    BY DEF Init, CopiesIntact
  <2>2. Init => Stamps
    BY DEF Init, Stamps, Stamped
  <2> QED BY Zenon, <2>1, <2>2, InitTypes
<1>3. Inv /\ CopiesIntact /\ Stamps /\ [Next]_vars => Inv' /\ CopiesIntact' /\ Stamps'
  BY Zenon, NextKeepsTypes, NextKeepsCopies, NextKeepsStamps
<1> QED BY <1>1, <1>2, <1>3, PTL DEF Spec

-----------------------------------------------------------------------------
(* Acknowledgements and the idempotency cache.                             *)

\* The steps that move a write or a delete from one phase to another: its own,
\* a cancellation and a restart.
LEMMA PhaseSteps ==
  ASSUME Inv, [Next]_vars, NEW o \in Op, Mutates(o)
  PROVE  \/ phase'[o] = phase[o]
         \/ StampAndBroadcast(o) \/ StampFails(o) \/ FinishBroadcast(o) \/ FinishHints(o)
         \/ phase[o] \in Running /\ phase'[o] = "lost"
<1> DEFINE Goal == \/ phase'[o] = phase[o]
                   \/ StampAndBroadcast(o) \/ StampFails(o) \/ FinishBroadcast(o) \/ FinishHints(o)
                   \/ phase[o] \in Running /\ phase'[o] = "lost"
<1>a. DOMAIN phase = Op
  BY Zenon, Domains DEF Inv
<1>b. phase[o] # "idle" /\ phase[o] # "read" /\ req[o].kind # "read"
  BY ShapeAt DEF ShapeOf, Mutates, NoRequest
<1>1. ASSUME NEW p \in Op, Submit(p)
      PROVE  Goal
  <2>1. phase[p] = "idle" /\ \E s : phase' = [phase EXCEPT ![p] = s]
    BY Zenon, <1>1 DEF Submit, SubmitWrite, SubmitDelete, SubmitRead, FreeSlot
  <2> QED BY Zenon, <1>a, <1>b, <2>1
<1>2. ASSUME NEW p \in Op, StampAndBroadcast(p) \/ StampFails(p)
      PROVE  Goal
  BY Zenon, <1>a, <1>2 DEF StampAndBroadcast, StampFails
<1>3. ASSUME NEW p \in Op, FinishBroadcast(p)
      PROVE  Goal
  BY Zenon, <1>a, <1>3 DEF FinishBroadcast
<1>4. ASSUME NEW p \in Op, FinishHints(p)
      PROVE  Goal
  BY Zenon, <1>a, <1>4 DEF FinishHints
<1>5. ASSUME NEW p \in Op, NEW n \in Owners, WriteRpc(p, n) \/ RpcFails(p, n) \/ AckLost(p, n)
      PROVE  Goal
  BY Zenon, <1>5 DEF WriteRpc, RpcFails, AckLost
<1>6. ASSUME NEW p \in Op, NEW t \in Owners, NEW f \in Node,
             StoreHint(p, t, f) \/ HintRpcFails(p, t, f) \/ HintAckLost(p, t, f)
      PROVE  Goal
  BY Zenon, <1>6 DEF StoreHint, HintRpcFails, HintAckLost
<1>7. ASSUME NEW p \in Op, NEW n \in Owners, ReadRpc(p, n) \/ RepairWrite(p, n) \/ RepairFails(p, n)
      PROVE  Goal
  BY Zenon, <1>7 DEF ReadRpc, RepairWrite, RepairFails
<1>8. ASSUME NEW p \in Op, FinishRead(p) \/ Retire(p)
      PROVE  Goal
  <2>1. p # o
    BY Zenon, <1>b, <1>8 DEF FinishRead, Retire
  <2> QED BY Zenon, <1>a, <1>8, <2>1 DEF FinishRead, Retire
<1>9. ASSUME NEW p \in Op, Cancel(p)
      PROVE  Goal
  BY Zenon, <1>a, <1>9 DEF Cancel
<1>10. ASSUME NEW n \in Node, HintStep(n)
       PROVE  Goal
  BY Zenon, <1>10 DEF HintStep, StartPass, PassFails, DeliverHint, DeliveryFails,
     DeliveryAckLost, DiscardExpired, RemoveDelivered, opVars
<1>11. ASSUME NEW n \in Node, Restart(n)
       PROVE  Goal
  BY Zenon, <1>11 DEF Restart, RunningAt
<1>12. ASSUME NEW c \in Coordinators, NEW k \in IKeys, EvictExpired(c, k)
       PROVE  Goal
  BY Zenon, <1>12 DEF EvictExpired, opVars
<1>13. ASSUME UNCHANGED vars
       PROVE  Goal
  BY Zenon, <1>13 DEF vars, opVars
<1> HIDE DEF Goal
<1>14. Goal
  BY Zenon, <1>1, <1>2, <1>3, <1>4, <1>5, <1>6, <1>7, <1>8, <1>9, <1>10, <1>11, <1>12, <1>13
  DEF Next, MutationStep, ReadStep
<1> QED BY Zenon, <1>14 DEF Goal

\* An acknowledged write or delete stays what it is: its request, its timestamp
\* and its phase do not change any more.
LEMMA AckedStays ==
  ASSUME Inv, [Next]_vars, NEW o \in Op, Mutates(o), phase[o] = "ok"
  PROVE  phase'[o] = "ok" /\ req'[o] = req[o] /\ hlc'[o] = hlc[o]
<1>1. phase'[o] = "ok"
  BY Zenon, PhaseSteps DEF StampAndBroadcast, StampFails, FinishBroadcast, FinishHints, Running
<1>2. CASE UNCHANGED <<req, hlc, clock>>
  BY Zenon, <1>1, <1>2
<1>3. ASSUME NEW p \in Op, Submit(p) \/ StampAndBroadcast(p) \/ Retire(p)
      PROVE  req'[o] = req[o] /\ hlc'[o] = hlc[o]
  <2>1. p # o
    BY Zenon, <1>3 DEF Submit, SubmitWrite, SubmitDelete, SubmitRead, FreeSlot, StampAndBroadcast,
       Retire, Mutates
  <2> QED BY Zenon, <1>3, <2>1, Domains
          DEF Submit, SubmitWrite, SubmitDelete, SubmitRead, StampAndBroadcast, Retire, Inv
<1> QED BY Zenon, <1>1, <1>2, <1>3, StampsOnlyThere DEF StampStep

\* Only the two ends of quorum_write and quorum_delete acknowledge: after a step,
\* an acknowledged operation was acknowledged before, or this step was its end.
LEMMA AckSteps ==
  ASSUME Inv, [Next]_vars, NEW o \in Op, Mutates(o)', phase'[o] = "ok"
  PROVE  /\ Mutates(o) /\ req'[o] = req[o] /\ hlc'[o] = hlc[o]
         /\ phase[o] = "ok" \/ FinishBroadcast(o) \/ FinishHints(o)
<1>1. Mutates(o)
  <2>1. CASE UNCHANGED <<req, hlc, clock>>
    BY Zenon, <2>1 DEF Mutates
  <2>2. ASSUME NEW p \in Op, Submit(p)
        PROVE  Mutates(o)
    <3>1. phase'[p] # "ok"
      BY Zenon, <2>2, Domains DEF Submit, SubmitWrite, SubmitDelete, SubmitRead, CacheLookup, Inv
    <3>2. p # o
      BY Zenon, <3>1
    <3> QED BY Zenon, <2>2, <3>2, Domains DEF Submit, SubmitWrite, SubmitDelete, SubmitRead, Mutates, Inv
  <2>3. ASSUME NEW p \in Op, StampAndBroadcast(p)
        PROVE  Mutates(o)
    BY Zenon, <2>3 DEF StampAndBroadcast, Mutates
  <2>4. ASSUME NEW p \in Op, Retire(p)
        PROVE  Mutates(o)
    <3>1. p # o
      BY Zenon, <2>4, Domains DEF Retire, Inv
    <3> QED BY Zenon, <2>4, <3>1, Domains DEF Retire, Mutates, Inv
  <2> QED BY Zenon, <2>1, <2>2, <2>3, <2>4, StampsOnlyThere DEF StampStep
<1>2. phase[o] = "ok" \/ FinishBroadcast(o) \/ FinishHints(o)
  <2>1. ~StampAndBroadcast(o) /\ ~StampFails(o)
    BY Zenon, Domains DEF StampAndBroadcast, StampFails, Inv
  <2> QED BY Zenon, <1>1, <2>1, PhaseSteps
<1>3. req'[o] = req[o] /\ hlc'[o] = hlc[o]
  BY Zenon, <1>1, <1>2, AckedStays DEF FinishBroadcast, FinishHints
<1> QED BY Zenon, <1>1, <1>2, <1>3

\* The steps that touch the idempotency caches: the two ends of a write, the
\* eviction of an old entry and a restart.
LEMMA CacheSteps ==
  ASSUME [Next]_vars
  PROVE  \/ UNCHANGED <<idem, forgotten>>
         \/ \E o \in Op : /\ FinishBroadcast(o) \/ FinishHints(o)
                          /\ CacheStore(o) /\ phase' = [phase EXCEPT ![o] = "ok"]
                          /\ forgotten' = forgotten
         \/ \E c \in Coordinators, k \in IKeys : EvictExpired(c, k)
         \/ \E n \in Node : Restart(n)
<1> DEFINE Goal == \/ UNCHANGED <<idem, forgotten>>
                   \/ \E o \in Op : /\ FinishBroadcast(o) \/ FinishHints(o)
                                    /\ CacheStore(o) /\ phase' = [phase EXCEPT ![o] = "ok"]
                                    /\ forgotten' = forgotten
                   \/ \E c \in Coordinators, k \in IKeys : EvictExpired(c, k)
                   \/ \E n \in Node : Restart(n)
<1>1. ASSUME NEW o \in Op, Submit(o)
      PROVE  Goal
  BY Zenon, <1>1 DEF Submit, SubmitWrite, SubmitDelete, SubmitRead, cacheVars
<1>2. ASSUME NEW o \in Op, StampAndBroadcast(o) \/ StampFails(o)
      PROVE  Goal
  BY Zenon, <1>2 DEF StampAndBroadcast, StampFails, cacheVars
<1>3. ASSUME NEW o \in Op, FinishBroadcast(o)
      PROVE  Goal
  BY Zenon, <1>3 DEF FinishBroadcast
<1>4. ASSUME NEW o \in Op, FinishHints(o)
      PROVE  Goal
  BY Zenon, <1>4 DEF FinishHints
<1>5. ASSUME NEW o \in Op, NEW n \in Owners, WriteRpc(o, n) \/ RpcFails(o, n) \/ AckLost(o, n)
      PROVE  Goal
  BY Zenon, <1>5 DEF WriteRpc, RpcFails, AckLost, cacheVars
<1>6. ASSUME NEW o \in Op, NEW t \in Owners, NEW f \in Node,
             StoreHint(o, t, f) \/ HintRpcFails(o, t, f) \/ HintAckLost(o, t, f)
      PROVE  Goal
  BY Zenon, <1>6 DEF StoreHint, HintRpcFails, HintAckLost, cacheVars
<1>7. ASSUME NEW o \in Op, NEW n \in Owners, ReadRpc(o, n) \/ RepairWrite(o, n) \/ RepairFails(o, n)
      PROVE  Goal
  BY Zenon, <1>7 DEF ReadRpc, RepairWrite, RepairFails, cacheVars
<1>8. ASSUME NEW o \in Op, FinishRead(o) \/ Retire(o) \/ Cancel(o)
      PROVE  Goal
  BY Zenon, <1>8 DEF FinishRead, Retire, Cancel, cacheVars
<1>9. ASSUME NEW n \in Node, HintStep(n)
      PROVE  Goal
  BY Zenon, <1>9 DEF HintStep, StartPass, PassFails, DeliverHint, DeliveryFails,
     DeliveryAckLost, DiscardExpired, RemoveDelivered, cacheVars
<1>10. ASSUME UNCHANGED vars
       PROVE  Goal
  BY Zenon, <1>10 DEF vars, cacheVars
<1> HIDE DEF Goal
<1>11. (\E c \in Coordinators, k \in IKeys : EvictExpired(c, k)) \/ (\E n \in Node : Restart(n)) => Goal
  BY Zenon DEF Goal
<1>12. Goal
  BY Zenon, <1>1, <1>2, <1>3, <1>4, <1>5, <1>6, <1>7, <1>8, <1>9, <1>10, <1>11
  DEF Next, MutationStep, ReadStep
<1> QED BY Zenon, <1>12 DEF Goal

\* What IdempotencyStore::store does to the caches: one entry of one coordinator.
LEMMA CacheStored ==
  ASSUME Inv, NEW o \in Op, phase[o] \in {"broadcast", "hints"}, CacheStore(o), req[o].ikey # NoKey
  PROVE  /\ req[o].kind = "write" /\ req[o].coord \in Coordinators /\ req[o].ikey \in IKeys
         /\ [doc |-> req[o].doc, version |-> Version(o)] # Absent
         /\ \A c \in Coordinators, k \in IKeys :
              idem'[c][k] = IF c = req[o].coord /\ k = req[o].ikey
                            THEN [doc |-> req[o].doc, version |-> Version(o)] ELSE idem[c][k]
<1>1. req[o].kind = "write" /\ req[o].doc \in Docs
  BY Zenon, OpTypes DEF Inv, Shape, ShapeOf, Mutates
<1>2. [doc |-> req[o].doc, version |-> Version(o)] \in CacheEntry
  BY Zenon, <1>1, OpTypes DEF CacheEntry
<1>3. req[o].ikey \in IKeys /\ req[o].coord \in Coordinators
  BY Zenon, OpTypes
<1>4. idem \in [Coordinators -> [IKeys -> CacheEntry \cup {Absent}]]
  BY Zenon DEF Inv, TypeOK
<1>5. idem' = [idem EXCEPT ![req[o].coord][req[o].ikey] = [doc |-> req[o].doc, version |-> Version(o)]]
  BY Zenon DEF CacheStore
<1>6. \A c \in Coordinators, k \in IKeys :
        idem'[c][k] = IF c = req[o].coord /\ k = req[o].ikey
                      THEN [doc |-> req[o].doc, version |-> Version(o)] ELSE idem[c][k]
  BY Zenon, <1>3, <1>4, <1>5
<1> QED BY Zenon, <1>1, <1>2, <1>3, <1>6, AbsentAssumption

\* The two ends of a write store an entry with their acknowledgement, and evictions
\* and restarts are recorded: every step keeps CacheMatchesAcks.
LEMMA NextKeepsCache == Inv /\ CacheMatchesAcks /\ [Next]_vars => CacheMatchesAcks'
<1> SUFFICES ASSUME Inv, CacheMatchesAcks, [Next]_vars
             PROVE  CacheMatchesAcks'
  OBVIOUS
<1> DEFINE Result(o) == [doc |-> req[o].doc, version |-> Version(o)]
           Source(o, c, k) == /\ phase[o] = "ok" /\ req[o].kind = "write"
                              /\ req[o].coord = c /\ req[o].ikey = k
                              /\ idem[c][k] = Result(o)
<1>a. ASSUME NEW o \in Op, FinishBroadcast(o) \/ FinishHints(o)
      PROVE  phase[o] \in {"broadcast", "hints"} /\ (phase'[o] = "ok" => CacheStore(o))
  <2>1. phase[o] \in {"broadcast", "hints"} /\ DOMAIN phase = Op
    BY Zenon, <1>a, Domains DEF FinishBroadcast, FinishHints, Inv
  <2> QED BY Zenon, <1>a, <2>1 DEF FinishBroadcast, FinishHints
<1>b. idem \in [Coordinators -> [IKeys -> CacheEntry \cup {Absent}]]
  BY Zenon DEF Inv, TypeOK
<1>c. ASSUME NEW c \in Coordinators, NEW k \in IKeys, EvictExpired(c, k)
      PROVE  \A d \in Coordinators, l \in IKeys :
               idem'[d][l] = IF d = c /\ l = k THEN Absent ELSE idem[d][l]
  BY Zenon, <1>b, <1>c DEF EvictExpired
<1>d. \A o \in Op : (phase[o] = "ok" /\ Mutates(o) /\ req[o].ikey # NoKey /\ o \notin forgotten)
                  => idem[req[o].coord][req[o].ikey] # Absent
  BY Zenon DEF CacheMatchesAcks
<1>e. \A c \in Coordinators, k \in IKeys : idem[c][k] # Absent => \E o \in Op : Source(o, c, k)
  BY Zenon DEF CacheMatchesAcks
<1>1. ASSUME NEW o \in Op, phase'[o] = "ok", Mutates(o)', req'[o].ikey # NoKey, o \notin forgotten'
      PROVE  idem'[req'[o].coord][req'[o].ikey] # Absent
  <2>1. /\ Mutates(o) /\ req'[o] = req[o]
        /\ phase[o] = "ok" \/ FinishBroadcast(o) \/ FinishHints(o)
    BY Zenon, <1>1, AckSteps
  <2>2. req[o].coord \in Coordinators /\ req[o].ikey \in IKeys /\ req[o].ikey # NoKey
    BY Zenon, <1>1, <1>a, <2>1, OpTypes
  <2>3. CASE phase[o] = "ok"
    <3>1. CASE UNCHANGED <<idem, forgotten>>
      BY Zenon, <1>1, <1>d, <2>1, <2>3, <3>1
    <3>2. ASSUME NEW p \in Op, FinishBroadcast(p) \/ FinishHints(p), CacheStore(p), forgotten' = forgotten
          PROVE  idem'[req[o].coord][req[o].ikey] # Absent
      <4>1. idem[req[o].coord][req[o].ikey] # Absent
        BY Zenon, <1>1, <1>d, <2>1, <2>3, <3>2
      <4>2. CASE req[p].ikey = NoKey
        BY Zenon, <3>2, <4>1, <4>2 DEF CacheStore
      <4>3. CASE req[p].ikey # NoKey
        <5>1. phase[p] \in {"broadcast", "hints"}
          BY Zenon, <1>a, <3>2
        <5>2. /\ Result(p) # Absent
              /\ \A c \in Coordinators, k \in IKeys :
                   idem'[c][k] = IF c = req[p].coord /\ k = req[p].ikey THEN Result(p) ELSE idem[c][k]
          BY Zenon, <3>2, <4>3, <5>1, CacheStored
        <5> QED BY Zenon, <2>2, <4>1, <5>2
      <4> QED BY Zenon, <4>2, <4>3
    <3>3. ASSUME NEW c \in Coordinators, NEW k \in IKeys, EvictExpired(c, k)
          PROVE  idem'[req[o].coord][req[o].ikey] # Absent
      <4>1. forgotten' = forgotten \cup {p \in AckedAt(c) : req[p].ikey = k}
        BY Zenon, <3>3 DEF EvictExpired
      <4>2. ~(req[o].coord = c /\ req[o].ikey = k)
        BY Zenon, <1>1, <2>1, <2>3, <4>1 DEF AckedAt
      <4>3. idem[req[o].coord][req[o].ikey] # Absent
        BY Zenon, <1>1, <1>d, <2>1, <2>3, <4>1
      <4>4. idem'[req[o].coord][req[o].ikey] = idem[req[o].coord][req[o].ikey]
        <5>1. \A d \in Coordinators, l \in IKeys :
                idem'[d][l] = IF d = c /\ l = k THEN Absent ELSE idem[d][l]
          BY Zenon, <1>c, <3>3
        <5> QED BY Zenon, <2>2, <4>2, <5>1
      <4> QED BY Zenon, <4>3, <4>4
    <3>4. ASSUME NEW n \in Node, Restart(n)
          PROVE  idem'[req[o].coord][req[o].ikey] # Absent
      <4>1. /\ forgotten' = forgotten \cup AckedAt(n)
            /\ idem' = [c \in Coordinators |-> IF c = n THEN [k \in IKeys |-> Absent] ELSE idem[c]]
        BY Zenon, <3>4 DEF Restart
      <4>2. req[o].coord # n
        BY Zenon, <1>1, <2>1, <2>3, <4>1 DEF AckedAt
      <4>3. idem[req[o].coord][req[o].ikey] # Absent
        BY Zenon, <1>1, <1>d, <2>1, <2>3, <4>1
      <4> QED BY Zenon, <2>2, <4>1, <4>2, <4>3
    <3> QED BY Zenon, <2>1, <3>1, <3>2, <3>3, <3>4, CacheSteps
  <2>4. CASE FinishBroadcast(o) \/ FinishHints(o)
    <3>1. phase[o] \in {"broadcast", "hints"} /\ CacheStore(o)
      BY Zenon, <1>1, <1>a, <2>4
    <3>2. /\ Result(o) # Absent
          /\ \A c \in Coordinators, k \in IKeys :
               idem'[c][k] = IF c = req[o].coord /\ k = req[o].ikey THEN Result(o) ELSE idem[c][k]
      BY Zenon, <2>2, <3>1, CacheStored
    <3> QED BY Zenon, <2>1, <2>2, <3>2
  <2> QED BY Zenon, <2>1, <2>3, <2>4
<1>2. ASSUME NEW c \in Coordinators, NEW k \in IKeys, idem'[c][k] # Absent
      PROVE  \E o \in Op : Source(o, c, k)'
  <2>1. ASSUME idem'[c][k] = idem[c][k]
        PROVE  \E o \in Op : Source(o, c, k)'
    <3>a. idem[c][k] # Absent
      BY Zenon, <1>2, <2>1
    <3>1. PICK o \in Op : Source(o, c, k)
      <4> HIDE DEF Source
      <4> QED BY Zenon, <1>e, <3>a
    <3>2. phase'[o] = "ok" /\ req'[o] = req[o] /\ hlc'[o] = hlc[o]
      BY Zenon, <3>1, AckedStays DEF Mutates
    <3> QED BY Zenon, <2>1, <3>1, <3>2 DEF Version
  <2>2. ASSUME NEW o \in Op, FinishBroadcast(o) \/ FinishHints(o), CacheStore(o),
               phase' = [phase EXCEPT ![o] = "ok"]
        PROVE  \E p \in Op : Source(p, c, k)'
    <3>1. CASE req[o].ikey = NoKey
      BY Zenon, <2>1, <2>2, <3>1 DEF CacheStore
    <3>2. CASE req[o].ikey # NoKey
      <4>1. /\ req[o].kind = "write"
            /\ idem'[c][k] = IF c = req[o].coord /\ k = req[o].ikey THEN Result(o) ELSE idem[c][k]
        <5>1. phase[o] \in {"broadcast", "hints"}
          BY Zenon, <1>a, <2>2
        <5> QED BY Zenon, <2>2, <3>2, <5>1, CacheStored
      <4>2. CASE c = req[o].coord /\ k = req[o].ikey
        <5>1. phase'[o] = "ok" /\ req'[o] = req[o] /\ hlc'[o] = hlc[o]
          BY Zenon, <2>2, Domains DEF FinishBroadcast, FinishHints, Inv
        <5> QED BY Zenon, <4>1, <4>2, <5>1 DEF Version
      <4>3. CASE ~(c = req[o].coord /\ k = req[o].ikey)
        BY Zenon, <2>1, <4>1, <4>3
      <4> QED BY Zenon, <4>2, <4>3
    <3> QED BY Zenon, <3>1, <3>2
  <2>3. ASSUME NEW d \in Coordinators, NEW l \in IKeys, EvictExpired(d, l)
        PROVE  idem'[c][k] = idem[c][k]
    BY ZenonT(40), <1>2, <1>c, <2>3
  <2>4. ASSUME NEW n \in Node, Restart(n)
        PROVE  idem'[c][k] = idem[c][k]
    BY Zenon, <1>2, <2>4 DEF Restart
  <2> QED BY Zenon, <2>1, <2>2, <2>3, <2>4, CacheSteps
<1> QED BY Zenon, <1>1, <1>2 DEF CacheMatchesAcks

\* A retry of an acknowledged write is answered from the cache until its entry is
\* evicted or its coordinator restarts, and whatever the cache answers was
\* acknowledged: for every number of coordinators, keys and overlapping writes.
THEOREM CacheAgreesWithAcks == Spec => []CacheMatchesAcks
<1>1. Init => CacheMatchesAcks
  BY DEF Init, CacheMatchesAcks
<1>2. Inv /\ CacheMatchesAcks /\ [Next]_vars => Inv' /\ CacheMatchesAcks'
  BY Zenon, NextKeepsTypes, NextKeepsCache
<1> QED BY <1>1, <1>2, InitTypes, PTL DEF Spec

-----------------------------------------------------------------------------
(* Hinted handoff.                                                         *)

\* The steps that write to a replica or touch a hint: the broadcast, the sloppy
\* hints, read repair, the delivery passes and restarts.
LEMMA StoreSteps ==
  ASSUME [Next]_vars
  PROVE  \/ UNCHANGED <<hinted, nodeVars, hints, delivered, expired>>
         \/ \E o \in Op, n \in Owners : WriteRpc(o, n) \/ AckLost(o, n) \/ RepairWrite(o, n)
         \/ \E o \in Op, t \in Owners, f \in Node : StoreHint(o, t, f) \/ HintAckLost(o, t, f)
         \/ \E n \in Node : HintStep(n) \/ Restart(n)
<1> DEFINE Frame == UNCHANGED <<hinted, nodeVars, hints, delivered, expired>>
<1>1. ASSUME NEW o \in Op, Submit(o)
      PROVE  Frame
  BY Zenon, <1>1 DEF Submit, SubmitWrite, SubmitDelete, SubmitRead, hintVars
<1>2. ASSUME NEW o \in Op, StampAndBroadcast(o) \/ StampFails(o)
      PROVE  Frame
  BY Zenon, <1>2 DEF StampAndBroadcast, StampFails, hintVars
<1>3. ASSUME NEW o \in Op, FinishBroadcast(o)
      PROVE  Frame
  BY Zenon, <1>3 DEF FinishBroadcast, hintVars
<1>4. ASSUME NEW o \in Op, FinishHints(o)
      PROVE  Frame
  BY Zenon, <1>4 DEF FinishHints, hintVars
<1>5. ASSUME NEW o \in Op, NEW n \in Owners, RpcFails(o, n) \/ ReadRpc(o, n) \/ RepairFails(o, n)
      PROVE  Frame
  BY Zenon, <1>5 DEF RpcFails, ReadRpc, RepairFails, hintVars
<1>6. ASSUME NEW o \in Op, NEW t \in Owners, NEW f \in Node, HintRpcFails(o, t, f)
      PROVE  Frame
  BY Zenon, <1>6 DEF HintRpcFails, hintVars
<1>7. ASSUME NEW o \in Op, FinishRead(o) \/ Retire(o) \/ Cancel(o)
      PROVE  Frame
  BY Zenon, <1>7 DEF FinishRead, Retire, Cancel, hintVars
<1>8. ASSUME NEW c \in Coordinators, NEW k \in IKeys, EvictExpired(c, k)
      PROVE  Frame
  BY Zenon, <1>8 DEF EvictExpired, opVars, hintVars
<1>9. ASSUME UNCHANGED vars
      PROVE  Frame
  BY Zenon, <1>9 DEF vars, opVars, hintVars
<1> HIDE DEF Frame
<1>10. \/ Frame
       \/ \E o \in Op, n \in Owners : WriteRpc(o, n) \/ AckLost(o, n) \/ RepairWrite(o, n)
       \/ \E o \in Op, t \in Owners, f \in Node : StoreHint(o, t, f) \/ HintAckLost(o, t, f)
       \/ \E n \in Node : HintStep(n) \/ Restart(n)
  BY Zenon, <1>1, <1>2, <1>3, <1>4, <1>5, <1>6, <1>7, <1>8, <1>9 DEF Next, MutationStep, ReadStep
<1> QED BY Zenon, <1>10 DEF Frame

\* A node that stores a document has had its version from then on.
LEMMA PutPlaces ==
  ASSUME TypeOK, NEW n \in Node, NEW v, Put(n, v)
  PROVE  v.version \in placed'[n] /\ \A m \in Node : placed[m] \subseteq placed'[m]
<1>1. placed' = [placed EXCEPT ![n] = @ \cup {v.version}] /\ DOMAIN placed = Node
  BY Zenon DEF Put, TypeOK
<1> QED BY Zenon, <1>1

\* What a replica has stored once, and what has expired once, is history.
LEMMA HistoryGrows ==
  ASSUME Inv, [Next]_vars
  PROVE  \A n \in Node : placed[n] \subseteq placed'[n] /\ expired[n] \subseteq expired'[n]
<1> USE DEF Inv
<1> DEFINE Grows == \A n \in Node : placed[n] \subseteq placed'[n] /\ expired[n] \subseteq expired'[n]
<1>1. ASSUME UNCHANGED <<nodeVars, expired>>
      PROVE  Grows
  BY Zenon, <1>1 DEF nodeVars
<1>2. ASSUME NEW o \in Op, NEW n \in Owners, WriteRpc(o, n) \/ AckLost(o, n) \/ RepairWrite(o, n)
      PROVE  Grows
  <2>1. n \in Node /\ expired' = expired /\ \E v : Put(n, v)
    BY Zenon, <1>2, ReplicationAssumption DEF WriteRpc, AckLost, RepairWrite, hintVars
  <2> QED BY Zenon, <2>1, PutPlaces
<1>3. ASSUME NEW o \in Op, NEW t \in Owners, NEW f \in Node, StoreHint(o, t, f) \/ HintAckLost(o, t, f)
      PROVE  Grows
  BY Zenon, <1>1, <1>3 DEF StoreHint, HintAckLost
<1>4. ASSUME NEW n \in Node, NEW h \in todo[n], DeliverHint(n, h) \/ DeliveryAckLost(n, h)
      PROVE  Grows
  <2>1. h.target \in Node
    BY ReplicationAssumption DEF TypeOK, Hint
  <2>2. expired' = expired /\ \E v : Put(h.target, v)
    BY Zenon, <1>4 DEF DeliverHint, DeliveryAckLost
  <2> QED BY Zenon, <2>1, <2>2, PutPlaces
<1>5. ASSUME NEW n \in Node, NEW h, DiscardExpired(n, h)
      PROVE  Grows
  <2>1. placed' = placed /\ expired' = [expired EXCEPT ![n] = @ \cup {h}] /\ DOMAIN expired = Node
    BY Zenon, <1>5 DEF DiscardExpired, nodeVars, TypeOK
  <2> QED BY Zenon, <2>1
<1>6. ASSUME NEW n \in Node, NEW h, DeliveryFails(n, h) \/ RemoveDelivered(n, h)
      PROVE  Grows
  BY Zenon, <1>1, <1>6 DEF DeliveryFails, RemoveDelivered
<1>7. ASSUME NEW n \in Node, StartPass(n) \/ PassFails(n) \/ Restart(n)
      PROVE  Grows
  BY Zenon, <1>1, <1>7 DEF StartPass, PassFails, Restart
<1> HIDE DEF Grows
<1>8. Grows
  BY Zenon, <1>1, <1>2, <1>3, <1>4, <1>5, <1>6, <1>7, StoreSteps DEF HintStep
<1> QED BY Zenon, <1>8 DEF Grows

\* A hint leaves the store of a fallback only for one with its key, which was
\* stored, had been delivered, or had expired.
LEMMA HintLeaves ==
  ASSUME Inv, CopiesIntact, [Next]_vars, NEW f \in Node, NEW g \in hints[f], g \notin hints'[f]
  PROVE  \E h \in Hint : /\ SameKey(g, h) /\ IsWritten(h.versioned)
                         /\ h \in hints'[f] \cup delivered[f] \cup expired'[f]
<1> USE DEF Inv
<1> DEFINE Taken == \E h \in Hint : /\ SameKey(g, h) /\ IsWritten(h.versioned)
                                    /\ h \in hints'[f] \cup delivered[f] \cup expired'[f]
<1>a. DOMAIN hints = Node /\ hints' # hints
  BY Zenon, Domains
<1>1. ASSUME NEW o \in Op, NEW n \in Owners, WriteRpc(o, n) \/ AckLost(o, n) \/ RepairWrite(o, n)
      PROVE  Taken
  BY Zenon, <1>a, <1>1 DEF WriteRpc, AckLost, RepairWrite, hintVars
<1>2. ASSUME NEW o \in Op, NEW t \in Owners, NEW m \in Node, StoreHint(o, t, m) \/ HintAckLost(o, t, m)
      PROVE  Taken
  <2>1. phase[o] = "hints" /\ StoreHintAt(m, HintFor(o, t))
    BY Zenon, <1>2 DEF StoreHint, HintAckLost
  <2>2. hints' = [hints EXCEPT ![m] = {x \in @ : ~SameKey(x, HintFor(o, t))} \cup {HintFor(o, t)}]
    BY Zenon, <2>1 DEF StoreHintAt
  <2>3. m = f /\ SameKey(g, HintFor(o, t)) /\ HintFor(o, t) \in hints'[f]
    BY Zenon, <1>a, <2>2
  <2>4. HintFor(o, t) \in Hint /\ IsWritten(HintFor(o, t).versioned)
    BY Zenon, <2>1, HintForType, OwnCopy
  <2> QED BY Zenon, <2>3, <2>4
<1>3. ASSUME NEW n \in Node, NEW h, DeleteHint(n, h), h \in todo[n] \cup delivered[n],
             h \in delivered[n] \/ h \in expired'[n]
      PROVE  Taken
  <2>1. hints' = [hints EXCEPT ![n] = {x \in @ : ~SameKey(x, h)}]
    BY Zenon, <1>3 DEF DeleteHint
  <2>2. n = f /\ SameKey(g, h)
    BY Zenon, <1>a, <2>1
  <2>3. h \in Hint /\ IsWritten(h.versioned)
    BY Zenon, <1>3 DEF TypeOK, CopiesIntact
  <2> QED BY Zenon, <1>3, <2>2, <2>3
<1>4. ASSUME NEW n \in Node, NEW h \in delivered[n], RemoveDelivered(n, h)
      PROVE  Taken
  BY Zenon, <1>3, <1>4 DEF RemoveDelivered
<1>5. ASSUME NEW n \in Node, NEW h \in todo[n], DiscardExpired(n, h)
      PROVE  Taken
  <2>1. DeleteHint(n, h) /\ h \in expired'[n]
    BY Zenon, <1>5 DEF DiscardExpired, TypeOK
  <2> QED BY Zenon, <1>3, <2>1
<1>6. ASSUME NEW n \in Node, NEW h, DeliverHint(n, h) \/ DeliveryFails(n, h) \/ DeliveryAckLost(n, h)
      PROVE  Taken
  BY Zenon, <1>a, <1>6 DEF DeliverHint, DeliveryFails, DeliveryAckLost
<1>7. ASSUME NEW n \in Node, StartPass(n) \/ PassFails(n) \/ Restart(n)
      PROVE  Taken
  BY Zenon, <1>a, <1>7 DEF StartPass, PassFails, Restart
<1> HIDE DEF Taken
<1>8. Taken
  BY Zenon, <1>a, <1>1, <1>2, <1>4, <1>5, <1>6, <1>7, StoreSteps DEF HintStep
<1> QED BY Zenon, <1>8 DEF Taken

\* A hint with the key of another one is that hint, or comes from another
\* coordinator that used the same timestamp.
LEMMA SameHint ==
  ASSUME Inv, Stamps, NEW o \in Op, Stamped(o), NEW t, NEW h \in Hint, IsWritten(h.versioned),
         SameKey(HintFor(o, t), h)
  PROVE  h = HintFor(o, t) \/ Collides(o)
<1>1. PICK q \in Op : Stamped(q) /\ h.versioned = CopyOf(q)
  BY Zenon DEF IsWritten
<1>2. h.target = t /\ h.versioned.hlc = hlc[o]
  BY Zenon DEF SameKey, HintFor
<1>3. hlc[q] = hlc[o]
  <2>1. CopyOf(q).hlc = hlc[q]
    BY Zenon DEF CopyOf
  <2> QED BY Zenon, <1>1, <1>2, <2>1
<1>4. CASE req[q].coord # req[o].coord
  BY Zenon, <1>1, <1>3, <1>4 DEF Collides
<1>5. CASE req[q].coord = req[o].coord
  <2>1. q = o
    BY Zenon, <1>1, <1>3, <1>5 DEF Stamps
  <2>2. (req[o].kind = "delete") = (req[o].doc = NoDoc)
    BY Zenon DEF Inv, Shape, ShapeOf, Stamped, Mutates
  <2>3. h.versioned = HintFor(o, t).versioned
    BY Zenon, <1>1, <2>1, <2>2 DEF CopyOf, HintFor
  <2>4. h = [target |-> h.target, versioned |-> h.versioned]
    BY Zenon DEF Hint
  <2> QED BY Zenon, <1>2, <2>3, <2>4 DEF HintFor
<1> QED BY Zenon, <1>4, <1>5

\* What HandoffComplete rests on: hints are of stamped operations, and a hint that
\* a pass has delivered is at its target.
HandoffInv ==
  /\ \A o \in Op : hinted[o] # {} => Stamped(o)
  /\ \A n \in Node : \A h \in delivered[n] : h.versioned.version \in placed[h.target]
  /\ HandoffComplete

\* Only store_sloppy_hints hands out hints, for an operation in that phase.
LEMMA HintedSteps ==
  ASSUME Inv, [Next]_vars, NEW o \in Op, hinted'[o] # hinted[o]
  PROVE  \E t \in Owners, f \in Node : StoreHint(o, t, f)
<1>1. hinted' # hinted /\ DOMAIN hinted = Op
  BY Zenon DEF Inv, TypeOK
<1>2. ASSUME NEW p \in Op, NEW n \in Owners, WriteRpc(p, n) \/ AckLost(p, n) \/ RepairWrite(p, n)
      PROVE  FALSE
  BY Zenon, <1>1, <1>2 DEF WriteRpc, AckLost, RepairWrite
<1>3. ASSUME NEW p \in Op, NEW t \in Owners, NEW f \in Node, StoreHint(p, t, f) \/ HintAckLost(p, t, f)
      PROVE  StoreHint(p, t, f) /\ p = o
  BY Zenon, <1>1, <1>3 DEF StoreHint, HintAckLost
<1>4. ASSUME NEW n \in Node, HintStep(n) \/ Restart(n)
      PROVE  FALSE
  BY Zenon, <1>1, <1>4 DEF HintStep, StartPass, PassFails, DeliverHint, DeliveryFails,
     DeliveryAckLost, DiscardExpired, RemoveDelivered, Restart, opVars
<1> QED BY Zenon, <1>1, <1>2, <1>3, <1>4, StoreSteps

\* A pass marks a hint as delivered in the step that stores it at its target.
LEMMA DeliveredSteps ==
  ASSUME Inv, CopiesIntact, [Next]_vars, NEW n \in Node, NEW h, h \in delivered'[n]
  PROVE  h \in delivered[n] \/ (h.target \in Node /\ h.versioned.version \in placed'[h.target])
<1> USE DEF Inv
<1>a. DOMAIN delivered = Node
  BY Zenon, Domains
<1> DEFINE Goal == h \in delivered[n] \/ (h.target \in Node /\ h.versioned.version \in placed'[h.target])
<1>1. ASSUME NEW o \in Op, NEW m \in Owners, WriteRpc(o, m) \/ AckLost(o, m) \/ RepairWrite(o, m)
      PROVE  Goal
  BY Zenon, <1>1 DEF WriteRpc, AckLost, RepairWrite, hintVars
<1>2. ASSUME NEW o \in Op, NEW t \in Owners, NEW f \in Node, StoreHint(o, t, f) \/ HintAckLost(o, t, f)
      PROVE  Goal
  BY Zenon, <1>2 DEF StoreHint, HintAckLost
<1>3. ASSUME NEW m \in Node, NEW g \in todo[m], DeliverHint(m, g)
      PROVE  Goal
  <2>1. g.target \in Node /\ IsWritten(g.versioned)
    BY ReplicationAssumption DEF TypeOK, Hint, CopiesIntact
  <2>2. Put(g.target, g.versioned) /\ delivered' = [delivered EXCEPT ![m] = {g}]
    BY Zenon, <1>3, <2>1, ForwardedCopy DEF DeliverHint
  <2>3. g.versioned.version \in placed'[g.target]
    BY Zenon, <2>1, <2>2, PutPlaces
  <2> QED BY Zenon, <1>a, <2>1, <2>2, <2>3
<1>4. ASSUME NEW m \in Node, NEW g, DeliveryFails(m, g) \/ DeliveryAckLost(m, g) \/ DiscardExpired(m, g)
      PROVE  Goal
  BY Zenon, <1>4 DEF DeliveryFails, DeliveryAckLost, DiscardExpired
<1>5. ASSUME NEW m \in Node, NEW g, RemoveDelivered(m, g)
      PROVE  Goal
  BY Zenon, <1>a, <1>5 DEF RemoveDelivered
<1>6. ASSUME NEW m \in Node, StartPass(m) \/ PassFails(m) \/ Restart(m)
      PROVE  Goal
  BY Zenon, <1>a, <1>6 DEF StartPass, PassFails, Restart
<1> HIDE DEF Goal
<1>7. ASSUME delivered' = delivered
      PROVE  Goal
  BY Zenon, <1>7 DEF Goal
<1>8. Goal
  BY Zenon, <1>1, <1>2, <1>3, <1>4, <1>5, <1>6, <1>7, StoreSteps DEF HintStep
<1> QED BY Zenon, <1>8 DEF Goal

\* Every step keeps the handoff invariant: a hint that leaves its store has been
\* delivered, has expired, or lost its key to another coordinator's hint.
LEMMA NextKeepsHandoff == Inv /\ CopiesIntact /\ Stamps /\ HandoffInv /\ [Next]_vars => HandoffInv'
<1> SUFFICES ASSUME Inv, CopiesIntact, Stamps, HandoffInv, [Next]_vars
             PROVE  HandoffInv'
  OBVIOUS
<1>a. Kept
  BY Zenon, KeptByNext
<1>b. \A n \in Node : placed[n] \subseteq placed'[n] /\ expired[n] \subseteq expired'[n]
  BY Zenon, HistoryGrows
<1>c. ASSUME NEW o \in Op, Stamped(o)
      PROVE  /\ Stamped(o)' /\ Version(o)' = Version(o)
             /\ \A t : HintFor(o, t)' = HintFor(o, t)
             /\ Collides(o) => Collides(o)'
  <2>1. req'[o] = req[o] /\ hlc'[o] = hlc[o]
    BY Zenon, <1>a, <1>c DEF Kept
  <2>2. Stamped(o)' /\ Version(o)' = Version(o) /\ \A t : HintFor(o, t)' = HintFor(o, t)
    BY Zenon, <1>c, <2>1 DEF Stamped, Mutates, Version, HintFor
  <2>3. ASSUME Collides(o)
        PROVE  Collides(o)'
    <3>1. PICK p \in Op : Stamped(p) /\ req[p].coord # req[o].coord /\ hlc[p] = hlc[o]
      BY Zenon, <2>3 DEF Collides
    <3>2. req'[p] = req[p] /\ hlc'[p] = hlc[p]
      BY Zenon, <1>a, <3>1 DEF Kept
    <3>3. Stamped(p)'
      BY Zenon, <3>1, <3>2 DEF Stamped, Mutates
    <3> QED BY Zenon, <2>1, <3>1, <3>2, <3>3 DEF Collides
  <2> QED BY Zenon, <2>2, <2>3
<1>1. ASSUME NEW o \in Op, hinted'[o] # {}
      PROVE  Stamped(o) /\ Stamped(o)'
  <2>1. CASE hinted'[o] = hinted[o]
    BY Zenon, <1>1, <1>c, <2>1 DEF HandoffInv
  <2>2. CASE hinted'[o] # hinted[o]
    <3>1. phase[o] = "hints"
      BY Zenon, <2>2, HintedSteps DEF StoreHint
    <3>2. Stamped(o)
      BY Zenon, <3>1, ShapeAt DEF ShapeOf, Stamped
    <3> QED BY Zenon, <1>c, <3>2
  <2> QED BY Zenon, <2>1, <2>2
<1>2. ASSUME NEW n \in Node, NEW h \in delivered'[n]
      PROVE  h.versioned.version \in placed'[h.target]
  <2>1. CASE h \in delivered[n]
    <3>1. h \in Hint
      BY Zenon, <2>1 DEF Inv, TypeOK
    <3>2. h.target \in Node
      BY Zenon, <3>1, ReplicationAssumption DEF Hint
    <3> QED BY Zenon, <1>b, <2>1, <3>2 DEF HandoffInv
  <2> QED BY Zenon, <1>2, <2>1, DeliveredSteps
<1>3. ASSUME NEW o \in Op, NEW p \in hinted'[o]
      PROVE  HintKept(o, p[1], p[2])' \/ Collides(o)'
  <2>1. Stamped(o) /\ hinted' \in [Op -> SUBSET (Owners \X Fallbacks)]
    BY Zenon, <1>1, <1>3, NextKeepsTypes DEF Inv, TypeOK
  <2>2. p[1] \in Owners /\ p[1] \in Node /\ p[2] \in Node
    BY <1>3, <2>1, ReplicationAssumption DEF Fallbacks
  <2>3. CASE p \in hinted[o]
    <3>1. HintKept(o, p[1], p[2]) \/ Collides(o)
      BY Zenon, <2>3 DEF HandoffInv, HandoffComplete
    <3>2. CASE Collides(o)
      BY Zenon, <1>c, <2>1, <3>2
    <3>3. CASE Version(o) \in placed[p[1]] \/ HintFor(o, p[1]) \in expired[p[2]]
      BY Zenon, <1>b, <1>c, <2>1, <2>2, <3>3 DEF HintKept
    <3>4. CASE HintFor(o, p[1]) \in hints[p[2]] /\ HintFor(o, p[1]) \notin hints'[p[2]]
      <4>1. PICK h \in Hint : /\ SameKey(HintFor(o, p[1]), h) /\ IsWritten(h.versioned)
                              /\ h \in hints'[p[2]] \cup delivered[p[2]] \cup expired'[p[2]]
        BY Zenon, <2>2, <3>4, HintLeaves
      <4>2. CASE h = HintFor(o, p[1])
        <5>1. h.target = p[1] /\ h.versioned.version = Version(o)
          BY Zenon, <4>2 DEF HintFor
        <5>2. CASE h \in delivered[p[2]]
          BY Zenon, <1>b, <1>c, <2>1, <2>2, <5>1, <5>2 DEF HandoffInv, HintKept
        <5>3. CASE h \in expired'[p[2]]
          BY Zenon, <1>c, <2>1, <4>2, <5>3 DEF HintKept
        <5> QED BY Zenon, <3>4, <4>1, <4>2, <5>2, <5>3
      <4>3. CASE Collides(o)
        BY Zenon, <1>c, <2>1, <4>3
      <4> QED BY Zenon, <2>1, <4>1, <4>2, <4>3, SameHint
    <3>5. CASE HintFor(o, p[1]) \in hints'[p[2]]
      BY Zenon, <1>c, <2>1, <3>5 DEF HintKept
    <3> QED BY Zenon, <3>1, <3>2, <3>3, <3>4, <3>5 DEF HintKept
  <2>4. CASE p \notin hinted[o]
    <3>1. PICK t \in Owners, f \in Node : StoreHint(o, t, f)
      BY Zenon, <1>3, <2>4, HintedSteps
    <3>2. hinted' = [hinted EXCEPT ![o] = @ \cup {<<t, f>>}] /\ DOMAIN hinted = Op /\ DOMAIN hints = Node
      BY Zenon, <3>1 DEF StoreHint, Inv, TypeOK
    <3>3. p = <<t, f>>
      BY Zenon, <1>3, <2>4, <3>2
    <3>4. HintFor(o, t) \in hints'[f]
      BY Zenon, <3>1, <3>2 DEF StoreHint, StoreHintAt
    <3>5. p[1] = t /\ p[2] = f
      BY <3>3
    <3> QED BY Zenon, <1>c, <2>1, <3>4, <3>5 DEF HintKept
  <2> QED BY Zenon, <2>3, <2>4
<1> QED BY Zenon, <1>1, <1>2, <1>3 DEF HandoffInv, HandoffComplete

\* deliver_pending_hints loses no hint: it disappears only when its target has
\* stored the version, when it has expired, or when a hint of another coordinator
\* took its key; whatever passes, failures, lost answers and restarts interleave.
THEOREM HandoffLosesNothing == Spec => []HandoffComplete
<1> DEFINE AllInv == Inv /\ CopiesIntact /\ Stamps /\ HandoffInv
<1>1. Init => AllInv
  <2>1. Init => CopiesIntact
    BY DEF Init, CopiesIntact
  <2>2. Init => Stamps
    BY DEF Init, Stamps, Stamped
  <2>3. Init => HandoffInv
    BY DEF Init, HandoffInv, HandoffComplete
  <2> QED BY Zenon, <2>1, <2>2, <2>3, InitTypes
<1>2. AllInv /\ [Next]_vars => AllInv'
  BY Zenon, NextKeepsTypes, NextKeepsCopies, NextKeepsStamps, NextKeepsHandoff
<1>3. AllInv => HandoffComplete
  BY Zenon DEF HandoffInv
<1> QED BY <1>1, <1>2, <1>3, PTL DEF Spec

-----------------------------------------------------------------------------
(* RPCs.                                                                   *)

\* An RPC is acknowledged by the step that answers it, and an acknowledgment
\* stays until the operation leaves broadcast_write, store_sloppy_hints or
\* quorum_read.
LEMMA AckedRpcs ==
  ASSUME Inv, [Next]_vars, NEW o \in Op, NEW n \in Owners, rpc'[o][n] = "acked",
         phase'[o] \in {"broadcast", "hints", "read"}
  PROVE  \/ WriteRpc(o, n) \/ ReadRpc(o, n)
         \/ /\ rpc[o][n] = "acked"
            /\ phase'[o] = phase[o] \/ (phase[o] = "broadcast" /\ phase'[o] = "hints")
<1> DEFINE Same == /\ rpc[o][n] = "acked"
                   /\ phase'[o] = phase[o] \/ (phase[o] = "broadcast" /\ phase'[o] = "hints")
           Goal == WriteRpc(o, n) \/ ReadRpc(o, n) \/ Same
<1>a. DOMAIN rpc = Op /\ DOMAIN phase = Op /\ DOMAIN rpc[o] = Owners
  BY Zenon DEF Inv, TypeOK
<1>1. ASSUME NEW p \in Op, Submit(p)
      PROVE  Goal
  <2>1. ASSUME NEW r, SubmitWrite(p, r)
        PROVE  Goal
    BY Zenon, <1>a, <2>1 DEF SubmitWrite, CacheLookup
  <2>2. ASSUME NEW r, SubmitDelete(p, r)
        PROVE  Goal
    BY Zenon, <1>a, <2>2 DEF SubmitDelete
  <2>3. ASSUME NEW r, SubmitRead(p, r)
        PROVE  Goal
    BY Zenon, <1>a, <2>3 DEF SubmitRead
  <2> QED BY Zenon, <1>1, <2>1, <2>2, <2>3 DEF Submit
<1>2. ASSUME NEW p \in Op, StampAndBroadcast(p)
      PROVE  Goal
  BY Zenon, <1>a, <1>2 DEF StampAndBroadcast
<1>3. ASSUME NEW p \in Op, StampFails(p)
      PROVE  Goal
  BY Zenon, <1>a, <1>3 DEF StampFails
<1>4. ASSUME NEW p \in Op, NEW m \in Owners, WriteRpc(p, m)
      PROVE  Goal
  <2>1. rpc' = [rpc EXCEPT ![p][m] = "acked"] /\ phase' = phase
    BY Zenon, <1>4 DEF WriteRpc
  <2>2. CASE p = o /\ m = n
    BY Zenon, <1>4, <2>2
  <2>3. CASE ~(p = o /\ m = n)
    BY Zenon, <1>a, <2>1, <2>3
  <2> QED BY Zenon, <2>2, <2>3
<1>5. ASSUME NEW p \in Op, NEW m \in Owners, ReadRpc(p, m)
      PROVE  Goal
  <2>1. rpc' = [rpc EXCEPT ![p][m] = "acked"] /\ phase' = phase
    BY Zenon, <1>5 DEF ReadRpc
  <2>2. CASE p = o /\ m = n
    BY Zenon, <1>5, <2>2
  <2>3. CASE ~(p = o /\ m = n)
    BY Zenon, <1>a, <2>1, <2>3
  <2> QED BY Zenon, <2>2, <2>3
<1>6. ASSUME NEW p \in Op, NEW m \in Owners, RpcFails(p, m) \/ AckLost(p, m)
      PROVE  Goal
  BY Zenon, <1>a, <1>6 DEF RpcFails, AckLost
<1>7. ASSUME NEW p \in Op, FinishBroadcast(p)
      PROVE  Goal
  BY Zenon, <1>a, <1>7 DEF FinishBroadcast, ClearRpcs
<1>8. ASSUME NEW p \in Op, FinishHints(p) \/ FinishRead(p) \/ Cancel(p)
      PROVE  Goal
  <2>1. /\ rpc' = [rpc EXCEPT ![p] = [m \in Owners |-> "none"]]
        /\ \E s : phase' = [phase EXCEPT ![p] = s]
    <3>1. CASE FinishHints(p)
      BY Zenon, <3>1 DEF FinishHints, ClearRpcs
    <3>2. CASE FinishRead(p)
      BY Zenon, <3>2 DEF FinishRead, ClearRpcs
    <3>3. CASE Cancel(p)
      BY Zenon, <3>3 DEF Cancel, ClearRpcs
    <3> QED BY Zenon, <1>8, <3>1, <3>2, <3>3
  <2>2. p # o
    BY Zenon, <1>a, <2>1
  <2> QED BY Zenon, <1>a, <2>1, <2>2
<1>9. ASSUME NEW p \in Op, Retire(p)
      PROVE  Goal
  BY Zenon, <1>a, <1>9 DEF Retire
<1>10. ASSUME NEW m \in Node, Restart(m)
       PROVE  Goal
  BY Zenon, <1>a, <1>10 DEF Restart
<1>11. ASSUME UNCHANGED <<rpc, phase>>
       PROVE  Goal
  BY Zenon, <1>11
<1> HIDE DEF Goal
<1>12. ASSUME NEW p \in Op, NEW t \in Owners, NEW f \in Node,
              StoreHint(p, t, f) \/ HintRpcFails(p, t, f) \/ HintAckLost(p, t, f)
       PROVE  Goal
  BY Zenon, <1>11, <1>12 DEF StoreHint, HintRpcFails, HintAckLost
<1>13. ASSUME NEW p \in Op, NEW m \in Owners, RepairWrite(p, m) \/ RepairFails(p, m)
       PROVE  Goal
  BY Zenon, <1>11, <1>13 DEF RepairWrite, RepairFails
<1>14. ASSUME NEW m \in Node, HintStep(m)
       PROVE  Goal
  BY Zenon, <1>11, <1>14 DEF HintStep, StartPass, PassFails, DeliverHint, DeliveryFails,
     DeliveryAckLost, DiscardExpired, RemoveDelivered, opVars
<1>15. ASSUME NEW c \in Coordinators, NEW k \in IKeys, EvictExpired(c, k)
       PROVE  Goal
  BY Zenon, <1>11, <1>15 DEF EvictExpired, opVars
<1>16. ASSUME UNCHANGED vars
       PROVE  Goal
  BY Zenon, <1>11, <1>16 DEF vars, opVars
<1>17. Goal
  BY ZenonT(40), <1>1, <1>2, <1>3, <1>4, <1>5, <1>6, <1>7, <1>8, <1>9, <1>10, <1>12, <1>13,
     <1>14, <1>15, <1>16 DEF Next, MutationStep, ReadStep
<1> QED BY Zenon, <1>17 DEF Goal

-----------------------------------------------------------------------------
(* How many nodes hold an acknowledged write.                              *)

\* Owners with the document and non-owners with a hint are different nodes, and
\* store_sloppy_hints uses a non-owner once: the sum it compares with W counts
\* nodes.
LEMMA HoldersCount ==
  ASSUME NEW A \in SUBSET Owners, NEW H \in SUBSET (Owners \X Fallbacks),
         \A p, q \in H : p[2] = q[2] => p = q
  PROVE  Cardinality(A \cup {p[2] : p \in H}) = Cardinality(A) + Cardinality(H)
<1> DEFINE F == {p[2] : p \in H}
<1>1. IsFiniteSet(Owners) /\ IsFiniteSet(Fallbacks)
  BY FS_Subset, ReplicationAssumption DEF Fallbacks
<1>2. IsFiniteSet(Owners \X Fallbacks)
  BY Zenon, <1>1, FS_Product
<1>3. IsFiniteSet(A) /\ IsFiniteSet(H)
  BY Zenon, <1>1, <1>2, FS_Subset
<1>4. [p \in H |-> p[2]] \in Bijection(H, F)
  <2> DEFINE g == [p \in H |-> p[2]]
  <2>1. g \in [H -> F] /\ \A p, q \in H : g[p] = g[q] => p = q
    BY Zenon
  <2>2. \A x \in F : \E p \in H : g[p] = x
    BY Zenon
  <2>3. g \in Bijection(H, F)
    <3> HIDE DEF g, F
    <3>1. DOMAIN g = H
      BY Zenon, <2>1
    <3> QED BY Zenon, <2>1, <2>2, <3>1 DEF Bijection, Injection, Surjection, IsInjective
  <2> QED BY Zenon, <2>3
<1>5. IsFiniteSet(F) /\ Cardinality(F) = Cardinality(H)
  <2> HIDE DEF F
  <2>1. ExistsBijection(H, F)
    BY Zenon, <1>4 DEF ExistsBijection
  <2> QED BY Zenon, <1>3, <2>1, FS_Bijection
<1>6. A \cap F = {}
  BY DEF Fallbacks
<1> HIDE DEF F
<1>7. Cardinality(A \cup F) = Cardinality(A) + Cardinality(F) - Cardinality(A \cap F)
  BY Zenon, <1>3, <1>5, FS_Union
<1>8. Cardinality(A) \in Nat /\ Cardinality(F) \in Nat
  BY Zenon, <1>3, <1>5, FS_CardinalityType
<1>9. Cardinality(A \cup F) = Cardinality(A) + Cardinality(F)
  <2>1. Cardinality(A \cap F) = 0
    BY Zenon, <1>6, EmptyCount
  <2>2. \A a, b \in Nat : a + b - 0 = a + b
    OBVIOUS
  <2> QED BY Zenon, <1>7, <1>8, <2>1, <2>2
<1> QED BY Zenon, <1>5, <1>9 DEF F

\* The life of a slot: an operation is new until it is stamped and sent, a read
\* stays a read, and store_sloppy_hints follows broadcast_write and forgets no
\* pair it has tried.
LEMMA SlotSteps ==
  ASSUME Inv, [Next]_vars, NEW o \in Op
  PROVE  /\ (phase'[o] \in {"idle", "stamp", "broadcast"} \/ req'[o].kind = "read")
              => (phase[o] \in {"idle", "stamp", "broadcast"} \/ req[o].kind = "read")
         /\ phase'[o] = "hints" => phase[o] \in {"broadcast", "hints"} /\ tried[o] \subseteq tried'[o]
<1> DEFINE Early == phase[o] \in {"idle", "stamp", "broadcast"} \/ req[o].kind = "read"
           Goal == /\ (phase'[o] \in {"idle", "stamp", "broadcast"} \/ req'[o].kind = "read") => Early
                   /\ phase'[o] = "hints" => phase[o] \in {"broadcast", "hints"} /\ tried[o] \subseteq tried'[o]
<1>a. DOMAIN req = Op /\ DOMAIN phase = Op /\ DOMAIN tried = Op
  BY Zenon DEF Inv, TypeOK
<1>b. ASSUME req'[o] = req[o], phase'[o] = phase[o], tried[o] \subseteq tried'[o]
      PROVE  Goal
  BY Zenon, <1>b
<1>c. ASSUME UNCHANGED <<req, phase, tried>>
      PROVE  Goal
  BY Zenon, <1>b, <1>c
<1>1. ASSUME NEW p \in Op, NEW r, SubmitWrite(p, r) \/ SubmitDelete(p, r) \/ SubmitRead(p, r)
      PROVE  Goal
  <2>1. /\ phase[p] = "idle" /\ req' = [req EXCEPT ![p] = r] /\ tried' = tried
        /\ \E s \in {"stamp", "replayed", "conflict", "read"} : phase' = [phase EXCEPT ![p] = s]
    <3>1. CASE SubmitWrite(p, r)
      BY Zenon, <3>1 DEF SubmitWrite, FreeSlot, CacheLookup
    <3>2. CASE SubmitDelete(p, r)
      BY Zenon, <3>2 DEF SubmitDelete, FreeSlot
    <3>3. CASE SubmitRead(p, r)
      BY Zenon, <3>3 DEF SubmitRead, FreeSlot
    <3> QED BY Zenon, <1>1, <3>1, <3>2, <3>3
  <2> QED BY Zenon, <1>a, <2>1
<1>2. ASSUME NEW p \in Op, StampAndBroadcast(p) \/ StampFails(p)
      PROVE  Goal
  <2>1. /\ phase[p] = "stamp" /\ req' = req /\ tried' = tried
        /\ \E s \in {"broadcast", "err"} : phase' = [phase EXCEPT ![p] = s]
    BY Zenon, <1>2 DEF StampAndBroadcast, StampFails
  <2> QED BY Zenon, <1>a, <2>1
<1>3. ASSUME NEW p \in Op, FinishBroadcast(p)
      PROVE  Goal
  <2>1. /\ phase[p] = "broadcast" /\ req' = req /\ tried' = tried
        /\ \E s \in {"ok", "hints"} : phase' = [phase EXCEPT ![p] = s]
    BY Zenon, <1>3 DEF FinishBroadcast
  <2> QED BY Zenon, <1>a, <2>1
<1>4. ASSUME NEW p \in Op, FinishHints(p)
      PROVE  Goal
  <2>1. /\ req' = req /\ tried' = [tried EXCEPT ![p] = {}]
        /\ \E s \in {"ok", "err"} : phase' = [phase EXCEPT ![p] = s]
    BY Zenon, <1>4 DEF FinishHints
  <2> QED BY Zenon, <1>a, <2>1
<1>5. ASSUME NEW p \in Op, NEW t \in Owners, NEW f \in Node,
             StoreHint(p, t, f) \/ HintRpcFails(p, t, f) \/ HintAckLost(p, t, f)
      PROVE  Goal
  <2>1. req' = req /\ phase' = phase /\ tried' = [tried EXCEPT ![p] = @ \cup {<<t, f>>}]
    BY Zenon, <1>5 DEF StoreHint, HintRpcFails, HintAckLost
  <2>2. tried[o] \subseteq tried'[o]
    BY Zenon, <1>a, <2>1
  <2> QED BY Zenon, <1>b, <2>1, <2>2
<1>6. ASSUME NEW p \in Op, FinishRead(p)
      PROVE  Goal
  <2>1. /\ req' = req /\ tried' = tried /\ req[p].kind = "read"
        /\ \E s \in {"ok", "err"} : phase' = [phase EXCEPT ![p] = s]
    BY Zenon, <1>6, ShapeAt DEF FinishRead, ShapeOf
  <2> QED BY Zenon, <1>a, <2>1
<1>7. ASSUME NEW p \in Op, Retire(p)
      PROVE  Goal
  BY Zenon, <1>a, <1>7 DEF Retire
<1>8. ASSUME NEW p \in Op, Cancel(p)
      PROVE  Goal
  <2>1. /\ req' = req /\ tried' = [tried EXCEPT ![p] = {}]
        /\ phase' = [phase EXCEPT ![p] = "lost"]
    BY Zenon, <1>8 DEF Cancel
  <2> QED BY Zenon, <1>a, <2>1
<1>9. ASSUME NEW n \in Node, Restart(n)
      PROVE  Goal
  <2>1. /\ req' = req
        /\ phase' = [p \in Op |-> IF p \in RunningAt(n) THEN "lost" ELSE phase[p]]
        /\ tried' = [p \in Op |-> IF p \in RunningAt(n) THEN {} ELSE tried[p]]
    BY Zenon, <1>9 DEF Restart
  <2> QED BY Zenon, <2>1
<1> HIDE DEF Goal
<1>10. ASSUME NEW p \in Op, NEW n \in Owners,
              \/ WriteRpc(p, n) \/ RpcFails(p, n) \/ AckLost(p, n)
              \/ ReadRpc(p, n) \/ RepairWrite(p, n) \/ RepairFails(p, n)
       PROVE  Goal
  BY Zenon, <1>c, <1>10 DEF WriteRpc, RpcFails, AckLost, ReadRpc, RepairWrite, RepairFails
<1>11. ASSUME NEW n \in Node, HintStep(n)
       PROVE  Goal
  BY Zenon, <1>c, <1>11 DEF HintStep, StartPass, PassFails, DeliverHint, DeliveryFails,
     DeliveryAckLost, DiscardExpired, RemoveDelivered, opVars
<1>12. ASSUME NEW c \in Coordinators, NEW k \in IKeys, EvictExpired(c, k)
       PROVE  Goal
  BY Zenon, <1>c, <1>12 DEF EvictExpired, opVars
<1>13. ASSUME UNCHANGED vars
       PROVE  Goal
  BY Zenon, <1>c, <1>13 DEF vars, opVars
<1>14. Goal
  BY ZenonT(40), <1>1, <1>2, <1>3, <1>4, <1>5, <1>6, <1>7, <1>8, <1>9, <1>10, <1>11, <1>12, <1>13
     DEF Next, Submit, MutationStep, ReadStep
<1> QED BY Zenon, <1>14 DEF Goal

\* What AckedByW rests on: an owner whose RPC was acknowledged has stored the
\* version, only store_sloppy_hints hands out hints, and it uses a fallback once.
AckInv ==
  /\ \A o \in Op : phase[o] \in {"broadcast", "hints"} =>
       \A n \in Acked(o) : Version(o) \in placed[n]
  /\ \A o \in Op : (phase[o] \in {"idle", "stamp", "broadcast"} \/ req[o].kind = "read") =>
       hinted[o] = {}
  /\ \A o \in Op : phase[o] = "hints" => hinted[o] \subseteq tried[o]
  /\ \A o \in Op : \A p, q \in hinted[o] : p[2] = q[2] => p = q
  /\ AckedByW


\* The step that acknowledges an operation counts its acknowledged owners, or
\* those and its stored hints: each is a node of its own.
LEMMA AckedHolders ==
  ASSUME Inv, AckInv, NEW o \in Op, FinishBroadcast(o) \/ FinishHints(o), phase'[o] = "ok"
  PROVE  Cardinality(HolderNodes(o)) >= W
<1>1. phase[o] \in {"broadcast", "hints"} /\ Cardinality(Acked(o)) + Cardinality(hinted[o]) >= W
  <2>1. CASE FinishHints(o)
    <3>1. phase[o] = "hints" /\ DOMAIN phase = Op
      BY Zenon, <2>1 DEF FinishHints, Inv, TypeOK
    <3> QED BY Zenon, <2>1, <3>1 DEF FinishHints
  <2>2. CASE FinishBroadcast(o)
    <3>1. phase[o] = "broadcast" /\ DOMAIN phase = Op
      BY Zenon, <2>2 DEF FinishBroadcast, Inv, TypeOK
    <3>2. Cardinality(Acked(o)) >= W
      BY Zenon, <2>2, <3>1 DEF FinishBroadcast
    <3>3. hinted[o] = {}
      BY Zenon, <3>1 DEF AckInv
    <3>4. Cardinality(Acked(o)) \in Nat
      <4>1. Acked(o) \in SUBSET Node
        BY Zenon, ReplicationAssumption DEF Acked, RpcIn
      <4> QED BY Zenon, <4>1, FS_Subset, FS_CardinalityType, ReplicationAssumption
    <3>5. Cardinality(Acked(o)) + 0 >= W
      BY <3>2, <3>4
    <3> QED BY Zenon, <3>1, <3>3, <3>5, EmptyCount
  <2> QED BY Zenon, <2>1, <2>2
<1> DEFINE Some == Acked(o) \cup {p[2] : p \in hinted[o]}
<1>2. Acked(o) \in SUBSET Owners /\ hinted[o] \in SUBSET (Owners \X Fallbacks)
  BY Zenon DEF Acked, RpcIn, Inv, TypeOK
<1>3. \A p, q \in hinted[o] : p[2] = q[2] => p = q
  BY Zenon DEF AckInv
<1>4. Cardinality(Some) = Cardinality(Acked(o)) + Cardinality(hinted[o])
  BY Zenon, <1>2, <1>3, HoldersCount
<1>5. \A n \in Acked(o) : n \in Node /\ Version(o) \in placed[n]
  BY Zenon, <1>1, <1>2, ReplicationAssumption DEF AckInv
<1>6. Some \in SUBSET HolderNodes(o)
  BY Zenon, <1>5 DEF HolderNodes
<1>7. HolderNodes(o) \in SUBSET Node
  BY <1>2 DEF HolderNodes, Fallbacks
<1> HIDE DEF Some
<1>8. IsFiniteSet(HolderNodes(o))
  BY Zenon, <1>7, FS_Subset, ReplicationAssumption
<1>9. Cardinality(Some) <= Cardinality(HolderNodes(o)) /\ IsFiniteSet(Some)
  BY Zenon, <1>6, <1>8, FS_Subset
<1>10. Cardinality(HolderNodes(o)) \in Nat /\ Cardinality(Some) \in Nat
  BY Zenon, <1>8, <1>9, FS_CardinalityType
<1> QED BY <1>1, <1>4, <1>9, <1>10, ReplicationAssumption

\* Every step keeps the acknowledgments covered by nodes.
LEMMA NextKeepsAcks == Inv /\ AckInv /\ [Next]_vars => AckInv'
<1> SUFFICES ASSUME Inv, AckInv, [Next]_vars
             PROVE  AckInv'
  OBVIOUS
<1>a. \A n \in Node : placed[n] \subseteq placed'[n]
  BY Zenon, HistoryGrows
<1>b. Owners \subseteq Node /\ Inv'
  BY Zenon, ReplicationAssumption, NextKeepsTypes
<1>c. DOMAIN hinted = Op /\ DOMAIN tried = Op /\ DOMAIN phase = Op
  BY Zenon DEF Inv, TypeOK
<1>d. ASSUME NEW o \in Op, phase[o] \in {"broadcast", "hints"}
      PROVE  Version(o)' = Version(o) /\ Stamped(o)
  <2>1. Stamped(o)
    BY Zenon, <1>d, ShapeAt DEF ShapeOf, Stamped
  <2>2. req'[o] = req[o] /\ hlc'[o] = hlc[o]
    BY Zenon, <2>1, KeptByNext DEF Kept
  <2> QED BY Zenon, <2>1, <2>2 DEF Version
<1>1. ASSUME NEW o \in Op, phase'[o] \in {"broadcast", "hints"}, NEW n \in Owners, rpc'[o][n] = "acked"
      PROVE  Version(o)' \in placed'[n]
  <2>1. CASE WriteRpc(o, n)
    <3>1. phase[o] \in {"broadcast", "hints"} /\ Put(n, RemoteWrite(req[o].doc, Version(o), hlc[o]))
      BY Zenon, <2>1 DEF WriteRpc
    <3>2. RemoteWrite(req[o].doc, Version(o), hlc[o]).version = Version(o)
      BY Zenon DEF RemoteWrite, HandleWrite, HandleDelete, LiveDoc, Tombstone
    <3>3. RemoteWrite(req[o].doc, Version(o), hlc[o]).version \in placed'[n]
      BY Zenon, <1>b, <3>1, PutPlaces DEF Inv
    <3> QED BY Zenon, <1>d, <3>1, <3>2, <3>3
  <2>2. CASE ReadRpc(o, n)
    BY Zenon, <1>1, <2>2 DEF ReadRpc
  <2>3. CASE rpc[o][n] = "acked" /\ phase[o] \in {"broadcast", "hints"}
    <3>1. Version(o) \in placed[n]
      BY Zenon, <2>3 DEF AckInv, Acked, RpcIn
    <3> QED BY Zenon, <1>a, <1>b, <1>d, <2>3, <3>1
  <2>4. phase'[o] \in {"broadcast", "hints", "read"}
    BY Zenon, <1>1
  <2>5. \/ WriteRpc(o, n) \/ ReadRpc(o, n)
        \/ /\ rpc[o][n] = "acked"
           /\ phase'[o] = phase[o] \/ (phase[o] = "broadcast" /\ phase'[o] = "hints")
    BY Zenon, <1>1, <2>4, AckedRpcs
  <2> QED BY Zenon, <1>1, <2>1, <2>2, <2>3, <2>5
<1>2. ASSUME NEW o \in Op, hinted'[o] # hinted[o]
      PROVE  \E t \in Owners, f \in Node : StoreHint(o, t, f)
  BY Zenon, <1>2, HintedSteps
<1>3. ASSUME NEW o \in Op, phase'[o] \in {"idle", "stamp", "broadcast"} \/ req'[o].kind = "read"
      PROVE  hinted'[o] = {}
  <2>1. CASE hinted'[o] # hinted[o]
    <3>1. phase'[o] = "hints" /\ req'[o] = req[o] /\ phase[o] = "hints"
      BY Zenon, <1>2, <2>1 DEF StoreHint
    <3>2. req[o].kind # "read"
      BY Zenon, <3>1, ShapeAt DEF ShapeOf, Mutates
    <3> QED BY Zenon, <1>3, <3>1, <3>2
  <2>2. CASE hinted'[o] = hinted[o]
    BY Zenon, <1>3, <2>2, SlotSteps DEF AckInv
  <2> QED BY Zenon, <2>1, <2>2
<1>4. ASSUME NEW o \in Op, phase'[o] = "hints"
      PROVE  hinted'[o] \subseteq tried'[o]
  <2>1. CASE hinted'[o] # hinted[o]
    <3>1. PICK t \in Owners, f \in Node : StoreHint(o, t, f)
      BY Zenon, <1>2, <2>1
    <3>2. /\ phase[o] = "hints" /\ tried' = [tried EXCEPT ![o] = @ \cup {<<t, f>>}]
          /\ hinted' = [hinted EXCEPT ![o] = @ \cup {<<t, f>>}]
      BY Zenon, <3>1 DEF StoreHint
    <3>3. hinted[o] \subseteq tried[o]
      BY Zenon, <3>2 DEF AckInv
    <3> QED BY Zenon, <1>c, <3>2, <3>3
  <2>2. CASE hinted'[o] = hinted[o]
    <3>1. phase[o] \in {"broadcast", "hints"} /\ tried[o] \subseteq tried'[o]
      BY Zenon, <1>4, SlotSteps
    <3>2. hinted[o] \subseteq tried[o]
      BY Zenon, <3>1 DEF AckInv
    <3> QED BY Zenon, <2>2, <3>1, <3>2
  <2> QED BY Zenon, <2>1, <2>2
<1>5. ASSUME NEW o \in Op, NEW p, NEW q, p \in hinted'[o], q \in hinted'[o], p[2] = q[2]
      PROVE  p = q
  <2>1. CASE hinted'[o] = hinted[o]
    BY Zenon, <1>5, <2>1 DEF AckInv
  <2>2. CASE hinted'[o] # hinted[o]
    <3>1. PICK t \in Owners, f \in Node : StoreHint(o, t, f)
      BY Zenon, <1>2, <2>2
    <3>2. /\ phase[o] = "hints" /\ f \notin TriedFallbacks(o)
          /\ hinted' = [hinted EXCEPT ![o] = @ \cup {<<t, f>>}]
      BY Zenon, <3>1 DEF StoreHint, NextHint
    <3>3. \A r \in hinted[o] : r[2] # f
      BY Zenon, <3>2 DEF AckInv, TriedFallbacks
    <3>4. hinted'[o] = hinted[o] \cup {<<t, f>>} /\ <<t, f>>[2] = f
      BY Zenon, <1>c, <3>2
    <3>5. \A r, s \in hinted[o] : r[2] = s[2] => r = s
      BY Zenon DEF AckInv
    <3> QED BY Zenon, <1>5, <3>3, <3>4, <3>5
  <2> QED BY Zenon, <2>1, <2>2
<1>6. ASSUME NEW o \in Op, Mutates(o)', phase'[o] = "ok"
      PROVE  Cardinality(HolderNodes(o)') >= W
  <2>1. /\ Mutates(o) /\ req'[o] = req[o] /\ hlc'[o] = hlc[o]
        /\ phase[o] = "ok" \/ FinishBroadcast(o) \/ FinishHints(o)
    BY Zenon, <1>6, AckSteps
  <2>2. hinted'[o] = hinted[o]
    <3>1. ASSUME NEW t \in Owners, NEW f \in Node, StoreHint(o, t, f)
          PROVE  FALSE
      BY Zenon, <1>6, <3>1 DEF StoreHint
    <3> QED BY Zenon, <1>2, <3>1
  <2>3. HolderNodes(o) \subseteq HolderNodes(o)' /\ IsFiniteSet(HolderNodes(o)')
    <3>1. Version(o)' = Version(o)
      BY Zenon, <2>1 DEF Version
    <3>2. HolderNodes(o) \subseteq HolderNodes(o)'
      BY Zenon, <1>a, <2>2, <3>1 DEF HolderNodes
    <3>3. hinted'[o] \in SUBSET (Owners \X Fallbacks)
      BY Zenon, <1>b DEF Inv, TypeOK
    <3>4. HolderNodes(o)' \in SUBSET Node
      BY <3>3 DEF HolderNodes, Fallbacks
    <3> QED BY Zenon, <3>2, <3>4, FS_Subset, ReplicationAssumption
  <2>4. Cardinality(HolderNodes(o)) >= W
    <3>1. CASE phase[o] = "ok"
      BY Zenon, <2>1, <3>1 DEF AckInv, AckedByW
    <3>2. CASE FinishBroadcast(o) \/ FinishHints(o)
      BY Zenon, <1>6, <3>2, AckedHolders
    <3> QED BY Zenon, <2>1, <3>1, <3>2
  <2>5. Cardinality(HolderNodes(o)) <= Cardinality(HolderNodes(o)')
    BY Zenon, <2>3, FS_Subset
  <2>6. Cardinality(HolderNodes(o)) \in Nat /\ Cardinality(HolderNodes(o)') \in Nat
    BY Zenon, <2>3, FS_Subset, FS_CardinalityType
  <2> QED BY SMTT(30), <2>4, <2>5, <2>6, ReplicationAssumption
<1> QED BY Zenon, <1>1, <1>3, <1>4, <1>5, <1>6 DEF AckInv, AckedByW, Acked, RpcIn

\* quorum_write and quorum_delete return Ok only for an operation that W different
\* nodes have stored, on an owner as the document or on a non-owner as a hint.
THEOREM AcksAreHeld == Spec => []AckedByW
<1>1. Init => AckInv
  BY DEF Init, AckInv, AckedByW
<1>2. Inv /\ AckInv /\ [Next]_vars => Inv' /\ AckInv'
  BY Zenon, NextKeepsTypes, NextKeepsAcks
<1>3. AckInv => AckedByW
  BY Zenon DEF AckInv
<1> QED BY <1>1, <1>2, <1>3, InitTypes, PTL DEF Spec

-----------------------------------------------------------------------------
(* Versions of one coordinator.                                            *)

\* compare orders the versions of one coordinator by their timestamps.
LEMMA SingleClocksOrder ==
  ASSUME NEW c, NEW h \in Nat, NEW k \in Nat
  PROVE  Compare(Increment(EmptyClock, c, h), Increment(EmptyClock, c, k))
           = IF h <= k THEN IF k <= h THEN "Equal" ELSE "Before" ELSE "After"
<1> DEFINE v == [m \in {c} |-> h]
           w == [m \in {c} |-> k]
<1>1. /\ DOMAIN v = {c} /\ v[c] = h
      /\ DOMAIN w = {c} /\ w[c] = k
  BY Zenon
<1> HIDE DEF v, w
<1>2. (ClockLe(v, w) <=> h <= k) /\ (ClockLe(w, v) <=> k <= h)
  BY Zenon, <1>1 DEF ClockLe, Entry
<1>3. h <= k \/ k <= h
  OBVIOUS
<1>4. Compare(v, w) = IF h <= k THEN IF k <= h THEN "Equal" ELSE "Before" ELSE "After"
  BY Zenon, <1>2, <1>3 DEF Compare
<1> QED BY Zenon, <1>4, VersionIsSingle DEF v, w

\* A stored copy is a document, and its version is the timestamp of its
\* coordinator.
LEMMA WrittenDoc ==
  ASSUME Inv, NEW v, IsWritten(v), NEW c, Coordinators = {c}
  PROVE  /\ v # Absent /\ v.hlc \in Nat
         /\ v.version = Increment(EmptyClock, c, v.hlc)
<1>1. PICK o \in Op : Stamped(o) /\ v = CopyOf(o)
  BY Zenon DEF IsWritten
<1>2. phase[o] # "idle" /\ hlc[o] \in Time /\ hlc[o] \in Nat
  BY Zenon, <1>1, StampedRuns, Times DEF Inv, TypeOK
<1>3. /\ req[o].coord = c /\ req[o].doc \in Docs \cup {NoDoc}
      /\ Version(o) \in VectorClock(Node, Time)
  BY Zenon, <1>2, OpTypes
<1>4. v \in VersionedDoc
  BY Zenon, <1>1, <1>2, <1>3 DEF CopyOf, VersionedDoc
<1>5. v.hlc = hlc[o] /\ v.version = Version(o)
  BY Zenon, <1>1 DEF CopyOf
<1> QED BY Zenon, <1>2, <1>3, <1>4, <1>5, AbsentAssumption DEF Version

\* The winner of two copies of one coordinator is the later one.
LEMMA WinnerIsLater ==
  ASSUME Inv, NEW a, NEW b, IsWritten(a), IsWritten(b), NEW c, Coordinators = {c}
  PROVE  /\ ResolveTwo(a, b) # Absent
         /\ a.hlc <= ResolveTwo(a, b).hlc /\ b.hlc <= ResolveTwo(a, b).hlc
<1>1. /\ a # Absent /\ a.hlc \in Nat /\ a.version = Increment(EmptyClock, c, a.hlc)
      /\ b # Absent /\ b.hlc \in Nat /\ b.version = Increment(EmptyClock, c, b.hlc)
  BY Zenon, WrittenDoc
<1>2. Compare(a.version, b.version)
        = IF a.hlc <= b.hlc THEN IF b.hlc <= a.hlc THEN "Equal" ELSE "Before" ELSE "After"
  <2>1. Compare(Increment(EmptyClock, c, a.hlc), Increment(EmptyClock, c, b.hlc))
          = IF a.hlc <= b.hlc THEN IF b.hlc <= a.hlc THEN "Equal" ELSE "Before" ELSE "After"
    BY <1>1, SingleClocksOrder
  <2> QED BY Zenon, <1>1, <2>1
<1>3. CASE a.hlc <= b.hlc /\ ~(b.hlc <= a.hlc)
  <2>1. ResolveTwo(a, b) = b
    BY Zenon, <1>2, <1>3 DEF ResolveTwo
  <2>2. b.hlc <= b.hlc
    BY <1>1
  <2> QED BY Zenon, <1>1, <1>3, <2>1, <2>2
<1>4. CASE b.hlc <= a.hlc
  <2>1. ResolveTwo(a, b) = a
    BY Zenon, <1>2, <1>4 DEF ResolveTwo
  <2>2. a.hlc <= a.hlc
    BY <1>1
  <2> QED BY Zenon, <1>1, <1>4, <2>1, <2>2
<1>5. a.hlc <= b.hlc \/ b.hlc <= a.hlc
  BY <1>1
<1> QED BY Zenon, <1>3, <1>4, <1>5

-----------------------------------------------------------------------------
(* What a read returns.                                                    *)

\* A node stores only copies of operations, one at a time.
LEMMA NodeSteps ==
  ASSUME Inv, CopiesIntact, [Next]_vars
  PROVE  \/ UNCHANGED nodeVars
         \/ \E n \in Node : \E v : IsWritten(v) /\ Put(n, v)
<1> DEFINE Goal == UNCHANGED nodeVars \/ \E n \in Node : \E v : IsWritten(v) /\ Put(n, v)
<1>a. Owners \subseteq Node
  BY Zenon, ReplicationAssumption
<1>1. ASSUME NEW o \in Op, NEW n \in Owners, WriteRpc(o, n) \/ AckLost(o, n)
      PROVE  Goal
  <2>1. phase[o] \in {"broadcast", "hints"} /\ Put(n, RemoteWrite(req[o].doc, Version(o), hlc[o]))
    BY Zenon, <1>1 DEF WriteRpc, AckLost
  <2> QED BY Zenon, <1>a, <2>1, OwnCopy
<1>2. ASSUME NEW o \in Op, NEW n \in Owners, RepairWrite(o, n)
      PROVE  Goal
  <2>1. best[o] # Absent
    BY Zenon, <1>2, ShapeAt DEF RepairWrite, ShapeOf
  <2>2. IsWritten(best[o])
    BY Zenon, <2>1 DEF CopiesIntact
  <2>3. RemoteWrite(best[o].document, best[o].version, best[o].hlc) = best[o]
    BY Zenon, <2>2, ForwardedCopy
  <2> QED BY Zenon, <1>2, <1>a, <2>2, <2>3 DEF RepairWrite
<1>3. ASSUME NEW m \in Node, NEW h \in todo[m], DeliverHint(m, h) \/ DeliveryAckLost(m, h)
      PROVE  Goal
  <2>1. h.target \in Node /\ IsWritten(h.versioned)
    BY ReplicationAssumption DEF Inv, TypeOK, Hint, CopiesIntact
  <2>2. RemoteWrite(h.versioned.document, h.versioned.version, h.versioned.hlc) = h.versioned
    BY Zenon, <2>1, ForwardedCopy
  <2> QED BY Zenon, <1>3, <2>1, <2>2 DEF DeliverHint, DeliveryAckLost
<1> HIDE DEF Goal
<1>4. ASSUME UNCHANGED nodeVars
      PROVE  Goal
  BY Zenon, <1>4 DEF Goal
<1>5. ASSUME NEW m \in Node, StartPass(m) \/ PassFails(m) \/ Restart(m)
      PROVE  Goal
  BY Zenon, <1>4, <1>5 DEF StartPass, PassFails, Restart
<1>6. ASSUME NEW m \in Node, NEW h, DeliveryFails(m, h) \/ DiscardExpired(m, h) \/ RemoveDelivered(m, h)
      PROVE  Goal
  BY Zenon, <1>4, <1>6 DEF DeliveryFails, DiscardExpired, RemoveDelivered
<1>7. ASSUME NEW o \in Op, NEW t \in Owners, NEW f \in Node, StoreHint(o, t, f) \/ HintAckLost(o, t, f)
      PROVE  Goal
  BY Zenon, <1>4, <1>7 DEF StoreHint, HintAckLost
<1>8. Goal
  BY Zenon, <1>1, <1>2, <1>3, <1>4, <1>5, <1>6, <1>7, StoreSteps DEF HintStep
<1> QED BY Zenon, <1>8 DEF Goal

\* With one coordinator, a step that is no regression leaves every replica with a
\* document at least as late as the one it had.
LEMMA ReplicasAdvance ==
  ASSUME Inv, CopiesIntact, [Next]_vars, ~regressed', NEW c, Coordinators = {c}
  PROVE  /\ ~regressed
         /\ \A n \in Node : replica[n] # Absent =>
              replica'[n] # Absent /\ replica[n].hlc <= replica'[n].hlc
<1>0. \A n \in Node : replica[n] # Absent =>
        IsWritten(replica[n]) /\ replica[n].hlc \in Nat
             /\ replica[n].version = Increment(EmptyClock, c, replica[n].hlc)
  BY Zenon, WrittenDoc DEF CopiesIntact
<1>1. CASE UNCHANGED nodeVars
  <2>1. replica' = replica /\ regressed' = regressed
    BY Zenon, <1>1 DEF nodeVars
  <2>2. \A n \in Node : replica[n] # Absent => replica[n].hlc <= replica[n].hlc
    BY <1>0
  <2> QED BY Zenon, <2>1, <2>2
<1>2. ASSUME NEW n \in Node, NEW v, IsWritten(v), Put(n, v)
      PROVE  /\ ~regressed
             /\ \A m \in Node : replica[m] # Absent =>
                  replica'[m] # Absent /\ replica[m].hlc <= replica'[m].hlc
  <2>1. /\ replica' = [replica EXCEPT ![n] = v] /\ DOMAIN replica = Node
        /\ ~regressed
        /\ replica[n] # Absent => Compare(v.version, replica[n].version) # "Before"
    BY Zenon, <1>2, Domains DEF Put, Inv
  <2>2. v # Absent /\ v.hlc \in Nat /\ v.version = Increment(EmptyClock, c, v.hlc)
    BY Zenon, <1>2, WrittenDoc
  <2>3. ASSUME replica[n] # Absent
        PROVE  replica[n].hlc <= v.hlc
    <3>1. Compare(v.version, replica[n].version)
            = IF v.hlc <= replica[n].hlc THEN IF replica[n].hlc <= v.hlc THEN "Equal" ELSE "Before"
              ELSE "After"
      <4>1. replica[n].hlc \in Nat /\ replica[n].version = Increment(EmptyClock, c, replica[n].hlc)
        BY Zenon, <1>0, <2>3
      <4>2. Compare(Increment(EmptyClock, c, v.hlc), Increment(EmptyClock, c, replica[n].hlc))
              = IF v.hlc <= replica[n].hlc THEN IF replica[n].hlc <= v.hlc THEN "Equal" ELSE "Before"
                ELSE "After"
        BY <2>2, <4>1, SingleClocksOrder
      <4> QED BY Zenon, <2>2, <4>1, <4>2
    <3>2. ~(v.hlc <= replica[n].hlc) \/ replica[n].hlc <= v.hlc
      BY Zenon, <2>1, <2>3, <3>1
    <3>3. replica[n].hlc \in Nat
      BY Zenon, <1>0, <2>3
    <3> QED BY <2>2, <3>2, <3>3
  <2>4. \A m \in Node : replica[m] # Absent => replica[m].hlc <= replica[m].hlc
    BY <1>0
  <2> QED BY Zenon, <2>1, <2>2, <2>3, <2>4
<1> QED BY Zenon, <1>1, <1>2, NodeSteps

\* A read begins, takes answers, ends and frees its slot; nothing else touches its
\* winner or what it has to see, makes it a read or lets it return.
LEMMA ReadSteps ==
  ASSUME Inv, [Next]_vars, NEW o \in Op
  PROVE  \/ \E r \in Request : SubmitRead(o, r)
         \/ \E n \in Owners : ReadRpc(o, n)
         \/ FinishRead(o)
         \/ Retire(o)
         \/ /\ seen'[o] = seen[o] /\ best'[o] = best[o]
            /\ phase'[o] = "read" => phase[o] = "read"
            /\ (phase'[o] = "ok" /\ req'[o].kind = "read") => (phase[o] = "ok" /\ req[o].kind = "read")
<1> DEFINE Quiet == /\ seen'[o] = seen[o] /\ best'[o] = best[o]
                    /\ phase'[o] = "read" => phase[o] = "read"
                    /\ (phase'[o] = "ok" /\ req'[o].kind = "read")
                         => (phase[o] = "ok" /\ req[o].kind = "read")
           Goal == \/ \E r \in Request : SubmitRead(o, r)
                   \/ \E n \in Owners : ReadRpc(o, n)
                   \/ FinishRead(o) \/ Retire(o) \/ Quiet
<1>a. DOMAIN req = Op /\ DOMAIN phase = Op /\ DOMAIN seen = Op /\ DOMAIN best = Op
  BY Zenon DEF Inv, TypeOK
<1>b. ASSUME NEW p \in Op, UNCHANGED <<req, seen, best>>,
             \E s \in {"stamp", "broadcast", "err", "hints", "lost"} : phase' = [phase EXCEPT ![p] = s]
      PROVE  Goal
  BY Zenon, <1>a, <1>b
<1>c. ASSUME UNCHANGED <<req, phase, seen, best>>
      PROVE  Goal
  BY Zenon, <1>c
<1>1. ASSUME NEW p \in Op, NEW r \in Request, SubmitWrite(p, r) \/ SubmitDelete(p, r)
      PROVE  Goal
  <2>1. /\ phase[p] = "idle" /\ req' = [req EXCEPT ![p] = r] /\ UNCHANGED <<seen, best>>
        /\ \E s \in {"stamp", "replayed", "conflict"} : phase' = [phase EXCEPT ![p] = s]
    <3>1. CASE SubmitWrite(p, r)
      BY Zenon, <3>1 DEF SubmitWrite, FreeSlot, CacheLookup, readVars
    <3>2. CASE SubmitDelete(p, r)
      BY Zenon, <3>2 DEF SubmitDelete, FreeSlot, readVars
    <3> QED BY Zenon, <1>1, <3>1, <3>2
  <2> QED BY Zenon, <1>a, <2>1
<1>2. ASSUME NEW p \in Op, NEW r \in Request, SubmitRead(p, r)
      PROVE  Goal
  <2>1. CASE p = o
    BY Zenon, <1>2, <2>1
  <2>2. CASE p # o
    <3>1. /\ phase' = [phase EXCEPT ![p] = "read"] /\ req' = [req EXCEPT ![p] = r]
          /\ seen' = [seen EXCEPT ![p] = strict] /\ best' = best
      BY Zenon, <1>2 DEF SubmitRead
    <3> QED BY Zenon, <1>a, <2>2, <3>1
  <2> QED BY Zenon, <2>1, <2>2
<1>3. ASSUME NEW p \in Op, FinishBroadcast(p) \/ FinishHints(p)
      PROVE  Goal
  <2>1. /\ req' = req /\ seen' = seen /\ best' = best /\ phase[p] \in {"broadcast", "hints"}
        /\ \E s \in {"ok", "hints", "err"} : phase' = [phase EXCEPT ![p] = s]
    BY Zenon, <1>3 DEF FinishBroadcast, FinishHints, readVars
  <2>2. req[p].kind # "read"
    BY Zenon, <2>1, ShapeAt DEF ShapeOf, Mutates
  <2> QED BY Zenon, <1>a, <2>1, <2>2
<1>4. ASSUME NEW p \in Op, NEW n \in Owners, ReadRpc(p, n)
      PROVE  Goal
  <2>1. CASE p = o
    BY Zenon, <1>4, <2>1
  <2>2. CASE p # o
    <3>1. UNCHANGED <<phase, req, seen>> /\ \E v : best' = [best EXCEPT ![p] = v]
      BY Zenon, <1>4 DEF ReadRpc, readVars
    <3> QED BY Zenon, <1>a, <2>2, <3>1
  <2> QED BY Zenon, <2>1, <2>2
<1>5. ASSUME NEW p \in Op, FinishRead(p)
      PROVE  Goal
  <2>1. CASE p = o
    BY Zenon, <1>5, <2>1
  <2>2. CASE p # o
    <3>1. UNCHANGED <<req, seen, best>> /\ \E s : phase' = [phase EXCEPT ![p] = s]
      BY Zenon, <1>5 DEF FinishRead, readVars
    <3> QED BY Zenon, <1>a, <2>2, <3>1
  <2> QED BY Zenon, <2>1, <2>2
<1>6. ASSUME NEW p \in Op, Retire(p)
      PROVE  Goal
  <2>1. CASE p = o
    BY Zenon, <1>6, <2>1
  <2>2. CASE p # o
    <3>1. /\ req' = [req EXCEPT ![p] = NoRequest] /\ phase' = [phase EXCEPT ![p] = "idle"]
          /\ best' = [best EXCEPT ![p] = Absent] /\ seen' = [seen EXCEPT ![p] = {}]
      BY Zenon, <1>6 DEF Retire
    <3> QED BY Zenon, <1>a, <2>2, <3>1
  <2> QED BY Zenon, <2>1, <2>2
<1>7. ASSUME NEW n \in Node, Restart(n)
      PROVE  Goal
  <2>1. /\ UNCHANGED <<req, seen, best>>
        /\ phase' = [p \in Op |-> IF p \in RunningAt(n) THEN "lost" ELSE phase[p]]
    BY Zenon, <1>7 DEF Restart, readVars
  <2> QED BY Zenon, <2>1
<1> HIDE DEF Goal
<1>8. ASSUME NEW p \in Op, StampAndBroadcast(p) \/ StampFails(p) \/ Cancel(p)
      PROVE  Goal
  <2>1. CASE StampAndBroadcast(p)
    BY Zenon, <1>b, <2>1 DEF StampAndBroadcast, readVars
  <2>2. CASE StampFails(p)
    BY Zenon, <1>b, <2>2 DEF StampFails, readVars
  <2>3. CASE Cancel(p)
    BY Zenon, <1>b, <2>3 DEF Cancel, readVars
  <2> QED BY Zenon, <1>8, <2>1, <2>2, <2>3
<1>9. ASSUME NEW p \in Op, NEW t \in Owners, NEW f \in Node,
             StoreHint(p, t, f) \/ HintRpcFails(p, t, f) \/ HintAckLost(p, t, f)
      PROVE  Goal
  BY Zenon, <1>c, <1>9 DEF StoreHint, HintRpcFails, HintAckLost, readVars
<1>10. ASSUME NEW p \in Op, NEW n \in Owners,
              \/ WriteRpc(p, n) \/ RpcFails(p, n) \/ AckLost(p, n)
              \/ RepairWrite(p, n) \/ RepairFails(p, n)
       PROVE  Goal
  BY Zenon, <1>c, <1>10 DEF WriteRpc, RpcFails, AckLost, RepairWrite, RepairFails, readVars
<1>11. ASSUME NEW n \in Node, HintStep(n)
       PROVE  Goal
  BY Zenon, <1>c, <1>11 DEF HintStep, StartPass, PassFails, DeliverHint, DeliveryFails,
     DeliveryAckLost, DiscardExpired, RemoveDelivered, opVars, readVars
<1>12. ASSUME NEW d \in Coordinators, NEW k \in IKeys, EvictExpired(d, k)
       PROVE  Goal
  BY Zenon, <1>c, <1>12 DEF EvictExpired, opVars, readVars
<1>13. ASSUME UNCHANGED vars
       PROVE  Goal
  BY Zenon, <1>c, <1>13 DEF vars, opVars, readVars
<1>14. Goal
  BY ZenonT(40), <1>1, <1>2, <1>3, <1>4, <1>5, <1>6, <1>7, <1>8, <1>9, <1>10, <1>11, <1>12, <1>13
     DEF Next, Submit, MutationStep, ReadStep
<1> QED BY Zenon, <1>14 DEF Goal

\* Only broadcast_write with W acknowledgments adds to `strict`.
LEMMA StrictSteps ==
  ASSUME [Next]_vars
  PROVE  \/ strict' = strict
         \/ \E o \in Op : /\ FinishBroadcast(o) /\ strict' = strict \cup {o}
                          /\ Cardinality(Acked(o)) >= W
<1> DEFINE Goal == \/ strict' = strict
                   \/ \E o \in Op : /\ FinishBroadcast(o) /\ strict' = strict \cup {o}
                                    /\ Cardinality(Acked(o)) >= W
<1>1. ASSUME NEW o \in Op, FinishBroadcast(o)
      PROVE  Goal
  <2>1. strict' = strict \/ (strict' = strict \cup {o} /\ Cardinality(Acked(o)) >= W)
    BY Zenon, <1>1 DEF FinishBroadcast
  <2> QED BY Zenon, <1>1, <2>1
<1>2. ASSUME NEW o \in Op, Submit(o)
      PROVE  Goal
  BY Zenon, <1>2 DEF Submit, SubmitWrite, SubmitDelete, SubmitRead, readVars
<1> HIDE DEF Goal
<1>3. ASSUME strict' = strict
      PROVE  Goal
  BY Zenon, <1>3 DEF Goal
<1>4. ASSUME NEW o \in Op, StampAndBroadcast(o) \/ StampFails(o) \/ FinishHints(o) \/ Cancel(o)
      PROVE  Goal
  BY Zenon, <1>3, <1>4 DEF StampAndBroadcast, StampFails, FinishHints, Cancel, readVars
<1>5. ASSUME NEW o \in Op, NEW n \in Owners,
             \/ WriteRpc(o, n) \/ RpcFails(o, n) \/ AckLost(o, n)
             \/ ReadRpc(o, n) \/ RepairWrite(o, n) \/ RepairFails(o, n)
      PROVE  Goal
  BY Zenon, <1>3, <1>5 DEF WriteRpc, RpcFails, AckLost, ReadRpc, RepairWrite, RepairFails, readVars
<1>6. ASSUME NEW o \in Op, NEW t \in Owners, NEW f \in Node,
             StoreHint(o, t, f) \/ HintRpcFails(o, t, f) \/ HintAckLost(o, t, f)
      PROVE  Goal
  BY Zenon, <1>3, <1>6 DEF StoreHint, HintRpcFails, HintAckLost, readVars
<1>7. ASSUME NEW o \in Op, FinishRead(o) \/ Retire(o)
      PROVE  Goal
  BY Zenon, <1>3, <1>7 DEF FinishRead, Retire, readVars
<1>8. ASSUME NEW n \in Node, HintStep(n) \/ Restart(n)
      PROVE  Goal
  BY Zenon, <1>3, <1>8 DEF HintStep, StartPass, PassFails, DeliverHint, DeliveryFails,
     DeliveryAckLost, DiscardExpired, RemoveDelivered, Restart, readVars
<1>9. ASSUME NEW c \in Coordinators, NEW k \in IKeys, EvictExpired(c, k)
      PROVE  Goal
  BY Zenon, <1>3, <1>9 DEF EvictExpired, readVars
<1>10. ASSUME UNCHANGED vars
       PROVE  Goal
  BY Zenon, <1>3, <1>10 DEF vars, readVars
<1>11. Goal
  BY ZenonT(40), <1>1, <1>2, <1>4, <1>5, <1>6, <1>7, <1>8, <1>9, <1>10 DEF Next, MutationStep, ReadStep
<1> QED BY Zenon, <1>11 DEF Goal

\* v is a document at least as late as operation p.
NotOlder(v, p) == v # Absent /\ hlc[p] <= v.hlc

\* W owners hold a document at least as late as p.
OnQuorum(p) ==
  \E Q \in SUBSET Owners : Cardinality(Q) >= W /\ \A n \in Q : NotOlder(replica[n], p)

\* The same quorum, as a running read of o sees it: where it has asked already,
\* its winner is at least as late as p.
QuorumSeen(o, p) ==
  \E Q \in SUBSET Owners :
    /\ Cardinality(Q) >= W
    /\ \A n \in Q : /\ NotOlder(replica[n], p)
                    /\ rpc[o][n] = "acked" => NotOlder(best[o], p)

\* What FreshRead rests on, as long as no replica has gone back: the owners that
\* acknowledged a running write or delete hold it or a later one, W owners do for
\* each of `strict`, and a read meets one of them before it returns.
FreshInv ==
  /\ strict \subseteq {p \in Op : Stamped(p)}
  /\ \A o \in Op : seen[o] \subseteq strict
  /\ ~regressed =>
       /\ \A o \in Op : phase[o] = "broadcast" => \A n \in Acked(o) : NotOlder(replica[n], o)
       /\ \A p \in strict : OnQuorum(p)
       /\ \A o \in Op : phase[o] = "read" => \A p \in seen[o] : QuorumSeen(o, p)
       /\ \A o \in Op : (phase[o] = "ok" /\ req[o].kind = "read") =>
            \A p \in seen[o] : NotOlder(best[o], p)

\* A later document is not older either.
LEMMA LaterIsNotOlder ==
  ASSUME Inv, NEW p \in Op, NEW v, NEW w, NotOlder(v, p), v.hlc \in Nat,
         w # Absent, w.hlc \in Nat, v.hlc <= w.hlc
  PROVE  NotOlder(w, p)
<1>1. hlc[p] \in Nat
  BY Zenon, Times DEF Inv
<1> QED BY <1>1 DEF NotOlder

\* An answer of an owner moves the winner of a read to the later of the two.
LEMMA WinnerAdvances ==
  ASSUME Inv, CopiesIntact, NEW o \in Op, NEW n \in Owners, ReadRpc(o, n),
         NEW c, Coordinators = {c}, NEW p \in Op, NotOlder(best[o], p) \/ NotOlder(replica[n], p)
  PROVE  NotOlder(best'[o], p)
<1>0. n \in Node /\ DOMAIN best = Op
  BY Zenon, ReplicationAssumption, Domains DEF Inv
<1>1. best'[o] = IF replica[n] = Absent THEN best[o]
                 ELSE IF best[o] = Absent THEN replica[n] ELSE ResolveTwo(best[o], replica[n])
  BY Zenon, <1>0 DEF ReadRpc
<1>2. CASE replica[n] = Absent \/ best[o] = Absent
  <2>1. CASE replica[n] = Absent
    <3>1. best'[o] = best[o] /\ ~NotOlder(replica[n], p)
      BY Zenon, <1>1, <2>1 DEF NotOlder
    <3> QED BY Zenon, <3>1
  <2>2. CASE best[o] = Absent /\ replica[n] # Absent
    <3>1. best'[o] = replica[n] /\ ~NotOlder(best[o], p)
      BY Zenon, <1>1, <2>2 DEF NotOlder
    <3> QED BY Zenon, <3>1
  <2> QED BY Zenon, <1>2, <2>1, <2>2
<1>3. CASE replica[n] # Absent /\ best[o] # Absent
  <2> DEFINE w == ResolveTwo(best[o], replica[n])
  <2>1. IsWritten(best[o]) /\ IsWritten(replica[n])
    BY Zenon, <1>0, <1>3 DEF CopiesIntact
  <2>2. best[o].hlc \in Nat /\ replica[n].hlc \in Nat
    BY Zenon, <2>1, WrittenDoc
  <2>3. w # Absent /\ best[o].hlc <= w.hlc /\ replica[n].hlc <= w.hlc
    BY Zenon, <2>1, WinnerIsLater
  <2>4. w.hlc \in Nat
    BY Zenon, <2>2, ResolveTwoChooses
  <2>5. best'[o] = w
    BY Zenon, <1>1, <1>3
  <2> HIDE DEF w
  <2>6. NotOlder(w, p)
    BY Zenon, <2>2, <2>3, <2>4, LaterIsNotOlder
  <2> QED BY Zenon, <2>5, <2>6
<1> QED BY Zenon, <1>2, <1>3

\* A write quorum and a read quorum meet.
LEMMA QuorumsMeet ==
  ASSUME R + W > Cardinality(Owners), NEW Q \in SUBSET Owners, NEW A \in SUBSET Owners,
         Cardinality(Q) >= W, Cardinality(A) >= R
  PROVE  Q \cap A # {}
<1>1. IsFiniteSet(Owners)
  BY Zenon, ReplicationAssumption, FS_Subset
<1>2. IsFiniteSet(Q) /\ IsFiniteSet(A)
  BY Zenon, <1>1, FS_Subset
<1>3. /\ Cardinality(Q) \in Nat /\ Cardinality(A) \in Nat /\ Cardinality(Owners) \in Nat
  BY Zenon, <1>1, <1>2, FS_CardinalityType
<1>4. Cardinality(Q) + Cardinality(A) > Cardinality(Owners)
  BY <1>3, ReplicationAssumption
<1> QED BY Zenon, <1>1, <1>4, FS_MajoritiesIntersect

\* Every step keeps the freshness invariant.
LEMMA NextKeepsFresh ==
  ASSUME NEW c, Coordinators = {c}, R + W > Cardinality(Owners),
         Inv, CopiesIntact, FreshInv, [Next]_vars
  PROVE  FreshInv'
<1>a. Kept /\ Owners \subseteq Node /\ Inv' /\ CopiesIntact'
  BY Zenon, KeptByNext, ReplicationAssumption, NextKeepsTypes, NextKeepsCopies
<1>b. DOMAIN phase = Op /\ DOMAIN rpc = Op /\ DOMAIN seen = Op
  BY Zenon DEF Inv, TypeOK
<1>c. ASSUME NEW p \in Op, Stamped(p)
      PROVE  Stamped(p)' /\ hlc'[p] = hlc[p] /\ \A v : NotOlder(v, p)' = NotOlder(v, p)
  <2>1. req'[p] = req[p] /\ hlc'[p] = hlc[p]
    BY Zenon, <1>a, <1>c DEF Kept
  <2> QED BY Zenon, <1>c, <2>1 DEF Stamped, Mutates, NotOlder
<1>d. ASSUME NEW o \in Op, phase[o] = "broadcast"
      PROVE  Stamped(o)
  BY Zenon, <1>d, ShapeAt DEF ShapeOf, Stamped
<1>1. strict' \subseteq {p \in Op : Stamped(p)'}
  <2>1. \A p \in strict : p \in Op /\ Stamped(p)'
    BY Zenon, <1>c DEF FreshInv
  <2>2. ASSUME NEW o \in Op, FinishBroadcast(o)
        PROVE  Stamped(o)'
    BY Zenon, <1>c, <1>d, <2>2 DEF FinishBroadcast
  <2> QED BY Zenon, <2>1, <2>2, StrictSteps
<1>2. ASSUME NEW o \in Op
      PROVE  seen'[o] \subseteq strict'
  <2>1. strict \subseteq strict'
    BY Zenon, StrictSteps
  <2>2. seen'[o] \subseteq strict
    <3>1. ASSUME NEW r, SubmitRead(o, r)
          PROVE  seen'[o] \subseteq strict
      BY Zenon, <1>b, <3>1 DEF SubmitRead
    <3>2. CASE Retire(o)
      BY Zenon, <1>b, <3>2 DEF Retire
    <3>3. CASE seen'[o] = seen[o]
      BY Zenon, <3>3 DEF FreshInv
    <3>4. ASSUME NEW n \in Owners, ReadRpc(o, n)
          PROVE  seen'[o] = seen[o]
      BY Zenon, <3>4 DEF ReadRpc, readVars
    <3>5. CASE FinishRead(o)
      BY Zenon, <3>3, <3>5 DEF FinishRead, readVars
    <3> QED BY Zenon, <3>1, <3>2, <3>3, <3>4, <3>5, ReadSteps
  <2> QED BY Zenon, <2>1, <2>2
<1> SUFFICES ASSUME ~regressed'
             PROVE  /\ \A o \in Op : phase'[o] = "broadcast" =>
                         \A n \in Owners : rpc'[o][n] = "acked" => NotOlder(replica[n], o)'
                    /\ \A p \in strict' : OnQuorum(p)'
                    /\ \A o \in Op : phase'[o] = "read" => \A p \in seen'[o] : QuorumSeen(o, p)'
                    /\ \A o \in Op : (phase'[o] = "ok" /\ req'[o].kind = "read") =>
                         \A p \in seen'[o] : NotOlder(best[o], p)'
  BY Zenon, <1>1, <1>2 DEF FreshInv, Acked, RpcIn
<1>3. /\ ~regressed
      /\ \A n \in Node : replica[n] # Absent => replica'[n] # Absent /\ replica[n].hlc <= replica'[n].hlc
  BY Zenon, ReplicasAdvance
<1>4. ASSUME NEW p \in Op, Stamped(p), NEW n \in Node, NotOlder(replica[n], p)
      PROVE  NotOlder(replica[n], p)'
  <2>1. replica[n] # Absent /\ replica'[n] # Absent /\ replica[n].hlc <= replica'[n].hlc
    BY Zenon, <1>3, <1>4 DEF NotOlder
  <2>2. replica[n].hlc \in Nat
    BY Zenon, <2>1, WrittenDoc DEF CopiesIntact
  <2>3. replica'[n] \in VersionedDoc
    BY Zenon, <1>a, <2>1 DEF Inv, TypeOK
  <2>4. replica'[n].hlc \in Nat
    BY Zenon, <1>a, <2>3, Times DEF VersionedDoc, Inv
  <2>5. NotOlder(replica'[n], p)
    BY Zenon, <1>4, <2>1, <2>2, <2>4, LaterIsNotOlder
  <2> QED BY Zenon, <1>c, <1>4, <2>5 DEF NotOlder
<1>5. \A p \in strict : p \in Op /\ Stamped(p)
  BY Zenon DEF FreshInv
<1>6. ASSUME NEW o \in Op, phase'[o] = "broadcast", NEW n \in Owners, rpc'[o][n] = "acked"
      PROVE  NotOlder(replica[n], o)'
  <2>1. CASE WriteRpc(o, n)
    <3>1. /\ phase[o] = "broadcast" /\ DOMAIN replica = Node /\ n \in Node
          /\ replica' = [replica EXCEPT ![n] = RemoteWrite(req[o].doc, Version(o), hlc[o])]
      BY Zenon, <1>a, <2>1, Domains DEF WriteRpc, Put, Inv
    <3>2. IsWritten(RemoteWrite(req[o].doc, Version(o), hlc[o]))
      BY Zenon, <3>1, OwnCopy
    <3>3. RemoteWrite(req[o].doc, Version(o), hlc[o]).hlc = hlc[o]
      BY Zenon DEF RemoteWrite, HandleWrite, HandleDelete, LiveDoc, Tombstone
    <3>4. replica'[n] # Absent /\ replica'[n].hlc = hlc[o] /\ hlc[o] \in Nat
      BY Zenon, <3>1, <3>2, <3>3, WrittenDoc, Times DEF Inv
    <3>5. hlc[o] <= hlc[o]
      BY <3>4
    <3> QED BY Zenon, <1>c, <1>d, <3>1, <3>4, <3>5 DEF NotOlder
  <2>2. CASE ReadRpc(o, n)
    BY Zenon, <1>6, <2>2 DEF ReadRpc
  <2>3. CASE rpc[o][n] = "acked" /\ phase[o] = "broadcast"
    <3>1. NotOlder(replica[n], o)
      BY Zenon, <1>3, <2>3 DEF FreshInv, Acked, RpcIn
    <3> QED BY Zenon, <1>a, <1>d, <1>4, <2>3, <3>1
  <2>4. phase'[o] \in {"broadcast", "hints", "read"}
    BY Zenon, <1>6
  <2>5. \/ WriteRpc(o, n) \/ ReadRpc(o, n)
        \/ /\ rpc[o][n] = "acked"
           /\ phase'[o] = phase[o] \/ (phase[o] = "broadcast" /\ phase'[o] = "hints")
    BY Zenon, <1>6, <2>4, AckedRpcs
  <2> QED BY Zenon, <1>6, <2>1, <2>2, <2>3, <2>5
<1>7. ASSUME NEW p \in Op, Stamped(p), OnQuorum(p)
      PROVE  OnQuorum(p)'
  BY Zenon, <1>a, <1>4, <1>7 DEF OnQuorum
<1>8. ASSUME NEW p, p \in strict'
      PROVE  OnQuorum(p)'
  <2>1. CASE p \in strict
    BY Zenon, <1>3, <1>5, <1>7, <2>1 DEF FreshInv
  <2>2. ASSUME NEW o \in Op, FinishBroadcast(o), Cardinality(Acked(o)) >= W
        PROVE  OnQuorum(o)'
    <3>1. phase[o] = "broadcast" /\ Stamped(o)
      BY Zenon, <1>d, <2>2 DEF FinishBroadcast
    <3>2. Acked(o) \in SUBSET Owners
      BY Zenon DEF Acked, RpcIn
    <3>3. \A n \in Acked(o) : NotOlder(replica[n], o)
      BY Zenon, <1>3, <3>1 DEF FreshInv
    <3>4. OnQuorum(o)
      BY Zenon, <2>2, <3>2, <3>3 DEF OnQuorum
    <3> QED BY Zenon, <1>7, <3>1, <3>4
  <2> QED BY Zenon, <1>8, <2>1, <2>2, StrictSteps
<1>9. ASSUME NEW o \in Op, phase'[o] = "read", NEW p, p \in seen'[o]
      PROVE  QuorumSeen(o, p)'
  <2>0. ASSUME NEW r \in Request, SubmitRead(o, r)
        PROVE  QuorumSeen(o, p)'
    <3>1. p \in strict /\ \A n \in Owners : rpc'[o][n] = "sent"
      BY Zenon, <1>b, <1>9, <2>0 DEF SubmitRead
    <3>2. p \in Op /\ Stamped(p) /\ OnQuorum(p)
      BY Zenon, <1>3, <1>5, <3>1 DEF FreshInv
    <3>3. OnQuorum(p)'
      BY Zenon, <1>7, <3>2
    <3>4. PICK Q \in SUBSET Owners : Cardinality(Q) >= W /\ \A n \in Q : NotOlder(replica[n], p)'
      BY Zenon, <3>3 DEF OnQuorum
    <3>5. \A n \in Q : rpc'[o][n] # "acked"
      BY Zenon, <3>1
    <3> QED BY Zenon, <3>4, <3>5 DEF QuorumSeen
  <2>1. ASSUME phase[o] = "read", p \in seen[o],
               best'[o] = best[o] \/ \E m \in Owners : ReadRpc(o, m)
        PROVE  QuorumSeen(o, p)'
    <3>1. p \in Op /\ Stamped(p) /\ QuorumSeen(o, p)
      BY Zenon, <1>3, <1>5, <2>1 DEF FreshInv
    <3>2. PICK Q \in SUBSET Owners :
            /\ Cardinality(Q) >= W
            /\ \A n \in Q : /\ NotOlder(replica[n], p)
                            /\ rpc[o][n] = "acked" => NotOlder(best[o], p)
      BY Zenon, <3>1 DEF QuorumSeen
    <3>3. ASSUME NEW n \in Q, rpc'[o][n] = "acked"
          PROVE  NotOlder(best'[o], p)
      <4>1. CASE ReadRpc(o, n)
        BY Zenon, <3>1, <3>2, <4>1, WinnerAdvances
      <4>2. CASE rpc[o][n] = "acked"
        <5>1. NotOlder(best[o], p)
          BY Zenon, <3>2, <4>2
        <5>2. ASSUME NEW m \in Owners, ReadRpc(o, m)
              PROVE  NotOlder(best'[o], p)
          BY Zenon, <3>1, <5>1, <5>2, WinnerAdvances
        <5> QED BY Zenon, <2>1, <5>1, <5>2
      <4>3. ~WriteRpc(o, n)
        BY Zenon, <2>1 DEF WriteRpc
      <4>4. n \in Owners /\ phase'[o] \in {"broadcast", "hints", "read"}
        BY Zenon, <1>9
      <4>5. ReadRpc(o, n) \/ rpc[o][n] = "acked"
        BY Zenon, <3>3, <4>3, <4>4, AckedRpcs
      <4> QED BY Zenon, <4>1, <4>2, <4>5
    <3>4. \A n \in Q : NotOlder(replica[n], p)'
      BY Zenon, <1>a, <1>4, <3>1, <3>2
    <3>5. \A n \in Q : rpc'[o][n] = "acked" => NotOlder(best[o], p)'
      BY Zenon, <1>c, <3>1, <3>3 DEF NotOlder
    <3> QED BY Zenon, <3>2, <3>4, <3>5 DEF QuorumSeen
  <2>2. ASSUME NEW m \in Owners, ReadRpc(o, m)
        PROVE  phase[o] = "read" /\ seen'[o] = seen[o]
    BY Zenon, <2>2 DEF ReadRpc, readVars
  <2>3. CASE FinishRead(o) \/ Retire(o)
    <3>1. phase'[o] \in {"ok", "err", "idle"}
      BY Zenon, <1>b, <2>3 DEF FinishRead, Retire
    <3> QED BY Zenon, <1>9, <3>1
  <2> QED BY Zenon, <1>9, <2>0, <2>1, <2>2, <2>3, ReadSteps
<1>10. ASSUME NEW o \in Op, phase'[o] = "ok", req'[o].kind = "read", NEW p, p \in seen'[o]
       PROVE  NotOlder(best[o], p)'
  <2>1. CASE FinishRead(o)
    <3>1. /\ phase[o] = "read" /\ seen' = seen /\ best' = best
          /\ Cardinality(Acked(o)) >= R
      <4>1. phase[o] = "read" /\ seen' = seen /\ best' = best
        BY Zenon, <2>1 DEF FinishRead, readVars
      <4>2. ~(Cardinality(Acked(o)) < R)
        BY Zenon, <1>b, <1>10, <2>1 DEF FinishRead
      <4>3. Acked(o) \in SUBSET Node
        BY Zenon, <1>a DEF Acked, RpcIn
      <4>4. Cardinality(Acked(o)) \in Nat
        BY Zenon, <4>3, FS_Subset, FS_CardinalityType, ReplicationAssumption
      <4>5. Cardinality(Acked(o)) >= R
        BY <4>2, <4>4, ReplicationAssumption
      <4> QED BY Zenon, <4>1, <4>5
    <3>2. p \in Op /\ Stamped(p) /\ QuorumSeen(o, p)
      BY Zenon, <1>3, <1>5, <1>10, <3>1 DEF FreshInv
    <3>3. PICK Q \in SUBSET Owners :
            /\ Cardinality(Q) >= W
            /\ \A n \in Q : /\ NotOlder(replica[n], p)
                            /\ rpc[o][n] = "acked" => NotOlder(best[o], p)
      BY Zenon, <3>2 DEF QuorumSeen
    <3>4. Acked(o) \in SUBSET Owners
      BY Zenon DEF Acked, RpcIn
    <3>5. Q \cap Acked(o) # {}
      BY Zenon, <3>1, <3>3, <3>4, QuorumsMeet
    <3>6. NotOlder(best[o], p)
      BY Zenon, <3>3, <3>5 DEF Acked, RpcIn
    <3> QED BY Zenon, <1>c, <3>1, <3>2, <3>6 DEF NotOlder
  <2>2. ASSUME NEW r, SubmitRead(o, r)
        PROVE  FALSE
    BY Zenon, <1>b, <1>10, <2>2 DEF SubmitRead
  <2>3. ASSUME NEW n \in Owners, ReadRpc(o, n)
        PROVE  FALSE
    BY Zenon, <1>10, <2>3 DEF ReadRpc
  <2>4. ~Retire(o)
    BY Zenon, <1>b, <1>10 DEF Retire
  <2>5. CASE phase[o] = "ok" /\ req[o].kind = "read" /\ seen'[o] = seen[o] /\ best'[o] = best[o]
    <3>1. p \in Op /\ Stamped(p) /\ NotOlder(best[o], p)
      BY Zenon, <1>3, <1>5, <1>10, <2>5 DEF FreshInv
    <3> QED BY Zenon, <1>c, <2>5, <3>1 DEF NotOlder
  <2> QED BY Zenon, <1>10, <2>1, <2>2, <2>3, <2>4, <2>5, ReadSteps
<1> QED BY Zenon, <1>6, <1>8, <1>9, <1>10

\* With one coordinator and R + W above the number of owners, a quorum_read that
\* returns Ok returns a version no older than any write or delete that W owners had
\* acknowledged when it began, until a replica replaces a version by an older one.
THEOREM ReadsAreFresh ==
  ASSUME NEW c, Coordinators = {c}, R + W > Cardinality(Owners)
  PROVE  Spec => []FreshRead
<1> DEFINE AllInv == Inv /\ CopiesIntact /\ FreshInv
<1>1. Init => AllInv
  <2>1. Init => CopiesIntact
    BY DEF Init, CopiesIntact
  <2>2. Init => FreshInv
    BY DEF Init, FreshInv
  <2> QED BY Zenon, <2>1, <2>2, InitTypes
<1>2. AllInv /\ [Next]_vars => AllInv'
  BY Zenon, NextKeepsTypes, NextKeepsCopies, NextKeepsFresh
<1>3. AllInv => FreshRead
  <2> SUFFICES ASSUME Inv, CopiesIntact, FreshInv, NEW o \in Op, req[o].kind = "read",
                      phase[o] = "ok", ~regressed, NEW p \in seen[o]
               PROVE  /\ best[o] # Absent
                      /\ Compare(Version(p), best[o].version) \in {"Equal", "Before"}
    BY Zenon DEF FreshRead
  <2>1. p \in Op /\ Stamped(p) /\ NotOlder(best[o], p)
    BY Zenon DEF FreshInv
  <2>2. best[o] # Absent /\ hlc[p] <= best[o].hlc
    BY Zenon, <2>1 DEF NotOlder
  <2>3. IsWritten(best[o])
    BY Zenon, <2>2 DEF CopiesIntact
  <2>4. best[o].hlc \in Nat /\ best[o].version = Increment(EmptyClock, c, best[o].hlc)
    BY Zenon, <2>3, WrittenDoc
  <2>5. req[p].coord = c /\ hlc[p] \in Nat
    BY Zenon, <2>1, StampedRuns, OpTypes, Times DEF Inv
  <2>6. Compare(Increment(EmptyClock, c, hlc[p]), Increment(EmptyClock, c, best[o].hlc))
          \in {"Equal", "Before"}
    BY <2>2, <2>4, <2>5, SingleClocksOrder
  <2> QED BY Zenon, <2>2, <2>4, <2>5, <2>6 DEF Version
<1> QED BY <1>1, <1>2, <1>3, PTL DEF Spec

=============================================================================
