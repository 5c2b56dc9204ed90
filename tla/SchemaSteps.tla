---------------------------- MODULE SchemaSteps ----------------------------
(***************************************************************************)
(* What the steps of the schema manager change, for any number of nodes,   *)
(* fields, calls and faults, and the invariants that they keep.  The facts *)
(* about loops and sorting that need an induction are assumptions of the   *)
(* lemmas here (LoopFacts); SchemaProofs proves them, and the theorems.    *)
(***************************************************************************)
EXTENDS Schema, TLAPS

-----------------------------------------------------------------------------
State == SchemaState(Nat)
Image == State \cup {NoState}

CallRec ==
  [op : {"create", "drop"}, node : Node, field : Field, index : Index,
   old : Index \cup {NoIndex}, version : Nat, pc : Pcs, acked : BOOLEAN, image : Image]

SyncPcs == {"idle", "fetch", "apply", "save", "put"}
SyncRec ==
  [pc : SyncPcs, from : Node, target : Nat, tries : Nat, entries : Seq(Index), image : Image]

\* The types of the variables, with no bound on the versions.
CallShape ==
  /\ call \in Seq(CallRec) /\ Len(call) \in Nat /\ Calls = 1 .. Len(call)
  /\ call \in [Calls -> CallRec] /\ Len(call) <= workload.calls /\ Calls \subseteq Index
MemoryShape == version \in [Node -> Nat] /\ state \in [Node -> State] /\ ready \in [Node -> SUBSET Index]
DiskShape == log \in [Node -> Seq(Index)] /\ snap \in [Node -> Image] /\ rows \in [Node -> SUBSET Index]
WorkloadShape == workload \in Workloads /\ up \subseteq workload.nodes /\ faults \in 0 .. MaxFaults
HistoryShape == gone \subseteq Index \cup {NoIndex} /\ lost \subseteq Index /\ revived \subseteq Index
SyncShape == sync \in [Node -> SyncRec]
Shape == CallShape /\ MemoryShape /\ DiskShape /\ WorkloadShape /\ HistoryShape /\ SyncShape

-----------------------------------------------------------------------------
\* q is the record r of a call with another version, place, acknowledgement and image.
SameBut(q, r, v, pc, a, i) ==
  /\ q \in CallRec /\ q.op = r.op /\ q.node = r.node /\ q.field = r.field /\ q.index = r.index
  /\ q.old = r.old /\ q.version = v /\ q.pc = pc /\ q.acked = a /\ q.image = i

\* The updates of the record of a call that the steps make.
LEMMA Updates ==
  ASSUME NEW r \in CallRec, NEW pc \in Pcs, NEW v \in Nat, NEW a \in BOOLEAN, NEW i \in Image
  PROVE  /\ SameBut([r EXCEPT !.pc = pc], r, r.version, pc, r.acked, r.image)
         /\ SameBut([r EXCEPT !.pc = pc, !.version = v], r, v, pc, r.acked, r.image)
         /\ SameBut([r EXCEPT !.pc = pc, !.image = i], r, r.version, pc, r.acked, i)
         /\ SameBut([r EXCEPT !.pc = pc, !.image = i, !.acked = a], r, r.version, pc, a, i)
<1>1. PICK s : s = [r EXCEPT !.pc = pc]
  BY Zenon
<1>2. SameBut(s, r, r.version, pc, r.acked, r.image)
  BY <1>1 DEF SameBut, CallRec
<1>3. PICK t : t = [s EXCEPT !.version = v]
  BY Zenon
<1>4. SameBut(t, r, v, pc, r.acked, r.image)
  BY <1>2, <1>3 DEF SameBut, CallRec
<1>5. PICK u : u = [s EXCEPT !.image = i]
  BY Zenon
<1>6. SameBut(u, r, r.version, pc, r.acked, i)
  BY <1>2, <1>5 DEF SameBut, CallRec
<1>7. PICK w : w = [u EXCEPT !.acked = a]
  BY Zenon
<1>8. SameBut(w, r, r.version, pc, a, i)
  BY <1>6, <1>7 DEF SameBut, CallRec
<1>9. /\ t = [r EXCEPT !.pc = pc, !.version = v] /\ u = [r EXCEPT !.pc = pc, !.image = i]
      /\ w = [r EXCEPT !.pc = pc, !.image = i, !.acked = a]
  BY <1>1, <1>3, <1>5, <1>7, Zenon
<1> QED BY <1>1, <1>2, <1>4, <1>6, <1>8, <1>9, Zenon

\* The step changes call k, and no other one.
CallMoves(k, v, pc, a, i) ==
  /\ Calls' = Calls /\ Len(call') = Len(call) /\ \A j \in Calls : j # k => call'[j] = call[j]
  /\ SameBut(call'[k], call[k], v, pc, a, i)

\* A call is replaced by an update of it.
LEMMA SetCall ==
  ASSUME CallShape, workload' = workload, NEW k \in Calls, NEW q, NEW v, NEW pc, NEW a, NEW i,
         SameBut(q, call[k], v, pc, a, i), call' = [call EXCEPT ![k] = q]
  PROVE  CallShape' /\ CallMoves(k, v, pc, a, i)
<1>1. PICK n \in Nat : n = Len(call) /\ Calls = 1 .. n /\ call \in [1 .. n -> CallRec]
  <2>1. Len(call) \in Nat /\ Calls = 1 .. Len(call) /\ call \in [Calls -> CallRec]
    BY Zenon DEF CallShape
  <2> QED BY <2>1, Zenon
<1>2. q \in CallRec
  BY Zenon DEF SameBut
<1>3. PICK c : c = call'
  BY Zenon
<1>4. c \in [1 .. n -> CallRec] /\ c[k] = q /\ \A j \in 1 .. n : j # k => c[j] = call[j]
  BY <1>1, <1>2, <1>3
<1>5. c \in Seq(CallRec) /\ Len(c) = n /\ DOMAIN c = 1 .. n
  BY <1>4
<1>6. CallShape'
  BY <1>1, <1>3, <1>4, <1>5, Zenon DEF CallShape, Calls
<1> QED BY <1>1, <1>3, <1>4, <1>5, <1>6, Zenon DEF CallMoves, Calls

\* What the steps do to the calls.
LEMMA CallMoved ==
  ASSUME Shape, workload' = workload, NEW k \in Calls, NEW pc \in Pcs, NEW v \in Nat,
         NEW a \in BOOLEAN, NEW i \in Image
  PROVE  /\ Goto(k, pc) =>
              CallShape' /\ CallMoves(k, call[k].version, pc, call[k].acked, call[k].image)
         /\ call' = [call EXCEPT ![k] = [@ EXCEPT !.pc = pc, !.version = v]] =>
              CallShape' /\ CallMoves(k, v, pc, call[k].acked, call[k].image)
         /\ call' = [call EXCEPT ![k] = [@ EXCEPT !.pc = pc, !.image = i]] =>
              CallShape' /\ CallMoves(k, call[k].version, pc, call[k].acked, i)
         /\ call' = [call EXCEPT ![k] = [@ EXCEPT !.pc = pc, !.image = i, !.acked = a]] =>
              CallShape' /\ CallMoves(k, call[k].version, pc, a, i)
<1>1. CallShape /\ call[k] \in CallRec
  BY DEF Shape, CallShape
<1>2. PICK r : r = call[k]
  BY Zenon
<1>3. PICK w, b, j : w = r.version /\ b = r.acked /\ j = r.image
  BY Zenon
<1>4. PICK q1, q2, q3, q4 :
        /\ q1 = [r EXCEPT !.pc = pc] /\ q2 = [r EXCEPT !.pc = pc, !.version = v]
        /\ q3 = [r EXCEPT !.pc = pc, !.image = i]
        /\ q4 = [r EXCEPT !.pc = pc, !.image = i, !.acked = a]
  BY Zenon
<1>5. /\ SameBut(q1, r, w, pc, b, j) /\ SameBut(q2, r, v, pc, b, j)
      /\ SameBut(q3, r, w, pc, b, i) /\ SameBut(q4, r, w, pc, a, i)
  BY <1>1, <1>2, <1>3, <1>4, Updates, Zenon
<1>6. Goto(k, pc) => call' = [call EXCEPT ![k] = q1]
  BY <1>2, <1>4, Zenon DEF Goto
<1>7. /\ call' = [call EXCEPT ![k] = [@ EXCEPT !.pc = pc, !.version = v]] => call' = [call EXCEPT ![k] = q2]
      /\ call' = [call EXCEPT ![k] = [@ EXCEPT !.pc = pc, !.image = i]] => call' = [call EXCEPT ![k] = q3]
      /\ call' = [call EXCEPT ![k] = [@ EXCEPT !.pc = pc, !.image = i, !.acked = a]]
           => call' = [call EXCEPT ![k] = q4]
  BY <1>2, <1>4, Zenon
<1>8. /\ call' = [call EXCEPT ![k] = q1] => CallShape' /\ CallMoves(k, w, pc, b, j)
      /\ call' = [call EXCEPT ![k] = q2] => CallShape' /\ CallMoves(k, v, pc, b, j)
      /\ call' = [call EXCEPT ![k] = q3] => CallShape' /\ CallMoves(k, w, pc, b, i)
      /\ call' = [call EXCEPT ![k] = q4] => CallShape' /\ CallMoves(k, w, pc, a, i)
  BY <1>1, <1>2, <1>5, SetCall, Zenon
<1> QED BY <1>2, <1>3, <1>6, <1>7, <1>8, Zenon

\* apply_entry_mut gives a state.
LEMMA ApplyEntryState ==
  ASSUME NEW st \in State, NEW r \in CallRec
  PROVE  ApplyEntry(st, r) \in State /\ ApplyNewer(st, r) \in State
<1>1. /\ r.version \in Nat /\ r.index \in Index /\ r.field \in Field
      /\ st.indexes \in SUBSET Index /\ st.active_by_field \in [Field -> Index \cup {NoIndex}]
  BY DEF State, SchemaState, CallRec
<1>2. PICK v, s, b : /\ v = r.version
                     /\ s = IF r.op = "create" THEN st.indexes \cup {r.index} ELSE st.indexes \ {r.index}
                     /\ b = IF r.op = "create" THEN [st.active_by_field EXCEPT ![r.field] = r.index]
                            ELSE [st.active_by_field EXCEPT ![r.field] = IF @ = r.index THEN NoIndex ELSE @]
  BY Zenon
<1>3. s \in SUBSET Index
  BY <1>1, <1>2
<1>4. b \in [Field -> Index \cup {NoIndex}]
  <2>1. PICK act, f, i : act = st.active_by_field /\ f = r.field /\ i = r.index
    BY Zenon
  <2>2. [act EXCEPT ![f] = i] \in [Field -> Index \cup {NoIndex}]
    BY <1>1, <2>1
  <2>3. [act EXCEPT ![f] = IF @ = i THEN NoIndex ELSE @] \in [Field -> Index \cup {NoIndex}]
    BY <1>1, <2>1
  <2> QED BY <1>2, <2>1, <2>2, <2>3, Zenon
<1>5. ApplyEntry(st, r) = [version |-> v, indexes |-> s, active_by_field |-> b]
  BY <1>2, Zenon DEF ApplyEntry
<1>6. [version |-> v, indexes |-> s, active_by_field |-> b] \in State
  BY <1>1, <1>2, <1>3, <1>4 DEF State, SchemaState
<1> QED BY <1>5, <1>6, Zenon DEF ApplyNewer

\* apply_entry_mut changes only the active index of the entry's field, and a drop makes
\* no index active.
LEMMA ApplyEntryActive ==
  ASSUME NEW st \in State, NEW r, NEW f \in Field
  PROVE  /\ f # r.field => ApplyEntry(st, r).active_by_field[f] = st.active_by_field[f]
         /\ r.op # "create" => (ApplyEntry(st, r).active_by_field[f] # NoIndex => st.active_by_field[f] # NoIndex)
BY DEF ApplyEntry, State, SchemaState

-----------------------------------------------------------------------------
\* The calls of before stay, and keep the fields that never change.
Static ==
  /\ workload' = workload /\ Calls \subseteq Calls'
  /\ \A j \in Calls : /\ call'[j].op = call[j].op /\ call'[j].node = call[j].node
                      /\ call'[j].field = call[j].field /\ call'[j].index = call[j].index
                      /\ call'[j].old = call[j].old

\* Only node n changes.
OnlyNode(n) ==
  \A m \in Node : m # n => /\ version'[m] = version[m] /\ state'[m] = state[m] /\ log'[m] = log[m]
                           /\ snap'[m] = snap[m] /\ rows'[m] = rows[m] /\ ready'[m] = ready[m]
                           /\ sync'[m] = sync[m]

\* The steps of call k, on node n, from place p to place pc.  What stays:
CallMove(k, n, p, pc) ==
  /\ Shape' /\ Static /\ OnlyNode(n)
  /\ n \in Node /\ n = call[k].node /\ p = call[k].pc /\ pc = call'[k].pc
  /\ Calls' = Calls /\ \A j \in Calls : j # k => call'[j] = call[j]
  /\ UNCHANGED <<up, sync>>

\* Which places follow which.
Route(k, p, pc) ==
  \/ p = "quota" /\ pc = "failed"
  \/ p = "quota" /\ pc = "append" /\ (~OverQuota(call[k].node) \/ call[k].old # NoIndex)
  \/ p = "append" /\ pc \in {"newline", "failed"}
  \/ p = "newline" /\ pc \in {"apply", "failed"}
  \/ p = "apply" /\ pc = "save"
  \/ p = "save" /\ pc = "put"
  \/ p = "put" /\ pc = "failed"
  \/ p = "put" /\ pc = "rows" /\ call[k].op = "create"
  \/ p = "put" /\ pc = "unrow" /\ call[k].op # "create"
  \/ p = "rows" /\ pc \in {"ready", "failed"}
  \/ p = "ready" /\ pc = "done"
  \/ p = "ready" /\ pc = "swap" /\ call[k].old # NoIndex
  \/ p = "swap" /\ pc = "unrow"
  \/ p = "unrow" /\ pc \in {"unready", "failed"}
  \/ p \in {"unrow", "unready"} /\ pc = "resave" /\ call[k].op = "create"
  \/ p = "unready" /\ pc = "done"
  \/ p = "resave" /\ pc = "reput"
  \/ p = "reput" /\ pc \in {"done", "failed"}

\* What a move changes: the version, the log and the state ...
Swapped(k, n) ==
  [version |-> state[n].version, indexes |-> state[n].indexes \ {call[k].old},
   active_by_field |-> [state[n].active_by_field EXCEPT ![call[k].field] = k]]

\* A swap makes the new index active, and touches no other field.
LEMMA SwappedActive ==
  ASSUME NEW k, NEW n, NEW f \in Field, state[n] \in State
  PROVE  f # call[k].field => Swapped(k, n).active_by_field[f] = state[n].active_by_field[f]
BY DEF Swapped, State, SchemaState

MoveMemory(k, n, p, pc) ==
  /\ IF p = "quota" /\ pc = "append"
     THEN version'[n] = version[n] + 1 /\ call'[k].version = version[n] + 1
     ELSE version'[n] = version[n] /\ call'[k].version = call[k].version
  /\ IF pc = "newline" THEN log'[n] = Append(log[n], k) ELSE log'[n] = log[n]
  /\ p = "apply" => state'[n] = ApplyEntry(state[n], call[k])
  /\ p = "swap" => state'[n] = Swapped(k, n)
  /\ p \notin {"apply", "swap"} => state'[n] = state[n]
  /\ gone' = IF p = "swap" THEN gone \cup {call[k].old} ELSE gone
  /\ revived' = IF p = "swap" /\ Active(n, call[k].field) = NoIndex THEN revived \cup {k} ELSE revived

\* ... the snapshot, with the acknowledgement ...
MoveSnap(k, n, p, pc) ==
  /\ call'[k].acked = IF p = "put" /\ pc # "failed" THEN TRUE ELSE call[k].acked
  /\ p \in {"save", "resave"} => call'[k].image = state[n]
  /\ p \in {"put", "reput"} => call'[k].image = NoState
  /\ p \notin {"save", "resave"} => call'[k].image \in {call[k].image, NoState}
  /\ IF p \in {"put", "reput"} /\ pc # "failed"
     THEN WriteSnapshot(n, call[k].image) /\ snap'[n] = call[k].image
     ELSE snap'[n] = snap[n] /\ lost' = lost

\* ... and the rows.
MoveRows(k, n, p, pc) ==
  /\ rows'[n] = IF pc = "ready" THEN rows[n] \cup {k}
                ELSE IF pc = "unready" THEN rows[n] \ {Dropped(k)} ELSE rows[n]
  /\ ready'[n] = IF p = "ready" THEN ready[n] \cup {k}
                 ELSE IF p = "unready" THEN ready[n] \ {Dropped(k)} ELSE ready[n]

Move(k, n, p, pc) == /\ CallMove(k, n, p, pc) /\ Route(k, p, pc) /\ MoveMemory(k, n, p, pc)
                     /\ MoveSnap(k, n, p, pc) /\ MoveRows(k, n, p, pc)

\* Every step of a call is such a move.
LEMMA Moves ==
  ASSUME Shape, NEW k \in Calls, CallStep(k) \/ CallFails(k)
  PROVE  \E n, p, pc : Move(k, n, p, pc)
<1>1. PICK n : n = call[k].node
  BY Zenon
<1>2. /\ call \in [Calls -> CallRec] /\ k \in Index /\ version \in [Node -> Nat]
      /\ state \in [Node -> State] /\ ready \in [Node -> SUBSET Index] /\ log \in [Node -> Seq(Index)]
      /\ snap \in [Node -> Image] /\ rows \in [Node -> SUBSET Index] /\ HistoryShape
  BY Zenon DEF Shape, CallShape, MemoryShape, DiskShape
<1>3. call[k] \in CallRec
  BY <1>2
<1>4. /\ n \in Node /\ call[k].field \in Field /\ call[k].old \in Index \cup {NoIndex}
      /\ call[k].version \in Nat /\ call[k].acked \in BOOLEAN /\ call[k].image \in Image
      /\ call[k].op \in {"create", "drop"} /\ call[k].index \in Index
  BY <1>1, <1>3 DEF CallRec
<1>5. /\ {"failed", "append", "newline", "apply", "save", "put", "reput", "rows", "unrow", "ready",
          "done", "swap", "unready", "resave"} \subseteq Pcs
      /\ NoState \in Image /\ Of(n) \subseteq Index
  BY DEF Pcs, Waiting, Image, Of, Shape, CallShape
\* With the changes at hand, a step is a move.
<1>6. ASSUME NEW v, NEW pc, NEW a, NEW i, CallShape', CallMoves(k, v, pc, a, i), UNCHANGED <<workload, up, sync>>,
             faults' \in 0 .. MaxFaults, MemoryShape', DiskShape', HistoryShape', OnlyNode(n)
      PROVE  /\ CallMove(k, n, call[k].pc, pc)
             /\ call'[k].version = v /\ call'[k].acked = a /\ call'[k].image = i
  <2>1. Static
    BY <1>6, Zenon DEF Static, CallMoves, SameBut
  <2>2. Shape'
    BY <1>6, Zenon DEF Shape, WorkloadShape, SyncShape
  <2> QED BY <1>1, <1>4, <1>6, <2>1, <2>2, Zenon DEF CallMove, CallMoves, SameBut
<1>7. CASE QuotaExceeded(k)
  <2>1. /\ call[k].pc = "quota"
        /\ Goto(k, "failed")
        /\ UNCHANGED <<workload, up, log, snap, rows, version, state, ready, sync, faults, gone, lost, revived>>
    BY <1>1, <1>7, Zenon DEF QuotaExceeded, disk, memory, history
  <2>2. CallShape' /\ CallMoves(k, call[k].version, "failed", call[k].acked, call[k].image)
    BY <1>4, <1>5, <2>1, CallMoved, Zenon
  <2>3. /\ MemoryShape' /\ DiskShape' /\ HistoryShape' /\ faults' \in 0 .. MaxFaults /\ OnlyNode(n)
        /\ UNCHANGED <<workload, up, sync>>
    BY <1>2, <1>4, <2>1, <2>2, Zenon DEF Shape, WorkloadShape, MemoryShape, DiskShape, OnlyNode, HistoryShape
  <2>4. /\ CallMove(k, n, call[k].pc, "failed")
        /\ call'[k].version = call[k].version /\ call'[k].acked = call[k].acked /\ call'[k].image = call[k].image
    BY <1>6, <2>2, <2>3, Zenon
  <2>5. Route(k, call[k].pc, "failed")
    BY <1>1, <1>4, <2>1, <2>2, <2>3, <2>4, Zenon DEF Route
  <2>6. MoveMemory(k, n, call[k].pc, "failed")
    BY <1>1, <1>4, <2>1, <2>2, <2>3, <2>4, Zenon DEF MoveMemory
  <2>7. MoveSnap(k, n, call[k].pc, "failed")
    BY <1>1, <1>4, <2>1, <2>2, <2>3, <2>4, Zenon DEF MoveSnap
  <2>8. MoveRows(k, n, call[k].pc, "failed")
    BY <1>1, <1>4, <2>1, <2>2, <2>3, <2>4, Zenon DEF MoveRows
  <2> QED BY <2>4, <2>5, <2>6, <2>7, <2>8, Zenon DEF Move
<1>8. CASE TakeVersion(k)
  <2>0. PICK w : w = version[n] + 1
    BY Zenon
  <2>1. /\ w = version[n] + 1 /\ call[k].pc = "quota"
        /\ (~OverQuota(n) \/ call[k].old # NoIndex)
        /\ call' = [call EXCEPT ![k] = [@ EXCEPT !.pc = "append", !.version = w]]
        /\ version' = [version EXCEPT ![n] = w]
        /\ UNCHANGED <<workload, up, log, snap, rows, state, ready, sync, faults, gone, lost, revived>>
    BY <1>1, <1>8, <2>0, Zenon DEF TakeVersion, disk, memory, history, NextVersion
  <2>2. w \in Nat
    BY <1>2, <1>4, <2>1
  <2>3. CallShape' /\ CallMoves(k, w, "append", call[k].acked, call[k].image)
    BY <1>4, <1>5, <2>1, <2>2, CallMoved, Zenon
  <2>4. version' \in [Node -> Nat] /\ version'[n] = w
        /\ \A m \in Node : m # n => version'[m] = version[m]
    BY <1>2, <1>4, <2>1, <2>2, Zenon
  <2>5. /\ MemoryShape' /\ DiskShape' /\ HistoryShape' /\ faults' \in 0 .. MaxFaults /\ OnlyNode(n)
        /\ UNCHANGED <<workload, up, sync>>
    BY <1>2, <1>4, <2>1, <2>2, <2>3, <2>4, Zenon DEF Shape, WorkloadShape, MemoryShape, DiskShape, OnlyNode, HistoryShape
  <2>6. /\ CallMove(k, n, call[k].pc, "append")
        /\ call'[k].version = w /\ call'[k].acked = call[k].acked /\ call'[k].image = call[k].image
    BY <1>6, <2>3, <2>5, Zenon
  <2>7. Route(k, call[k].pc, "append")
    BY <1>1, <1>4, <2>1, <2>2, <2>3, <2>4, <2>5, <2>6, Zenon DEF Route
  <2>8. MoveMemory(k, n, call[k].pc, "append")
    BY <1>1, <1>4, <2>1, <2>2, <2>3, <2>4, <2>5, <2>6, Zenon DEF MoveMemory
  <2>9. MoveSnap(k, n, call[k].pc, "append")
    BY <1>1, <1>4, <2>1, <2>2, <2>3, <2>4, <2>5, <2>6, Zenon DEF MoveSnap
  <2>10. MoveRows(k, n, call[k].pc, "append")
    BY <1>1, <1>4, <2>1, <2>2, <2>3, <2>4, <2>5, <2>6, Zenon DEF MoveRows
  <2> QED BY <2>6, <2>7, <2>8, <2>9, <2>10, Zenon DEF Move
<1>9. CASE AppendLog(k)
  <2>1. /\ call[k].pc = "append"
        /\ Goto(k, "newline")
        /\ log' = [log EXCEPT ![n] = Append(log[n], k)]
        /\ UNCHANGED <<workload, up, snap, rows, version, state, ready, sync, faults, gone, lost, revived>>
    BY <1>1, <1>9, Zenon DEF AppendLog, disk, memory, history
  <2>2. CallShape' /\ CallMoves(k, call[k].version, "newline", call[k].acked, call[k].image)
    BY <1>4, <1>5, <2>1, CallMoved, Zenon
  <2>3. log' \in [Node -> Seq(Index)] /\ log'[n] = Append(log[n], k)
        /\ \A m \in Node : m # n => log'[m] = log[m]
    <3>1. PICK l, t : l = log[n] /\ t = Append(log[n], k)
      BY Zenon
    <3>2. l \in Seq(Index) /\ t = Append(l, k)
      BY <1>2, <1>4, <3>1, Zenon
    <3>3. t \in Seq(Index)
      BY <1>2, <3>2
    <3> QED BY <1>2, <1>4, <2>1, <3>1, <3>3, Zenon
  <2>4. /\ MemoryShape' /\ DiskShape' /\ HistoryShape' /\ faults' \in 0 .. MaxFaults /\ OnlyNode(n)
        /\ UNCHANGED <<workload, up, sync>>
    BY <1>2, <1>4, <2>1, <2>2, <2>3, Zenon DEF Shape, WorkloadShape, MemoryShape, DiskShape, OnlyNode, HistoryShape
  <2>5. /\ CallMove(k, n, call[k].pc, "newline")
        /\ call'[k].version = call[k].version /\ call'[k].acked = call[k].acked /\ call'[k].image = call[k].image
    BY <1>6, <2>2, <2>4, Zenon
  <2>6. Route(k, call[k].pc, "newline")
    BY <1>1, <1>4, <2>1, <2>2, <2>3, <2>4, <2>5, Zenon DEF Route
  <2>7. MoveMemory(k, n, call[k].pc, "newline")
    BY <1>1, <1>4, <2>1, <2>2, <2>3, <2>4, <2>5, Zenon DEF MoveMemory
  <2>8. MoveSnap(k, n, call[k].pc, "newline")
    BY <1>1, <1>4, <2>1, <2>2, <2>3, <2>4, <2>5, Zenon DEF MoveSnap
  <2>9. MoveRows(k, n, call[k].pc, "newline")
    BY <1>1, <1>4, <2>1, <2>2, <2>3, <2>4, <2>5, Zenon DEF MoveRows
  <2> QED BY <2>5, <2>6, <2>7, <2>8, <2>9, Zenon DEF Move
<1>10. CASE ApplyCall(k)
  <2>1. /\ call[k].pc = "apply"
        /\ Goto(k, "save")
        /\ state' = [state EXCEPT ![n] = ApplyEntry(state[n], call[k])]
        /\ UNCHANGED <<workload, up, log, snap, rows, version, ready, sync, faults, gone, lost, revived>>
    BY <1>1, <1>10, Zenon DEF ApplyCall, disk, memory, history
  <2>2. CallShape' /\ CallMoves(k, call[k].version, "save", call[k].acked, call[k].image)
    BY <1>4, <1>5, <2>1, CallMoved, Zenon
  <2>3. state' \in [Node -> State] /\ state'[n] = ApplyEntry(state[n], call[k])
        /\ \A m \in Node : m # n => state'[m] = state[m]
    <3>1. PICK s, r, t : s = state[n] /\ r = call[k] /\ t = ApplyEntry(state[n], call[k])
      BY Zenon
    <3>2. s \in State /\ r \in CallRec /\ t = ApplyEntry(s, r)
      BY <1>2, <1>3, <1>4, <3>1, Zenon
    <3>3. t \in State
      BY <3>2, ApplyEntryState, Zenon
    <3> QED BY <1>2, <1>4, <2>1, <3>1, <3>3, Zenon
  <2>4. /\ MemoryShape' /\ DiskShape' /\ HistoryShape' /\ faults' \in 0 .. MaxFaults /\ OnlyNode(n)
        /\ UNCHANGED <<workload, up, sync>>
    BY <1>2, <1>4, <2>1, <2>2, <2>3, Zenon DEF Shape, WorkloadShape, MemoryShape, DiskShape, OnlyNode, HistoryShape
  <2>5. /\ CallMove(k, n, call[k].pc, "save")
        /\ call'[k].version = call[k].version /\ call'[k].acked = call[k].acked /\ call'[k].image = call[k].image
    BY <1>6, <2>2, <2>4, Zenon
  <2>6. Route(k, call[k].pc, "save")
    BY <1>1, <1>4, <2>1, <2>2, <2>3, <2>4, <2>5, Zenon DEF Route
  <2>7. MoveMemory(k, n, call[k].pc, "save")
    BY <1>1, <1>4, <2>1, <2>2, <2>3, <2>4, <2>5, Zenon DEF MoveMemory
  <2>8. MoveSnap(k, n, call[k].pc, "save")
    BY <1>1, <1>4, <2>1, <2>2, <2>3, <2>4, <2>5, Zenon DEF MoveSnap
  <2>9. MoveRows(k, n, call[k].pc, "save")
    BY <1>1, <1>4, <2>1, <2>2, <2>3, <2>4, <2>5, Zenon DEF MoveRows
  <2> QED BY <2>5, <2>6, <2>7, <2>8, <2>9, Zenon DEF Move
<1>11. CASE Serialize(k)
  <2>0. PICK pc : pc = IF call[k].pc = "save" THEN "put" ELSE "reput"
    BY Zenon
  <2>1. /\ pc = IF call[k].pc = "save" THEN "put" ELSE "reput"
        /\ call[k].pc \in {"save", "resave"}
        /\ call' = [call EXCEPT ![k] = [@ EXCEPT !.pc = pc, !.image = state[n]]]
        /\ UNCHANGED <<workload, up, log, snap, rows, version, state, ready, sync, faults, gone, lost, revived>>
    BY <1>1, <1>11, <2>0, Zenon DEF Serialize, disk, memory, history
  <2>2. PICK i : i = state[n]
    BY Zenon
  <2>3. pc \in Pcs /\ i \in Image
    BY <1>2, <1>4, <1>5, <2>1, <2>2, Zenon DEF Image
  <2>4. CallShape' /\ CallMoves(k, call[k].version, pc, call[k].acked, i)
    BY <1>4, <1>5, <2>1, <2>2, <2>3, CallMoved, Zenon
  <2>5. /\ MemoryShape' /\ DiskShape' /\ HistoryShape' /\ faults' \in 0 .. MaxFaults /\ OnlyNode(n)
        /\ UNCHANGED <<workload, up, sync>>
    BY <1>2, <1>4, <2>1, <2>2, <2>3, <2>4, Zenon DEF Shape, WorkloadShape, MemoryShape, DiskShape, OnlyNode, HistoryShape
  <2>6. /\ CallMove(k, n, call[k].pc, pc)
        /\ call'[k].version = call[k].version /\ call'[k].acked = call[k].acked /\ call'[k].image = i
    BY <1>6, <2>4, <2>5, Zenon
  <2>7. Route(k, call[k].pc, pc)
    BY <1>1, <1>4, <2>1, <2>2, <2>3, <2>4, <2>5, <2>6, Zenon DEF Route
  <2>8. MoveMemory(k, n, call[k].pc, pc)
    BY <1>1, <1>4, <2>1, <2>2, <2>3, <2>4, <2>5, <2>6, Zenon DEF MoveMemory
  <2>9. MoveSnap(k, n, call[k].pc, pc)
    BY <1>1, <1>4, <2>1, <2>2, <2>3, <2>4, <2>5, <2>6, Zenon DEF MoveSnap
  <2>10. MoveRows(k, n, call[k].pc, pc)
    BY <1>1, <1>4, <2>1, <2>2, <2>3, <2>4, <2>5, <2>6, Zenon DEF MoveRows
  <2> QED BY <2>6, <2>7, <2>8, <2>9, <2>10, Zenon DEF Move
<1>12. CASE PutSnapshot(k)
  <2>0. PICK pc : pc = IF call[k].op = "create" THEN "rows" ELSE "unrow"
    BY Zenon
  <2>1. /\ pc = IF call[k].op = "create" THEN "rows" ELSE "unrow"
        /\ call[k].pc = "put"
        /\ call' = [call EXCEPT ![k] = [@ EXCEPT !.pc = pc, !.image = NoState, !.acked = TRUE]]
        /\ snap' = [snap EXCEPT ![n] = call[k].image]
        /\ lost' = (lost \cup (state[n].indexes \cap Of(n))) \ (call[k].image.indexes \cap Of(n))
        /\ UNCHANGED <<workload, up, log, rows, version, state, ready, sync, faults, gone, revived>>
    BY <1>1, <1>12, <2>0, Zenon DEF PutSnapshot, disk, memory, history, WriteSnapshot
  <2>2. pc \in Pcs /\ TRUE \in BOOLEAN
    BY <1>5, <2>1, Zenon
  <2>3. CallShape' /\ CallMoves(k, call[k].version, pc, TRUE, NoState)
    BY <1>4, <1>5, <2>1, <2>2, CallMoved, Zenon
  <2>4. snap' \in [Node -> Image] /\ snap'[n] = call[k].image
        /\ \A m \in Node : m # n => snap'[m] = snap[m]
    BY <1>2, <1>4, <2>1, Zenon
  <2>5. HistoryShape' /\ faults' \in 0 .. MaxFaults
    BY <1>2, <1>4, <1>5, <2>1 DEF Shape, WorkloadShape, HistoryShape
  <2>6. /\ MemoryShape' /\ DiskShape' /\ HistoryShape' /\ faults' \in 0 .. MaxFaults /\ OnlyNode(n)
        /\ UNCHANGED <<workload, up, sync>>
    BY <1>2, <1>4, <2>1, <2>2, <2>3, <2>4, <2>5, Zenon DEF Shape, WorkloadShape, MemoryShape, DiskShape, OnlyNode
  <2>7. /\ CallMove(k, n, call[k].pc, pc)
        /\ call'[k].version = call[k].version /\ call'[k].acked = TRUE /\ call'[k].image = NoState
    BY <1>6, <2>3, <2>6, Zenon
  <2>8. Route(k, call[k].pc, pc)
    BY <1>1, <1>4, <2>1, <2>2, <2>3, <2>4, <2>5, <2>6, <2>7, Zenon DEF Route
  <2>9. MoveMemory(k, n, call[k].pc, pc)
    BY <1>1, <1>4, <2>1, <2>2, <2>3, <2>4, <2>5, <2>6, <2>7, Zenon DEF MoveMemory
  <2>10. MoveSnap(k, n, call[k].pc, pc)
    BY <1>1, <1>4, <2>1, <2>2, <2>3, <2>4, <2>5, <2>6, <2>7, Zenon DEF MoveSnap, WriteSnapshot
  <2>11. MoveRows(k, n, call[k].pc, pc)
    BY <1>1, <1>4, <2>1, <2>2, <2>3, <2>4, <2>5, <2>6, <2>7, Zenon DEF MoveRows
  <2> QED BY <2>7, <2>8, <2>9, <2>10, <2>11, Zenon DEF Move
<1>13. CASE BuildRows(k)
  <2>1. /\ call[k].pc = "rows"
        /\ Goto(k, "ready")
        /\ rows' = [rows EXCEPT ![n] = rows[n] \cup {k}]
        /\ UNCHANGED <<workload, up, log, snap, version, state, ready, sync, faults, gone, lost, revived>>
    BY <1>1, <1>13, Zenon DEF BuildRows, disk, memory, history
  <2>2. CallShape' /\ CallMoves(k, call[k].version, "ready", call[k].acked, call[k].image)
    BY <1>4, <1>5, <2>1, CallMoved, Zenon
  <2>3. rows' \in [Node -> SUBSET Index] /\ rows'[n] = rows[n] \cup {k}
        /\ \A m \in Node : m # n => rows'[m] = rows[m]
    BY <1>2, <1>4, <2>1
  <2>4. /\ MemoryShape' /\ DiskShape' /\ HistoryShape' /\ faults' \in 0 .. MaxFaults /\ OnlyNode(n)
        /\ UNCHANGED <<workload, up, sync>>
    BY <1>2, <1>4, <2>1, <2>2, <2>3, Zenon DEF Shape, WorkloadShape, MemoryShape, DiskShape, OnlyNode, HistoryShape
  <2>5. /\ CallMove(k, n, call[k].pc, "ready")
        /\ call'[k].version = call[k].version /\ call'[k].acked = call[k].acked /\ call'[k].image = call[k].image
    BY <1>6, <2>2, <2>4, Zenon
  <2>6. Route(k, call[k].pc, "ready")
    BY <1>1, <1>4, <2>1, <2>2, <2>3, <2>4, <2>5, Zenon DEF Route
  <2>7. MoveMemory(k, n, call[k].pc, "ready")
    BY <1>1, <1>4, <2>1, <2>2, <2>3, <2>4, <2>5, Zenon DEF MoveMemory
  <2>8. MoveSnap(k, n, call[k].pc, "ready")
    BY <1>1, <1>4, <2>1, <2>2, <2>3, <2>4, <2>5, Zenon DEF MoveSnap
  <2>9. MoveRows(k, n, call[k].pc, "ready")
    BY <1>1, <1>4, <2>1, <2>2, <2>3, <2>4, <2>5, Zenon DEF MoveRows
  <2> QED BY <2>5, <2>6, <2>7, <2>8, <2>9, Zenon DEF Move
<1>14. CASE MarkReady(k)
  <2>0. PICK pc : pc = IF call[k].old = NoIndex THEN "done" ELSE "swap"
    BY Zenon
  <2>1. /\ pc = IF call[k].old = NoIndex THEN "done" ELSE "swap"
        /\ call[k].pc = "ready"
        /\ Goto(k, pc)
        /\ ready' = [ready EXCEPT ![n] = ready[n] \cup {k}]
        /\ UNCHANGED <<workload, up, log, snap, rows, version, state, sync, faults, gone, lost, revived>>
    BY <1>1, <1>14, <2>0, Zenon DEF MarkReady, disk, memory, history
  <2>2. pc \in Pcs
    BY <1>5, <2>1, Zenon
  <2>3. CallShape' /\ CallMoves(k, call[k].version, pc, call[k].acked, call[k].image)
    BY <1>4, <1>5, <2>1, <2>2, CallMoved, Zenon
  <2>4. ready' \in [Node -> SUBSET Index] /\ ready'[n] = ready[n] \cup {k}
        /\ \A m \in Node : m # n => ready'[m] = ready[m]
    BY <1>2, <1>4, <2>1
  <2>5. /\ MemoryShape' /\ DiskShape' /\ HistoryShape' /\ faults' \in 0 .. MaxFaults /\ OnlyNode(n)
        /\ UNCHANGED <<workload, up, sync>>
    BY <1>2, <1>4, <2>1, <2>2, <2>3, <2>4, Zenon DEF Shape, WorkloadShape, MemoryShape, DiskShape, OnlyNode, HistoryShape
  <2>6. /\ CallMove(k, n, call[k].pc, pc)
        /\ call'[k].version = call[k].version /\ call'[k].acked = call[k].acked /\ call'[k].image = call[k].image
    BY <1>6, <2>3, <2>5, Zenon
  <2>7. Route(k, call[k].pc, pc)
    BY <1>1, <1>4, <2>1, <2>2, <2>3, <2>4, <2>5, <2>6, Zenon DEF Route
  <2>8. MoveMemory(k, n, call[k].pc, pc)
    BY <1>1, <1>4, <2>1, <2>2, <2>3, <2>4, <2>5, <2>6, Zenon DEF MoveMemory
  <2>9. MoveSnap(k, n, call[k].pc, pc)
    BY <1>1, <1>4, <2>1, <2>2, <2>3, <2>4, <2>5, <2>6, Zenon DEF MoveSnap
  <2>10. MoveRows(k, n, call[k].pc, pc)
    BY <1>1, <1>4, <2>1, <2>2, <2>3, <2>4, <2>5, <2>6, Zenon DEF MoveRows
  <2> QED BY <2>6, <2>7, <2>8, <2>9, <2>10, Zenon DEF Move
<1>15. CASE Swap(k)
  <2>0. /\ state' \in [Node -> State] /\ state'[n] = Swapped(k, n)
        /\ \A m \in Node : m # n => state'[m] = state[m]
    <3>1. PICK s, f, o, b : /\ s = state[n] /\ f = call[k].field /\ o = call[k].old
                            /\ b = [s.active_by_field EXCEPT ![f] = k]
      BY Zenon
    <3>2. s \in State /\ f \in Field
      BY <1>2, <1>4, <3>1, Zenon
    <3>3. PICK t : t = [version |-> s.version, indexes |-> s.indexes \ {o}, active_by_field |-> b]
      BY Zenon
    <3>4. t \in State
      BY <1>2, <3>1, <3>2, <3>3 DEF State, SchemaState
    <3>5. PICK u : u = [s EXCEPT !.active_by_field = b]
      BY Zenon
    <3>6. u = [version |-> s.version, indexes |-> s.indexes, active_by_field |-> b]
      BY <3>2, <3>5 DEF State, SchemaState
    <3>7. t = [u EXCEPT !.indexes = @ \ {o}]
      BY <3>3, <3>6
    <3>8. PICK c : c = [state EXCEPT ![n] = u]
      BY Zenon
    <3>9. c[n] = u /\ DOMAIN c = Node /\ \A m \in Node : m # n => c[m] = state[m]
      BY <1>2, <1>4, <3>8, Zenon
    <3>10. state' = [c EXCEPT ![n].indexes = @ \ {o}]
      BY <1>1, <1>15, <3>1, <3>5, <3>8, Zenon DEF Swap
    <3>11. state' = [c EXCEPT ![n] = t]
      BY <3>7, <3>9, <3>10, Zenon
    <3>12. state'[n] = t /\ DOMAIN state' = Node /\ \A m \in Node : m # n => state'[m] = c[m]
      BY <1>4, <3>9, <3>11, Zenon
    <3>13. state' = [m \in Node |-> state'[m]]
      BY <1>2, <1>4, <3>8, <3>11, Zenon
    <3>14. \A m \in Node : state'[m] \in State
      BY <1>2, <3>4, <3>9, <3>12, Zenon
    <3>15. state' \in [Node -> State]
      BY <3>13, <3>14, Zenon
    <3> QED BY <3>1, <3>3, <3>9, <3>12, <3>15, Zenon DEF Swapped
  <2>1. /\ call[k].pc = "swap"
        /\ Goto(k, "unrow")
        /\ gone' = gone \cup {call[k].old}
        /\ revived' = IF Active(n, call[k].field) = NoIndex THEN revived \cup {k} ELSE revived
        /\ UNCHANGED <<workload, up, log, snap, rows, version, ready, sync, faults, lost>>
    BY <1>1, <1>15, Zenon DEF Swap, disk, memory, history
  <2>2. CallShape' /\ CallMoves(k, call[k].version, "unrow", call[k].acked, call[k].image)
    BY <1>4, <1>5, <2>1, CallMoved, Zenon
  <2>4. HistoryShape' /\ faults' \in 0 .. MaxFaults
    BY <1>2, <1>4, <1>5, <2>1 DEF Shape, WorkloadShape, HistoryShape
  <2>5. /\ MemoryShape' /\ DiskShape' /\ HistoryShape' /\ faults' \in 0 .. MaxFaults /\ OnlyNode(n)
        /\ UNCHANGED <<workload, up, sync>>
    BY <1>2, <1>4, <2>1, <2>2, <2>0, <2>4, Zenon DEF Shape, WorkloadShape, MemoryShape, DiskShape, OnlyNode
  <2>6. /\ CallMove(k, n, call[k].pc, "unrow")
        /\ call'[k].version = call[k].version /\ call'[k].acked = call[k].acked /\ call'[k].image = call[k].image
    BY <1>6, <2>2, <2>5, Zenon
  <2>7. Route(k, call[k].pc, "unrow")
    BY <1>1, <1>4, <2>1, <2>2, <2>0, <2>4, <2>5, <2>6, Zenon DEF Route
  <2>8. MoveMemory(k, n, call[k].pc, "unrow")
    BY <1>1, <1>4, <2>1, <2>2, <2>0, <2>4, <2>5, <2>6, Zenon DEF MoveMemory
  <2>9. MoveSnap(k, n, call[k].pc, "unrow")
    BY <1>1, <1>4, <2>1, <2>2, <2>0, <2>4, <2>5, <2>6, Zenon DEF MoveSnap
  <2>10. MoveRows(k, n, call[k].pc, "unrow")
    BY <1>1, <1>4, <2>1, <2>2, <2>0, <2>4, <2>5, <2>6, Zenon DEF MoveRows
  <2> QED BY <2>6, <2>7, <2>8, <2>9, <2>10, Zenon DEF Move
<1>16. CASE DropRows(k)
  <2>1. /\ call[k].pc = "unrow"
        /\ Goto(k, "unready")
        /\ rows' = [rows EXCEPT ![n] = rows[n] \ {Dropped(k)}]
        /\ UNCHANGED <<workload, up, log, snap, version, state, ready, sync, faults, gone, lost, revived>>
    BY <1>1, <1>16, Zenon DEF DropRows, disk, memory, history
  <2>2. CallShape' /\ CallMoves(k, call[k].version, "unready", call[k].acked, call[k].image)
    BY <1>4, <1>5, <2>1, CallMoved, Zenon
  <2>3. rows' \in [Node -> SUBSET Index] /\ rows'[n] = rows[n] \ {Dropped(k)}
        /\ \A m \in Node : m # n => rows'[m] = rows[m]
    BY <1>2, <1>4, <2>1
  <2>4. /\ MemoryShape' /\ DiskShape' /\ HistoryShape' /\ faults' \in 0 .. MaxFaults /\ OnlyNode(n)
        /\ UNCHANGED <<workload, up, sync>>
    BY <1>2, <1>4, <2>1, <2>2, <2>3, Zenon DEF Shape, WorkloadShape, MemoryShape, DiskShape, OnlyNode, HistoryShape
  <2>5. /\ CallMove(k, n, call[k].pc, "unready")
        /\ call'[k].version = call[k].version /\ call'[k].acked = call[k].acked /\ call'[k].image = call[k].image
    BY <1>6, <2>2, <2>4, Zenon
  <2>6. Route(k, call[k].pc, "unready")
    BY <1>1, <1>4, <2>1, <2>2, <2>3, <2>4, <2>5, Zenon DEF Route
  <2>7. MoveMemory(k, n, call[k].pc, "unready")
    BY <1>1, <1>4, <2>1, <2>2, <2>3, <2>4, <2>5, Zenon DEF MoveMemory
  <2>8. MoveSnap(k, n, call[k].pc, "unready")
    BY <1>1, <1>4, <2>1, <2>2, <2>3, <2>4, <2>5, Zenon DEF MoveSnap
  <2>9. MoveRows(k, n, call[k].pc, "unready")
    BY <1>1, <1>4, <2>1, <2>2, <2>3, <2>4, <2>5, Zenon DEF MoveRows
  <2> QED BY <2>5, <2>6, <2>7, <2>8, <2>9, Zenon DEF Move
<1>17. CASE DropReady(k)
  <2>0. PICK pc : pc = IF call[k].op = "create" THEN "resave" ELSE "done"
    BY Zenon
  <2>1. /\ pc = IF call[k].op = "create" THEN "resave" ELSE "done"
        /\ call[k].pc = "unready"
        /\ Goto(k, pc)
        /\ ready' = [ready EXCEPT ![n] = ready[n] \ {Dropped(k)}]
        /\ UNCHANGED <<workload, up, log, snap, rows, version, state, sync, faults, gone, lost, revived>>
    BY <1>1, <1>17, <2>0, Zenon DEF DropReady, disk, memory, history
  <2>2. pc \in Pcs
    BY <1>5, <2>1, Zenon
  <2>3. CallShape' /\ CallMoves(k, call[k].version, pc, call[k].acked, call[k].image)
    BY <1>4, <1>5, <2>1, <2>2, CallMoved, Zenon
  <2>4. ready' \in [Node -> SUBSET Index] /\ ready'[n] = ready[n] \ {Dropped(k)}
        /\ \A m \in Node : m # n => ready'[m] = ready[m]
    BY <1>2, <1>4, <2>1
  <2>5. /\ MemoryShape' /\ DiskShape' /\ HistoryShape' /\ faults' \in 0 .. MaxFaults /\ OnlyNode(n)
        /\ UNCHANGED <<workload, up, sync>>
    BY <1>2, <1>4, <2>1, <2>2, <2>3, <2>4, Zenon DEF Shape, WorkloadShape, MemoryShape, DiskShape, OnlyNode, HistoryShape
  <2>6. /\ CallMove(k, n, call[k].pc, pc)
        /\ call'[k].version = call[k].version /\ call'[k].acked = call[k].acked /\ call'[k].image = call[k].image
    BY <1>6, <2>3, <2>5, Zenon
  <2>7. Route(k, call[k].pc, pc)
    BY <1>1, <1>4, <2>1, <2>2, <2>3, <2>4, <2>5, <2>6, Zenon DEF Route
  <2>8. MoveMemory(k, n, call[k].pc, pc)
    BY <1>1, <1>4, <2>1, <2>2, <2>3, <2>4, <2>5, <2>6, Zenon DEF MoveMemory
  <2>9. MoveSnap(k, n, call[k].pc, pc)
    BY <1>1, <1>4, <2>1, <2>2, <2>3, <2>4, <2>5, <2>6, Zenon DEF MoveSnap
  <2>10. MoveRows(k, n, call[k].pc, pc)
    BY <1>1, <1>4, <2>1, <2>2, <2>3, <2>4, <2>5, <2>6, Zenon DEF MoveRows
  <2> QED BY <2>6, <2>7, <2>8, <2>9, <2>10, Zenon DEF Move
<1>18. CASE PutAfterSwap(k)
  <2>1. /\ call[k].pc = "reput"
        /\ call' = [call EXCEPT ![k] = [@ EXCEPT !.pc = "done", !.image = NoState]]
        /\ snap' = [snap EXCEPT ![n] = call[k].image]
        /\ lost' = (lost \cup (state[n].indexes \cap Of(n))) \ (call[k].image.indexes \cap Of(n))
        /\ UNCHANGED <<workload, up, log, rows, version, state, ready, sync, faults, gone, revived>>
    BY <1>1, <1>18, Zenon DEF PutAfterSwap, disk, memory, history, WriteSnapshot
  <2>2. CallShape' /\ CallMoves(k, call[k].version, "done", call[k].acked, NoState)
    BY <1>4, <1>5, <2>1, CallMoved, Zenon
  <2>3. snap' \in [Node -> Image] /\ snap'[n] = call[k].image
        /\ \A m \in Node : m # n => snap'[m] = snap[m]
    BY <1>2, <1>4, <2>1, Zenon
  <2>4. HistoryShape' /\ faults' \in 0 .. MaxFaults
    BY <1>2, <1>4, <1>5, <2>1 DEF Shape, WorkloadShape, HistoryShape
  <2>5. /\ MemoryShape' /\ DiskShape' /\ HistoryShape' /\ faults' \in 0 .. MaxFaults /\ OnlyNode(n)
        /\ UNCHANGED <<workload, up, sync>>
    BY <1>2, <1>4, <2>1, <2>2, <2>3, <2>4, Zenon DEF Shape, WorkloadShape, MemoryShape, DiskShape, OnlyNode
  <2>6. /\ CallMove(k, n, call[k].pc, "done")
        /\ call'[k].version = call[k].version /\ call'[k].acked = call[k].acked /\ call'[k].image = NoState
    BY <1>6, <2>2, <2>5, Zenon
  <2>7. Route(k, call[k].pc, "done")
    BY <1>1, <1>4, <2>1, <2>2, <2>3, <2>4, <2>5, <2>6, Zenon DEF Route
  <2>8. MoveMemory(k, n, call[k].pc, "done")
    BY <1>1, <1>4, <2>1, <2>2, <2>3, <2>4, <2>5, <2>6, Zenon DEF MoveMemory
  <2>9. MoveSnap(k, n, call[k].pc, "done")
    BY <1>1, <1>4, <2>1, <2>2, <2>3, <2>4, <2>5, <2>6, Zenon DEF MoveSnap, WriteSnapshot
  <2>10. MoveRows(k, n, call[k].pc, "done")
    BY <1>1, <1>4, <2>1, <2>2, <2>3, <2>4, <2>5, <2>6, Zenon DEF MoveRows
  <2> QED BY <2>6, <2>7, <2>8, <2>9, <2>10, Zenon DEF Move
<1>19. CASE CallFails(k)
  <2>0. PICK pc : pc = IF call[k].pc = "unrow" /\ call[k].op = "create" THEN "resave" ELSE "failed"
    BY Zenon
  <2>1. /\ pc = IF call[k].pc = "unrow" /\ call[k].op = "create" THEN "resave" ELSE "failed"
        /\ call[k].pc \in {"append", "newline", "put", "rows", "unrow", "reput"}
        /\ faults < MaxFaults /\ faults' = faults + 1
        /\ call' = [call EXCEPT ![k] = [@ EXCEPT !.pc = pc, !.image = NoState]]
        /\ UNCHANGED <<workload, up, log, snap, rows, version, state, ready, sync, gone, lost, revived>>
    BY <1>1, <1>19, <2>0, Zenon DEF CallFails, disk, memory, history
  <2>2. pc \in Pcs
    BY <1>5, <2>1, Zenon
  <2>3. CallShape' /\ CallMoves(k, call[k].version, pc, call[k].acked, NoState)
    BY <1>4, <1>5, <2>1, <2>2, CallMoved, Zenon
  <2>4. HistoryShape' /\ faults' \in 0 .. MaxFaults
    <3>1. faults \in 0 .. MaxFaults /\ faults < MaxFaults /\ faults' = faults + 1 /\ MaxFaults \in Nat
      BY <2>1, SchemaAssumption, Zenon DEF Shape, WorkloadShape
    <3>2. faults' \in 0 .. MaxFaults
      BY <3>1
    <3> QED BY <1>2, <2>1, <3>2, Zenon DEF HistoryShape
  <2>5. /\ MemoryShape' /\ DiskShape' /\ HistoryShape' /\ faults' \in 0 .. MaxFaults /\ OnlyNode(n)
        /\ UNCHANGED <<workload, up, sync>>
    BY <1>2, <1>4, <2>1, <2>2, <2>3, <2>4, Zenon DEF Shape, WorkloadShape, MemoryShape, DiskShape, OnlyNode
  <2>6. /\ CallMove(k, n, call[k].pc, pc)
        /\ call'[k].version = call[k].version /\ call'[k].acked = call[k].acked /\ call'[k].image = NoState
    BY <1>6, <2>3, <2>5, Zenon
  <2>7. Route(k, call[k].pc, pc)
    BY <1>1, <1>4, <2>1, <2>2, <2>3, <2>4, <2>5, <2>6, Zenon DEF Route
  <2>8. MoveMemory(k, n, call[k].pc, pc)
    BY <1>1, <1>4, <2>1, <2>2, <2>3, <2>4, <2>5, <2>6, Zenon DEF MoveMemory
  <2>9. MoveSnap(k, n, call[k].pc, pc)
    BY <1>1, <1>4, <2>1, <2>2, <2>3, <2>4, <2>5, <2>6, Zenon DEF MoveSnap
  <2>10. MoveRows(k, n, call[k].pc, pc)
    BY <1>1, <1>4, <2>1, <2>2, <2>3, <2>4, <2>5, <2>6, Zenon DEF MoveRows
  <2> QED BY <2>6, <2>7, <2>8, <2>9, <2>10, Zenon DEF Move
<1>20. CASE EndLine(k)
  <2>1. /\ call[k].pc = "newline"
        /\ Goto(k, "apply")
        /\ UNCHANGED <<workload, up, log, snap, rows, version, state, ready, sync, faults, gone, lost, revived>>
    BY <1>1, <1>20, Zenon DEF EndLine, disk, memory, history
  <2>2. CallShape' /\ CallMoves(k, call[k].version, "apply", call[k].acked, call[k].image)
    BY <1>4, <1>5, <2>1, CallMoved, Zenon
  <2>3. /\ MemoryShape' /\ DiskShape' /\ HistoryShape' /\ faults' \in 0 .. MaxFaults /\ OnlyNode(n)
        /\ UNCHANGED <<workload, up, sync>>
    BY <1>2, <1>4, <2>1, <2>2, Zenon DEF Shape, WorkloadShape, MemoryShape, DiskShape, OnlyNode, HistoryShape
  <2>4. /\ CallMove(k, n, call[k].pc, "apply")
        /\ call'[k].version = call[k].version /\ call'[k].acked = call[k].acked /\ call'[k].image = call[k].image
    BY <1>6, <2>2, <2>3, Zenon
  <2>5. Route(k, call[k].pc, "apply")
    BY <1>1, <1>4, <2>1, <2>2, <2>3, <2>4, Zenon DEF Route
  <2>6. MoveMemory(k, n, call[k].pc, "apply")
    BY <1>1, <1>4, <2>1, <2>2, <2>3, <2>4, Zenon DEF MoveMemory
  <2>7. MoveSnap(k, n, call[k].pc, "apply")
    BY <1>1, <1>4, <2>1, <2>2, <2>3, <2>4, Zenon DEF MoveSnap
  <2>8. MoveRows(k, n, call[k].pc, "apply")
    BY <1>1, <1>4, <2>1, <2>2, <2>3, <2>4, Zenon DEF MoveRows
  <2> QED BY <2>4, <2>5, <2>6, <2>7, <2>8, Zenon DEF Move
<1> QED BY <1>7, <1>8, <1>9, <1>10, <1>11, <1>12, <1>13, <1>14, <1>15, <1>16, <1>17, <1>18, <1>19, <1>20, Zenon
         DEF CallStep

-----------------------------------------------------------------------------
\* What is in the log of n, and the indexes that are in the log of the node that
\* created them.
LogSet(n) == {log[n][j] : j \in DOMAIN log[n]}
Listable == {k \in Calls : call[k].op = "create" /\ k \in LogSet(call[k].node)}
Lists(s) == s # NoState => s.indexes \subseteq Listable

CallInv(k) ==
  /\ call[k].op = "create" => call[k].index = k
  /\ call[k].op = "drop" => call[k].index \in Listable /\ call[k].old = NoIndex
  /\ call[k].old \in Listable \cup {NoIndex}
  /\ call[k].pc = "quota" => call[k].version = 0 /\ call[k].op = "create"
  /\ call[k].pc \notin {"quota", "append", "failed", "done"} => k \in LogSet(call[k].node)
  /\ call[k].pc \in {"rows", "ready", "swap", "resave", "reput"} => call[k].op = "create"
  /\ call[k].pc = "swap" => call[k].old # NoIndex
  /\ call[k].pc \in {"put", "reput"} => call[k].image # NoState
  /\ Lists(call[k].image)

SyncInv(n) ==
  /\ sync[n].pc # "idle" => sync[n].from # n
  /\ sync[n].pc # "apply" => sync[n].entries = <<>>
  /\ \A i \in 1 .. Len(sync[n].entries) : sync[n].entries[i] \in LogSet(sync[n].from)
  /\ sync[n].pc = "put" => sync[n].image # NoState
  /\ Lists(sync[n].image)

NodeInv(n) == LogSet(n) \subseteq Of(n) /\ Lists(state[n]) /\ Lists(snap[n]) /\ SyncInv(n)

\* The type invariant: what is listed is logged, and a call is what its place says.
TypeInv == Shape /\ NoIndex \notin gone /\ (\A k \in Calls : CallInv(k)) /\ \A n \in Node : NodeInv(n)

\* What every step keeps: calls stay what they are, and logs grow.
Grows == Static /\ \A n \in Node : LogSet(n) \subseteq LogSet(n)'

\* The facts of a type that the proofs use.
LEMMA Facts ==
  ASSUME Shape
  PROVE  /\ NoIndex \notin Calls /\ NoState \notin State /\ Calls \subseteq Index
         /\ \A k \in Calls : /\ call[k] \in CallRec /\ call[k].node \in Node /\ call[k].field \in Field
                             /\ call[k].version \in Nat /\ call[k].image \in Image
                             /\ call[k].op \in {"create", "drop"} /\ call[k].old \in Index \cup {NoIndex}
                             /\ call[k].pc \in Pcs /\ call[k].acked \in BOOLEAN /\ call[k].index \in Index
         /\ \A n \in Node : /\ version[n] \in Nat /\ state[n] \in State /\ snap[n] \in Image
                            /\ log[n] \in Seq(Index) /\ sync[n] \in SyncRec
                            /\ sync[n].from \in Node /\ sync[n].image \in Image /\ sync[n].pc \in SyncPcs
                            /\ sync[n].entries \in Seq(Index)
<1>1. NoIndex \notin Calls /\ NoState \notin State /\ Calls \subseteq Index
  BY SchemaAssumption, Zenon DEF Shape, CallShape, State
<1>2. ASSUME NEW r \in CallRec
      PROVE  /\ r.node \in Node /\ r.field \in Field /\ r.version \in Nat /\ r.image \in Image
             /\ r.op \in {"create", "drop"} /\ r.old \in Index \cup {NoIndex}
             /\ r.pc \in Pcs /\ r.acked \in BOOLEAN /\ r.index \in Index
  BY DEF CallRec
<1>3. ASSUME NEW s \in SyncRec
      PROVE  s.from \in Node /\ s.image \in Image /\ s.pc \in SyncPcs /\ s.entries \in Seq(Index)
  BY DEF SyncRec
<1>4. \A k \in Calls : call[k] \in CallRec
  BY DEF Shape, CallShape
<1>5. \A n \in Node : /\ version[n] \in Nat /\ state[n] \in State /\ snap[n] \in Image
                      /\ log[n] \in Seq(Index) /\ sync[n] \in SyncRec
  BY DEF Shape, MemoryShape, DiskShape, SyncShape
<1> QED BY <1>1, <1>2, <1>3, <1>4, <1>5, Zenon

\* What is listable stays so, and so do calls, synchronizations and logs that a step
\* leaves alone.
LEMMA Kept ==
  ASSUME TypeInv, Grows
  PROVE  /\ Listable \subseteq Listable' /\ \A s : Lists(s) => Lists(s)'
         /\ \A k \in Calls : call'[k] = call[k] => CallInv(k)'
         /\ \A n \in Node : /\ sync'[n] = sync[n] => SyncInv(n)'
                            /\ log'[n] = log[n] => LogSet(n)' \subseteq Of(n)'
<1>1. /\ Calls \subseteq Calls' /\ \A k \in Calls : call[k].node \in Node
      /\ \A j \in Calls : call'[j].op = call[j].op /\ call'[j].node = call[j].node
  BY Facts, Zenon DEF TypeInv, Grows, Static
<1>2. Listable \subseteq Listable'
  BY <1>1, Zenon DEF Grows, Listable
<1>3. ASSUME NEW s, Lists(s) PROVE Lists(s)'
  BY <1>2, <1>3, Zenon DEF Lists
<1>4. ASSUME NEW k \in Calls, call'[k] = call[k] PROVE CallInv(k)'
  <2>1. CallInv(k)
    BY Zenon DEF TypeInv
  <2>2. PICK r, n : r = call[k] /\ n = call[k].node
    BY Zenon
  <2>3. (k \in LogSet(n) => k \in LogSet(n)') /\ (Lists(r.image) => Lists(r.image)')
    BY <1>1, <1>3, <2>2, Zenon DEF Grows
  <2>4. call[k] = r /\ call'[k] = r /\ r.node = n
    BY <1>4, <2>2, Zenon
  <2> QED BY <1>2, <2>1, <2>3, <2>4, Zenon DEF CallInv
<1>5. ASSUME NEW n \in Node, sync'[n] = sync[n] PROVE SyncInv(n)'
  <2>1. SyncInv(n) /\ sync[n].from \in Node
    BY Facts, Zenon DEF TypeInv, NodeInv
  <2>2. PICK s, m : s = sync[n] /\ m = s.from
    BY Zenon
  <2>3. LogSet(m) \subseteq LogSet(m)' /\ (Lists(s.image) => Lists(s.image)')
    BY <1>3, <2>1, <2>2, Zenon DEF Grows
  <2>4. sync'[n] = s
    BY <1>5, <2>2, Zenon
  <2> QED BY <2>1, <2>2, <2>3, <2>4, Zenon DEF SyncInv
<1>6. ASSUME NEW n \in Node, log'[n] = log[n] PROVE LogSet(n)' \subseteq Of(n)'
  <2>1. LogSet(n)' = LogSet(n)
    BY <1>6, Zenon DEF LogSet
  <2>2. LogSet(n) \subseteq Of(n) /\ Of(n) \subseteq Of(n)'
    BY <1>1, Zenon DEF TypeInv, NodeInv, Of
  <2> QED BY <2>1, <2>2, Zenon
<1> QED BY <1>2, <1>3, <1>4, <1>5, <1>6, Zenon

\* The log after a move.
LEMMA MoveLog ==
  ASSUME Shape, NEW k \in Calls, NEW n, NEW p, NEW pc, Move(k, n, p, pc)
  PROVE  /\ \A m \in Node : m # n => LogSet(m)' = LogSet(m)
         /\ LogSet(n)' = IF pc = "newline" THEN LogSet(n) \cup {k} ELSE LogSet(n)
<1>1. n \in Node /\ \A m \in Node : m # n => log'[m] = log[m]
  BY Zenon DEF Move, CallMove, OnlyNode
<1>2. \A m \in Node : m # n => LogSet(m)' = LogSet(m)
  BY <1>1, Zenon DEF LogSet
<1>3. CASE pc = "newline"
  <2>1. log'[n] = Append(log[n], k)
    BY <1>3, Zenon DEF Move, MoveMemory
  <2>2. PICK l, t : l = log[n] /\ t = log'[n]
    BY Zenon
  <2>3. l \in Seq(Index) /\ t = Append(l, k) /\ k \in Index
    BY <1>1, <2>1, <2>2, Facts, Zenon
  <2>4. {t[j] : j \in DOMAIN t} = {l[j] : j \in DOMAIN l} \cup {k}
    <3>1. DOMAIN l = 1 .. Len(l) /\ Len(l) \in Nat /\ DOMAIN t = 1 .. Len(l) + 1
      BY <2>3
    <3>2. t[Len(l) + 1] = k /\ \A j \in 1 .. Len(l) : t[j] = l[j]
      BY <2>3, <3>1
    <3> QED BY <3>1, <3>2
  <2>5. LogSet(n) = {l[j] : j \in DOMAIN l} /\ LogSet(n)' = {t[j] : j \in DOMAIN t}
    BY <2>2 DEF LogSet
  <2>6. LogSet(n)' = LogSet(n) \cup {k}
    BY <2>4, <2>5, Zenon
  <2> QED BY <1>2, <1>3, <2>6, Zenon
<1>4. CASE ~(pc = "newline")
  <2>1. log'[n] = log[n]
    BY <1>4, Zenon DEF Move, MoveMemory
  <2>2. LogSet(n)' = LogSet(n)
    BY <2>1, Zenon DEF LogSet
  <2> QED BY <1>2, <1>4, <2>2, Zenon
<1> QED BY <1>3, <1>4, Zenon

\* A move keeps the type invariant.
LEMMA MoveTypes ==
  ASSUME TypeInv, NEW k \in Calls, NEW n, NEW p, NEW pc, Move(k, n, p, pc)
  PROVE  TypeInv' /\ Grows
<1>1. /\ Shape /\ Shape' /\ Static /\ OnlyNode(n) /\ n \in Node /\ n = call[k].node /\ p = call[k].pc
      /\ pc = call'[k].pc /\ Calls' = Calls /\ (\A j \in Calls : j # k => call'[j] = call[j])
      /\ UNCHANGED <<up, sync>>
  BY Zenon DEF TypeInv, Move, CallMove
<1>2. Grows
  BY <1>1, MoveLog, Zenon DEF Grows
<1>3. /\ Listable \subseteq Listable' /\ \A s : Lists(s) => Lists(s)'
  BY <1>2, Kept, Zenon
<1>4. /\ call'[k].op = call[k].op /\ call'[k].node = n /\ call'[k].field = call[k].field
      /\ call'[k].index = call[k].index /\ call'[k].old = call[k].old
  BY <1>1, Zenon DEF Static
<1>5. /\ CallInv(k) /\ NodeInv(n) /\ state[n] \in State /\ NoState \notin State
      /\ call[k].op \in {"create", "drop"}
  BY <1>1, Facts, Zenon DEF TypeInv
<1>6. CallInv(k)'
  <2>1. /\ call'[k].op = "create" => call'[k].index = k
        /\ call'[k].op = "drop" => call'[k].index \in Listable' /\ call'[k].old = NoIndex
        /\ call'[k].old \in Listable' \cup {NoIndex}
    BY <1>3, <1>4, <1>5, Zenon DEF CallInv
  <2>2. pc # "quota" /\ (pc = "swap" => call[k].old # NoIndex)
    BY Zenon DEF Move, Route
  <2>3. pc \notin {"quota", "append", "failed", "done"} => k \in LogSet(n)'
    <3>1. CASE pc = "newline"
      BY <1>1, <3>1, MoveLog, Zenon
    <3>2. CASE ~(pc = "newline")
      <4>1. pc \notin {"quota", "append", "failed", "done"} => p \notin {"quota", "append", "failed", "done"}
        BY <3>2, Zenon DEF Move, Route
      <4> QED BY <1>1, <1>2, <1>5, <4>1, Zenon DEF CallInv, Grows
    <3> QED BY <3>1, <3>2, Zenon
  <2>4. pc \in {"rows", "ready", "swap", "resave", "reput"} => call[k].op = "create"
    <3>1. \/ p \in {"rows", "ready", "resave"} \/ call[k].op = "create"
          \/ pc \notin {"rows", "ready", "swap", "resave", "reput"}
      BY Zenon DEF Move, Route
    <3> QED BY <1>1, <1>5, <3>1, Zenon DEF CallInv
  <2>5. pc \in {"put", "reput"} => call'[k].image # NoState
    <3>1. pc \in {"put", "reput"} => p \in {"save", "resave"}
      BY Zenon DEF Move, Route
    <3>2. p \in {"save", "resave"} => call'[k].image = state[n]
      BY Zenon DEF Move, MoveSnap
    <3> QED BY <1>5, <3>1, <3>2, Zenon
  <2>6. Lists(call[k].image)'
    <3>1. PICK i, j : i = call'[k].image /\ j = call[k].image
      BY Zenon
    <3>2. i = state[n] \/ i = j \/ i = NoState
      BY <3>1, Zenon DEF Move, MoveSnap
    <3>3. Lists(i)
      BY <1>5, <3>1, <3>2, Zenon DEF CallInv, NodeInv, Lists
    <3> QED BY <1>3, <3>1, <3>3, Zenon
  <2> QED BY <1>1, <1>4, <2>1, <2>2, <2>3, <2>4, <2>5, <2>6, Zenon DEF CallInv
<1>7. ASSUME NEW m \in Node PROVE NodeInv(m)'
  <2>1. NodeInv(m) /\ SyncInv(m)'
    BY <1>1, <1>2, Kept, Zenon DEF TypeInv
  <2>2. LogSet(m)' \subseteq Of(m)'
    <3>1. LogSet(m)' \subseteq LogSet(m) \cup (IF m = n THEN {k} ELSE {})
      BY <1>1, MoveLog, Zenon
    <3>2. Of(m) \subseteq Of(m)' /\ k \in Of(n)'
      BY <1>1, Zenon DEF Of, Static
    <3> QED BY <2>1, <3>1, <3>2, Zenon DEF NodeInv
  <2>3. CASE m # n
    <3>1. state'[m] = state[m] /\ snap'[m] = snap[m]
      BY <1>1, <2>3, Zenon DEF OnlyNode
    <3> QED BY <1>3, <2>1, <2>2, <3>1, Zenon DEF NodeInv
  <2>4. CASE m = n
    <3>1. Lists(snap[n])'
      <4>1. PICK s, t, i : s = snap'[n] /\ t = snap[n] /\ i = call[k].image
        BY Zenon
      <4>2. s = t \/ s = i
        BY <4>1, Zenon DEF Move, MoveSnap
      <4>3. Lists(s)
        BY <1>5, <4>1, <4>2, Zenon DEF CallInv, NodeInv
      <4> QED BY <1>3, <4>1, <4>3, Zenon
    <3>2. Lists(state[n])'
      <4>1. state[n].indexes \subseteq Listable'
        BY <1>3, <1>5, Zenon DEF NodeInv, Lists
      <4>2. CASE p = "apply"
        <5>1. k \in LogSet(n) /\ call[k].op = "create" => k \in Listable
          BY <1>1, Zenon DEF Listable
        <5>2. k \in LogSet(n)
          BY <1>1, <1>5, <4>2, Zenon DEF CallInv
        <5>3. PICK st, e : st = state[n] /\ e = call[k]
          BY Zenon
        <5>4. state'[n] = ApplyEntry(st, e)
          BY <4>2, <5>3, Zenon DEF Move, MoveMemory
        <5>5. ApplyEntry(st, e).indexes = IF e.op = "create" THEN st.indexes \cup {e.index} ELSE st.indexes \ {e.index}
          BY DEF ApplyEntry
        <5>6. e.op = "create" => e.index \in Listable'
          BY <1>3, <1>5, <5>1, <5>2, <5>3, Zenon DEF CallInv
        <5> QED BY <4>1, <5>3, <5>4, <5>5, <5>6, Zenon DEF Lists
      <4>3. CASE p = "swap"
        <5>1. state'[n] = Swapped(k, n)
          BY <4>3, Zenon DEF Move, MoveMemory
        <5>2. Swapped(k, n).indexes = state[n].indexes \ {call[k].old}
          BY DEF Swapped
        <5> QED BY <4>1, <5>1, <5>2, Zenon DEF Lists
      <4>4. CASE p \notin {"apply", "swap"}
        <5>1. state'[n] = state[n]
          BY <4>4, Zenon DEF Move, MoveMemory
        <5> QED BY <1>3, <1>5, <5>1, Zenon DEF NodeInv
      <4> QED BY <4>2, <4>3, <4>4, Zenon
    <3> QED BY <2>1, <2>2, <2>4, <3>1, <3>2, Zenon DEF NodeInv
  <2> QED BY <2>3, <2>4, Zenon
<1>8. NoIndex \notin gone'
  <2>1. p = "swap" => call[k].old # NoIndex
    BY <1>1, <1>5, Zenon DEF CallInv
  <2>2. gone' = IF p = "swap" THEN gone \cup {call[k].old} ELSE gone
    BY Zenon DEF Move, MoveMemory
  <2>3. NoIndex \notin gone
    BY Zenon DEF TypeInv
  <2> QED BY <2>1, <2>2, <2>3, Zenon
<1> QED BY <1>1, <1>2, <1>6, <1>7, <1>8, Kept, Zenon DEF TypeInv

-----------------------------------------------------------------------------
\* A call q is made.
LEMMA AddCall ==
  ASSUME Shape, workload' = workload, Len(call) < workload.calls, NEW q \in CallRec,
         call' = Append(call, q), NEW i, i = Len(call) + 1
  PROVE  /\ CallShape' /\ i \notin Calls /\ Calls' = Calls \cup {i} /\ i \in Index
         /\ (\A j \in Calls : call'[j] = call[j]) /\ call'[i] = q
<1>1. PICK n \in Nat : /\ n = Len(call) /\ Calls = 1 .. n /\ call \in [1 .. n -> CallRec]
                       /\ call \in Seq(CallRec)
  <2>1. /\ Len(call) \in Nat /\ Calls = 1 .. Len(call) /\ call \in [Calls -> CallRec]
        /\ call \in Seq(CallRec)
    BY Zenon DEF Shape, CallShape
  <2> QED BY <2>1, Zenon
<1>2. workload.calls \in 1 .. MaxCalls /\ MaxCalls \in Nat
  BY SchemaAssumption DEF Shape, WorkloadShape, Workload, Call
<1>3. PICK c : c = call'
  BY Zenon
<1>4. /\ c \in Seq(CallRec) /\ Len(c) = n + 1 /\ DOMAIN c = 1 .. n + 1 /\ c[n + 1] = q
      /\ \A j \in 1 .. n : c[j] = call[j]
  <2>1. c = Append(call, q)
    BY <1>3, Zenon
  <2>2. PICK d : d = call
    BY Zenon
  <2>3. c = Append(d, q) /\ d \in Seq(CallRec) /\ Len(d) = n
    BY <1>1, <2>1, <2>2, Zenon
  <2>4. c \in Seq(CallRec) /\ Len(c) = n + 1 /\ c[n + 1] = q /\ \A j \in 1 .. n : c[j] = d[j]
    BY <1>1, <2>3
  <2> QED BY <2>2, <2>4
<1>5. c \in [1 .. n + 1 -> CallRec]
  BY <1>4
<1>6. n + 1 \in Nat /\ n + 1 <= workload.calls /\ 1 .. n + 1 \subseteq 1 .. MaxCalls
  BY <1>1, <1>2
<1>7. CallShape'
  BY <1>3, <1>4, <1>5, <1>6, Zenon DEF CallShape, Calls, Index, Call
<1>8. 1 .. n + 1 = 1 .. n \cup {n + 1} /\ n + 1 \notin 1 .. n /\ n + 1 \in 1 .. MaxCalls
  BY <1>2, <1>6
<1> QED BY <1>1, <1>3, <1>4, <1>7, <1>8, Zenon DEF Calls, Index, Call

\* The start of a call on node n: create_index reads the index that it will replace,
\* drop_index takes a version.
Creates(n, i) ==
  /\ call'[i].op = "create" /\ call'[i].index = i /\ call'[i].pc = "quota" /\ call'[i].version = 0
  /\ call'[i].old = NoIndex \/ call'[i].old \in state[n].indexes
  /\ call'[i].old # NoIndex => Active(n, call'[i].field) # NoIndex
  /\ UNCHANGED <<version, gone>>

Drops(n, i) ==
  /\ call'[i].op = "drop" /\ call'[i].index \in state[n].indexes /\ call'[i].pc = "append"
  /\ call'[i].version = version[n] + 1 /\ version'[n] = version[n] + 1
  /\ call'[i].old = NoIndex /\ gone' = gone \cup {call'[i].index}

Born(n, i) ==
  /\ Shape' /\ Static /\ OnlyNode(n) /\ n \in Node /\ MayCall(n)
  /\ i \notin Calls /\ Calls' = Calls \cup {i} /\ \A j \in Calls : call'[j] = call[j]
  /\ call'[i].node = n /\ call'[i].acked = FALSE /\ call'[i].image = NoState
  /\ UNCHANGED <<up, log, snap, rows, state, ready, sync, lost, revived>>
  /\ Creates(n, i) \/ Drops(n, i)

\* create_index and drop_index start a call.
LEMMA Births ==
  ASSUME TypeInv, NEW n \in Node,
         (\E f \in Field : CreateIndex(n, f)) \/ \E x \in Index : DropIndex(n, x)
  PROVE  \E i : Born(n, i)
<1>1. PICK i : i = Len(call) + 1
  BY Zenon
<1>2. /\ Shape /\ state[n] \in State /\ version[n] \in Nat /\ Lists(state[n]) /\ NoState \notin State
      /\ version \in [Node -> Nat] /\ Len(call) \in Nat
  BY Facts, Zenon DEF TypeInv, NodeInv, Shape, MemoryShape, CallShape
<1>3. state[n].indexes \subseteq Calls
  BY <1>2, Zenon DEF Lists, Listable
<1>4. ASSUME NEW q \in CallRec, call' = Append(call, q), MayCall(n), q.node = n, q.acked = FALSE,
             q.image = NoState, UNCHANGED <<workload, up, log, snap, rows, state, ready, sync, faults, lost, revived>>,
             version' \in [Node -> Nat], \A m \in Node : m # n => version'[m] = version[m],
             gone' \subseteq Index \cup {NoIndex}, Creates(n, i) \/ Drops(n, i)
      PROVE  Born(n, i)
  <2>1. Len(call) < workload.calls
    BY <1>4, Zenon DEF MayCall
  <2>2. /\ CallShape' /\ i \notin Calls /\ Calls' = Calls \cup {i} /\ i \in Index
        /\ (\A j \in Calls : call'[j] = call[j]) /\ call'[i] = q
    BY <1>1, <1>2, <1>4, <2>1, AddCall, Zenon
  <2>3. Static
    BY <1>4, <2>2, Zenon DEF Static
  <2>4. Shape'
    BY <1>2, <1>4, <2>2, Zenon DEF Shape, MemoryShape, DiskShape, WorkloadShape, HistoryShape, SyncShape
  <2>5. OnlyNode(n)
    BY <1>4, Zenon DEF OnlyNode
  <2> QED BY <1>4, <2>2, <2>3, <2>4, <2>5, Zenon DEF Born
<1>5. MayCall(n) => Len(call) < workload.calls
  BY Zenon DEF MayCall
<1>6. ASSUME MayCall(n) PROVE i \in Index
  <2>1. workload.calls \in 1 .. MaxCalls /\ MaxCalls \in Nat
    BY <1>2, SchemaAssumption DEF Shape, WorkloadShape, Workload, Call
  <2>2. i \in 1 .. MaxCalls
    BY <1>1, <1>2, <1>5, <1>6, <2>1
  <2> QED BY <2>2, Zenon DEF Index, Call
<1>7. {"quota", "append"} \subseteq Pcs /\ NoState \in Image /\ gone \subseteq Index \cup {NoIndex}
  BY <1>2, Zenon DEF Pcs, Waiting, Image, Shape, HistoryShape
<1>8. ASSUME NEW f \in Field, CreateIndex(n, f) PROVE Born(n, i)
  <2>1. PICK old : old = IF Active(n, f) \in state[n].indexes THEN Active(n, f) ELSE NoIndex
    BY Zenon
  <2>2. PICK q : q = [op |-> "create", node |-> n, field |-> f, index |-> i, old |-> old,
                      version |-> 0, pc |-> "quota", acked |-> FALSE, image |-> NoState]
    BY Zenon
  <2>3. /\ MayCall(n) /\ call' = Append(call, q)
        /\ UNCHANGED <<workload, up, log, snap, rows, version, state, ready, sync, faults, gone, lost, revived>>
    BY <1>1, <1>8, <2>1, <2>2, Zenon DEF CreateIndex, NewCall, disk, memory, history
  <2>4. /\ (old = NoIndex \/ old \in state[n].indexes) /\ old \in Index \cup {NoIndex} /\ i \in Index
        /\ (old # NoIndex => Active(n, f) # NoIndex)
    BY <1>2, <1>3, <1>6, <2>1, <2>3, Facts, Zenon
  <2>5. "create" \in {"create", "drop"} /\ "quota" \in Pcs /\ 0 \in Nat
    BY <1>7
  <2>6. /\ q \in CallRec /\ q.op = "create" /\ q.node = n /\ q.field = f /\ q.index = i /\ q.old = old
        /\ q.version = 0 /\ q.pc = "quota" /\ q.acked = FALSE /\ q.image = NoState
    BY <1>2, <1>7, <2>2, <2>4, <2>5 DEF CallRec
  <2>7. call'[i] = q
    BY <1>1, <1>2, <1>5, <2>3, <2>6, AddCall, Zenon
  <2>8. Creates(n, i)
    BY <2>3, <2>4, <2>6, <2>7, Zenon DEF Creates
  <2> QED BY <1>2, <1>4, <1>7, <2>3, <2>6, <2>8, Zenon
<1>9. ASSUME NEW x \in Index, DropIndex(n, x) PROVE Born(n, i)
  <2>1. PICK v, f : v = version[n] + 1 /\ f = call[x].field
    BY Zenon
  <2>2. PICK q : q = [op |-> "drop", node |-> n, field |-> f, index |-> x, old |-> NoIndex,
                      version |-> v, pc |-> "append", acked |-> FALSE, image |-> NoState]
    BY Zenon
  <2>3. /\ MayCall(n) /\ x \in state[n].indexes /\ call' = Append(call, q)
        /\ version' = [version EXCEPT ![n] = v] /\ gone' = gone \cup {x}
        /\ UNCHANGED <<workload, up, log, snap, rows, state, ready, sync, faults, lost, revived>>
    BY <1>9, <2>1, <2>2, Zenon DEF DropIndex, NextVersion, disk, memory, history
  <2>4. f \in Field
    BY <1>2, <1>3, <2>1, <2>3, Facts, Zenon
  <2>5. "drop" \in {"create", "drop"} /\ "append" \in Pcs /\ v \in Nat /\ NoIndex \in Index \cup {NoIndex}
    BY <1>2, <1>7, <2>1
  <2>6. /\ q \in CallRec /\ q.op = "drop" /\ q.node = n /\ q.field = f /\ q.index = x /\ q.old = NoIndex
        /\ q.version = v /\ q.pc = "append" /\ q.acked = FALSE /\ q.image = NoState
    BY <1>2, <1>7, <2>2, <2>4, <2>5 DEF CallRec
  <2>7. call'[i] = q
    BY <1>1, <1>2, <1>5, <2>3, <2>6, AddCall, Zenon
  <2>8. /\ version' \in [Node -> Nat] /\ version'[n] = v
        /\ \A m \in Node : m # n => version'[m] = version[m]
    BY <1>2, <2>3, <2>5, Zenon
  <2>9. gone' \subseteq Index \cup {NoIndex}
    BY <1>7, <2>3, Zenon
  <2>10. Drops(n, i)
    BY <2>1, <2>3, <2>6, <2>7, <2>8, Zenon DEF Drops
  <2> QED BY <1>2, <1>4, <2>3, <2>6, <2>8, <2>9, <2>10, Zenon
<1> QED BY <1>8, <1>9, Zenon

\* The start of a call keeps the type invariant.
LEMMA BornTypes ==
  ASSUME TypeInv, NEW n, NEW i, Born(n, i)
  PROVE  TypeInv' /\ Grows
<1>1. /\ Shape /\ Shape' /\ Static /\ n \in Node /\ i \notin Calls /\ Calls' = Calls \cup {i}
      /\ (\A j \in Calls : call'[j] = call[j]) /\ call'[i].node = n /\ call'[i].image = NoState
      /\ UNCHANGED <<log, snap, state, sync>>
  BY Zenon DEF TypeInv, Born
<1>2. \A m : LogSet(m)' = LogSet(m)
  BY <1>1 DEF LogSet
<1>3. Grows
  BY <1>1, <1>2, Zenon DEF Grows
<1>4. Listable \subseteq Listable' /\ \A s : Lists(s) => Lists(s)'
  BY <1>3, Kept, Zenon
<1>5. state[n].indexes \subseteq Listable /\ NoIndex \notin Calls /\ NoIndex \notin gone
  BY <1>1, Facts, Zenon DEF TypeInv, NodeInv, Lists
<1>6. Lists(call[i].image)'
  BY <1>1, Zenon DEF Lists
<1>7. CallInv(i)'
  <2>1. CASE Creates(n, i)
    <3>1. call'[i].old \in Listable' \cup {NoIndex}
      BY <1>4, <1>5, <2>1, Zenon DEF Creates
    <3> QED BY <1>6, <2>1, <3>1, Zenon DEF Creates, CallInv
  <2>2. CASE Drops(n, i)
    <3>1. call'[i].index \in Listable'
      BY <1>4, <1>5, <2>2, Zenon DEF Drops
    <3> QED BY <1>6, <2>2, <3>1, Zenon DEF Drops, CallInv
  <2> QED BY <2>1, <2>2, Zenon DEF Born
<1>8. ASSUME NEW m \in Node PROVE NodeInv(m)'
  <2>1. NodeInv(m) /\ SyncInv(m)' /\ LogSet(m)' \subseteq Of(m)'
    BY <1>1, <1>3, Kept, Zenon DEF TypeInv
  <2> QED BY <1>1, <1>4, <2>1, Zenon DEF NodeInv
<1>9. NoIndex \notin gone'
  <2>1. gone' = gone \/ (gone' = gone \cup {call'[i].index} /\ call'[i].index \in state[n].indexes)
    BY Zenon DEF Born, Creates, Drops
  <2>2. NoIndex \notin state[n].indexes
    BY <1>5, Zenon DEF Listable
  <2> QED BY <1>5, <2>1, <2>2, Zenon
<1> QED BY <1>1, <1>3, <1>7, <1>8, <1>9, Kept, Zenon DEF TypeInv

-----------------------------------------------------------------------------
\* A synchronization that ends, or starts an attempt to fetch from m.
Retry(q, m) ==
  /\ q \in SyncRec /\ q.entries = <<>> /\ q.image = NoState
  /\ q.pc = "idle" \/ (q.pc = "fetch" /\ q.from = m)

\* One at place pc with these entries and this image.
SyncIs(q, pc, m, e, i) ==
  q \in SyncRec /\ q.pc = pc /\ q.from = m /\ q.entries = e /\ q.image = i

\* The synchronizations that the steps set.
LEMMA SyncUpdates ==
  ASSUME NEW s \in SyncRec
  PROVE  /\ Retry(Idle, s.from) /\ Idle.pc = "idle" /\ Retry(NextTry(s), s.from)
         /\ \A m \in Node : \A v \in Nat : Retry(Try(m, v, 1), m) /\ Try(m, v, 1).pc = "fetch"
         /\ \A pc \in SyncPcs :
              /\ \A e \in Seq(Index) : SyncIs([s EXCEPT !.pc = pc, !.entries = e], pc, s.from, e, s.image)
              /\ \A i \in Image : SyncIs([s EXCEPT !.pc = pc, !.image = i], pc, s.from, s.entries, i)
<1>1. NoState \in Image /\ "idle" \in SyncPcs /\ "fetch" \in SyncPcs /\ <<>> \in Seq(Index)
  BY DEF Image, SyncPcs
<1>2. s.from \in Node /\ s.target \in Nat /\ s.tries \in Nat
  BY DEF SyncRec
<1>3. ASSUME NEW x \in Node, NEW y \in Nat, NEW z \in Nat
      PROVE  Retry(Try(x, y, z), x) /\ Try(x, y, z).pc = "fetch"
  BY <1>1 DEF Retry, Try, SyncRec
<1>4. Retry(Idle, s.from) /\ Idle.pc = "idle"
  <2>1. PICK x : x = CHOOSE n \in Node : TRUE
    BY Zenon
  <2>2. x \in Node
    BY <1>2, <2>1, Zenon
  <2>3. Idle = [pc |-> "idle", from |-> x, target |-> 0, tries |-> 0, entries |-> <<>>, image |-> NoState]
    BY <2>1, Zenon DEF Idle
  <2> QED BY <1>1, <2>2, <2>3 DEF Retry, SyncRec
<1>5. Retry(NextTry(s), s.from)
  <2>1. PICK z \in Nat : z = s.tries + 1
    BY <1>2
  <2>2. NextTry(s) = Idle \/ NextTry(s) = Try(s.from, s.target, z)
    BY <2>1, Zenon DEF NextTry
  <2>3. Retry(Try(s.from, s.target, z), s.from)
    BY <1>2, <1>3, Zenon
  <2> QED BY <1>4, <2>2, <2>3, Zenon
<1>6. ASSUME NEW pc \in SyncPcs, NEW e \in Seq(Index), NEW i \in Image
      PROVE  /\ SyncIs([s EXCEPT !.pc = pc, !.entries = e], pc, s.from, e, s.image)
             /\ SyncIs([s EXCEPT !.pc = pc, !.image = i], pc, s.from, s.entries, i)
  <2>1. PICK q : q = [s EXCEPT !.pc = pc]
    BY Zenon
  <2>2. SyncIs(q, pc, s.from, s.entries, s.image)
    BY <2>1 DEF SyncIs, SyncRec
  <2>3. PICK a, b : a = [q EXCEPT !.entries = e] /\ b = [q EXCEPT !.image = i]
    BY Zenon
  <2>4. SyncIs(a, pc, s.from, e, s.image) /\ SyncIs(b, pc, s.from, s.entries, i)
    <3>1. PICK Q : Q = Seq(Index)
      BY Zenon
    <3>2. SyncRec = [pc : SyncPcs, from : Node, target : Nat, tries : Nat, entries : Q, image : Image] /\ e \in Q
      BY <3>1, Zenon DEF SyncRec
    <3>3. SyncIs(a, pc, s.from, e, s.image)
      BY <2>2, <2>3, <3>2 DEF SyncIs
    <3>4. SyncIs(b, pc, s.from, s.entries, i)
      BY <2>2, <2>3, <3>2 DEF SyncIs
    <3> QED BY <3>3, <3>4
  <2>5. a = [s EXCEPT !.pc = pc, !.entries = e] /\ b = [s EXCEPT !.pc = pc, !.image = i]
    BY <2>1, <2>3, Zenon
  <2> QED BY <2>4, <2>5, Zenon
<1>7. 1 \in Nat
  OBVIOUS
<1> QED BY <1>1, <1>3, <1>4, <1>5, <1>6, <1>7, Zenon

\* The induction that the proofs need, for apply_entries and log_entries_since: what
\* holds of a state, and what no entry destroys, holds at the end; and what is
\* fetched was in the log.
LoopFacts ==
  /\ \A S : \A st \in S : \A e \in Seq(Index) :
       (\A s \in S : \A i \in 1 .. Len(e) : ApplyNewer(s, call[e[i]]) \in S)
         => ApplyEntries(st, e) \in S
  /\ \A n \in Node : \A v \in Nat : EntriesSince(log[n], v) \in Seq(LogSet(n))

\* The steps of the synchronization of node n, from place p to place pc.  What stays:
SyncKeeps(n, p, pc) ==
  /\ Shape' /\ Static /\ OnlyNode(n) /\ n \in Node /\ n \in up /\ p = sync[n].pc /\ pc = sync'[n].pc
  /\ UNCHANGED <<call, up, log, rows, ready, gone, revived>>

\* Which places follow which.
SyncRoute(n, p, pc) ==
  /\ \/ p = "idle" /\ pc = "fetch" /\ version[sync'[n].from] > version[n]
     \/ p = "fetch" /\ pc \in {"idle", "fetch", "apply"}
     \/ p = "apply" /\ pc = "save"
     \/ p = "save" /\ pc = "put"
     \/ p = "put" /\ pc \in {"idle", "fetch"}
  /\ p # "idle" /\ pc # "idle" => sync'[n].from = sync[n].from

\* What changes: the entries and the image, the state, and the snapshot.
SyncSets(n, p, pc) ==
  /\ IF pc = "apply" THEN sync'[n].entries \in Seq(LogSet(sync[n].from)) ELSE sync'[n].entries = <<>>
  /\ IF pc = "put" THEN sync'[n].image = state[n] ELSE sync'[n].image \in {sync[n].image, NoState}
  /\ IF p = "apply"
     THEN state'[n] = ApplyEntries(state[n], sync[n].entries) /\ version'[n] = state'[n].version
     ELSE UNCHANGED <<state, version>>
  /\ \/ p = "put" /\ WriteSnapshot(n, sync[n].image) /\ snap'[n] = sync[n].image
     \/ UNCHANGED <<snap, lost>>

SyncMove(n, p, pc) == SyncKeeps(n, p, pc) /\ SyncRoute(n, p, pc) /\ SyncSets(n, p, pc)

\* What apply_entries makes of a state is a state, and lists what is logged.
LEMMA ApplyEntriesType ==
  ASSUME TypeInv, LoopFacts, NEW e \in Seq(Index), NEW st \in State, Lists(st),
         \A i \in 1 .. Len(e) : \E m \in Node : e[i] \in LogSet(m)
  PROVE  ApplyEntries(st, e) \in State /\ Lists(ApplyEntries(st, e))
<1>1. PICK S : S = {s \in State : s.indexes \subseteq Listable}
  BY Zenon
<1>2. NoState \notin State /\ \A k \in Calls : call[k] \in CallRec
  BY Facts, Zenon DEF TypeInv
<1>3. st \in S
  BY <1>1, <1>2, Zenon DEF Lists
<1>4. ASSUME NEW s \in S, NEW i \in 1 .. Len(e) PROVE ApplyNewer(s, call[e[i]]) \in S
  <2>1. PICK m \in Node : e[i] \in LogSet(m)
    BY Zenon
  <2>2. PICK k, r : k = e[i] /\ r = call[k]
    BY Zenon
  <2>3. k \in Calls /\ r.node = m /\ CallInv(k) /\ k \in LogSet(m)
    BY <2>1, <2>2, Zenon DEF TypeInv, NodeInv, Of
  <2>4. r.op = "create" => r.index \in Listable
    BY <2>2, <2>3, Zenon DEF CallInv, Listable
  <2>5. s \in State /\ s.indexes \subseteq Listable
    BY <1>1, Zenon
  <2>6. ApplyNewer(s, r) \in State
    BY <1>2, <2>2, <2>3, <2>5, ApplyEntryState, Zenon
  <2>7. ApplyEntry(s, r).indexes = IF r.op = "create" THEN s.indexes \cup {r.index} ELSE s.indexes \ {r.index}
    BY DEF ApplyEntry
  <2>8. ApplyNewer(s, r).indexes \subseteq Listable
    BY <2>4, <2>5, <2>7, Zenon DEF ApplyNewer
  <2> QED BY <1>1, <2>2, <2>6, <2>8, Zenon
<1>5. ApplyEntries(st, e) \in S
  BY <1>3, <1>4, Zenon DEF LoopFacts
<1> QED BY <1>1, <1>5, Zenon DEF Lists

\* Every step of a synchronization is such a move.
LEMMA SyncMoves ==
  ASSUME TypeInv, LoopFacts, NEW n \in Node,
         (\E m \in Node : HearVersion(n, m)) \/ SyncStep(n) \/ SyncFails(n)
  PROVE  \E p, pc : SyncMove(n, p, pc)
<1>1. PICK s : s = sync[n]
  BY Zenon
<1>2. /\ Shape /\ s \in SyncRec /\ s.from \in Node /\ s.image \in Image /\ s.entries \in Seq(Index)
      /\ state[n] \in State /\ version[n] \in Nat /\ SyncInv(n)
  BY <1>1, Facts, Zenon DEF TypeInv, NodeInv
<1>3. sync \in [Node -> SyncRec] /\ state \in [Node -> State] /\ version \in [Node -> Nat] /\ snap \in [Node -> Image]
  BY <1>2, Zenon DEF Shape, SyncShape, MemoryShape, DiskShape
<1>4. ASSUME NEW q \in SyncRec, SetSync(n, q),
             UNCHANGED <<workload, call, up, log, rows, ready, gone, revived>>, n \in up,
             faults' \in 0 .. MaxFaults, lost' \subseteq Index, version' \in [Node -> Nat], state' \in [Node -> State],
             snap' \in [Node -> Image],
             \A m \in Node : m # n => /\ version'[m] = version[m] /\ state'[m] = state[m]
                                      /\ snap'[m] = snap[m]
      PROVE  SyncKeeps(n, s.pc, q.pc) /\ sync'[n] = q
  <2>1. sync' \in [Node -> SyncRec] /\ sync'[n] = q /\ \A m \in Node : m # n => sync'[m] = sync[m]
    BY <1>3, <1>4, Zenon DEF SetSync
  <2>2. CallShape' /\ Static
    BY <1>2, <1>4, Zenon DEF Shape, CallShape, Static, Calls
  <2>3. Shape'
    BY <1>2, <1>4, <2>1, <2>2, Zenon DEF Shape, MemoryShape, DiskShape, WorkloadShape, HistoryShape, SyncShape
  <2>4. OnlyNode(n)
    BY <1>4, <2>1, Zenon DEF OnlyNode
  <2> QED BY <1>1, <1>4, <2>1, <2>2, <2>3, <2>4, Zenon DEF SyncKeeps
<1>5. ASSUME NEW q \in SyncRec, SetSync(n, q),
             UNCHANGED <<workload, call, up, log, snap, rows, version, state, ready, faults, gone, lost, revived>>, n \in up
      PROVE  SyncKeeps(n, s.pc, q.pc) /\ sync'[n] = q
  <2>1. faults \in 0 .. MaxFaults /\ lost \subseteq Index
    BY <1>2, Zenon DEF Shape, WorkloadShape, HistoryShape
  <2> QED BY <1>3, <1>4, <1>5, <2>1, Zenon
<1>6. <<>> \in Seq(Index) /\ {"idle", "apply", "save", "put"} \subseteq SyncPcs /\ 1 \in Nat
  BY DEF SyncPcs
<1>7. ASSUME NEW m \in Node, HearVersion(n, m) PROVE \E p, pc : SyncMove(n, p, pc)
  <2>1. PICK v, q : v \in Nat /\ v = version[m] /\ q = Try(m, v, 1)
    BY <1>2, Facts, Zenon
  <2>2. /\ SetSync(n, q) /\ n \in up /\ s.pc = "idle" /\ version[m] > version[n]
        /\ UNCHANGED <<workload, call, up, log, snap, rows, version, state, ready, faults, gone, lost, revived>>
    BY <1>1, <1>7, <2>1, Zenon DEF HearVersion, disk, memory, history
  <2>3. Retry(q, m) /\ q.pc = "fetch"
    BY <1>2, <1>6, <2>1, SyncUpdates, Zenon
  <2>4. SyncKeeps(n, s.pc, q.pc) /\ sync'[n] = q
    BY <1>5, <2>2, <2>3, Zenon DEF Retry
  <2>5. SyncRoute(n, s.pc, q.pc)
    BY <1>1, <2>2, <2>3, <2>4, Zenon DEF SyncRoute, Retry
  <2>6. SyncSets(n, s.pc, q.pc)
    BY <1>1, <2>2, <2>3, <2>4, Zenon DEF SyncSets, Retry
  <2> QED BY <2>4, <2>5, <2>6, Zenon DEF SyncMove
<1>8. ASSUME Fetch(n) PROVE \E p, pc : SyncMove(n, p, pc)
  <2>1. PICK e : e = EntriesSince(log[s.from], version[n])
    BY Zenon
  <2>2. e \in Seq(LogSet(s.from)) /\ e \in Seq(Index)
    <3>1. PICK L : L = LogSet(s.from)
      BY Zenon
    <3>2. e \in Seq(L)
      BY <1>2, <2>1, <3>1, Zenon DEF LoopFacts
    <3>3. L \subseteq Index
      BY <1>2, <3>1, Facts, Zenon DEF TypeInv, NodeInv, Of
    <3>4. e \in Seq(Index)
      BY <3>2, <3>3
    <3> QED BY <3>1, <3>2, <3>4, Zenon
  <2>3. PICK q : SetSync(n, q) /\ (q = Idle \/ q = NextTry(s) \/ q = [s EXCEPT !.pc = "apply", !.entries = e])
    BY <1>1, <1>8, <2>1, Zenon DEF Fetch
  <2>4. /\ n \in up /\ s.pc = "fetch"
        /\ UNCHANGED <<workload, call, up, log, snap, rows, version, state, ready, faults, gone, lost, revived>>
    BY <1>1, <1>8, Zenon DEF Fetch, disk, memory, history
  <2>5. Retry(q, s.from) \/ SyncIs(q, "apply", s.from, e, s.image)
    <3>1. Retry(Idle, s.from) /\ Retry(NextTry(s), s.from)
      BY <1>2, SyncUpdates, Zenon
    <3>2. SyncIs([s EXCEPT !.pc = "apply", !.entries = e], "apply", s.from, e, s.image)
      BY <1>2, <1>6, <2>2, SyncUpdates, Zenon
    <3> QED BY <2>3, <3>1, <3>2, Zenon
  <2>6. SyncKeeps(n, s.pc, q.pc) /\ sync'[n] = q
    BY <1>5, <2>3, <2>4, <2>5, Zenon DEF Retry, SyncIs
  <2>7. SyncRoute(n, s.pc, q.pc)
    BY <1>1, <2>4, <2>5, <2>6, Zenon DEF SyncRoute, Retry, SyncIs
  <2>8. SyncSets(n, s.pc, q.pc)
    BY <1>1, <2>2, <2>4, <2>5, <2>6, Zenon DEF SyncSets, Retry, SyncIs
  <2> QED BY <2>6, <2>7, <2>8, Zenon DEF SyncMove
<1>9. ASSUME SyncApply(n) PROVE \E p, pc : SyncMove(n, p, pc)
  <2>1. PICK q, t, v : q = [s EXCEPT !.pc = "save", !.entries = <<>>] /\ t = ApplyEntries(state[n], s.entries) /\ v = t.version
    BY Zenon
  <2>2. /\ SetSync(n, q) /\ n \in up /\ s.pc = "apply" /\ state' = [state EXCEPT ![n] = t]
        /\ version' = [version EXCEPT ![n] = state'[n].version]
        /\ UNCHANGED <<workload, call, up, log, snap, rows, ready, faults, gone, lost, revived>>
    BY <1>1, <1>9, <2>1, Zenon DEF SyncApply, disk, history
  <2>3. t \in State
    <3>1. Lists(state[n]) /\ \A i \in 1 .. Len(s.entries) : s.entries[i] \in LogSet(s.from)
      BY <1>1, <1>2, Zenon DEF TypeInv, NodeInv, SyncInv
    <3>2. PICK st, e : st = state[n] /\ e = s.entries
      BY Zenon
    <3>3. ApplyEntries(st, e) \in State
      BY <1>2, <3>1, <3>2, ApplyEntriesType, Zenon
    <3> QED BY <2>1, <3>2, <3>3, Zenon
  <2>4. v \in Nat
    BY <2>1, <2>3 DEF State, SchemaState
  <2>5. state' \in [Node -> State] /\ state'[n] = t /\ \A m \in Node : m # n => state'[m] = state[m]
    BY <1>3, <2>2, <2>3, Zenon
  <2>6. version' \in [Node -> Nat] /\ version'[n] = v /\ \A m \in Node : m # n => version'[m] = version[m]
    <3>1. version' = [version EXCEPT ![n] = v]
      BY <2>1, <2>2, <2>5, Zenon
    <3> QED BY <1>3, <2>4, <3>1, Zenon
  <2>7. SyncIs(q, "save", s.from, <<>>, s.image)
    BY <1>2, <1>6, <2>1, SyncUpdates, Zenon
  <2>8. SyncKeeps(n, s.pc, q.pc) /\ sync'[n] = q
    <3>1. faults \in 0 .. MaxFaults /\ lost \subseteq Index
      BY <1>2, Zenon DEF Shape, WorkloadShape, HistoryShape
    <3> QED BY <1>3, <1>4, <2>2, <2>5, <2>6, <2>7, <3>1, Zenon DEF SyncIs
  <2>9. SyncRoute(n, s.pc, q.pc)
    BY <1>1, <2>2, <2>7, <2>8, Zenon DEF SyncRoute, SyncIs
  <2>10. SyncSets(n, s.pc, q.pc)
    BY <1>1, <2>1, <2>2, <2>5, <2>6, <2>7, <2>8, Zenon DEF SyncSets, SyncIs
  <2> QED BY <2>8, <2>9, <2>10, Zenon DEF SyncMove
<1>10. ASSUME SyncSerialize(n) PROVE \E p, pc : SyncMove(n, p, pc)
  <2>1. PICK i, q : i = state[n] /\ q = [s EXCEPT !.pc = "put", !.image = i]
    BY Zenon
  <2>2. /\ SetSync(n, q) /\ n \in up /\ s.pc = "save"
        /\ UNCHANGED <<workload, call, up, log, snap, rows, version, state, ready, faults, gone, lost, revived>>
    BY <1>1, <1>10, <2>1, Zenon DEF SyncSerialize, disk, memory, history
  <2>3. i \in Image /\ s.entries = <<>>
    BY <1>1, <1>2, <2>1, <2>2, Zenon DEF Image, SyncInv
  <2>4. SyncIs(q, "put", s.from, <<>>, i)
    BY <1>2, <1>6, <2>1, <2>3, SyncUpdates, Zenon
  <2>5. SyncKeeps(n, s.pc, q.pc) /\ sync'[n] = q
    BY <1>5, <2>2, <2>4, Zenon DEF SyncIs
  <2>6. SyncRoute(n, s.pc, q.pc)
    BY <1>1, <2>2, <2>4, <2>5, Zenon DEF SyncRoute, SyncIs
  <2>7. SyncSets(n, s.pc, q.pc)
    BY <1>1, <2>1, <2>2, <2>4, <2>5, Zenon DEF SyncSets, SyncIs
  <2> QED BY <2>5, <2>6, <2>7, Zenon DEF SyncMove
<1>11. ASSUME SyncPut(n) PROVE \E p, pc : SyncMove(n, p, pc)
  <2>1. PICK q : SetSync(n, q) /\ (q = Idle \/ q = NextTry(s))
    BY <1>1, <1>11, Zenon DEF SyncPut
  <2>2. /\ n \in up /\ s.pc = "put" /\ WriteSnapshot(n, s.image)
        /\ UNCHANGED <<workload, call, up, log, rows, version, state, ready, faults, gone, revived>>
    BY <1>1, <1>11, Zenon DEF SyncPut, memory
  <2>3. Retry(q, s.from)
    BY <1>2, <1>6, <2>1, SyncUpdates, Zenon
  <2>4. snap' \in [Node -> Image] /\ snap'[n] = s.image /\ \A m \in Node : m # n => snap'[m] = snap[m]
    BY <1>2, <1>3, <2>2, Zenon DEF WriteSnapshot
  <2>5. lost' \subseteq Index /\ faults \in 0 .. MaxFaults
    BY <1>2, <2>2, Facts DEF WriteSnapshot, Of, Shape, HistoryShape, WorkloadShape
  <2>6. SyncKeeps(n, s.pc, q.pc) /\ sync'[n] = q
    BY <1>3, <1>4, <2>1, <2>2, <2>3, <2>4, <2>5, Zenon DEF Retry
  <2>7. SyncRoute(n, s.pc, q.pc)
    BY <1>1, <2>2, <2>3, <2>6, Zenon DEF SyncRoute, Retry
  <2>8. SyncSets(n, s.pc, q.pc)
    BY <1>1, <2>2, <2>3, <2>4, <2>6, Zenon DEF SyncSets, Retry
  <2> QED BY <2>6, <2>7, <2>8, Zenon DEF SyncMove
<1>12. ASSUME SyncFails(n) PROVE \E p, pc : SyncMove(n, p, pc)
  <2>1. PICK q : q = Idle
    BY Zenon
  <2>2. /\ SetSync(n, q) /\ n \in up /\ s.pc = "put" /\ faults < MaxFaults /\ faults' = faults + 1
        /\ UNCHANGED <<workload, call, up, log, snap, rows, version, state, ready, gone, lost, revived>>
    BY <1>1, <1>12, <2>1, Zenon DEF SyncFails, disk, memory, history
  <2>3. Retry(q, s.from) /\ q.pc = "idle"
    BY <1>2, <1>6, <2>1, SyncUpdates, Zenon
  <2>4. faults' \in 0 .. MaxFaults /\ lost \subseteq Index
    BY <1>2, <2>2, SchemaAssumption DEF Shape, HistoryShape, WorkloadShape
  <2>5. SyncKeeps(n, s.pc, q.pc) /\ sync'[n] = q
    BY <1>3, <1>4, <2>2, <2>3, <2>4, Zenon DEF Retry
  <2>6. SyncRoute(n, s.pc, q.pc)
    BY <1>1, <2>2, <2>3, <2>5, Zenon DEF SyncRoute, Retry
  <2>7. SyncSets(n, s.pc, q.pc)
    BY <1>1, <2>2, <2>3, <2>5, Zenon DEF SyncSets, Retry
  <2> QED BY <2>5, <2>6, <2>7, Zenon DEF SyncMove
<1> QED BY <1>7, <1>8, <1>9, <1>10, <1>11, <1>12, Zenon DEF SyncStep

\* A step of a synchronization keeps the type invariant.
LEMMA SyncTypes ==
  ASSUME TypeInv, LoopFacts, NEW n, NEW p, NEW pc, SyncMove(n, p, pc)
  PROVE  TypeInv' /\ Grows
<1>1. /\ Shape /\ Shape' /\ Static /\ OnlyNode(n) /\ n \in Node /\ p = sync[n].pc /\ pc = sync'[n].pc
      /\ UNCHANGED <<call, log, gone>>
  BY Zenon DEF TypeInv, SyncMove, SyncKeeps
<1>2. Calls' = Calls /\ \A m : LogSet(m)' = LogSet(m)
  BY <1>1 DEF Calls, LogSet
<1>3. Grows
  BY <1>1, <1>2, Zenon DEF Grows
<1>4. \A s : Lists(s) => Lists(s)'
  BY <1>3, Kept, Zenon
<1>5. /\ NodeInv(n) /\ SyncInv(n) /\ state[n] \in State /\ NoState \notin State /\ sync[n].from \in Node
      /\ sync[n].entries \in Seq(Index)
  BY <1>1, Facts, Zenon DEF TypeInv, NodeInv
<1>6. Lists(state[n])'
  <2>1. CASE p = "apply"
    <3>1. PICK st, e, t : st = state[n] /\ e = sync[n].entries /\ t = state'[n]
      BY Zenon
    <3>2. t = ApplyEntries(st, e)
      BY <2>1, <3>1, Zenon DEF SyncMove, SyncSets
    <3>3. \A i \in 1 .. Len(e) : \E m \in Node : e[i] \in LogSet(m)
      BY <1>5, <3>1, Zenon DEF SyncInv
    <3>4. Lists(st)
      BY <1>5, <3>1, Zenon DEF NodeInv
    <3>5. Lists(t)
      BY <1>5, <3>1, <3>2, <3>3, <3>4, ApplyEntriesType, Zenon
    <3> QED BY <1>4, <3>1, <3>5, Zenon
  <2>2. CASE p # "apply"
    <3>1. state'[n] = state[n]
      BY <2>2, Zenon DEF SyncMove, SyncSets
    <3> QED BY <1>4, <1>5, <3>1, Zenon DEF NodeInv
  <2> QED BY <2>1, <2>2, Zenon
<1>7. Lists(snap[n])'
  <2>1. PICK s, t, i : s = snap'[n] /\ t = snap[n] /\ i = sync[n].image
    BY Zenon
  <2>2. s = t \/ s = i
    BY <2>1, Zenon DEF SyncMove, SyncSets
  <2>3. Lists(s)
    BY <1>5, <2>1, <2>2, Zenon DEF NodeInv, SyncInv
  <2> QED BY <1>4, <2>1, <2>3, Zenon
<1>8. SyncInv(n)'
  <2>1. Lists(sync[n].image)'
    <3>1. PICK i, j : i = sync'[n].image /\ j = sync[n].image
      BY Zenon
    <3>2. i = j \/ i = NoState \/ i = state[n]
      BY <3>1, Zenon DEF SyncMove, SyncSets
    <3>3. Lists(i)
      BY <1>5, <3>1, <3>2, Zenon DEF NodeInv, SyncInv, Lists
    <3> QED BY <1>4, <3>1, <3>3, Zenon
  <2>2. pc = "put" => sync'[n].image # NoState
    BY <1>5, Zenon DEF SyncMove, SyncSets
  <2>3. pc # "idle" => sync'[n].from # n
    <3>1. CASE p = "idle"
      <4>1. version[sync'[n].from] > version[n]
        BY <3>1, Zenon DEF SyncMove, SyncRoute
      <4>2. version[n] \in Nat
        BY <1>1, Facts, Zenon
      <4>3. ~ (version[n] > version[n])
        BY <4>2
      <4> QED BY <4>1, <4>3, Zenon
    <3>2. CASE p # "idle"
      <4>1. pc # "idle" => sync'[n].from = sync[n].from
        BY <3>2, Zenon DEF SyncMove, SyncRoute
      <4> QED BY <1>1, <1>5, <3>2, <4>1, Zenon DEF SyncInv
    <3> QED BY <3>1, <3>2, Zenon
  <2>4. pc # "apply" => sync'[n].entries = <<>>
    BY Zenon DEF SyncMove, SyncSets
  <2>5. (\A i \in 1 .. Len(sync[n].entries) : sync[n].entries[i] \in LogSet(sync[n].from))'
    <3>1. CASE pc = "apply"
      <4>1. PICK e, m : e = sync'[n].entries /\ m = sync[n].from
        BY Zenon
      <4>2. e \in Seq(LogSet(m)) /\ p = "fetch" /\ sync'[n].from = m
        BY <3>1, <4>1, Zenon DEF SyncMove, SyncSets, SyncRoute
      <4>3. \A i \in 1 .. Len(e) : e[i] \in LogSet(m)
        BY <4>2
      <4> QED BY <1>2, <4>1, <4>2, <4>3, Zenon
    <3>2. CASE pc # "apply"
      <4>1. Len(sync'[n].entries) = 0
        BY <2>4, <3>2
      <4> QED BY <4>1
    <3> QED BY <3>1, <3>2, Zenon
  <2> QED BY <1>1, <2>1, <2>2, <2>3, <2>4, <2>5, Zenon DEF SyncInv
<1>9. ASSUME NEW m \in Node PROVE NodeInv(m)'
  <2>1. LogSet(m)' \subseteq Of(m)' /\ NodeInv(m)
    BY <1>1, <1>3, Kept, Zenon DEF TypeInv
  <2>2. CASE m = n
    BY <1>6, <1>7, <1>8, <2>1, <2>2, Zenon DEF NodeInv
  <2>3. CASE m # n
    <3>1. state'[m] = state[m] /\ snap'[m] = snap[m] /\ sync'[m] = sync[m]
      BY <1>1, <2>3, Zenon DEF OnlyNode
    <3>2. SyncInv(m)'
      BY <1>3, <3>1, Kept, Zenon
    <3> QED BY <1>4, <2>1, <3>1, <3>2, Zenon DEF NodeInv
  <2> QED BY <2>2, <2>3, Zenon
<1>10. \A k \in Calls : CallInv(k)'
  BY <1>1, <1>3, Kept, Zenon
<1> QED BY <1>1, <1>2, <1>3, <1>9, <1>10, Zenon DEF TypeInv

-----------------------------------------------------------------------------
\* Node n crashes: its memory and its calls end.
Crashed(n) ==
  /\ Shape' /\ Static /\ OnlyNode(n) /\ n \in Node /\ n \in up /\ n \in workload.crashing /\ up' = up \ {n}
  /\ Calls' = Calls
  /\ \A k \in Calls : IF call[k].node = n
                      THEN SameBut(call'[k], call[k], call[k].version, "done", call[k].acked, NoState)
                      ELSE call'[k] = call[k]
  /\ version'[n] = 0 /\ state'[n] = EmptyState /\ ready'[n] = {}
  /\ sync'[n].pc = "idle" /\ sync'[n].entries = <<>> /\ sync'[n].image = NoState
  /\ UNCHANGED <<log, snap, rows, gone, lost, revived>>

\* The state of a new manager.
LEMMA EmptyIsState == EmptyState \in State /\ EmptyState.indexes = {} /\ EmptyState.version = 0
<1>1. PICK b : b = [f \in Field |-> NoIndex]
  BY Zenon
<1>2. b \in [Field -> Index \cup {NoIndex}]
  BY <1>1
<1>3. EmptyState = [version |-> 0, indexes |-> {}, active_by_field |-> b]
  BY <1>1, Zenon DEF EmptyState
<1> QED BY <1>2, <1>3 DEF State, SchemaState

\* The records of the calls that a crash ends.
EndCalls(n) ==
  call' = [k \in Calls |-> IF call[k].node = n THEN [call[k] EXCEPT !.pc = "done", !.image = NoState]
                           ELSE call[k]]

\* They are done, and nothing else about the calls changes.
LEMMA CrashCalls ==
  ASSUME Shape, workload' = workload, NEW n, EndCalls(n)
  PROVE  /\ CallShape' /\ Calls' = Calls
         /\ \A k \in Calls : IF call[k].node = n
                             THEN SameBut(call'[k], call[k], call[k].version, "done", call[k].acked, NoState)
                             ELSE call'[k] = call[k]
<1>1. PICK l \in Nat : l = Len(call) /\ Calls = 1 .. l
  BY Zenon DEF Shape, CallShape
<1>2. ASSUME NEW k \in Calls
      PROVE  /\ call'[k] \in CallRec
             /\ IF call[k].node = n
                THEN SameBut(call'[k], call[k], call[k].version, "done", call[k].acked, NoState)
                ELSE call'[k] = call[k]
  <2>1. call'[k] = IF call[k].node = n THEN [call[k] EXCEPT !.pc = "done", !.image = NoState] ELSE call[k]
    BY Zenon DEF EndCalls
  <2>2. PICK r : r = call[k] /\ r \in CallRec
    BY Facts, Zenon
  <2>3. "done" \in Pcs /\ NoState \in Image /\ 0 \in Nat /\ TRUE \in BOOLEAN
    BY DEF Pcs, Image
  <2>4. SameBut([r EXCEPT !.pc = "done", !.image = NoState], r, r.version, "done", r.acked, NoState)
    BY <2>2, <2>3, Updates, Zenon
  <2> QED BY <2>1, <2>2, <2>4, Zenon DEF SameBut
<1>3. PICK c : c = call'
  BY Zenon
<1>4. c = [k \in Calls |-> c[k]]
  BY <1>3, Zenon DEF EndCalls
<1>5. c \in [1 .. l -> CallRec]
  BY <1>1, <1>2, <1>3, <1>4, Zenon
<1>6. c \in Seq(CallRec) /\ Len(c) = l /\ DOMAIN c = 1 .. l
  BY <1>1, <1>5
<1>7. CallShape'
  BY <1>1, <1>3, <1>5, <1>6, Zenon DEF Shape, CallShape, Calls
<1> QED BY <1>1, <1>2, <1>3, <1>6, <1>7, Zenon DEF Calls

\* What Crash does.
LEMMA Crashes ==
  ASSUME TypeInv, NEW n \in Node, Crash(n)
  PROVE  Crashed(n)
<1>1. PICK t, q : t = EmptyState /\ q = Idle
  BY Zenon
<1>2. /\ n \in up /\ n \in workload.crashing /\ faults < MaxFaults /\ faults' = faults + 1 /\ up' = up \ {n}
      /\ version' = [version EXCEPT ![n] = 0] /\ state' = [state EXCEPT ![n] = t]
      /\ ready' = [ready EXCEPT ![n] = {}] /\ EndCalls(n) /\ SetSync(n, q)
      /\ UNCHANGED <<workload, log, snap, rows, gone, lost, revived>>
  BY <1>1, Zenon DEF Crash, EndCalls, disk, history
<1>3. /\ CallShape' /\ Calls' = Calls
      /\ \A k \in Calls : IF call[k].node = n
                          THEN SameBut(call'[k], call[k], call[k].version, "done", call[k].acked, NoState)
                          ELSE call'[k] = call[k]
  BY <1>2, CrashCalls, Zenon DEF TypeInv
<1>4. /\ Shape /\ sync[n] \in SyncRec /\ version \in [Node -> Nat] /\ state \in [Node -> State]
      /\ ready \in [Node -> SUBSET Index] /\ sync \in [Node -> SyncRec] /\ up \subseteq workload.nodes
  BY Facts, Zenon DEF TypeInv, Shape, MemoryShape, SyncShape, WorkloadShape
<1>5. q \in SyncRec /\ q.pc = "idle" /\ q.entries = <<>> /\ q.image = NoState
  BY <1>1, <1>4, SyncUpdates, Zenon DEF Retry
<1>6. 0 \in Nat /\ t \in State /\ {} \in SUBSET Index
  BY <1>1, EmptyIsState
<1>7. /\ version' \in [Node -> Nat] /\ version'[n] = 0 /\ state' \in [Node -> State] /\ state'[n] = t
      /\ ready' \in [Node -> SUBSET Index] /\ ready'[n] = {} /\ sync' \in [Node -> SyncRec] /\ sync'[n] = q
  BY <1>2, <1>4, <1>5, <1>6, Zenon DEF SetSync
<1>8. OnlyNode(n)
  BY <1>2, <1>4, Zenon DEF SetSync, OnlyNode
<1>9. faults' \in 0 .. MaxFaults
  <2>1. faults \in 0 .. MaxFaults /\ faults < MaxFaults /\ faults' = faults + 1 /\ MaxFaults \in Nat
    BY <1>2, <1>4, SchemaAssumption, Zenon DEF Shape, WorkloadShape
  <2> QED BY <2>1
<1>10. Shape'
  BY <1>2, <1>3, <1>4, <1>7, <1>9, Zenon DEF Shape, MemoryShape, DiskShape, WorkloadShape, HistoryShape, SyncShape
<1>11. Static
  BY <1>2, <1>3, Zenon DEF Static, SameBut
<1> QED BY <1>1, <1>2, <1>3, <1>5, <1>7, <1>8, <1>10, <1>11, Zenon DEF Crashed

\* A crash keeps the type invariant.
LEMMA CrashTypes ==
  ASSUME TypeInv, NEW n, Crashed(n)
  PROVE  TypeInv' /\ Grows
<1>1. /\ Shape /\ Shape' /\ Static /\ OnlyNode(n) /\ n \in Node /\ Calls' = Calls /\ UNCHANGED <<log, snap, gone>>
  BY Zenon DEF TypeInv, Crashed
<1>2. \A m : LogSet(m)' = LogSet(m)
  BY <1>1 DEF LogSet
<1>3. Grows
  BY <1>1, <1>2, Zenon DEF Grows
<1>4. Listable \subseteq Listable' /\ \A s : Lists(s) => Lists(s)'
  BY <1>3, Kept, Zenon
<1>5. ASSUME NEW k \in Calls PROVE CallInv(k)'
  <2>1. CASE call[k].node = n
    <3>1. PICK r, q : r = call[k] /\ q = call'[k]
      BY Zenon
    <3>2. SameBut(q, r, r.version, "done", r.acked, NoState)
      BY <2>1, <3>1, Zenon DEF Crashed
    <3>3. CallInv(k)
      BY Zenon DEF TypeInv
    <3>4. /\ r.op = "create" => r.index = k
          /\ r.op = "drop" => r.index \in Listable' /\ r.old = NoIndex
          /\ r.old \in Listable' \cup {NoIndex}
      BY <1>4, <3>1, <3>3, Zenon DEF CallInv
    <3>5. q.op = r.op /\ q.index = r.index /\ q.old = r.old /\ q.pc = "done" /\ q.image = NoState
      BY <3>2, Zenon DEF SameBut
    <3>6. Lists(call[k].image)'
      BY <3>1, <3>5, Zenon DEF Lists
    <3> QED BY <3>1, <3>4, <3>5, <3>6, Zenon DEF CallInv
  <2>2. CASE call[k].node # n
    BY <1>3, <2>2, Kept, Zenon DEF Crashed
  <2> QED BY <2>1, <2>2, Zenon
<1>6. ASSUME NEW m \in Node PROVE NodeInv(m)'
  <2>1. LogSet(m)' \subseteq Of(m)' /\ NodeInv(m) /\ Lists(snap[m])'
    BY <1>1, <1>3, <1>4, Kept, Zenon DEF TypeInv, NodeInv
  <2>2. CASE m = n
    <3>1. Lists(state[n])'
      BY EmptyIsState, Zenon DEF Crashed, Lists
    <3>2. SyncInv(n)'
      <4>1. /\ sync'[n].pc = "idle" /\ sync'[n].entries = <<>> /\ sync'[n].image = NoState
        BY Zenon DEF Crashed
      <4>2. 1 .. Len(sync'[n].entries) = {}
        BY <4>1
      <4> QED BY <4>1, <4>2, Zenon DEF SyncInv, Lists
    <3> QED BY <2>1, <2>2, <3>1, <3>2, Zenon DEF NodeInv
  <2>3. CASE m # n
    <3>1. state'[m] = state[m] /\ sync'[m] = sync[m]
      BY <1>1, <2>3, Zenon DEF OnlyNode
    <3>2. SyncInv(m)'
      BY <1>3, <3>1, Kept, Zenon
    <3> QED BY <1>4, <2>1, <3>1, <3>2, Zenon DEF NodeInv
  <2> QED BY <2>2, <2>3, Zenon
<1> QED BY <1>1, <1>3, <1>5, <1>6, Zenon DEF TypeInv

\* Node n starts again, with the state that it restores.
Restarted(n) ==
  /\ Shape' /\ Static /\ OnlyNode(n) /\ n \in Node /\ n \in workload.nodes \ up /\ up' = up \cup {n}
  /\ Restored(n) \in State /\ Lists(Restored(n))
  /\ state'[n] = Restored(n) /\ version'[n] = Restored(n).version
  /\ snap'[n] = snap[n] \/ (snap[n] = NoState /\ snap'[n] = Restored(n))
  /\ UNCHANGED <<log, rows, ready, call, sync, gone, lost, revived>>

\* What Restart does.
LEMMA Restarts ==
  ASSUME TypeInv, LoopFacts, NEW n \in Node, Restart(n)
  PROVE  Restarted(n)
<1>1. PICK t, v : t = Restored(n) /\ v = t.version
  BY Zenon
<1>2. /\ n \in workload.nodes \ up /\ up' = up \cup {n}
      /\ version' = [version EXCEPT ![n] = v] /\ state' = [state EXCEPT ![n] = t]
      /\ snap' = snap \/ (snap[n] = NoState /\ snap' = [snap EXCEPT ![n] = t])
      /\ UNCHANGED <<workload, log, rows, ready, call, sync, faults, gone, lost, revived>>
  BY <1>1, Zenon DEF Restart, history
<1>3. /\ Shape /\ version \in [Node -> Nat] /\ state \in [Node -> State] /\ snap \in [Node -> Image]
      /\ up \subseteq workload.nodes
  BY Zenon DEF TypeInv, Shape, MemoryShape, DiskShape, WorkloadShape
<1>4. t \in State /\ Lists(t)
  <2>1. CASE snap[n] # NoState
    <3>1. t = snap[n]
      BY <1>1, <2>1, Zenon DEF Restored
    <3>2. snap[n] \in Image /\ Lists(snap[n])
      BY <1>3, Facts, Zenon DEF TypeInv, NodeInv
    <3> QED BY <2>1, <3>1, <3>2, Zenon DEF Image
  <2>2. CASE snap[n] = NoState
    <3>1. PICK st, e, L : st = EmptyState /\ e = EntriesSince(log[n], 0) /\ L = LogSet(n)
      BY Zenon
    <3>2. t = ApplyEntries(st, e)
      BY <1>1, <2>2, <3>1, Zenon DEF Restored
    <3>3. 0 \in Nat /\ st \in State /\ st.indexes = {}
      BY <3>1, EmptyIsState
    <3>4. e \in Seq(L)
      BY <3>1, <3>3, Zenon DEF LoopFacts
    <3>5. L \subseteq Index
      BY <1>3, <3>1, Facts, Zenon DEF TypeInv, NodeInv, Of
    <3>6. e \in Seq(Index) /\ \A i \in 1 .. Len(e) : e[i] \in L
      BY <3>4, <3>5
    <3>7. Lists(st)
      BY <3>3, Zenon DEF Lists
    <3> QED BY <3>1, <3>2, <3>3, <3>6, <3>7, ApplyEntriesType, Zenon
  <2> QED BY <2>1, <2>2, Zenon
<1>5. v \in Nat /\ t \in Image
  BY <1>1, <1>4 DEF State, SchemaState, Image
<1>6. /\ version' \in [Node -> Nat] /\ version'[n] = v /\ state' \in [Node -> State] /\ state'[n] = t
      /\ \A m \in Node : m # n => version'[m] = version[m] /\ state'[m] = state[m]
  BY <1>2, <1>3, <1>4, <1>5, Zenon
<1>7. /\ snap' \in [Node -> Image] /\ (snap'[n] = snap[n] \/ (snap[n] = NoState /\ snap'[n] = t))
      /\ \A m \in Node : m # n => snap'[m] = snap[m]
  <2>1. CASE snap' = snap
    BY <1>3, <2>1, Zenon
  <2>2. CASE snap' = [snap EXCEPT ![n] = t] /\ snap[n] = NoState
    BY <1>3, <1>5, <2>2, Zenon
  <2> QED BY <1>2, <2>1, <2>2, Zenon
<1>8. CallShape' /\ Static
  BY <1>2, <1>3, Zenon DEF Shape, CallShape, Static, Calls
<1>9. Shape'
  BY <1>2, <1>3, <1>6, <1>7, <1>8, Zenon DEF Shape, MemoryShape, DiskShape, WorkloadShape, HistoryShape, SyncShape
<1>10. OnlyNode(n)
  BY <1>2, <1>6, <1>7, Zenon DEF OnlyNode
<1> QED BY <1>1, <1>2, <1>4, <1>6, <1>7, <1>8, <1>9, <1>10, Zenon DEF Restarted

\* A restart keeps the type invariant.
LEMMA RestartTypes ==
  ASSUME TypeInv, NEW n, Restarted(n)
  PROVE  TypeInv' /\ Grows
<1>1. /\ Shape /\ Shape' /\ Static /\ OnlyNode(n) /\ n \in Node /\ UNCHANGED <<call, log, sync, gone>>
  BY Zenon DEF TypeInv, Restarted
<1>2. Calls' = Calls /\ \A m : LogSet(m)' = LogSet(m)
  BY <1>1 DEF LogSet, Calls
<1>3. Grows
  BY <1>1, <1>2, Zenon DEF Grows
<1>4. \A s : Lists(s) => Lists(s)'
  BY <1>3, Kept, Zenon
<1>5. ASSUME NEW m \in Node PROVE NodeInv(m)'
  <2>1. LogSet(m)' \subseteq Of(m)' /\ NodeInv(m) /\ SyncInv(m)'
    BY <1>1, <1>3, Kept, Zenon DEF TypeInv
  <2>2. CASE m = n
    <3>1. PICK t : t = Restored(n) /\ Lists(t)
      BY Zenon DEF Restarted
    <3>2. state'[n] = t /\ (snap'[n] = snap[n] \/ snap'[n] = t)
      BY <3>1, Zenon DEF Restarted
    <3>3. Lists(t)' /\ Lists(state[n])'
      BY <1>4, <3>1, <3>2, Zenon
    <3>4. Lists(snap[n])'
      BY <1>4, <2>1, <2>2, <3>2, <3>3, Zenon DEF NodeInv
    <3> QED BY <2>1, <2>2, <3>3, <3>4, Zenon DEF NodeInv
  <2>3. CASE m # n
    <3>1. state'[m] = state[m] /\ snap'[m] = snap[m]
      BY <1>1, <2>3, Zenon DEF OnlyNode
    <3> QED BY <1>4, <2>1, <3>1, Zenon DEF NodeInv
  <2> QED BY <2>2, <2>3, Zenon
<1>6. \A k \in Calls : CallInv(k)'
  BY <1>1, <1>3, Kept, Zenon
<1> QED BY <1>1, <1>2, <1>3, <1>5, <1>6, Zenon DEF TypeInv

-----------------------------------------------------------------------------
\* A step of the system: one of these moves.
StepKind ==
  \/ \E k \in Calls : \E n, p, pc : Move(k, n, p, pc)
  \/ \E n, i : Born(n, i)
  \/ \E n, p, pc : SyncMove(n, p, pc)
  \/ \E n : Crashed(n)
  \/ \E n : Restarted(n)

\* Every step is one of them, and keeps the type invariant.
LEMMA Kinds ==
  ASSUME TypeInv, LoopFacts, Next
  PROVE  StepKind /\ TypeInv' /\ Grows
<1>1. CASE \E k \in Calls : CallStep(k) \/ CallFails(k)
  <2>1. PICK k \in Calls : CallStep(k) \/ CallFails(k)
    BY <1>1, Zenon
  <2>2. PICK n, p, pc : Move(k, n, p, pc)
    BY <2>1, Moves, Zenon DEF TypeInv
  <2> QED BY <2>2, MoveTypes, Zenon DEF StepKind
<1>2. CASE (\E n \in Node, f \in Field : CreateIndex(n, f)) \/ \E n \in Node, i \in Index : DropIndex(n, i)
  <2>1. PICK n \in Node : (\E f \in Field : CreateIndex(n, f)) \/ \E x \in Index : DropIndex(n, x)
    BY <1>2, Zenon
  <2>2. PICK i : Born(n, i)
    BY <2>1, Births, Zenon
  <2> QED BY <2>2, BornTypes, Zenon DEF StepKind
<1>3. CASE (\E n, m \in Node : HearVersion(n, m)) \/ \E n \in Node : SyncStep(n) \/ SyncFails(n)
  <2>1. PICK n \in Node : (\E m \in Node : HearVersion(n, m)) \/ SyncStep(n) \/ SyncFails(n)
    BY <1>3, Zenon
  <2>2. PICK p, pc : SyncMove(n, p, pc)
    BY <2>1, SyncMoves, Zenon
  <2> QED BY <2>2, SyncTypes, Zenon DEF StepKind
<1>4. CASE \E n \in Node : Crash(n)
  BY <1>4, Crashes, CrashTypes, Zenon DEF StepKind
<1>5. CASE \E n \in Node : Restart(n)
  BY <1>5, Restarts, RestartTypes, Zenon DEF StepKind
<1> QED BY <1>1, <1>2, <1>3, <1>4, <1>5, Zenon DEF Next

\* The type invariant holds at the start.
LEMMA TypeInit ==
  ASSUME Init
  PROVE  TypeInv
<1>1. /\ workload \in Workloads /\ up = workload.nodes
      /\ version = [n \in Node |-> 0] /\ state = [n \in Node |-> EmptyState]
      /\ log = [n \in Node |-> <<>>] /\ snap = [n \in Node |-> NoState] /\ rows = [n \in Node |-> {}]
      /\ ready = [n \in Node |-> {}] /\ sync = [n \in Node |-> Idle] /\ gone = {} /\ lost = {} /\ revived = {}
  BY Zenon DEF Init
<1>2. call = <<>> /\ faults = 0
  BY Zenon DEF Init
<1>3. CallShape /\ Calls = {}
  <2>1. call \in Seq(CallRec) /\ Len(call) = 0 /\ DOMAIN call = 1 .. 0 /\ 1 .. 0 = {} /\ call \in [1 .. 0 -> CallRec]
    BY <1>2
  <2>2. 0 \in Nat /\ 0 <= workload.calls
    BY <1>1, SchemaAssumption DEF Workload, Call
  <2> QED BY <2>1, <2>2, Zenon DEF CallShape, Calls
<1>4. ASSUME NEW n \in Node PROVE Idle \in SyncRec /\ Idle.pc = "idle" /\ Idle.entries = <<>> /\ Idle.image = NoState
  <2>1. PICK x : x = CHOOSE m \in Node : TRUE
    BY Zenon
  <2>2. x \in Node
    BY <2>1, Zenon
  <2>3. Idle = [pc |-> "idle", from |-> x, target |-> 0, tries |-> 0, entries |-> <<>>, image |-> NoState]
    BY <2>1, Zenon DEF Idle
  <2>4. NoState \in Image /\ "idle" \in SyncPcs /\ <<>> \in Seq(Index)
    BY DEF Image, SyncPcs
  <2> QED BY <2>2, <2>3, <2>4 DEF SyncRec
<1>5. MemoryShape /\ DiskShape /\ SyncShape
  <2>1. 0 \in Nat /\ <<>> \in Seq(Index) /\ NoState \in Image
    BY DEF Image
  <2> QED BY <1>1, <1>4, <2>1, EmptyIsState, Zenon DEF MemoryShape, DiskShape, SyncShape
<1>6. WorkloadShape /\ HistoryShape
  BY <1>1, <1>2, SchemaAssumption DEF WorkloadShape, HistoryShape
<1>7. ASSUME NEW n \in Node PROVE NodeInv(n)
  <2>1. /\ log[n] = <<>> /\ snap[n] = NoState /\ state[n] = EmptyState /\ sync[n] = Idle
    BY <1>1, Zenon
  <2>2. LogSet(n) = {}
    BY <2>1 DEF LogSet
  <2>3. 1 .. Len(sync[n].entries) = {}
    BY <1>4, <2>1
  <2>4. SyncInv(n)
    BY <1>4, <2>1, <2>3, Zenon DEF SyncInv, Lists
  <2> QED BY <2>1, <2>2, <2>4, EmptyIsState, Zenon DEF NodeInv, Lists
<1>8. NoIndex \notin gone /\ \A k \in Calls : CallInv(k)
  BY <1>1, <1>3, Zenon
<1> QED BY <1>3, <1>5, <1>6, <1>7, <1>8, Zenon DEF TypeInv, Shape

-----------------------------------------------------------------------------
\* Only a node that is up runs calls and synchronizations.
Ended == {"done", "failed"}

RunInv ==
  /\ \A k \in Calls : call[k].pc \notin Ended => call[k].node \in up
  /\ \A n \in Node \ up : ready[n] = {} /\ sync[n].pc = "idle" /\ sync[n].image = NoState

\* Nothing runs at the start.
LEMMA RunInit ==
  ASSUME Init
  PROVE  RunInv
<1>1. Calls = {}
  BY DEF Init, Calls
<1>2. ASSUME NEW n \in Node PROVE ready[n] = {} /\ sync[n] = Idle
  BY Zenon DEF Init
<1>3. Idle.pc = "idle" /\ Idle.image = NoState
  BY DEF Idle
<1> QED BY <1>1, <1>2, <1>3, Zenon DEF RunInv

\* A call that moves runs on a node that is up.
LEMMA MoveUp ==
  ASSUME RunInv, NEW k \in Calls, NEW n, NEW p, NEW pc, Move(k, n, p, pc)
  PROVE  n \in up /\ p \notin Ended
<1>1. p \notin Ended
  BY Zenon DEF Move, Route, Ended
<1> QED BY <1>1, Zenon DEF Move, CallMove, RunInv

\* Every step keeps it: a crash ends the calls and the synchronization of its node.
LEMMA RunStep ==
  ASSUME TypeInv, RunInv, StepKind
  PROVE  RunInv'
<1>1. ASSUME NEW k \in Calls, NEW n, NEW p, NEW pc, Move(k, n, p, pc) PROVE RunInv'
  <2>1. n \in up /\ UNCHANGED <<up, sync>> /\ OnlyNode(n) /\ Calls' = Calls
        /\ (\A j \in Calls : j # k => call'[j] = call[j]) /\ call'[k].node = n
    BY <1>1, MoveUp, Zenon DEF Move, CallMove, Static
  <2>2. \A j \in Calls : call'[j].pc \notin Ended => call'[j].node \in up
    BY <2>1, Zenon DEF RunInv
  <2>3. \A m \in Node \ up : ready'[m] = ready[m]
    BY <2>1, Zenon DEF OnlyNode
  <2> QED BY <2>1, <2>2, <2>3, Zenon DEF RunInv
<1>2. ASSUME NEW n, NEW i, Born(n, i) PROVE RunInv'
  <2>1. /\ n \in up /\ UNCHANGED <<up, ready, sync>> /\ Calls' = Calls \cup {i}
        /\ (\A j \in Calls : call'[j] = call[j]) /\ call'[i].node = n
    BY <1>2, Zenon DEF Born, MayCall
  <2> QED BY <2>1, Zenon DEF RunInv
<1>3. ASSUME NEW n, NEW p, NEW pc, SyncMove(n, p, pc) PROVE RunInv'
  <2>1. n \in up /\ UNCHANGED <<call, up, ready>> /\ \A m \in Node : m # n => sync'[m] = sync[m]
    BY <1>3, Zenon DEF SyncMove, SyncKeeps, OnlyNode
  <2> QED BY <2>1, Zenon DEF RunInv, Calls
<1>4. ASSUME NEW n, Crashed(n) PROVE RunInv'
  <2>1. /\ up' = up \ {n} /\ Calls' = Calls /\ ready'[n] = {} /\ sync'[n].pc = "idle" /\ sync'[n].image = NoState
        /\ \A m \in Node : m # n => ready'[m] = ready[m] /\ sync'[m] = sync[m]
    BY <1>4, Zenon DEF Crashed, OnlyNode
  <2>2. ASSUME NEW k \in Calls PROVE call'[k].pc \notin Ended => call'[k].node \in up'
    <3>1. CASE call[k].node = n
      BY <1>4, <3>1, Zenon DEF Crashed, SameBut, Ended
    <3>2. CASE call[k].node # n
      <4>1. call'[k] = call[k]
        BY <1>4, <3>2, Zenon DEF Crashed
      <4> QED BY <2>1, <3>2, <4>1, Zenon DEF RunInv
    <3> QED BY <3>1, <3>2, Zenon
  <2> QED BY <2>1, <2>2, Zenon DEF RunInv
<1>5. ASSUME NEW n, Restarted(n) PROVE RunInv'
  <2>1. up' = up \cup {n} /\ UNCHANGED <<ready, call, sync>>
    BY <1>5, Zenon DEF Restarted
  <2> QED BY <2>1, Zenon DEF RunInv, Calls
<1> QED BY <1>1, <1>2, <1>3, <1>4, <1>5, Zenon DEF StepKind

-----------------------------------------------------------------------------
\* Queries are sent to indexes that are built.  On the node of the call: an index that
\* is ready has been built; one that is ready and listed has its rows; and one whose
\* rows a task is about to delete has been applied, and is listed no more.
BeforeApply == {"quota", "append", "newline", "apply"}
BeforeReady == BeforeApply \cup {"save", "put", "rows", "ready"}
Applied(k) == call[k].pc \notin BeforeApply
Dropping(k) ==
  IF call[k].op = "drop" THEN call[k].pc \in {"save", "put", "unrow", "unready"}
  ELSE call[k].pc \in {"unrow", "unready"}

ReadyInv(n) == \A i \in ready[n] : i \in Of(n) /\ call[i].op = "create" /\ call[i].pc \notin BeforeReady
ListedInv(n) ==
  \A i \in Of(n) \cap state[n].indexes :
    /\ Applied(i)
    /\ i \in ready[n] \/ call[i].pc = "ready" => i \in rows[n]
DroppedInv(n) ==
  \A k \in Of(n) : Dropped(k) \in Of(n) =>
    /\ Applied(Dropped(k))
    /\ Dropping(k) => Dropped(k) \notin state[n].indexes

BuildInv == \A n \in Node : ReadyInv(n) /\ ListedInv(n) /\ DroppedInv(n)

\* Nothing is built at the start.
LEMMA BuildInit ==
  ASSUME Init
  PROVE  BuildInv
<1>1. Calls = {}
  BY DEF Init, Calls
<1>2. \A n \in Node : ready[n] = {}
  BY Zenon DEF Init
<1>3. \A n : Of(n) = {}
  BY <1>1, Zenon DEF Of
<1> QED BY <1>2, <1>3, Zenon DEF BuildInv, ReadyInv, ListedInv, DroppedInv

\* What a call drops is a call, and stays the same.
LEMMA DroppedCall ==
  ASSUME TypeInv, Static, NEW k \in Calls
  PROVE  Dropped(k)' = Dropped(k) /\ Dropped(k) \in Calls \cup {NoIndex} /\ (k \in Of(call[k].node))
<1>1. CallInv(k) /\ call[k].op \in {"create", "drop"}
  BY Facts, Zenon DEF TypeInv
<1>2. Dropped(k)' = Dropped(k)
  BY Zenon DEF Static, Dropped
<1>3. Dropped(k) \in Calls \cup {NoIndex}
  BY <1>1, Zenon DEF Dropped, CallInv, Listable
<1> QED BY <1>2, <1>3, Zenon DEF Of

\* A node that a step leaves alone, with its calls.
LEMMA BuildKept ==
  ASSUME TypeInv, BuildInv, Static, NEW m \in Node, Of(m)' = Of(m), \A k \in Of(m) : call'[k] = call[k],
         state'[m] = state[m], rows'[m] = rows[m], ready'[m] = ready[m]
  PROVE  ReadyInv(m)' /\ ListedInv(m)' /\ DroppedInv(m)'
<1>1. ReadyInv(m) /\ ListedInv(m) /\ DroppedInv(m)
  BY Zenon DEF BuildInv
<1>2. \A k \in Of(m) : Dropped(k)' = Dropped(k) /\ (Applied(k) => Applied(k)') /\ (Dropping(k)' => Dropping(k))
  BY DroppedCall, Zenon DEF Of, Applied, Dropping
<1>3. ReadyInv(m)'
  BY <1>1, Zenon DEF ReadyInv
<1>4. ListedInv(m)'
  BY <1>1, <1>2, Zenon DEF ListedInv
<1> QED BY <1>1, <1>2, <1>3, <1>4, Zenon DEF DroppedInv

\* A move keeps BuildInv.
LEMMA MoveBuild ==
  ASSUME TypeInv, BuildInv, NEW k \in Calls, NEW n, NEW p, NEW pc, Move(k, n, p, pc)
  PROVE  BuildInv'
<1>1. /\ Shape /\ Static /\ OnlyNode(n) /\ n \in Node /\ n = call[k].node /\ p = call[k].pc /\ pc = call'[k].pc
      /\ Calls' = Calls /\ \A j \in Calls : j # k => call'[j] = call[j]
  BY Zenon DEF TypeInv, Move, CallMove
<1>2. (\A m : Of(m)' = Of(m)) /\ k \in Of(n) /\ \A j \in Calls : Dropped(j)' = Dropped(j)
  BY <1>1, DroppedCall, Zenon DEF Of, Static
<1>3. ASSUME NEW m \in Node, m # n PROVE ReadyInv(m)' /\ ListedInv(m)' /\ DroppedInv(m)'
  <2>1. state'[m] = state[m] /\ rows'[m] = rows[m] /\ ready'[m] = ready[m]
    BY <1>1, <1>3, Zenon DEF OnlyNode
  <2>2. \A j \in Of(m) : call'[j] = call[j]
    BY <1>1, <1>3, Zenon DEF Of
  <2> QED BY <1>1, <1>2, <2>1, <2>2, BuildKept, Zenon
<1>4. /\ ReadyInv(n) /\ ListedInv(n) /\ DroppedInv(n) /\ CallInv(k) /\ call[k].op \in {"create", "drop"}
      /\ call'[k].op = call[k].op /\ call'[k].node = n
  BY <1>1, Facts, Zenon DEF BuildInv, TypeInv, Static
\* Places only go on.
<1>5. /\ p \notin BeforeApply => pc \notin BeforeApply
      /\ p \notin BeforeReady \/ p = "ready" => pc \notin BeforeReady
  BY Zenon DEF Move, Route, BeforeApply, BeforeReady
<1>6. \A j \in Calls : Applied(j) => Applied(j)'
  BY <1>1, <1>5, Zenon DEF Applied
<1>7. ReadyInv(n)'
  <2>1. ready'[n] = (IF p = "ready" THEN ready[n] \cup {k} ELSE IF p = "unready" THEN ready[n] \ {Dropped(k)} ELSE ready[n])
    BY Zenon DEF Move, MoveRows
  <2>2. ASSUME NEW i \in ready'[n] PROVE i \in Of(n) /\ call'[i].op = "create" /\ call'[i].pc \notin BeforeReady
    <3>1. CASE i # k
      <4>1. i \in ready[n]
        BY <2>1, <3>1, Zenon
      <4>2. i \in Of(n) /\ call[i].op = "create" /\ call[i].pc \notin BeforeReady
        BY <1>4, <4>1, Zenon DEF ReadyInv
      <4>3. i \in Calls
        BY <4>2, Zenon DEF Of
      <4> QED BY <1>1, <3>1, <4>2, <4>3, Zenon
    <3>2. CASE i = k
      <4>1. i \in ready[n] \/ p = "ready"
        BY <2>1, Zenon
      <4> QED BY <1>1, <1>2, <1>4, <1>5, <3>2, <4>1, Zenon DEF ReadyInv, CallInv
    <3> QED BY <3>1, <3>2, Zenon
  <2> QED BY <1>2, <2>2, Zenon DEF ReadyInv
\* What a move lists: nothing, but for the index that its call creates.
<1>8. \A i \in state'[n].indexes : i \in state[n].indexes \/ (i = k /\ p = "apply" /\ call[k].op = "create")
  <2>1. PICK s, r : s = state[n] /\ r = call[k]
    BY Zenon
  <2>2. ApplyEntry(s, r).indexes = IF r.op = "create" THEN s.indexes \cup {r.index} ELSE s.indexes \ {r.index}
    BY DEF ApplyEntry
  <2>3. Swapped(k, n).indexes = state[n].indexes \ {call[k].old}
    BY DEF Swapped
  <2>4. CASE p = "apply"
    <3>1. state'[n] = ApplyEntry(s, r)
      BY <2>1, <2>4, Zenon DEF Move, MoveMemory
    <3> QED BY <1>4, <2>1, <2>2, <2>4, <3>1, Zenon DEF CallInv
  <2>5. CASE p = "swap"
    BY <2>3, <2>5, Zenon DEF Move, MoveMemory
  <2>6. CASE p \notin {"apply", "swap"}
    BY <2>6, Zenon DEF Move, MoveMemory
  <2> QED BY <2>4, <2>5, <2>6, Zenon
<1>9. ListedInv(n)'
  <2>1. ASSUME NEW i \in Of(n) \cap state'[n].indexes
        PROVE  Applied(i)' /\ (i \in ready'[n] \/ call'[i].pc = "ready" => i \in rows'[n])
    <3>1. CASE i \in state[n].indexes
      <4>1. Applied(i)'
        BY <1>4, <1>6, <3>1, Zenon DEF ListedInv, Of
      <4>2. i \in ready'[n] \/ call'[i].pc = "ready" => i \in ready[n] \/ call[i].pc = "ready" \/ (i = k /\ pc = "ready")
        BY <1>1, Zenon DEF Move, MoveRows, Of
      <4>3. i \in ready[n] \/ call[i].pc = "ready" => i \in rows[n]
        BY <1>4, <3>1, Zenon DEF ListedInv
      <4>4. CASE pc = "unready"
        <5>1. p = "unrow"
          BY <4>4, Zenon DEF Move, Route
        <5>2. Dropping(k)
          BY <1>1, <1>4, <5>1, Zenon DEF Dropping
        <5>3. i # Dropped(k)
          BY <1>2, <1>4, <3>1, <5>2, Zenon DEF DroppedInv
        <5>4. rows'[n] = rows[n] \ {Dropped(k)}
          BY <4>4, Zenon DEF Move, MoveRows
        <5> QED BY <4>1, <4>2, <4>3, <4>4, <5>3, <5>4, Zenon
      <4>5. CASE pc # "unready"
        <5>1. rows[n] \subseteq rows'[n] /\ (pc = "ready" => k \in rows'[n])
          BY <4>5, Zenon DEF Move, MoveRows
        <5> QED BY <4>1, <4>2, <4>3, <5>1, Zenon
      <4> QED BY <4>4, <4>5, Zenon
    <3>2. CASE i = k /\ p = "apply" /\ call[k].op = "create"
      <4>1. pc = "save"
        BY <3>2, Zenon DEF Move, Route
      <4>2. k \notin ready[n] /\ ready'[n] = ready[n]
        <5>1. ready'[n] = ready[n]
          BY <3>2, Zenon DEF Move, MoveRows
        <5> QED BY <1>1, <1>4, <3>2, <5>1, Zenon DEF ReadyInv, BeforeReady, BeforeApply
      <4> QED BY <1>1, <3>2, <4>1, <4>2, Zenon DEF Applied, BeforeApply
    <3> QED BY <1>8, <3>1, <3>2, Zenon
  <2> QED BY <1>2, <2>1, Zenon DEF ListedInv
<1>10. DroppedInv(n)'
  <2>1. ASSUME NEW j \in Of(n), Dropped(j) \in Of(n)
        PROVE  Applied(Dropped(j))' /\ (Dropping(j)' => Dropped(j) \notin state'[n].indexes)
    <3>1. Applied(Dropped(j)) /\ (Dropping(j) => Dropped(j) \notin state[n].indexes)
      BY <1>4, <2>1, Zenon DEF DroppedInv
    <3>2. PICK d : d = Dropped(j) /\ d = Dropped(j)'
      BY <1>2, Zenon DEF Of
    <3>3. Applied(d)'
      BY <1>6, <2>1, <3>1, <3>2, Zenon DEF Of
    <3>4. ~ (d = k /\ p = "apply")
      BY <1>1, <3>1, <3>2, Zenon DEF Applied, BeforeApply
    <3>5. Dropping(j) => d \notin state'[n].indexes
      BY <1>8, <3>1, <3>2, <3>4, Zenon
    <3>6. CASE j # k
      <4>1. Dropping(j)' => Dropping(j)
        BY <1>1, <3>6, Zenon DEF Dropping, Of
      <4> QED BY <3>2, <3>3, <3>5, <4>1, Zenon
    <3>7. CASE j = k
      <4>1. ASSUME Dropping(k)', ~ Dropping(k)
            PROVE  (p = "apply" /\ call[k].op = "drop") \/ (p = "swap" /\ call[k].op = "create")
        <5>1. pc \in {"save", "put", "unrow", "unready"} /\ (call[k].op = "create" => pc \in {"unrow", "unready"})
          BY <1>1, <1>4, <4>1, Zenon DEF Dropping
        <5>2. p \notin {"unrow", "unready"} /\ (call[k].op = "drop" => p \notin {"save", "put"})
          BY <1>1, <1>4, <4>1, Zenon DEF Dropping
        <5>3. /\ pc = "save" => p = "apply"
              /\ pc = "put" => p = "save"
              /\ pc = "unready" => p = "unrow"
              /\ pc = "unrow" => p = "swap" \/ (p = "put" /\ call[k].op # "create")
          BY Zenon DEF Move, Route
        <5>4. p = "swap" => call[k].op = "create"
          BY <1>1, <1>4, Zenon DEF CallInv
        <5> QED BY <1>4, <5>1, <5>2, <5>3, <5>4, Zenon
      <4>2. ASSUME p = "apply", call[k].op = "drop" PROVE d \notin state'[n].indexes
        <5>1. PICK s, r : s = state[n] /\ r = call[k]
          BY Zenon
        <5>2. state'[n] = ApplyEntry(s, r)
          BY <4>2, <5>1, Zenon DEF Move, MoveMemory
        <5>3. r.op = "drop" => ApplyEntry(s, r).indexes = s.indexes \ {r.index}
          BY DEF ApplyEntry
        <5>4. d = r.index
          BY <3>2, <3>7, <4>2, <5>1, Zenon DEF Dropped
        <5> QED BY <4>2, <5>1, <5>2, <5>3, <5>4, Zenon
      <4>3. ASSUME p = "swap", call[k].op = "create" PROVE d \notin state'[n].indexes
        <5>1. Swapped(k, n).indexes = state[n].indexes \ {call[k].old}
          BY DEF Swapped
        <5>2. d = call[k].old
          BY <3>2, <3>7, <4>3, Zenon DEF Dropped
        <5>3. state'[n] = Swapped(k, n)
          BY <4>3, Zenon DEF Move, MoveMemory
        <5> QED BY <5>1, <5>2, <5>3, Zenon
      <4> QED BY <3>2, <3>3, <3>5, <3>7, <4>1, <4>2, <4>3, Zenon
    <3> QED BY <3>6, <3>7, Zenon
  <2>2. \A j \in Of(n) : Dropped(j)' = Dropped(j)
    BY <1>2, Zenon DEF Of
  <2> QED BY <1>2, <2>1, <2>2, Zenon DEF DroppedInv
<1> QED BY <1>3, <1>7, <1>9, <1>10, Zenon DEF BuildInv

\* What is listed was created.
LEMMA Listed ==
  ASSUME TypeInv
  PROVE  /\ NoIndex \notin Calls /\ Listable \subseteq Calls
         /\ \A n \in Node : state[n] \in State /\ state[n] # NoState /\ state[n].indexes \subseteq Listable
<1>1. NoIndex \notin Calls /\ NoState \notin State /\ \A n \in Node : state[n] \in State /\ Lists(state[n])
  BY Facts, Zenon DEF TypeInv, NodeInv
<1> QED BY <1>1, Zenon DEF Lists, Listable

\* Entries of other nodes do not create the indexes of this one.
LEMMA ApplyForeign ==
  ASSUME TypeInv, LoopFacts, NEW n \in Node, NEW e \in Seq(Index), NEW st \in State, NEW m \in Node, m # n,
         \A i \in 1 .. Len(e) : e[i] \in LogSet(m)
  PROVE  ApplyEntries(st, e).indexes \cap Of(n) \subseteq st.indexes
<1>1. PICK S : S = {s \in State : s.indexes \cap Of(n) \subseteq st.indexes}
  BY Zenon
<1>2. st \in S
  BY <1>1, Zenon
<1>3. ASSUME NEW s \in S, NEW i \in 1 .. Len(e) PROVE ApplyNewer(s, call[e[i]]) \in S
  <2>1. PICK k, r : k = e[i] /\ r = call[k]
    BY Zenon
  <2>2. k \in Calls /\ r.node = m /\ CallInv(k) /\ r \in CallRec
    BY <2>1, Facts, Zenon DEF TypeInv, NodeInv, Of
  <2>3. r.op = "create" => r.index \notin Of(n)
    BY <2>1, <2>2, Zenon DEF CallInv, Of
  <2>4. s \in State /\ s.indexes \cap Of(n) \subseteq st.indexes
    BY <1>1, Zenon
  <2>5. ApplyNewer(s, r) \in State
    BY <2>2, <2>4, ApplyEntryState, Zenon
  <2>6. ApplyEntry(s, r).indexes = IF r.op = "create" THEN s.indexes \cup {r.index} ELSE s.indexes \ {r.index}
    BY DEF ApplyEntry
  <2>7. ApplyNewer(s, r).indexes \cap Of(n) \subseteq st.indexes
    BY <2>3, <2>4, <2>6, Zenon DEF ApplyNewer
  <2> QED BY <1>1, <2>1, <2>5, <2>7, Zenon
<1>4. ApplyEntries(st, e) \in S
  BY <1>2, <1>3, Zenon DEF LoopFacts
<1> QED BY <1>1, <1>4, Zenon

\* The start of a call keeps BuildInv.
LEMMA BornBuild ==
  ASSUME TypeInv, BuildInv, NEW n, NEW i, Born(n, i)
  PROVE  BuildInv'
<1>1. /\ Shape /\ Static /\ n \in Node /\ i \notin Calls /\ Calls' = Calls \cup {i}
      /\ (\A j \in Calls : call'[j] = call[j]) /\ call'[i].node = n
      /\ UNCHANGED <<state, rows, ready>>
  BY Zenon DEF TypeInv, Born
<1>2. Of(n)' = Of(n) \cup {i} /\ \A m : m # n => Of(m)' = Of(m)
  BY <1>1 DEF Of
<1>3. ASSUME NEW m \in Node, m # n PROVE ReadyInv(m)' /\ ListedInv(m)' /\ DroppedInv(m)'
  <2>1. \A j \in Of(m) : call'[j] = call[j]
    BY <1>1, Zenon DEF Of
  <2> QED BY <1>1, <1>2, <1>3, <2>1, BuildKept, Zenon
<1>4. ReadyInv(n) /\ ListedInv(n) /\ DroppedInv(n) /\ state[n].indexes \subseteq Calls /\ NoIndex \notin Calls
  BY <1>1, Listed, Zenon DEF BuildInv
<1>9. NoIndex \notin Calls'
  <2>1. Shape'
    BY Zenon DEF Born
  <2>2. Calls' \subseteq Index /\ NoIndex \notin Index
    BY <2>1, SchemaAssumption, Zenon DEF Shape, CallShape
  <2> QED BY <2>2, Zenon
<1>5. ReadyInv(n)'
  <2>1. ASSUME NEW j \in ready[n] PROVE j \in Of(n)' /\ call'[j].op = "create" /\ call'[j].pc \notin BeforeReady
    <3>1. j \in Of(n) /\ call[j].op = "create" /\ call[j].pc \notin BeforeReady
      BY <1>4, Zenon DEF ReadyInv
    <3>2. j \in Calls
      BY <3>1, Zenon DEF Of
    <3> QED BY <1>1, <1>2, <3>1, <3>2, Zenon
  <2> QED BY <1>1, <2>1, Zenon DEF ReadyInv
<1>6. \A j \in Calls : (Applied(j) => Applied(j)') /\ (Dropping(j)' => Dropping(j)) /\ Dropped(j)' = Dropped(j)
  BY <1>1, DroppedCall, Zenon DEF Applied, Dropping
<1>7. ListedInv(n)'
  <2>1. ASSUME NEW j \in Of(n)', j \in state[n].indexes
        PROVE  Applied(j)' /\ (j \in ready[n] \/ call'[j].pc = "ready" => j \in rows[n])
    <3>1. j \in Calls
      BY <1>4, <2>1, Zenon
    <3>2. j \in Of(n)
      BY <1>1, <1>2, <2>1, <3>1, Zenon
    <3> QED BY <1>1, <1>4, <1>6, <2>1, <3>1, <3>2, Zenon DEF ListedInv
  <2> QED BY <1>1, <2>1, Zenon DEF ListedInv
<1>8. DroppedInv(n)'
  <2>1. ASSUME NEW j \in Of(n), Dropped(j)' \in Of(n)'
        PROVE  Applied(Dropped(j))' /\ (Dropping(j)' => Dropped(j)' \notin state'[n].indexes)
    <3>1. PICK d : d = Dropped(j) /\ d = Dropped(j)' /\ d \in Calls \cup {NoIndex} /\ j \in Calls
      BY <1>1, DroppedCall, Zenon DEF Of
    <3>2. d \in Of(n)
      BY <1>1, <1>2, <1>9, <2>1, <3>1, Zenon DEF Of
    <3>3. Applied(d) /\ (Dropping(j) => d \notin state[n].indexes)
      BY <1>4, <3>1, <3>2, Zenon DEF DroppedInv
    <3>4. Applied(d)'
      BY <1>6, <3>2, <3>3, Zenon DEF Of
    <3> QED BY <1>1, <1>6, <3>1, <3>3, <3>4, Zenon
  <2>2. ASSUME Dropped(i)' \in Of(n)' PROVE Applied(Dropped(i))' /\ ~ Dropping(i)'
    <3>1. PICK d : d = Dropped(i)'
      BY Zenon
    <3>2. ~ Dropping(i)' /\ (d \in state[n].indexes \/ d = NoIndex)
      BY <3>1, Zenon DEF Born, Creates, Drops, Dropping, Dropped
    <3>3. d # NoIndex
      BY <1>9, <2>2, <3>1, Zenon DEF Of
    <3>4. d \in Calls /\ d \in Of(n)
      <4>1. d \in Calls
        BY <1>4, <3>2, <3>3, Zenon
      <4> QED BY <1>1, <1>2, <2>2, <3>1, <4>1, Zenon
    <3>5. Applied(d)'
      BY <1>4, <1>6, <3>2, <3>3, <3>4, Zenon DEF ListedInv
    <3> QED BY <3>1, <3>2, <3>5, Zenon
  <2> QED BY <1>2, <2>1, <2>2, Zenon DEF DroppedInv
<1> QED BY <1>3, <1>5, <1>7, <1>8, Zenon DEF BuildInv

\* Where the calls and their rows stay, a node may list less.
LEMMA BuildShrinks ==
  ASSUME TypeInv, BuildInv, UNCHANGED <<call, workload, rows, ready>>, NEW n \in Node,
         state'[n].indexes \cap Of(n) \subseteq state[n].indexes
  PROVE  ReadyInv(n)' /\ ListedInv(n)' /\ DroppedInv(n)'
<1>1. /\ ReadyInv(n) /\ ListedInv(n) /\ DroppedInv(n) /\ Of(n)' = Of(n)
      /\ \A k : Dropped(k)' = Dropped(k) /\ Dropping(k)' = Dropping(k) /\ Applied(k)' = Applied(k)
  BY Zenon DEF BuildInv, Of, Calls, Dropped, Dropping, Applied
<1>2. ReadyInv(n)'
  BY <1>1, Zenon DEF ReadyInv
<1>3. ListedInv(n)'
  BY <1>1, Zenon DEF ListedInv
<1> QED BY <1>1, <1>2, <1>3, Zenon DEF DroppedInv

\* A synchronization keeps BuildInv.
LEMMA SyncBuild ==
  ASSUME TypeInv, BuildInv, LoopFacts, NEW n, NEW p, NEW pc, SyncMove(n, p, pc)
  PROVE  BuildInv'
<1>1. /\ Shape /\ Static /\ OnlyNode(n) /\ n \in Node /\ p = sync[n].pc
      /\ UNCHANGED <<call, workload, rows, ready>>
  BY Zenon DEF TypeInv, SyncMove, SyncKeeps, Static
<1>2. state'[n].indexes \cap Of(n) \subseteq state[n].indexes
  <2>1. CASE p = "apply"
    <3>1. PICK st, e, m : st = state[n] /\ e = sync[n].entries /\ m = sync[n].from
      BY Zenon
    <3>2. state'[n] = ApplyEntries(st, e)
      BY <2>1, <3>1, Zenon DEF SyncMove, SyncSets
    <3>3. /\ m \in Node /\ m # n /\ e \in Seq(Index) /\ st \in State
          /\ \A i \in 1 .. Len(e) : e[i] \in LogSet(m)
      BY <1>1, <2>1, <3>1, Facts, Zenon DEF TypeInv, NodeInv, SyncInv
    <3>4. ApplyEntries(st, e).indexes \cap Of(n) \subseteq st.indexes
      BY <1>1, <3>3, ApplyForeign, Zenon
    <3> QED BY <3>1, <3>2, <3>4, Zenon
  <2>2. CASE p # "apply"
    BY <2>2, Zenon DEF SyncMove, SyncSets
  <2> QED BY <2>1, <2>2, Zenon
<1>3. \A m \in Node : state'[m].indexes \cap Of(m) \subseteq state[m].indexes
  BY <1>1, <1>2, Zenon DEF OnlyNode
<1> QED BY <1>1, <1>3, BuildShrinks, Zenon DEF BuildInv

\* Where all calls have ended and nothing is ready, nothing is to be shown.
LEMMA BuildEnded ==
  ASSUME Shape', NEW n \in Node, ready'[n] = {}, \A k \in Of(n)' : call'[k].pc \in Ended
  PROVE  ReadyInv(n)' /\ ListedInv(n)' /\ DroppedInv(n)'
<1>1. \A k \in Of(n)' : Applied(k)' /\ ~ Dropping(k)' /\ call'[k].pc # "ready"
  BY Zenon DEF Applied, Dropping, Ended, BeforeApply
<1> QED BY <1>1, Zenon DEF ReadyInv, ListedInv, DroppedInv

\* Neither a crash nor a restart breaks it.
LEMMA CrashBuild ==
  ASSUME TypeInv, BuildInv, NEW n, Crashed(n)
  PROVE  BuildInv'
<1>1. /\ Shape' /\ Static /\ OnlyNode(n) /\ n \in Node /\ Calls' = Calls /\ ready'[n] = {}
      /\ \A k \in Calls : call[k].node # n => call'[k] = call[k]
      /\ \A k \in Calls : call[k].node = n => call'[k].pc \in Ended
  BY Zenon DEF Crashed, SameBut, Ended
<1>2. \A m : Of(m)' = Of(m)
  BY <1>1, Zenon DEF Of, Static
<1>3. ASSUME NEW m \in Node, m # n PROVE ReadyInv(m)' /\ ListedInv(m)' /\ DroppedInv(m)'
  <2>1. state'[m] = state[m] /\ rows'[m] = rows[m] /\ ready'[m] = ready[m]
    BY <1>1, <1>3, Zenon DEF OnlyNode
  <2>2. \A j \in Of(m) : call'[j] = call[j]
    BY <1>1, <1>3, Zenon DEF Of
  <2> QED BY <1>1, <1>2, <2>1, <2>2, BuildKept, Zenon
<1>4. \A k \in Of(n)' : call'[k].pc \in Ended
  BY <1>1, <1>2, Zenon DEF Of
<1> QED BY <1>1, <1>3, <1>4, BuildEnded, Zenon DEF BuildInv

\* A restart finds no call of its node.
LEMMA RestartBuild ==
  ASSUME TypeInv, RunInv, BuildInv, NEW n, Restarted(n)
  PROVE  BuildInv'
<1>1. /\ Shape' /\ Static /\ OnlyNode(n) /\ n \in Node /\ n \notin up /\ UNCHANGED <<workload, call, rows, ready>>
  BY Zenon DEF Restarted, Static
<1>2. ready'[n] = {} /\ \A k \in Of(n)' : call'[k].pc \in Ended
  BY <1>1, Zenon DEF RunInv, Of, Calls
<1>3. \A m \in Node : m # n => state'[m].indexes \cap Of(m) \subseteq state[m].indexes
  BY <1>1, Zenon DEF OnlyNode
<1> QED BY <1>1, <1>2, <1>3, BuildEnded, BuildShrinks, Zenon DEF BuildInv

\* Every step keeps BuildInv.
LEMMA BuildStep ==
  ASSUME TypeInv, RunInv, BuildInv, LoopFacts, StepKind
  PROVE  BuildInv'
BY MoveBuild, BornBuild, SyncBuild, CrashBuild, RestartBuild, Zenon DEF StepKind

\* It says that what is served is built.
LEMMA BuildServed ==
  ASSUME TypeInv, BuildInv
  PROVE  ServedIsBuilt
<1> SUFFICES ASSUME NEW n \in up, NEW f \in Field, Served(n, f) \in state[n].indexes
             PROVE  Served(n, f) \in rows[n]
  BY Zenon DEF ServedIsBuilt
<1>1. n \in Node
  <2>1. up \subseteq workload.nodes /\ workload \in Workload
    BY SchemaAssumption, Zenon DEF TypeInv, Shape, WorkloadShape
  <2>2. workload.nodes \subseteq Node
    BY <2>1 DEF Workload
  <2> QED BY <2>1, <2>2
<1>2. state[n].indexes \subseteq Calls /\ NoIndex \notin Calls /\ ReadyInv(n) /\ ListedInv(n)
  BY <1>1, Listed, Zenon DEF BuildInv
<1>3. Served(n, f) \in ready[n]
  BY <1>2, Zenon DEF Served
<1> QED BY <1>2, <1>3, Zenon DEF ReadyInv, ListedInv

-----------------------------------------------------------------------------
\* Acknowledged indexes survive.  The indexes of node n in s that nobody dropped:
Mine(n, s) == (s.indexes \cap Of(n)) \ gone

\* A drop has a history; a state that a call or a synchronization is about to write has
\* no index of the node that the memory lacks; a create that is not yet acknowledged has
\* its index in memory, and one that is, also in the snapshot.
AckCall(k) ==
  LET n == call[k].node IN
  /\ call[k].op = "drop" => call[k].index \in gone
  /\ call[k].acked => snap[n] # NoState
  /\ call[k].image # NoState => n \in up /\ Mine(n, call[k].image) \subseteq state[n].indexes
  /\ call[k].op = "create" /\ call[k].pc \in {"save", "put"} /\ k \notin gone => k \in state[n].indexes
  /\ call[k].op = "create" /\ call[k].acked /\ k \notin gone /\ k \notin lost =>
       k \in snap[n].indexes /\ (n \in up => k \in state[n].indexes)

AckSync(n) == sync[n].image # NoState => Mine(n, sync[n].image) \subseteq state[n].indexes

AckInv == (\A k \in Calls : AckCall(k)) /\ \A n \in Node : AckSync(n)

\* Nothing is acknowledged at the start.
LEMMA AckInit ==
  ASSUME Init
  PROVE  AckInv
<1>1. Calls = {} /\ \A n \in Node : sync[n].image = NoState
  BY DEF Init, Calls, Idle
<1> QED BY <1>1, Zenon DEF AckInv, AckSync

\* It says that acknowledged indexes survive.
LEMMA AckSurvives ==
  ASSUME AckInv
  PROVE  AckedSurvives
<1> SUFFICES ASSUME NEW k \in Calls, call[k].op = "create", call[k].acked, k \notin gone \cup lost
             PROVE  /\ k \in Restored(call[k].node).indexes
                    /\ call[k].node \in up => k \in state[call[k].node].indexes
  BY Zenon DEF AckedSurvives
<1>1. AckCall(k)
  BY Zenon DEF AckInv
<1>2. snap[call[k].node] # NoState /\ k \in snap[call[k].node].indexes
  BY <1>1, Zenon DEF AckCall
<1> QED BY <1>1, <1>2, Zenon DEF AckCall, Restored

\* What steps do to memory and snapshot of a node: only dropped indexes leave the memory, and
\* a snapshot that lacks an index of the memory is noted.
KeepsMine(m) == (state[m].indexes \cap Of(m)) \ gone' \subseteq state'[m].indexes

SavesMine(m) ==
  \/ snap'[m] = snap[m] /\ lost \cap Of(m) \subseteq lost'
  \/ /\ m \in up /\ snap'[m] \in State /\ snap'[m] # NoState /\ state'[m] = state[m]
     /\ Mine(m, snap'[m]) \subseteq state[m].indexes
     /\ (lost \cup state[m].indexes) \cap Of(m) \subseteq lost' \cup snap'[m].indexes

\* What WriteSnapshot does to them.
LEMMA SnapSaves ==
  ASSUME NEW n, n \in up, NEW i \in State, i # NoState, WriteSnapshot(n, i), snap'[n] = i, state'[n] = state[n],
         Mine(n, i) \subseteq state[n].indexes, OnlyNode(n)
  PROVE  \A m \in Node : SavesMine(m)
<1>1. lost' = (lost \cup (state[n].indexes \cap Of(n))) \ (i.indexes \cap Of(n))
  BY Zenon DEF WriteSnapshot
<1>2. SavesMine(n)
  BY <1>1, Zenon DEF SavesMine
<1>3. ASSUME NEW m \in Node, m # n PROVE SavesMine(m)
  <2>1. snap'[m] = snap[m]
    BY <1>3, Zenon DEF OnlyNode
  <2>2. Of(m) \cap Of(n) = {}
    BY <1>3, Zenon DEF Of
  <2>3. lost \cap Of(m) \subseteq lost'
    BY <1>1, <2>2, Zenon
  <2> QED BY <2>1, <2>3, Zenon DEF SavesMine
<1> QED BY <1>2, <1>3, Zenon

\* A step of a node that is up, of this kind.
AckStep == /\ Static /\ gone \subseteq gone' /\ up' = up
           /\ \A m \in Node : KeepsMine(m) /\ SavesMine(m)

\* What a state that is about to be written lists stays in memory.
LEMMA MineKept ==
  ASSUME TypeInv, AckStep, NEW n \in Node, NEW s \in Image, s # NoState, Lists(s),
         Mine(n, s) \subseteq state[n].indexes
  PROVE  Mine(n, s)' \subseteq state'[n].indexes
<1>1. s.indexes \subseteq Calls
  BY Zenon DEF Lists, Listable
<1>2. s.indexes \cap Of(n)' = s.indexes \cap Of(n)
  BY <1>1, Zenon DEF Of, AckStep, Static
<1>3. ASSUME NEW x \in s.indexes, x \in Of(n)', x \notin gone' PROVE x \in state'[n].indexes
  <2>1. x \in Of(n) /\ x \notin gone
    BY <1>2, <1>3, Zenon DEF AckStep
  <2>2. x \in state[n].indexes
    BY <1>3, <2>1, Zenon DEF Mine
  <2> QED BY <1>3, <2>1, <2>2, Zenon DEF AckStep, KeepsMine
<1> QED BY <1>3, Zenon DEF Mine

\* An acknowledged index stays in both.
LEMMA AckedKept ==
  ASSUME TypeInv, AckStep, NEW n \in Node, NEW k \in Of(n), k \notin gone', k \notin lost',
         k \notin gone /\ k \notin lost => (n \in up => k \in state[n].indexes),
         \/ k \in state[n].indexes /\ snap'[n] # snap[n]
         \/ k \notin gone /\ k \notin lost => k \in snap[n].indexes
  PROVE  k \in snap'[n].indexes /\ (n \in up' => k \in state'[n].indexes)
<1>1. k \notin gone /\ up' = up /\ KeepsMine(n) /\ SavesMine(n)
  BY Zenon DEF AckStep
<1>2. CASE snap'[n] = snap[n] /\ lost \cap Of(n) \subseteq lost'
  <2>1. k \notin lost
    BY <1>2, Zenon
  <2>2. k \in snap'[n].indexes /\ (n \in up => k \in state[n].indexes)
    BY <1>1, <1>2, <2>1, Zenon
  <2> QED BY <1>1, <2>2, Zenon DEF KeepsMine
<1>3. CASE /\ n \in up /\ snap'[n] \in State /\ snap'[n] # NoState /\ state'[n] = state[n]
           /\ Mine(n, snap'[n]) \subseteq state[n].indexes
           /\ (lost \cup state[n].indexes) \cap Of(n) \subseteq lost' \cup snap'[n].indexes
  <2>1. k \in lost \/ k \in state[n].indexes
    BY <1>1, <1>3, Zenon
  <2>2. k \in snap'[n].indexes
    BY <1>3, <2>1, Zenon
  <2>3. k \in state[n].indexes
    BY <1>1, <1>3, <2>2, Zenon DEF Mine
  <2> QED BY <1>3, <2>2, <2>3, Zenon
<1> QED BY <1>1, <1>2, <1>3, Zenon DEF SavesMine

\* Calls that do not move, and synchronizations whose image is none or the same.
LEMMA AckKept ==
  ASSUME TypeInv, AckInv, AckStep
  PROVE  /\ \A k \in Calls : call'[k] = call[k] => AckCall(k)'
         /\ \A n \in Node : sync'[n].image \in {sync[n].image, NoState} => AckSync(n)'
<1>1. ASSUME NEW k \in Calls, call'[k] = call[k] PROVE AckCall(k)'
  <2>1. PICK n : n = call[k].node /\ n \in Node /\ k \in Of(n)
    BY Facts, Zenon DEF TypeInv, Of
  <2>2. PICK r : r = call[k] /\ r = call'[k] /\ r.image \in Image /\ Lists(r.image) /\ r.node = n
    BY <1>1, <2>1, Facts, Zenon DEF TypeInv, CallInv
  <2>3. AckCall(k) /\ KeepsMine(n) /\ SavesMine(n) /\ gone \subseteq gone' /\ up' = up
    BY <2>1, Zenon DEF AckInv, AckStep
  <2>4. r.op = "drop" => r.index \in gone'
    BY <2>2, <2>3, Zenon DEF AckCall
  <2>5. r.acked => snap'[n] # NoState
    BY <2>2, <2>3, Zenon DEF AckCall, SavesMine
  <2>6. r.image # NoState => n \in up' /\ Mine(n, r.image)' \subseteq state'[n].indexes
    <3>1. r.image # NoState => n \in up /\ Mine(n, r.image) \subseteq state[n].indexes
      BY <2>2, <2>3, Zenon DEF AckCall
    <3>2. PICK i : i = r.image
      BY Zenon
    <3>3. i # NoState => Mine(n, i)' \subseteq state'[n].indexes
      BY <2>1, <2>2, <3>1, <3>2, MineKept, Zenon
    <3> QED BY <2>2, <2>3, <3>1, <3>2, <3>3, Zenon DEF Mine
  <2>7. r.op = "create" /\ r.pc \in {"save", "put"} /\ k \notin gone' => k \in state'[n].indexes
    BY <2>1, <2>2, <2>3, Zenon DEF AckCall, KeepsMine
  <2>8. ASSUME r.op = "create", r.acked, k \notin gone', k \notin lost'
        PROVE  k \in snap'[n].indexes /\ (n \in up' => k \in state'[n].indexes)
    <3>1. k \notin gone /\ k \notin lost => k \in snap[n].indexes /\ (n \in up => k \in state[n].indexes)
      BY <2>2, <2>3, <2>8, Zenon DEF AckCall
    <3> QED BY <2>1, <2>8, <3>1, AckedKept, Zenon
  <2> QED BY <2>2, <2>4, <2>5, <2>6, <2>7, <2>8, Zenon DEF AckCall
<1>2. ASSUME NEW n \in Node, sync'[n].image \in {sync[n].image, NoState} PROVE AckSync(n)'
  <2>1. PICK i : i = sync[n].image /\ i \in Image /\ Lists(i) /\ (i # NoState => Mine(n, i) \subseteq state[n].indexes)
    BY Facts, Zenon DEF TypeInv, NodeInv, SyncInv, AckInv, AckSync
  <2>2. i # NoState => Mine(n, i)' \subseteq state'[n].indexes
    BY <2>1, MineKept, Zenon
  <2>3. sync'[n].image = i \/ sync'[n].image = NoState
    BY <1>2, <2>1, Zenon
  <2> QED BY <2>2, <2>3, Zenon DEF AckSync, Mine
<1> QED BY <1>1, <1>2, Zenon

\* A move is such a step.
LEMMA MoveAckStep ==
  ASSUME TypeInv, RunInv, AckInv, NEW k \in Calls, NEW n, NEW p, NEW pc, Move(k, n, p, pc)
  PROVE  AckStep
<1>1. /\ Static /\ OnlyNode(n) /\ up' = up /\ n \in Node /\ n \in up /\ n = call[k].node /\ p = call[k].pc
      /\ CallInv(k) /\ AckCall(k) /\ call[k].image \in Image /\ call[k].op \in {"create", "drop"}
  BY MoveUp, Facts, Zenon DEF Move, CallMove, TypeInv, AckInv
<1>2. gone \subseteq gone' /\ (p = "swap" => call[k].old \in gone')
  BY Zenon DEF Move, MoveMemory
<1>3. KeepsMine(n)
  <2>1. CASE p = "apply"
    <3>1. state'[n] = ApplyEntry(state[n], call[k])
      BY <2>1, Zenon DEF Move, MoveMemory
    <3>2. state'[n].indexes = IF call[k].op = "create" THEN state[n].indexes \cup {call[k].index}
                              ELSE state[n].indexes \ {call[k].index}
      BY <3>1 DEF ApplyEntry
    <3>3. call[k].op # "create" => call[k].index \in gone'
      BY <1>1, <1>2, Zenon DEF AckCall
    <3> QED BY <3>2, <3>3, Zenon DEF KeepsMine
  <2>2. CASE p = "swap"
    <3>1. state'[n] = Swapped(k, n)
      BY <2>2, Zenon DEF Move, MoveMemory
    <3>2. state'[n].indexes = state[n].indexes \ {call[k].old}
      BY <3>1 DEF Swapped
    <3> QED BY <1>2, <2>2, <3>2, Zenon DEF KeepsMine
  <2>3. CASE p \notin {"apply", "swap"}
    BY <2>3, Zenon DEF KeepsMine, Move, MoveMemory
  <2> QED BY <2>1, <2>2, <2>3, Zenon
<1>4. \A m \in Node : m # n => KeepsMine(m)
  BY <1>1, Zenon DEF OnlyNode, KeepsMine
<1>5. \A m \in Node : SavesMine(m)
  <2>1. CASE p \in {"put", "reput"} /\ pc # "failed"
    <3>1. PICK i : i = call[k].image
      BY Zenon
    <3>2. i \in State /\ i # NoState /\ Mine(n, i) \subseteq state[n].indexes
      BY <1>1, <2>1, <3>1, Zenon DEF CallInv, AckCall, Image
    <3>3. WriteSnapshot(n, i) /\ snap'[n] = i /\ state'[n] = state[n]
      BY <2>1, <3>1, Zenon DEF Move, MoveSnap, MoveMemory
    <3> QED BY <1>1, <3>2, <3>3, SnapSaves, Zenon
  <2>2. CASE ~ (p \in {"put", "reput"} /\ pc # "failed")
    <3>1. lost' = lost /\ snap'[n] = snap[n]
      BY <2>2, Zenon DEF Move, MoveSnap
    <3> QED BY <1>1, <3>1, Zenon DEF SavesMine, OnlyNode
  <2> QED BY <2>1, <2>2, Zenon
<1> QED BY <1>1, <1>2, <1>3, <1>4, <1>5, Zenon DEF AckStep

\* The call that moves keeps its part of the invariant.
LEMMA MoveAck ==
  ASSUME TypeInv, RunInv, AckInv, NEW k \in Calls, NEW n, NEW p, NEW pc, Move(k, n, p, pc)
  PROVE  AckInv'
<1>1. AckStep
  BY MoveAckStep, Zenon
<1>2. /\ Static /\ OnlyNode(n) /\ up' = up /\ n \in Node /\ n \in up /\ n = call[k].node /\ p = call[k].pc
      /\ CallInv(k) /\ AckCall(k) /\ call[k].image \in Image /\ k \in Of(n) /\ sync' = sync
      /\ Calls' = Calls /\ (\A j \in Calls : j # k => call'[j] = call[j]) /\ pc = call'[k].pc
  BY MoveUp, Facts, Zenon DEF Move, CallMove, TypeInv, AckInv, Of
<1>3. /\ call'[k].node = n /\ call'[k].op = call[k].op /\ call'[k].index = call[k].index
      /\ KeepsMine(n) /\ SavesMine(n) /\ gone \subseteq gone'
  BY <1>1, <1>2, Zenon DEF Static, AckStep
<1>4. call'[k].op = "drop" => call'[k].index \in gone'
  BY <1>2, <1>3, Zenon DEF AckCall
<1>5. call'[k].acked => snap'[n] # NoState
  <2>1. CASE p = "put" /\ pc # "failed"
    BY <1>2, <2>1, Zenon DEF Move, MoveSnap, CallInv
  <2>2. CASE ~ (p = "put" /\ pc # "failed")
    BY <1>2, <1>3, <2>2, Zenon DEF Move, MoveSnap, AckCall, SavesMine
  <2> QED BY <2>1, <2>2, Zenon
<1>6. call'[k].image # NoState => n \in up' /\ Mine(n, call[k].image)' \subseteq state'[n].indexes
  <2>1. PICK i : i = call'[k].image
    BY Zenon
  <2>2. CASE p \in {"save", "resave"}
    <3>1. i = state[n] /\ state'[n] = state[n]
      BY <2>1, <2>2, Zenon DEF Move, MoveSnap, MoveMemory
    <3>2. Mine(n, i)' \subseteq state'[n].indexes
      BY <3>1, Zenon DEF Mine
    <3> QED BY <1>2, <2>1, <3>2, Zenon DEF Mine
  <2>3. CASE p \notin {"save", "resave"} /\ i # NoState
    <3>1. i = call[k].image
      BY <2>1, <2>3, Zenon DEF Move, MoveSnap
    <3>2. Mine(n, i) \subseteq state[n].indexes /\ i \in Image /\ Lists(i)
      BY <1>2, <2>3, <3>1, Zenon DEF AckCall, CallInv
    <3>3. Mine(n, i)' \subseteq state'[n].indexes
      BY <1>1, <1>2, <2>3, <3>2, MineKept, Zenon
    <3> QED BY <1>2, <2>1, <3>3, Zenon DEF Mine
  <2> QED BY <2>1, <2>2, <2>3, Zenon
<1>7. ASSUME call'[k].op = "create", pc \in {"save", "put"}, k \notin gone' PROVE k \in state'[n].indexes
  <2>1. CASE p = "apply"
    <3>1. state'[n] = ApplyEntry(state[n], call[k])
      BY <2>1, Zenon DEF Move, MoveMemory
    <3>3. call[k].op = "create"
      BY <1>3, <1>7, Zenon
    <3>2. state'[n].indexes = state[n].indexes \cup {call[k].index}
      BY <3>1, <3>3 DEF ApplyEntry
    <3> QED BY <1>2, <1>3, <1>7, <3>2, Zenon DEF CallInv
  <2>2. CASE p # "apply"
    <3>1. p = "save"
      BY <1>7, <2>2, Zenon DEF Move, Route
    <3> QED BY <1>2, <1>3, <1>7, <3>1, Zenon DEF AckCall, KeepsMine
  <2> QED BY <2>1, <2>2, Zenon
<1>8. ASSUME call'[k].op = "create", call'[k].acked, k \notin gone', k \notin lost'
      PROVE  k \in snap'[n].indexes /\ (n \in up' => k \in state'[n].indexes)
  <2>1. CASE p = "put" /\ pc # "failed"
    <3>1. PICK i : i = call[k].image /\ i # NoState
      BY <1>2, <2>1, Zenon DEF CallInv
    <3>2. WriteSnapshot(n, i) /\ snap'[n] = i /\ state'[n] = state[n]
      BY <2>1, <3>1, Zenon DEF Move, MoveSnap, MoveMemory
    <3>3. k \in state[n].indexes
      BY <1>2, <1>3, <1>8, <2>1, Zenon DEF AckCall
    <3>4. k \in i.indexes
      BY <1>2, <1>8, <3>2, <3>3, Zenon DEF WriteSnapshot
    <3> QED BY <3>2, <3>3, <3>4, Zenon
  <2>2. CASE ~ (p = "put" /\ pc # "failed")
    <3>1. call[k].acked
      BY <1>8, <2>2, Zenon DEF Move, MoveSnap
    <3>2. k \notin gone /\ k \notin lost => k \in snap[n].indexes /\ (n \in up => k \in state[n].indexes)
      BY <1>2, <1>3, <1>8, <3>1, Zenon DEF AckCall
    <3> QED BY <1>1, <1>2, <1>8, <3>2, AckedKept, Zenon
  <2> QED BY <2>1, <2>2, Zenon
<1>9. AckCall(k)'
  BY <1>2, <1>3, <1>4, <1>5, <1>6, <1>7, <1>8, Zenon DEF AckCall
<1> QED BY <1>1, <1>2, <1>9, AckKept, Zenon DEF AckInv

\* The start of a call keeps it: a drop is noted in the history.
LEMMA BornAck ==
  ASSUME TypeInv, AckInv, NEW n, NEW i, Born(n, i)
  PROVE  AckInv'
<1>1. /\ Static /\ up' = up /\ Calls' = Calls \cup {i} /\ (\A j \in Calls : call'[j] = call[j])
      /\ gone \subseteq gone' /\ sync' = sync /\ state' = state /\ snap' = snap /\ lost' = lost
  BY Zenon DEF Born, Creates, Drops
<1>2. AckStep
  BY <1>1, Zenon DEF AckStep, KeepsMine, SavesMine
<1>3. AckCall(i)'
  BY Zenon DEF AckCall, Born, Creates, Drops
<1> QED BY <1>1, <1>2, <1>3, AckKept, Zenon DEF AckInv

\* Entries that are fetched drop only what is gone.
LEMMA ApplyKeeps ==
  ASSUME TypeInv, AckInv, LoopFacts, NEW n \in Node, NEW e \in Seq(Index), NEW m \in Node,
         \A i \in 1 .. Len(e) : e[i] \in LogSet(m)
  PROVE  Mine(n, state[n]) \subseteq ApplyEntries(state[n], e).indexes
<1>1. PICK S : S = {s \in State : Mine(n, state[n]) \subseteq s.indexes}
  BY Zenon
<1>2. PICK st : st = state[n] /\ st \in S
  BY <1>1, Listed, Zenon DEF Mine
<1>3. ASSUME NEW s \in S, NEW i \in 1 .. Len(e) PROVE ApplyNewer(s, call[e[i]]) \in S
  <2>1. PICK k, r : k = e[i] /\ r = call[k]
    BY Zenon
  <2>2. k \in Calls /\ AckCall(k) /\ r \in CallRec /\ r.op \in {"create", "drop"}
    BY <2>1, Facts, Zenon DEF TypeInv, NodeInv, Of, AckInv
  <2>3. r.op # "create" => r.index \in gone
    BY <2>1, <2>2, Zenon DEF AckCall
  <2>4. s \in State /\ Mine(n, state[n]) \subseteq s.indexes
    BY <1>1, Zenon
  <2>5. ApplyNewer(s, r) \in State
    BY <2>2, <2>4, ApplyEntryState, Zenon
  <2>6. ApplyEntry(s, r).indexes = IF r.op = "create" THEN s.indexes \cup {r.index} ELSE s.indexes \ {r.index}
    BY DEF ApplyEntry
  <2>7. Mine(n, state[n]) \subseteq ApplyNewer(s, r).indexes
    BY <2>3, <2>4, <2>6, Zenon DEF ApplyNewer, Mine
  <2> QED BY <1>1, <2>1, <2>5, <2>7, Zenon
<1>4. ApplyEntries(st, e) \in S
  BY <1>2, <1>3, Zenon DEF LoopFacts
<1> QED BY <1>1, <1>2, <1>4, Zenon

\* A synchronization keeps AckInv.
LEMMA SyncAck ==
  ASSUME TypeInv, AckInv, LoopFacts, NEW n, NEW p, NEW pc, SyncMove(n, p, pc)
  PROVE  AckInv'
<1>1. /\ Static /\ OnlyNode(n) /\ n \in Node /\ n \in up /\ p = sync[n].pc /\ pc = sync'[n].pc
      /\ call' = call /\ up' = up /\ gone' = gone /\ Calls' = Calls /\ SyncInv(n) /\ AckSync(n)
  BY Zenon DEF SyncMove, SyncKeeps, Calls, TypeInv, NodeInv, AckInv
<1>2. KeepsMine(n)
  <2>1. CASE p = "apply"
    <3>1. PICK e, m : e = sync[n].entries /\ m = sync[n].from
      BY Zenon
    <3>2. state'[n] = ApplyEntries(state[n], e)
      BY <2>1, <3>1, Zenon DEF SyncMove, SyncSets
    <3>3. m \in Node /\ e \in Seq(Index) /\ \A i \in 1 .. Len(e) : e[i] \in LogSet(m)
      BY <1>1, <3>1, Facts, Zenon DEF TypeInv, SyncInv
    <3>4. Mine(n, state[n]) \subseteq ApplyEntries(state[n], e).indexes
      BY <1>1, <3>3, ApplyKeeps, Zenon
    <3> QED BY <1>1, <3>2, <3>4, Zenon DEF KeepsMine, Mine
  <2>2. CASE p # "apply"
    BY <2>2, Zenon DEF KeepsMine, SyncMove, SyncSets
  <2> QED BY <2>1, <2>2, Zenon
<1>3. \A m \in Node : m # n => KeepsMine(m)
  BY <1>1, Zenon DEF OnlyNode, KeepsMine
<1>4. \A m \in Node : SavesMine(m)
  <2>1. CASE p = "put" /\ WriteSnapshot(n, sync[n].image) /\ snap'[n] = sync[n].image
    <3>1. PICK i : i = sync[n].image
      BY Zenon
    <3>2. i \in State /\ i # NoState /\ Mine(n, i) \subseteq state[n].indexes
      BY <1>1, <2>1, <3>1, Facts, Zenon DEF TypeInv, SyncInv, AckSync, Image
    <3>3. WriteSnapshot(n, i) /\ snap'[n] = i /\ state'[n] = state[n]
      BY <2>1, <3>1, Zenon DEF SyncMove, SyncSets
    <3> QED BY <1>1, <3>2, <3>3, SnapSaves, Zenon
  <2>2. CASE UNCHANGED <<snap, lost>>
    BY <2>2, Zenon DEF SavesMine
  <2> QED BY <2>1, <2>2, Zenon DEF SyncMove, SyncSets
<1>5. AckStep
  BY <1>1, <1>2, <1>3, <1>4, Zenon DEF AckStep
<1>6. AckSync(n)'
  <2>1. CASE pc = "put"
    <3>1. sync'[n].image = state[n] /\ state'[n] = state[n]
      BY <1>1, <2>1, Zenon DEF SyncMove, SyncSets, SyncRoute
    <3> QED BY <3>1, Zenon DEF AckSync, Mine
  <2>2. CASE pc # "put"
    <3>1. sync'[n].image \in {sync[n].image, NoState}
      BY <2>2, Zenon DEF SyncMove, SyncSets
    <3> QED BY <1>1, <1>5, <3>1, AckKept, Zenon
  <2> QED BY <2>1, <2>2, Zenon
<1>7. \A m \in Node : m # n => AckSync(m)'
  BY <1>1, <1>5, AckKept, Zenon DEF OnlyNode
<1> QED BY <1>1, <1>5, <1>6, <1>7, AckKept, Zenon DEF AckInv

\* A node that a crash or a restart of another one leaves alone.
LEMMA AckOther ==
  ASSUME AckInv, Static, Calls' = Calls, UNCHANGED <<gone, lost>>, NEW n, OnlyNode(n),
         NEW m \in Node, m # n, m \in up' <=> m \in up
  PROVE  /\ \A k \in Of(m) : call'[k] = call[k] => AckCall(k)'
         /\ AckSync(m)'
<1>1. Of(m)' = Of(m) /\ state'[m] = state[m] /\ snap'[m] = snap[m] /\ sync'[m] = sync[m]
  BY Zenon DEF Of, Static, OnlyNode
<1>2. \A s : Mine(m, s)' = Mine(m, s)
  BY <1>1, Zenon DEF Mine
<1>3. ASSUME NEW k \in Of(m), call'[k] = call[k] PROVE AckCall(k)'
  <2>1. AckCall(k) /\ call[k].node = m
    BY Zenon DEF AckInv, Of
  <2>2. PICK i : i = call[k].image
    BY Zenon
  <2>3. Mine(m, call[k].image)' = Mine(m, i)
    BY <1>2, <1>3, <2>2, Zenon DEF Mine
  <2> QED BY <1>1, <1>3, <2>1, <2>2, <2>3, Zenon DEF AckCall
<1>4. AckSync(m)'
  <2>1. AckSync(m)
    BY Zenon DEF AckInv
  <2>2. Mine(m, sync[m].image)' = Mine(m, sync[m].image)
    BY <1>1, Zenon DEF Mine
  <2> QED BY <1>1, <2>1, <2>2, Zenon DEF AckSync
<1> QED BY <1>3, <1>4, Zenon

\* A crash keeps AckInv: it takes the memory, and leaves the snapshot.
LEMMA CrashAck ==
  ASSUME TypeInv, AckInv, NEW n, Crashed(n)
  PROVE  AckInv'
<1>1. /\ Static /\ OnlyNode(n) /\ Calls' = Calls /\ n \notin up' /\ n \in Node
      /\ \A m \in Node : m # n => (m \in up' <=> m \in up)
      /\ UNCHANGED <<gone, lost, snap>> /\ sync'[n].image = NoState
      /\ \A k \in Calls : IF call[k].node = n
                          THEN SameBut(call'[k], call[k], call[k].version, "done", call[k].acked, NoState)
                          ELSE call'[k] = call[k]
  BY Zenon DEF Crashed
<1>2. ASSUME NEW k \in Calls, call[k].node = n PROVE AckCall(k)'
  <2>1. /\ call'[k].op = call[k].op /\ call'[k].node = n /\ call'[k].index = call[k].index
        /\ call'[k].pc = "done" /\ call'[k].acked = call[k].acked /\ call'[k].image = NoState
    BY <1>1, <1>2, Zenon DEF SameBut
  <2>2. AckCall(k)
    BY Zenon DEF AckInv
  <2> QED BY <1>1, <1>2, <2>1, <2>2, Zenon DEF AckCall
<1>3. ASSUME NEW k \in Calls, call[k].node # n PROVE AckCall(k)'
  <2>1. PICK m : m = call[k].node /\ m \in Node /\ k \in Of(m)
    BY Facts, Zenon DEF TypeInv, Of
  <2> QED BY <1>1, <1>3, <2>1, AckOther, Zenon
<1>4. AckSync(n)'
  BY <1>1, Zenon DEF AckSync
<1> QED BY <1>1, <1>2, <1>3, <1>4, AckOther, Zenon DEF AckInv

\* A restart keeps it: it reads the snapshot that a node with an acknowledged call has.
LEMMA RestartAck ==
  ASSUME TypeInv, RunInv, AckInv, NEW n, Restarted(n)
  PROVE  AckInv'
<1>1. /\ Static /\ OnlyNode(n) /\ Calls' = Calls /\ n \notin up /\ n \in Node /\ call' = call /\ sync' = sync
      /\ \A m \in Node : m # n => (m \in up' <=> m \in up)
      /\ UNCHANGED <<gone, lost>> /\ state'[n] = Restored(n)
      /\ (snap'[n] = snap[n] \/ snap[n] = NoState)
  BY Zenon DEF Restarted, Calls
<1>2. ASSUME NEW k \in Calls, call[k].node = n PROVE AckCall(k)'
  <2>1. AckCall(k) /\ call[k].pc \in Ended
    BY <1>1, <1>2, Zenon DEF AckInv, RunInv
  <2>2. call[k].image = NoState /\ (call[k].acked => snap[n] # NoState) /\ call[k].pc \notin {"save", "put"}
    BY <1>1, <1>2, <2>1, Zenon DEF AckCall, Ended
  <2>3. call[k].acked => snap'[n] = snap[n] /\ state'[n] = snap[n]
    BY <1>1, <2>2, Zenon DEF Restored
  <2> QED BY <1>1, <1>2, <2>1, <2>2, <2>3, Zenon DEF AckCall
<1>3. ASSUME NEW k \in Calls, call[k].node # n PROVE AckCall(k)'
  <2>1. PICK m : m = call[k].node /\ m \in Node /\ k \in Of(m)
    BY Facts, Zenon DEF TypeInv, Of
  <2> QED BY <1>1, <1>3, <2>1, AckOther, Zenon
<1>4. AckSync(n)'
  BY <1>1, Zenon DEF AckSync, RunInv
<1> QED BY <1>1, <1>2, <1>3, <1>4, AckOther, Zenon DEF AckInv

\* Every step keeps AckInv.
LEMMA AckNext ==
  ASSUME TypeInv, RunInv, AckInv, LoopFacts, StepKind
  PROVE  AckInv'
BY MoveAck, BornAck, SyncAck, CrashAck, RestartAck, Zenon DEF StepKind

=============================================================================
