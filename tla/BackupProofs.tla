---------------------------- MODULE BackupProofs -----------------------------
(***************************************************************************)
(* Backup for every database and retention, any number of snapshots and    *)
(* calls and any crashes: what the files of a snapshot hold (BackupInv),   *)
(* what the batches of a restore do to the database, and what a restore    *)
(* knows of it (RestoreInv).  The files of a snapshot agree and are kept   *)
(* for the retention, and restores are exact.                              *)
(***************************************************************************)
EXTENDS Backup, FiniteSetTheorems, WellFoundedInduction, TLAPS

-----------------------------------------------------------------------------
(* Snapshots.                                                              *)

\* A set of numbers that is not empty has a least one: the snapshot that
\* prune_retention deletes next exists.
LEMMA LeastOf ==
  ASSUME NEW T \in SUBSET Nat, T # {}
  PROVE  \E x \in T : \A y \in T : x <= y
<1>1. IsWellFoundedOn(OpToRel(<, Nat), Nat)
  BY Zenon, NatLessThanWellFounded
<1>2. PICK x \in T : \A y \in T : ~(<<y, x>> \in OpToRel(<, Nat))
  BY Zenon, <1>1, WFMin
<1>3. \A y \in T : ~(y < x)
  BY Zenon, <1>2 DEF OpToRel
<1> QED BY <1>3

\* create_snapshot up to the manifest.
Making == {"checkpoint", "dump", "data", "manifest"}

\* A call in progress.  While a snapshot is made there is no manifest of it, and once
\* its data.json is there that is what the manifest will describe, unless the
\* directory has been deleted; what is being pruned is too old.
CallOk(j) ==
  /\ DOMAIN job[j] = DOMAIN NoJob /\ job[j].id \in Time
  /\ (job[j].pc \in Making /\ job[j].id \notin reused) =>
       /\ job[j].call = "create"
       /\ disk[job[j].id].manifest = Nothing
       /\ (job[j].pc = "manifest" /\ disk[job[j].id].exists) => disk[job[j].id].data = job[j].dump
  /\ job[j].pc = "pruning" => \A id \in job[j].todo : id \in Time /\ id + Retention < now

\* A directory is complete only with files that agree.
DirOk(id) ==
  /\ DOMAIN disk[id] = DOMAIN NoDir
  /\ ~disk[id].exists => disk[id].manifest = Nothing
  /\ (Readable(id) /\ id \notin reused) => disk[id].manifest = Checksums(disk[id].data)

\* Two calls make the same snapshot only if it was begun twice in one second.
Alone ==
  \A i, j \in Caller :
    (i # j /\ job[i].pc \in Making /\ job[j].pc \in Making /\ job[i].id = job[j].id)
      => job[i].id \in reused

BackupInv ==
  /\ now \in Time /\ DOMAIN disk = Time /\ DOMAIN job = Caller
  /\ \A j \in Caller : CallOk(j)
  /\ \A id \in Time : DirOk(id)
  /\ Alone

\* An engine that starts has no snapshots and no calls.
LEMMA BackupStarts == BackupInit => BackupInv
<1> SUFFICES ASSUME BackupInit PROVE BackupInv
  OBVIOUS
<1>1. 1 \in Time
  BY BackupAssumption DEF Time
<1> QED BY <1>1 DEF BackupInit, BackupInv, CallOk, DirOk, Alone, Readable, NoJob, NoDir, Making

\* A step that leaves the directories alone: each call goes on as it was, or is at a
\* place where it neither makes nor prunes a snapshot.
LEMMA DiskKept ==
  ASSUME BackupInv, disk' = disk, reused' = reused, now' \in Time, now <= now',
         DOMAIN job' = Caller,
         \A j \in Caller :
           /\ DOMAIN job'[j] = DOMAIN NoJob /\ job'[j].id \in Time
           /\ \/ job'[j].pc \notin Making \cup {"pruning"}
              \/ /\ job'[j].pc = job[j].pc /\ job'[j].id = job[j].id
                 /\ job'[j].call = job[j].call /\ job'[j].dump = job[j].dump
                 /\ job'[j].todo = job[j].todo
  PROVE  BackupInv'
<1>1. ASSUME NEW j \in Caller PROVE CallOk(j)'
  <2>1. CASE job'[j].pc \notin Making \cup {"pruning"}
    BY <2>1 DEF CallOk, Making
  <2>2. CASE /\ job'[j].pc = job[j].pc /\ job'[j].id = job[j].id
             /\ job'[j].call = job[j].call /\ job'[j].dump = job[j].dump
             /\ job'[j].todo = job[j].todo
    <3>1. CallOk(j)
      BY DEF BackupInv
    <3>2. ASSUME job[j].pc = "pruning"
          PROVE  \A id \in job[j].todo : id \in Time /\ id + Retention < now'
      BY <3>1, <3>2, BackupAssumption DEF CallOk, Time, BackupInv
    <3> QED BY Zenon, <2>2, <3>1, <3>2 DEF CallOk
  <2> QED BY <2>1, <2>2
<1>2. \A id \in Time : DirOk(id)'
  BY Zenon DEF BackupInv, DirOk, Readable
<1>3. Alone'
  BY Zenon DEF BackupInv, Alone
<1> QED BY Zenon, <1>1, <1>2, <1>3 DEF BackupInv

\* A call that returns.
LEMMA ReturnKeeps ==
  ASSUME BackupInv, NEW j \in Caller, NEW ok, Return(j, ok), UNCHANGED <<disk, reused, now>>
  PROVE  BackupInv'
<1>1. DOMAIN job' = Caller /\ \A i \in Caller \ {j} : job'[i] = job[i]
  BY DEF Return, BackupInv
<1>2. /\ DOMAIN job'[j] = DOMAIN NoJob /\ job'[j].id \in Time
      /\ job'[j].pc = "end"
  BY BackupAssumption DEF Return, BackupInv, CallOk, NoJob, Time
<1>3. \A i \in Caller : CallOk(i)
  BY DEF BackupInv
<1>4. now' \in Time /\ now <= now'
  BY DEF BackupInv, Time
<1> QED BY <1>1, <1>2, <1>3, <1>4, DiskKept DEF CallOk, Making

\* create_snapshot begins under the name of the second: no other call makes that
\* snapshot and no directory of it is left, or it counts as begun twice.
LEMMA BeginCreateKeeps ==
  ASSUME BackupInv, NEW j \in Caller, BeginCreate(j)
  PROVE  BackupInv'
<1>1. /\ ~Running(j) /\ disk' = disk /\ now' = now /\ now \in Time
      /\ job' = [job EXCEPT ![j] = [NoJob EXCEPT !.call = "create", !.pc = "checkpoint", !.id = now,
                                                 !.quiet = TRUE]]
      /\ reused' = IF \/ disk[now].exists
                      \/ \E i \in Caller : Running(i) /\ job[i].call = "create" /\ job[i].id = now
                   THEN reused \cup {now} ELSE reused
  BY DEF BeginCreate, Start, BackupInv
<1>2. /\ DOMAIN job' = Caller /\ \A i \in Caller \ {j} : job'[i] = job[i]
      /\ DOMAIN job'[j] = DOMAIN NoJob /\ job'[j].id = now
      /\ job'[j].pc = "checkpoint" /\ job'[j].call = "create"
  BY <1>1 DEF BackupInv, NoJob
<1>3. reused \subseteq reused'
  BY <1>1
<1>4. ASSUME NEW i \in Caller PROVE CallOk(i)'
  <2>1. CASE i # j
    <3>1. CallOk(i) /\ job'[i] = job[i]
      BY <1>2, <2>1 DEF BackupInv
    <3> QED BY Zenon, <1>1, <1>3, <3>1 DEF CallOk
  <2>2. CASE i = j
    <3>1. now \notin reused' => disk[now].manifest = Nothing
      BY <1>1 DEF BackupInv, DirOk
    <3> QED BY <1>1, <1>2, <2>2, <3>1 DEF CallOk, Making
  <2> QED BY <2>1, <2>2
<1>5. \A id \in Time : DirOk(id)'
  BY Zenon, <1>1, <1>3 DEF BackupInv, DirOk, Readable
<1>6. Alone'
  <2> SUFFICES ASSUME NEW i \in Caller, NEW k \in Caller, i # k, job'[i].pc \in Making,
                      job'[k].pc \in Making, job'[i].id = job'[k].id
               PROVE  job'[i].id \in reused'
    BY Zenon DEF Alone
  <2>1. CASE i # j /\ k # j
    BY Zenon, <1>2, <1>3, <2>1 DEF BackupInv, Alone
  <2>2. ASSUME NEW m \in Caller \ {j}, job'[m].pc \in Making, job'[m].id = now
        PROVE  now \in reused'
    <3>1. CallOk(m) /\ job[m].pc \in Making /\ job[m].id = now
      BY Zenon, <1>2, <2>2 DEF BackupInv
    <3>2. job[m].call = "create" \/ now \in reused
      BY Zenon, <3>1 DEF CallOk
    <3>3. Running(m)
      BY <3>1 DEF Running, Making
    <3> QED BY Zenon, <1>1, <1>3, <3>1, <3>2, <3>3
  <2> QED BY Zenon, <1>2, <2>1, <2>2
<1> QED BY Zenon, <1>1, <1>2, <1>4, <1>5, <1>6 DEF BackupInv

\* A step of the call that makes snapshot id, in its directory.
LEMMA DirectoryStep ==
  ASSUME BackupInv, NEW j \in Caller, NEW id \in Time, id = job[j].id, UNCHANGED <<reused, now>>,
         job[j].pc \in Making,
         DOMAIN disk' = Time, \A i \in Time \ {id} : disk'[i] = disk[i],
         DOMAIN job' = Caller, \A i \in Caller \ {j} : job'[i] = job[i],
         DirOk(id)', CallOk(j)', job'[j].id = id
  PROVE  BackupInv'
<1>1. ASSUME NEW i \in Time \ {id} PROVE DirOk(i)'
  BY Zenon DEF BackupInv, DirOk, Readable
<1>2. \A i \in Time : DirOk(i)'
  BY Zenon, <1>1
<1>3. ASSUME NEW i \in Caller \ {j} PROVE CallOk(i)'
  <2>1. CallOk(i) /\ job'[i] = job[i]
    BY Zenon DEF BackupInv
  <2>2. CASE job[i].pc \in Making /\ job[i].id \notin reused
    <3>1. job[i].id # id
      BY Zenon, <2>2 DEF BackupInv, Alone
    <3>2. disk'[job[i].id] = disk[job[i].id]
      BY Zenon, <2>1, <3>1 DEF CallOk
    <3> QED BY Zenon, <2>1, <3>2 DEF CallOk
  <2>3. CASE ~(job[i].pc \in Making /\ job[i].id \notin reused)
    BY Zenon, <2>1, <2>3 DEF CallOk
  <2> QED BY <2>2, <2>3
<1>4. \A i \in Caller : job'[i].pc \in Making => job[i].pc \in Making /\ job'[i].id = job[i].id
  BY Zenon
<1>5. Alone'
  BY Zenon, <1>4 DEF BackupInv, Alone
<1> QED BY Zenon, <1>2, <1>3, <1>5 DEF BackupInv

\* The checkpoint, data.json and manifest.json, in this order.
LEMMA MakeKeeps ==
  ASSUME BackupInv, NEW j \in Caller, Checkpoint(j) \/ WriteData(j) \/ WriteManifest(j)
  PROVE  BackupInv'
<1>0. PICK id \in Time : id = job[j].id
  BY Zenon DEF BackupInv, CallOk
<1>a. id = job[j].id /\ CallOk(j) /\ DirOk(id) /\ DOMAIN disk[id] = DOMAIN NoDir
      /\ DOMAIN job[j] = DOMAIN NoJob /\ DOMAIN disk = Time /\ DOMAIN job = Caller
  BY Zenon, <1>0 DEF BackupInv, CallOk, DirOk
<1>1. CASE Checkpoint(j)
  <2>1. CASE CheckpointFails(engine, disk[id].exists)
    <3>1. Return(j, FALSE) /\ UNCHANGED <<disk, reused, now>>
      BY Zenon, <1>a, <1>1, <2>1 DEF Checkpoint
    <3> QED BY Zenon, <3>1, ReturnKeeps
  <2>2. CASE ~CheckpointFails(engine, disk[id].exists)
    <3>1. /\ job[j].pc = "checkpoint" /\ UNCHANGED <<reused, now>>
          /\ job' = [job EXCEPT ![j].pc = "dump"] /\ disk' = [disk EXCEPT ![id].exists = TRUE]
      BY <1>a, <1>1, <2>2 DEF Checkpoint, Advance
    <3>2. /\ DOMAIN job' = Caller /\ \A i \in Caller \ {j} : job'[i] = job[i]
          /\ DOMAIN disk' = Time /\ \A i \in Time \ {id} : disk'[i] = disk[i]
          /\ job'[j] = [job[j] EXCEPT !.pc = "dump"]
          /\ disk'[id] = [disk[id] EXCEPT !.exists = TRUE]
      <4>1. disk'[id] = [disk[id] EXCEPT !.exists = TRUE]
        BY Zenon, <1>a, <3>1
      <4>2. DOMAIN disk' = Time /\ \A i \in Time \ {id} : disk'[i] = disk[i]
        BY Zenon, <1>a, <3>1
      <4>3. DOMAIN job' = Caller /\ \A i \in Caller \ {j} : job'[i] = job[i]
        BY Zenon, <1>a, <3>1
      <4>4. job'[j] = [job[j] EXCEPT !.pc = "dump"]
        BY Zenon, <1>a, <3>1
      <4> QED BY Zenon, <4>1, <4>2, <4>3, <4>4
    <3>3. /\ DOMAIN job'[j] = DOMAIN NoJob /\ job'[j].pc = "dump" /\ job'[j].id = id
          /\ job'[j].call = job[j].call
          /\ DOMAIN disk'[id] = DOMAIN NoDir /\ disk'[id].exists
          /\ disk'[id].manifest = disk[id].manifest /\ disk'[id].data = disk[id].data
      BY <1>a, <3>2 DEF NoJob, NoDir
    <3>4. id \notin reused => disk[id].manifest = Nothing /\ job[j].call = "create"
      BY <1>a, <3>1 DEF CallOk, Making
    <3>5. DirOk(id)'
      BY <3>1, <3>3, <3>4 DEF DirOk, Readable
    <3>6. CallOk(j)'
      BY <1>a, <3>1, <3>3, <3>4 DEF CallOk, Making
    <3>7. job[j].pc \in Making
      BY <3>1 DEF Making
    <3> QED BY <3>1, <3>2, <3>3, <3>5, <3>6, <3>7, DirectoryStep
  <2> QED BY <2>1, <2>2
<1>2. CASE WriteData(j)
  <2>1. /\ job[j].pc = "data" /\ UNCHANGED <<reused, now>>
        /\ job' = [job EXCEPT ![j].pc = "manifest"]
        /\ disk' = [disk EXCEPT ![id].exists = TRUE, ![id].data = job[j].dump]
    BY <1>a, <1>2 DEF WriteData, Advance
  <2>2. /\ DOMAIN job' = Caller /\ \A i \in Caller \ {j} : job'[i] = job[i]
        /\ DOMAIN disk' = Time /\ \A i \in Time \ {id} : disk'[i] = disk[i]
        /\ job'[j] = [job[j] EXCEPT !.pc = "manifest"]
        /\ disk'[id] = [disk[id] EXCEPT !.exists = TRUE, !.data = job[j].dump]
    <3>1. disk'[id] = [disk[id] EXCEPT !.exists = TRUE, !.data = job[j].dump]
      BY Zenon, <1>a, <2>1
    <3>2. DOMAIN disk' = Time /\ \A i \in Time \ {id} : disk'[i] = disk[i]
      BY Zenon, <1>a, <2>1
    <3>3. DOMAIN job' = Caller /\ \A i \in Caller \ {j} : job'[i] = job[i]
      BY Zenon, <1>a, <2>1
    <3>4. job'[j] = [job[j] EXCEPT !.pc = "manifest"]
      BY Zenon, <1>a, <2>1
    <3> QED BY Zenon, <3>1, <3>2, <3>3, <3>4
  <2>3. /\ DOMAIN job'[j] = DOMAIN NoJob /\ job'[j].pc = "manifest" /\ job'[j].id = id
        /\ job'[j].call = job[j].call /\ job'[j].dump = job[j].dump
        /\ DOMAIN disk'[id] = DOMAIN NoDir /\ disk'[id].exists
        /\ disk'[id].manifest = disk[id].manifest /\ disk'[id].data = job[j].dump
    BY <1>a, <2>2 DEF NoJob, NoDir
  <2>4. id \notin reused => disk[id].manifest = Nothing /\ job[j].call = "create"
    BY <1>a, <2>1 DEF CallOk, Making
  <2>5. DirOk(id)'
    BY <2>1, <2>3, <2>4 DEF DirOk, Readable
  <2>6. CallOk(j)'
    BY <1>a, <2>1, <2>3, <2>4 DEF CallOk, Making
  <2>7. job[j].pc \in Making
    BY <2>1 DEF Making
  <2> QED BY <2>1, <2>2, <2>3, <2>5, <2>6, <2>7, DirectoryStep
<1>3. CASE WriteManifest(j)
  <2>1. CASE ~disk[id].exists
    <3>1. Return(j, FALSE) /\ UNCHANGED <<disk, reused, now>>
      BY Zenon, <1>a, <1>3, <2>1 DEF WriteManifest
    <3> QED BY Zenon, <3>1, ReturnKeeps
  <2>2. CASE disk[id].exists
    <3>1. /\ job[j].pc = "manifest" /\ UNCHANGED <<reused, now>>
          /\ job' = [job EXCEPT ![j].pc = "prune"]
          /\ disk' = [disk EXCEPT ![id].manifest = Checksums(job[j].dump)]
      BY <1>a, <1>3, <2>2 DEF WriteManifest, Advance
    <3>2. /\ DOMAIN job' = Caller /\ \A i \in Caller \ {j} : job'[i] = job[i]
          /\ DOMAIN disk' = Time /\ \A i \in Time \ {id} : disk'[i] = disk[i]
          /\ job'[j] = [job[j] EXCEPT !.pc = "prune"]
          /\ disk'[id] = [disk[id] EXCEPT !.manifest = Checksums(job[j].dump)]
      BY <1>a, <3>1
    <3>3. /\ DOMAIN job'[j] = DOMAIN NoJob /\ job'[j].pc = "prune" /\ job'[j].id = id
          /\ DOMAIN disk'[id] = DOMAIN NoDir /\ disk'[id].exists
          /\ disk'[id].manifest = Checksums(job[j].dump) /\ disk'[id].data = disk[id].data
      BY <1>a, <2>2, <3>2 DEF NoJob, NoDir
    <3>4. id \notin reused => disk[id].data = job[j].dump
      BY <1>a, <2>2, <3>1 DEF CallOk, Making
    <3>5. DirOk(id)'
      BY <3>1, <3>3, <3>4 DEF DirOk, Readable
    <3>6. CallOk(j)'
      BY <1>a, <3>3 DEF CallOk, Making
    <3>7. job[j].pc \in Making
      BY <3>1 DEF Making
    <3> QED BY <3>1, <3>2, <3>3, <3>5, <3>6, <3>7, DirectoryStep
  <2> QED BY <2>1, <2>2
<1> QED BY <1>1, <1>2, <1>3

\* dump_from_engine reads a column family and touches no snapshot.
LEMMA ScanKeeps ==
  ASSUME BackupInv, NEW j \in Caller, ScanNext(j)
  PROVE  BackupInv'
<1>1. /\ job[j].pc \in {"dump", "clear_scan"} /\ UNCHANGED <<disk, reused, now>>
      /\ DOMAIN job' = Caller /\ \A i \in Caller \ {j} : job'[i] = job[i]
  BY Zenon DEF ScanNext, BackupInv
<1>2. DOMAIN job[j] = DOMAIN NoJob /\ CallOk(j)
  BY Zenon DEF BackupInv, CallOk
<1>3. /\ DOMAIN job'[j] = DOMAIN NoJob /\ job'[j].id = job[j].id /\ job'[j].call = job[j].call
      /\ job'[j].pc \in {"dump", "data", "clear_scan", "clear"}
      /\ job'[j].pc \in Making => job[j].pc \in Making
  <2> DEFINE done == job[j].scanned + 1 = Len(Families)
             cf == Families[job[j].scanned + 1]
  <2>1. job'[j] = [job[j] EXCEPT
          !.scanned = @ + 1,
          !.dump = IF job[j].pc = "dump" THEN [@ EXCEPT ![cf] = Scan(db, cf, Unbounded, Unbounded)]
                   ELSE @,
          !.todo = IF job[j].pc = "dump" THEN @ ELSE @ \cup {Delete(cf, k) : k \in DOMAIN db[cf]},
          !.pc = IF ~done THEN @ ELSE IF @ = "dump" THEN "data" ELSE "clear"]
    BY Zenon DEF ScanNext, BackupInv
  <2>2. /\ DOMAIN job'[j] = DOMAIN NoJob /\ job'[j].id = job[j].id /\ job'[j].call = job[j].call
        /\ job'[j].pc = IF ~done THEN job[j].pc ELSE IF job[j].pc = "dump" THEN "data" ELSE "clear"
    <3> HIDE DEF done, cf
    <3> QED BY <1>2, <2>1 DEF NoJob
  <2> HIDE DEF done
  <2> QED BY <1>1, <2>2 DEF Making
<1>4. CallOk(j)'
  BY <1>1, <1>2, <1>3 DEF CallOk, Making
<1>5. ASSUME NEW i \in Caller PROVE CallOk(i)'
  <2>1. CASE i = j
    BY Zenon, <1>4, <2>1
  <2>2. CASE i # j
    BY Zenon, <1>1, <2>2 DEF BackupInv, CallOk
  <2> QED BY <2>1, <2>2
<1>6. \A id \in Time : DirOk(id)'
  BY Zenon, <1>1 DEF BackupInv, DirOk, Readable
<1>7. \A i \in Caller : job'[i].pc \in Making => job[i].pc \in Making /\ job'[i].id = job[i].id
  BY Zenon, <1>1, <1>3
<1>8. Alone'
  BY Zenon, <1>1, <1>7 DEF BackupInv, Alone
<1> QED BY Zenon, <1>1, <1>5, <1>6, <1>8 DEF BackupInv

\* prune_retention lists what is older than the retention.
LEMMA PruneListKeeps ==
  ASSUME BackupInv, NEW j \in Caller, PruneList(j)
  PROVE  BackupInv'
<1>1. /\ UNCHANGED <<disk, reused, now>> /\ job[j].pc = "prune"
      /\ DOMAIN job' = Caller /\ \A i \in Caller \ {j} : job'[i] = job[i]
  BY Zenon DEF PruneList, BackupInv
<1>2. DOMAIN job[j] = DOMAIN NoJob /\ CallOk(j)
  BY Zenon DEF BackupInv, CallOk
<1>3. /\ DOMAIN job'[j] = DOMAIN NoJob /\ job'[j].id = job[j].id /\ job'[j].pc = "pruning"
      /\ job'[j].todo = {id \in Time : disk[id].exists /\ Expired(id)}
  BY <1>1, <1>2 DEF PruneList, BackupInv, NoJob
<1>4. \A id \in job'[j].todo : id \in Time /\ id + Retention < now'
  BY <1>1, <1>3, BackupAssumption DEF Expired, Time, BackupInv
<1>5. CallOk(j)'
  BY <1>2, <1>3, <1>4 DEF CallOk, Making
<1>6. ASSUME NEW i \in Caller PROVE CallOk(i)'
  <2>1. CASE i = j
    BY Zenon, <1>5, <2>1
  <2>2. CASE i # j
    BY Zenon, <1>1, <2>2 DEF BackupInv, CallOk
  <2> QED BY <2>1, <2>2
<1>7. \A id \in Time : DirOk(id)'
  BY Zenon, <1>1 DEF BackupInv, DirOk, Readable
<1>8. job'[j].pc \notin Making
  BY <1>3 DEF Making
<1>9. Alone'
  BY Zenon, <1>1, <1>8 DEF BackupInv, Alone
<1> QED BY Zenon, <1>1, <1>6, <1>7, <1>9 DEF BackupInv

\* A directory that is removed: nothing that a call relies on is in it.
LEMMA RemovalKeeps ==
  ASSUME BackupInv, NEW id \in Time, disk' = [disk EXCEPT ![id] = NoDir],
         UNCHANGED <<reused, now>>, DOMAIN job' = Caller,
         \A i \in Caller :
           /\ DOMAIN job'[i] = DOMAIN NoJob /\ job'[i].id \in Time
           /\ job'[i].pc \in Making => job'[i] = job[i]
           /\ job'[i].pc = "pruning" => job[i].pc = "pruning" /\ job'[i].todo \subseteq job[i].todo
  PROVE  BackupInv'
<1>1. DOMAIN disk' = Time /\ disk'[id] = NoDir /\ \A i \in Time \ {id} : disk'[i] = disk[i]
  BY Zenon DEF BackupInv
<1>2. ASSUME NEW i \in Time PROVE DirOk(i)'
  <2>1. CASE i = id
    BY <1>1, <2>1 DEF DirOk, NoDir, Readable
  <2>2. CASE i # id
    BY Zenon, <1>1, <2>2 DEF BackupInv, DirOk, Readable
  <2> QED BY <2>1, <2>2
<1>3. ASSUME NEW i \in Caller PROVE CallOk(i)'
  <2>1. CallOk(i)
    BY Zenon DEF BackupInv
  <2>2. ASSUME job'[i].pc \in Making, job'[i].id \notin reused'
        PROVE  /\ job'[i].call = "create"
               /\ disk'[job'[i].id].manifest = Nothing
               /\ (job'[i].pc = "manifest" /\ disk'[job'[i].id].exists)
                    => disk'[job'[i].id].data = job'[i].dump
    <3>1. CASE job'[i].id = id
      <4>1. disk'[job'[i].id].manifest = Nothing /\ disk'[job'[i].id].exists = FALSE
        BY <1>1, <3>1 DEF NoDir
      <4> QED BY Zenon, <2>1, <2>2, <4>1 DEF CallOk
    <3>2. CASE job'[i].id # id
      BY Zenon, <1>1, <2>1, <2>2, <3>2 DEF CallOk
    <3> QED BY <3>1, <3>2
  <2>3. job'[i].pc = "pruning" => \A x \in job'[i].todo : x \in Time /\ x + Retention < now'
    BY Zenon, <2>1 DEF CallOk
  <2> QED BY Zenon, <2>2, <2>3 DEF CallOk
<1>4. Alone'
  BY Zenon DEF BackupInv, Alone
<1> QED BY Zenon, <1>1, <1>2, <1>3, <1>4 DEF BackupInv

\* prune_retention deletes the oldest of what it listed, which is older than the
\* retention.
LEMMA PruneStep ==
  ASSUME BackupInv, NEW j \in Caller, PruneNext(j)
  PROVE  /\ BackupInv'
         /\ \/ disk' = disk
            \/ \E id \in Time : id + Retention < now /\ disk' = [disk EXCEPT ![id] = NoDir]
<1> DEFINE least == CHOOSE x \in job[j].todo : \A y \in job[j].todo : x <= y
<1>1. CallOk(j) /\ job[j].pc = "pruning" /\ UNCHANGED <<reused, now>> /\ DOMAIN job = Caller
  BY Zenon DEF BackupInv, PruneNext
<1>2. CASE job[j].todo # {} /\ disk[least].exists
  <2>1. /\ disk' = [disk EXCEPT ![least] = NoDir]
        /\ job' = [job EXCEPT ![j].todo = @ \ {least}]
    BY Zenon, <1>2 DEF PruneNext
  <2>2. job[j].todo \in SUBSET Nat
    BY <1>1 DEF CallOk, Time
  <2>3. \E x \in job[j].todo : \A y \in job[j].todo : x <= y
    BY <1>2, <2>2, LeastOf
  <2>4. least \in job[j].todo
    BY Zenon, <2>3
  <2> HIDE DEF least
  <2>5. PICK id \in Time : id = least
    BY Zenon, <1>1, <2>4 DEF CallOk
  <2>6. id + Retention < now /\ disk' = [disk EXCEPT ![id] = NoDir]
    BY Zenon, <1>1, <2>1, <2>4, <2>5 DEF CallOk
  <2>7. \A i \in Caller : DOMAIN job[i] = DOMAIN NoJob /\ job[i].id \in Time
    BY Zenon DEF BackupInv, CallOk
  <2>8. /\ DOMAIN job' = Caller /\ \A i \in Caller \ {j} : job'[i] = job[i]
        /\ job'[j] = [job[j] EXCEPT !.todo = @ \ {least}]
    BY Zenon, <1>1, <2>1
  <2>9. /\ DOMAIN job'[j] = DOMAIN NoJob /\ job'[j].id \in Time
        /\ job'[j].pc \notin Making /\ job'[j].todo \subseteq job[j].todo
    BY <1>1, <2>7, <2>8 DEF NoJob, Making
  <2>10. BackupInv'
    <3>1. \A i \in Caller :
            /\ DOMAIN job'[i] = DOMAIN NoJob /\ job'[i].id \in Time
            /\ job'[i].pc \in Making => job'[i] = job[i]
            /\ job'[i].pc = "pruning" => job[i].pc = "pruning" /\ job'[i].todo \subseteq job[i].todo
      BY Zenon, <1>1, <2>7, <2>8, <2>9
    <3> QED BY Zenon, <1>1, <2>6, <2>8, <3>1, RemovalKeeps
  <2> QED BY Zenon, <2>6, <2>10
<1>3. CASE ~(job[j].todo # {} /\ disk[least].exists)
  <2>1. \E ok \in BOOLEAN : Return(j, ok) /\ disk' = disk
    BY Zenon, <1>3 DEF PruneNext
  <2>2. BackupInv'
    BY Zenon, <1>1, <2>1, ReturnKeeps
  <2> QED BY <2>1, <2>2
<1> QED BY <1>2, <1>3

\* delete_snapshot, asked for by the operator.
LEMMA DeleteKeeps ==
  ASSUME BackupInv, NEW id \in Time, DeleteSnapshot(id)
  PROVE  BackupInv'
<1>1. /\ disk' = [disk EXCEPT ![id] = NoDir] /\ UNCHANGED <<reused, now>>
      /\ job' = [job EXCEPT !["operator"] = NoJob] /\ DOMAIN job = Caller
  BY Zenon DEF DeleteSnapshot, BackupInv
<1>2. \A i \in Caller : DOMAIN job[i] = DOMAIN NoJob /\ job[i].id \in Time
  BY Zenon DEF BackupInv, CallOk
<1>3. NoJob.id \in Time /\ NoJob.pc \notin Making \cup {"pruning"}
  BY BackupAssumption DEF NoJob, Making, Time
<1>4. DOMAIN job' = Caller /\ \A i \in Caller : job'[i] = job[i] \/ job'[i] = NoJob
  BY Zenon, <1>1 DEF Caller
<1>5. ASSUME NEW i \in Caller
      PROVE  /\ DOMAIN job'[i] = DOMAIN NoJob /\ job'[i].id \in Time
             /\ job'[i].pc \in Making => job'[i] = job[i]
             /\ job'[i].pc = "pruning" => job[i].pc = "pruning" /\ job'[i].todo \subseteq job[i].todo
  <2>1. CASE job'[i] = NoJob
    BY Zenon, <1>3, <2>1
  <2>2. CASE job'[i] = job[i]
    BY Zenon, <1>2, <2>2
  <2> QED BY <1>4, <2>1, <2>2
<1> QED BY Zenon, <1>1, <1>4, <1>5, RemovalKeeps

\* The steps that touch no directory: clients, the clock, a crash, restore and
\* validate, which only read.
LEMMA OtherKeeps ==
  ASSUME BackupInv,
         \/ ClientWrite \/ Tick \/ Crash
         \/ \E id \in Time : BeginRestore(id) \/ BeginValidate(id)
         \/ \E j \in Caller : ReadArtifacts(j) \/ Clear(j) \/ Fill(j) \/ Recheck(j) \/ Smoke(j)
  PROVE  BackupInv' /\ disk' = disk
<1> DEFINE Calls == \A j \in Caller :
             /\ DOMAIN job'[j] = DOMAIN NoJob /\ job'[j].id \in Time
             /\ \/ job'[j].pc \notin Making \cup {"pruning"}
                \/ /\ job'[j].pc = job[j].pc /\ job'[j].id = job[j].id
                   /\ job'[j].call = job[j].call /\ job'[j].dump = job[j].dump
                   /\ job'[j].todo = job[j].todo
           Kept == disk' = disk /\ reused' = reused /\ now' \in Time /\ now <= now'
                   /\ DOMAIN job' = Caller /\ Calls
<1>a. now \in Time /\ now <= now /\ DOMAIN job = Caller
      /\ \A j \in Caller : DOMAIN job[j] = DOMAIN NoJob /\ job[j].id \in Time
  BY DEF BackupInv, CallOk, Time
<1>b. 1 \in Time
  BY BackupAssumption DEF Time
<1>1. ASSUME ClientWrite PROVE Kept
  <2>1. /\ job' = [j \in Caller |-> [job[j] EXCEPT !.quiet = FALSE]]
        /\ disk' = disk /\ reused' = reused /\ now' = now
    BY Zenon, <1>1 DEF ClientWrite, ChangeDb
  <2> QED BY <1>a, <2>1 DEF NoJob
<1>2. ASSUME Tick PROVE Kept
  <2>1. /\ job' = job /\ disk' = disk /\ reused' = reused /\ now' = now + 1 /\ now < MaxTime
    BY Zenon, <1>2 DEF Tick
  <2>2. now' \in Time /\ now <= now'
    BY <1>a, <2>1, BackupAssumption DEF Time
  <2> QED BY Zenon, <1>a, <2>1, <2>2
<1>3. ASSUME Crash PROVE Kept
  <2>1. /\ job' = [j \in Caller |-> NoJob]
        /\ disk' = disk /\ reused' = reused /\ now' = now
    BY Zenon, <1>3 DEF Crash
  <2> QED BY <1>a, <1>b, <2>1 DEF NoJob, Making
<1>4. ASSUME NEW id \in Time, BeginRestore(id) \/ BeginValidate(id) PROVE Kept
  <2>1. \E call \in {"restore", "validate"}, pc \in {"read", "recheck"} :
          job' = [job EXCEPT !["operator"] = [NoJob EXCEPT !.call = call, !.pc = pc, !.id = id,
                                                           !.quiet = TRUE]]
    BY Zenon, <1>4 DEF BeginRestore, BeginValidate, Start
  <2>2. disk' = disk /\ reused' = reused /\ now' = now
    BY Zenon, <1>4 DEF BeginRestore, BeginValidate, Start
  <2> QED BY <1>a, <2>1, <2>2 DEF NoJob, Making, Caller
<1>5. ASSUME NEW j \in Caller, Clear(j) \/ Fill(j) PROVE Kept
  <2>1. disk' = disk /\ reused' = reused /\ now' = now
    BY Zenon, <1>5 DEF Clear, Fill
  <2>2. CASE Clear(j)
    <3>1. job' = [i \in Caller |-> IF i = j THEN [job[i] EXCEPT !.pc = "fill", !.todo = {}]
                                   ELSE [job[i] EXCEPT !.quiet = FALSE]]
      BY Zenon, <2>2 DEF Clear
    <3>2. ASSUME NEW i \in Caller \ {j}
          PROVE  /\ DOMAIN job'[i] = DOMAIN NoJob /\ job'[i].id = job[i].id
                 /\ job'[i].pc = job[i].pc /\ job'[i].call = job[i].call
                 /\ job'[i].dump = job[i].dump /\ job'[i].todo = job[i].todo
      <4>1. job'[i] = [job[i] EXCEPT !.quiet = FALSE]
        BY Zenon, <3>1
      <4> QED BY <1>a, <4>1 DEF NoJob
    <3>3. /\ DOMAIN job'[j] = DOMAIN NoJob /\ job'[j].id = job[j].id
          /\ job'[j].pc \notin Making \cup {"pruning"}
      <4>1. job'[j] = [job[j] EXCEPT !.pc = "fill", !.todo = {}]
        BY Zenon, <3>1
      <4> QED BY <1>a, <4>1 DEF NoJob, Making
    <3>4. DOMAIN job' = Caller
      BY Zenon, <3>1
    <3> QED BY Zenon, <1>a, <2>1, <3>2, <3>3, <3>4
  <2>3. CASE Fill(j)
    <3>1. job' = [i \in Caller |-> IF i = j THEN [job[i] EXCEPT !.pc = "recheck"]
                                   ELSE [job[i] EXCEPT !.quiet = FALSE]]
      BY Zenon, <2>3 DEF Fill
    <3> QED BY <1>a, <2>1, <3>1 DEF NoJob, Making
  <2> QED BY Zenon, <1>5, <2>2, <2>3
<1>6. ASSUME NEW j \in Caller, NEW pc \in {"clear_scan", "smoke"},
             job' = [job EXCEPT ![j].dump = disk[job[j].id].data, ![j].pc = pc],
             UNCHANGED <<disk, reused, now>>
      PROVE  Kept
  <2>1. /\ DOMAIN job' = Caller /\ \A i \in Caller \ {j} : job'[i] = job[i]
        /\ job'[j] = [job[j] EXCEPT !.dump = disk[job[j].id].data, !.pc = pc]
    BY Zenon, <1>a, <1>6
  <2>2. /\ DOMAIN job'[j] = DOMAIN NoJob /\ job'[j].id = job[j].id
        /\ job'[j].pc \notin Making \cup {"pruning"}
    BY <1>a, <1>6, <2>1 DEF NoJob, Making
  <2> QED BY Zenon, <1>a, <1>6, <2>1, <2>2
<1> HIDE DEF Calls
<1>7. Kept => BackupInv' /\ disk' = disk
  BY Zenon, DiskKept DEF Calls
<1> HIDE DEF Kept
<1>8. ASSUME NEW j \in Caller, ReadArtifacts(j) \/ Recheck(j) \/ Smoke(j)
      PROVE  BackupInv' /\ disk' = disk
  <2>1. UNCHANGED <<disk, reused, now>>
    BY Zenon, <1>8 DEF ReadArtifacts, Recheck, Smoke
  <2>2. \/ \E ok : Return(j, ok)
        \/ \E pc \in {"clear_scan", "smoke"} :
             job' = [job EXCEPT ![j].dump = disk[job[j].id].data, ![j].pc = pc]
    BY Zenon, <1>8 DEF ReadArtifacts, Recheck, Smoke
  <2>3. ASSUME NEW ok, Return(j, ok) PROVE BackupInv' /\ disk' = disk
    BY Zenon, <2>1, <2>3, ReturnKeeps
  <2> QED BY Zenon, <1>6, <1>7, <2>1, <2>2, <2>3
<1> QED BY Zenon, <1>1, <1>2, <1>3, <1>4, <1>5, <1>7, <1>8

\* What a step does to the directories: none is lost except by delete_snapshot or,
\* when it is older than the retention, by prune_retention.
LEMMA BackupKeeps ==
  ASSUME BackupInv, [BackupNext]_backupVars
  PROVE  /\ BackupInv'
         /\ \A id \in Time : disk[id].exists /\ ~disk'[id].exists =>
              id + Retention < now \/ DeleteSnapshot(id)
<1> DEFINE Goal == /\ BackupInv'
                   /\ \A id \in Time : disk[id].exists /\ ~disk'[id].exists =>
                        id + Retention < now \/ DeleteSnapshot(id)
<1>0. DOMAIN disk = Time /\ \A id \in Time : DOMAIN disk[id] = DOMAIN NoDir
  BY Zenon DEF BackupInv, DirOk
<1>1. ASSUME NEW j \in Caller, BeginCreate(j) PROVE Goal
  <2>1. disk' = disk
    BY Zenon, <1>1 DEF BeginCreate, Start
  <2> QED BY Zenon, <1>1, <2>1, BeginCreateKeeps
<1>2. ASSUME NEW j \in Caller, Checkpoint(j) \/ WriteData(j) \/ WriteManifest(j) PROVE Goal
  <2>1. \A id \in Time : disk[id].exists => disk'[id].exists
    <3>1. CASE Checkpoint(j)
      <4>1. disk' = disk \/ disk' = [disk EXCEPT ![job[j].id].exists = TRUE]
        BY Zenon, <3>1 DEF Checkpoint
      <4>2. ASSUME NEW id \in Time, disk' = [disk EXCEPT ![job[j].id].exists = TRUE]
            PROVE  disk'[id] = disk[id] \/ disk'[id].exists = TRUE
        <5>1. CASE id = job[j].id
          <6>1. disk'[id] = [disk[id] EXCEPT !.exists = TRUE]
            BY Zenon, <1>0, <4>2, <5>1
          <6>2. "exists" \in DOMAIN disk[id]
            BY <1>0 DEF NoDir
          <6> QED BY Zenon, <6>1, <6>2
        <5>2. CASE id # job[j].id
          BY Zenon, <1>0, <4>2, <5>2
        <5> QED BY Zenon, <5>1, <5>2
      <4> QED BY Zenon, <4>1, <4>2
    <3>2. CASE WriteData(j)
      BY <1>0, <3>2 DEF WriteData, NoDir
    <3>3. CASE WriteManifest(j)
      <4>1. disk' = disk \/ \E sums : disk' = [disk EXCEPT ![job[j].id].manifest = sums]
        BY Zenon, <3>3 DEF WriteManifest
      <4>2. ASSUME NEW sums, NEW id \in Time, disk' = [disk EXCEPT ![job[j].id].manifest = sums]
            PROVE  disk'[id].exists = disk[id].exists
        BY <1>0, <4>2 DEF NoDir
      <4> QED BY Zenon, <4>1, <4>2
    <3> QED BY <1>2, <3>1, <3>2, <3>3
  <2>2. BackupInv'
    BY Zenon, <1>2, MakeKeeps
  <2> QED BY Zenon, <2>1, <2>2
<1>3. ASSUME NEW j \in Caller, ScanNext(j) PROVE Goal
  <2>1. disk' = disk
    BY Zenon, <1>3 DEF ScanNext
  <2> QED BY Zenon, <1>3, <2>1, ScanKeeps
<1>4. ASSUME NEW j \in Caller, PruneList(j) PROVE Goal
  <2>1. disk' = disk
    BY Zenon, <1>4 DEF PruneList
  <2> QED BY Zenon, <1>4, <2>1, PruneListKeeps
<1>5. ASSUME NEW j \in Caller, PruneNext(j) PROVE Goal
  <2>1. BackupInv' /\ (disk' = disk \/ \E id \in Time : id + Retention < now /\ disk' = [disk EXCEPT ![id] = NoDir])
    BY Zenon, <1>5, PruneStep
  <2> QED BY Zenon, <1>0, <2>1
<1>6. ASSUME NEW id \in Time, DeleteSnapshot(id) PROVE Goal
  <2>1. disk' = [disk EXCEPT ![id] = NoDir]
    BY Zenon, <1>6 DEF DeleteSnapshot
  <2> QED BY Zenon, <1>0, <1>6, <2>1, DeleteKeeps
<1>7. ASSUME \/ ClientWrite \/ Tick \/ Crash
             \/ \E id \in Time : BeginRestore(id) \/ BeginValidate(id)
             \/ \E j \in Caller : ReadArtifacts(j) \/ Clear(j) \/ Fill(j) \/ Recheck(j) \/ Smoke(j)
      PROVE  Goal
  <2>1. BackupInv' /\ disk' = disk
    BY Zenon, <1>7, OtherKeeps
  <2> QED BY Zenon, <2>1
<1>8. ASSUME UNCHANGED backupVars PROVE Goal
  <2>1. UNCHANGED <<disk, reused, now, job>>
    BY Zenon, <1>8 DEF backupVars
  <2>2. BackupInv'
    BY Zenon, <2>1 DEF BackupInv, CallOk, DirOk, Readable, Alone
  <2> QED BY Zenon, <2>1, <2>2
<1> HIDE DEF Goal
<1>9. Goal
  BY Zenon, <1>1, <1>2, <1>3, <1>4, <1>5, <1>6, <1>7, <1>8 DEF BackupNext, JobStep
<1> QED BY Zenon, <1>9 DEF Goal

-----------------------------------------------------------------------------
(* Batches of the storage engine.                                          *)

\* A set with 0 that has with i - 1 also i, up to n, has n.
LEMMA Reached ==
  ASSUME NEW n \in Nat, NEW S, 0 \in S, \A i \in 1 .. n : i - 1 \in S => i \in S
  PROVE  n \in S
<1> DEFINE Bad == 0 .. n \ S
<1>1. SUFFICES ASSUME n \notin S PROVE FALSE
  OBVIOUS
<1>2. Bad \in SUBSET Nat /\ Bad # {}
  BY <1>1
<1>3. PICK x \in Bad : \A y \in Bad : x <= y
  <2> HIDE DEF Bad
  <2> QED BY <1>2, LeastOf, Zenon
<1>4. x \in 1 .. n /\ x - 1 \in 0 .. n /\ ~(x <= x - 1)
  BY <1>3
<1> QED
  BY <1>3, <1>4

\* What the rows of the model are made of, and the databases they make.
Datum == Value \cup {1}
Map == {m \in UNION {[K -> Datum] : K \in SUBSET Datum} : IsFiniteSet(DOMAIN m)}
Db == [Family -> Map]
IsOp(o) == o.cf \in Family /\ (o.op = "put" => o.key \in Datum /\ o.value \in Datum)

\* Any finite set of rows is a column family.
LEMMA MapOf ==
  ASSUME NEW K \in SUBSET Datum, IsFiniteSet(K), NEW m \in [K -> Datum]
  PROVE  m \in Map /\ DOMAIN m = K
<1>1. DOMAIN m = K
  OBVIOUS
<1> QED BY <1>1, Zenon DEF Map

\* What a column family of a database is.
LEMMA MapIs ==
  ASSUME NEW m \in Map
  PROVE  DOMAIN m \in SUBSET Datum /\ IsFiniteSet(DOMAIN m) /\ m \in [DOMAIN m -> Datum]
<1>1. PICK K \in SUBSET Datum : m \in [K -> Datum]
  BY Zenon DEF Map
<1>2. DOMAIN m = K
  BY <1>1
<1> QED BY <1>1, <1>2, Zenon DEF Map

\* One mutation gives a database, and changes one row of one column family.
LEMMA ApplyOpIs ==
  ASSUME NEW d \in Db, NEW o, IsOp(o)
  PROVE  /\ ApplyOp(d, o) \in Db
         /\ \A cf \in Family \ {o.cf} : ApplyOp(d, o)[cf] = d[cf]
         /\ o.op = "put" =>
              /\ DOMAIN ApplyOp(d, o)[o.cf] = DOMAIN d[o.cf] \cup {o.key}
              /\ ApplyOp(d, o)[o.cf][o.key] = o.value
              /\ \A k \in DOMAIN d[o.cf] \ {o.key} : ApplyOp(d, o)[o.cf][k] = d[o.cf][k]
         /\ o.op # "put" =>
              /\ DOMAIN ApplyOp(d, o)[o.cf] = DOMAIN d[o.cf] \ {o.key}
              /\ \A k \in DOMAIN d[o.cf] \ {o.key} : ApplyOp(d, o)[o.cf][k] = d[o.cf][k]
<1>1. PICK map : map = d[o.cf]
  BY Zenon
<1>2. map \in Map /\ o.cf \in Family
  BY <1>1, Zenon DEF Db, IsOp
<1>3. DOMAIN map \in SUBSET Datum /\ IsFiniteSet(DOMAIN map) /\ map \in [DOMAIN map -> Datum]
  BY <1>2, MapIs, Zenon
<1>4. PICK K : K = IF o.op = "put" THEN DOMAIN map \cup {o.key} ELSE DOMAIN map \ {o.key}
  BY Zenon
<1>5. PICK m : m = [k \in K |-> IF o.op = "put" /\ k = o.key THEN o.value ELSE map[k]]
  BY Zenon
<1>6. K \in SUBSET Datum /\ m \in [K -> Datum]
  BY <1>3, <1>4, <1>5 DEF IsOp
<1>7. IsFiniteSet(K)
  BY <1>3, <1>4, FS_AddElement, FS_RemoveElement, Zenon
<1>8. m \in Map
  BY <1>6, <1>7, MapOf, Zenon
<1>9. ApplyOp(d, o) = [d EXCEPT ![o.cf] = m]
  <2>1. CASE o.op = "put"
    <3>1. m = [k \in DOMAIN map \cup {o.key} |-> IF k = o.key THEN o.value ELSE map[k]]
      BY <2>1, <1>4, <1>5
    <3> QED BY <2>1, <3>1, <1>1, Zenon DEF ApplyOp
  <2>2. CASE o.op # "put"
    <3>1. m = [k \in DOMAIN map \ {o.key} |-> map[k]]
      BY <2>2, <1>4, <1>5
    <3> QED BY <2>2, <3>1, <1>1, Zenon DEF ApplyOp
  <2> QED BY <2>1, <2>2
<1>10. /\ ApplyOp(d, o) \in Db /\ ApplyOp(d, o)[o.cf] = m
       /\ \A cf \in Family \ {o.cf} : ApplyOp(d, o)[cf] = d[cf]
  BY <1>2, <1>8, <1>9 DEF Db
<1>11. DOMAIN m = K /\ \A k \in K : m[k] = IF o.op = "put" /\ k = o.key THEN o.value ELSE map[k]
  BY <1>5
<1>12. CASE o.op = "put"
  BY <1>1, <1>4, <1>10, <1>11, <1>12
<1>13. CASE o.op # "put"
  BY <1>1, <1>4, <1>10, <1>11, <1>13
<1> QED BY <1>12, <1>13

\* write_batch: f[i] is the database after i mutations of the batch.
IsBatch(f, d, b, n) ==
  /\ f[0] = d /\ WriteBatch(d, b) = f[n]
  /\ \A i \in 0 .. n : f[i] \in Db
  /\ \A i \in 1 .. n : f[i] = ApplyOp(f[i - 1], b[i])

\* Every batch of write_batch has such databases.
LEMMA BatchRuns ==
  ASSUME NEW d \in Db, NEW n \in Nat, NEW b, DOMAIN b = 1 .. n, Len(b) = n,
         \A i \in 1 .. n : IsOp(b[i])
  PROVE  \E f : IsBatch(f, d, b, n)
<1> DEFINE Run(m, f) ==
             /\ f = [i \in 0 .. m |-> IF i = 0 THEN d ELSE ApplyOp(f[i - 1], b[i])]
             /\ \A i \in 0 .. m : f[i] \in Db
           Runs == {m \in 0 .. n : \E f : Run(m, f)}
<1>1. 0 \in Runs
  <2>1. Run(0, [i \in 0 .. 0 |-> d])
    OBVIOUS
  <2> HIDE DEF Run
  <2> QED BY <2>1
<1>2. ASSUME NEW m \in 1 .. n, m - 1 \in Runs PROVE m \in Runs
  <2>1. PICK f : Run(m - 1, f)
    BY <1>2
  <2>2. PICK last : last = ApplyOp(f[m - 1], b[m])
    BY Zenon
  <2>3. f[m - 1] \in Db /\ last \in Db
    <3>1. f[m - 1] \in Db
      BY <2>1
    <3> QED BY <2>2, <3>1, ApplyOpIs, Zenon
  <2>4. PICK h : h = [i \in 0 .. m |-> IF i = m THEN last ELSE f[i]]
    BY Zenon
  <2>5. \A i \in 0 .. m : h[i] \in Db
    BY <2>1, <2>3, <2>4
  <2>6. ASSUME NEW i \in 0 .. m PROVE h[i] = IF i = 0 THEN d ELSE ApplyOp(h[i - 1], b[i])
    <3>1. CASE i = 0
      <4>1. h[0] = f[0] /\ 0 \in 0 .. m - 1
        BY <2>4
      <4>2. f[0] = d
        BY <2>1, <4>1
      <4> QED BY <3>1, <4>1, <4>2
    <3>2. CASE i # 0 /\ i # m
      <4>1. h[i] = f[i] /\ h[i - 1] = f[i - 1] /\ i \in 0 .. m - 1
        BY <3>2, <2>4
      <4>2. f[i] = ApplyOp(f[i - 1], b[i])
        BY <2>1, <3>2, <4>1
      <4> QED BY <3>2, <4>1, <4>2, Zenon
    <3>3. CASE i = m
      <4>1. h[i] = last /\ h[i - 1] = f[i - 1] /\ i # 0
        BY <3>3, <2>4
      <4> QED BY <2>2, <3>3, <4>1, Zenon
    <3> QED BY <3>1, <3>2, <3>3
  <2>7. h = [i \in 0 .. m |-> IF i = 0 THEN d ELSE ApplyOp(h[i - 1], b[i])]
    BY <2>4, <2>6
  <2> QED BY <2>5, <2>7
<1>3. n \in Runs
  <2> HIDE DEF Runs
  <2> QED BY <1>1, <1>2, Reached
<1>4. PICK g : g = CHOOSE f : f = [i \in 0 .. n |-> IF i = 0 THEN d ELSE ApplyOp(f[i - 1], b[i])]
  BY Zenon
<1>5. PICK f : Run(n, f)
  BY <1>3
<1>6. g = [i \in 0 .. n |-> IF i = 0 THEN d ELSE ApplyOp(g[i - 1], b[i])]
  BY <1>4, <1>5, Zenon
<1>7. g[0] = d /\ \A i \in 1 .. n : g[i] = ApplyOp(g[i - 1], b[i])
  <2>1. \A i \in 0 .. n : g[i] = IF i = 0 THEN d ELSE ApplyOp(g[i - 1], b[i])
    BY <1>6
  <2> QED BY <2>1
<1>8. \A i \in 0 .. n : g[i] \in Db
  <2> SUFFICES ASSUME NEW k \in 0 .. n PROVE g[k] \in Db
    OBVIOUS
  <2>1. PICK S : S = {i \in 0 .. n : g[i] \in Db}
    BY Zenon
  <2>2. 0 \in S
    BY <1>7, <2>1
  <2>3. ASSUME NEW i \in 1 .. k, i - 1 \in S PROVE i \in S
    <3>1. g[i - 1] \in Db /\ i \in 1 .. n
      BY <2>1, <2>3
    <3>2. g[i] = ApplyOp(g[i - 1], b[i]) /\ IsOp(b[i])
      BY <1>7, <3>1, Zenon
    <3>3. ApplyOp(g[i - 1], b[i]) \in Db
      BY <3>1, <3>2, ApplyOpIs, Zenon
    <3> QED BY <2>1, <3>1, <3>2, <3>3
  <2>4. k \in S
    BY <2>2, <2>3, Reached
  <2> QED BY <2>1, <2>4
<1>9. WriteBatch(d, b) = g[n]
  <2>1. ~ \E i \in DOMAIN b : b[i].cf \notin Family
    BY Zenon DEF IsOp
  <2> QED BY <1>4, <2>1, Zenon DEF WriteBatch
<1> QED BY <1>7, <1>8, <1>9, Zenon DEF IsBatch

\* The batches of apply_dump list what they are made of, in some order.
LEMMA Enumerated ==
  ASSUME NEW T, IsFiniteSet(T)
  PROVE  \E n \in Nat :
           /\ DOMAIN Batch(T) = 1 .. n /\ Len(Batch(T)) = n
           /\ \A i \in 1 .. n : Batch(T)[i] \in T
           /\ \A t \in T : \E i \in 1 .. n : Batch(T)[i] = t
<1>1. PICK n : n = Cardinality(T)
  BY Zenon
<1>2. n \in Nat /\ ExistsBijection(1 .. n, T)
  BY <1>1, FS_CardinalityType, Zenon
<1>3. \E f : f \in Injection(1 .. n, T)
  BY <1>2, Zenon DEF ExistsBijection, Bijection
<1>4. PICK s : s = Batch(T)
  BY Zenon
<1>5. s \in Injection(1 .. n, T)
  BY <1>1, <1>3, <1>4, Zenon DEF Batch
<1>6. s \in [1 .. n -> T] /\ s \in Surjection(1 .. n, T)
  <2>1. Cardinality(1 .. n) = n
    BY <1>2, FS_Interval
  <2>2. s \in Surjection(1 .. n, T)
    BY <1>1, <1>5, <2>1, FS_Injection, Zenon
  <2> QED BY <1>5, <2>2, Zenon DEF Injection
<1>7. DOMAIN s = 1 .. n /\ Len(s) = n
  <2>1. s \in Seq(T)
    BY <1>2, <1>6
  <2> QED BY <1>2, <1>6, <2>1
<1>8. \A t \in T : \E i \in 1 .. n : s[i] = t
  BY <1>6, Zenon DEF Surjection
<1> QED BY <1>2, <1>4, <1>6, <1>7, <1>8

\* The empty database.
LEMMA EmptyIs ==
  /\ EmptyDb \in Db
  /\ \A d \in Db : (\A cf \in Family : DOMAIN d[cf] = {}) => d = EmptyDb
<1>1. EmptyMap \in [{} -> Datum]
  BY DEF EmptyMap
<1>2. \A m \in [{} -> Datum] : m = EmptyMap
  BY DEF EmptyMap
<1>3. IsFiniteSet({})
  BY FS_EmptySet, Zenon
<1>4. EmptyMap \in Map
  BY <1>1, <1>3, MapOf, Zenon
<1>5. ASSUME NEW d \in Db, \A cf \in Family : DOMAIN d[cf] = {}
      PROVE  d = EmptyDb
  <2>1. ASSUME NEW cf \in Family PROVE d[cf] = EmptyMap
    <3>1. d[cf] \in Map
      BY Zenon DEF Db
    <3>2. d[cf] \in [DOMAIN d[cf] -> Datum] /\ DOMAIN d[cf] = {}
      BY <1>5, <3>1, MapIs, Zenon
    <3> QED BY <1>2, <3>2, Zenon
  <2> QED BY <2>1 DEF Db, EmptyDb
<1>6. EmptyDb \in Db
  BY <1>4, Zenon DEF EmptyDb, Db
<1> QED BY <1>5, <1>6

\* What a database is made of does not depend on how it was filled.
LEMMA SameDb ==
  ASSUME NEW d \in Db, NEW e \in Db,
         \A cf \in Family : DOMAIN d[cf] = DOMAIN e[cf] /\ \A k \in DOMAIN e[cf] : d[cf][k] = e[cf][k]
  PROVE  d = e
<1>1. ASSUME NEW cf \in Family PROVE d[cf] = e[cf]
  <2>1. d[cf] \in Map /\ e[cf] \in Map
    BY Zenon DEF Db
  <2>2. PICK m, x : m = d[cf] /\ x = e[cf]
    BY Zenon
  <2>3. m \in [DOMAIN m -> Datum] /\ x \in [DOMAIN x -> Datum]
    BY <2>1, <2>2, MapIs, Zenon
  <2>4. DOMAIN m = DOMAIN x /\ \A k \in DOMAIN x : m[k] = x[k]
    BY <2>2, Zenon
  <2>5. m = x
    BY <2>3, <2>4
  <2> QED BY <2>2, <2>5
<1> QED BY <1>1 DEF Db

\* The first batch of apply_dump deletes every row it was made for.
LEMMA ClearEmpties ==
  ASSUME NEW d \in Db, NEW T, IsFiniteSet(T), \A o \in T : IsOp(o) /\ o.op = "delete",
         \A cf \in Family : \A k \in DOMAIN d[cf] : Delete(cf, k) \in T
  PROVE  WriteBatch(d, Batch(T)) = EmptyDb
<1>1. PICK b : b = Batch(T)
  BY Zenon
<1>2. PICK n \in Nat : /\ DOMAIN b = 1 .. n /\ Len(b) = n
                       /\ \A i \in 1 .. n : b[i] \in T
                       /\ \A t \in T : \E i \in 1 .. n : b[i] = t
  BY <1>1, Enumerated
<1>3. PICK f : IsBatch(f, d, b, n)
  <2>1. \E f : IsBatch(f, d, b, n)
    BY <1>2, BatchRuns, Zenon
  <2> QED BY <2>1, Zenon
<1>4. ASSUME NEW i \in 1 .. n, NEW cf \in Family, NEW k \in DOMAIN f[i][cf]
      PROVE  k \in DOMAIN f[i - 1][cf] /\ ~(b[i].cf = cf /\ b[i].key = k)
  <2>1. f[i] = ApplyOp(f[i - 1], b[i])
    BY <1>3, Zenon DEF IsBatch
  <2>2. f[i - 1] \in Db
    <3>1. i - 1 \in 0 .. n
      OBVIOUS
    <3> QED BY <1>3, <3>1, Zenon DEF IsBatch
  <2>3. IsOp(b[i]) /\ b[i].op # "put"
    BY <1>2
  <2>4. CASE b[i].cf = cf
    <3>1. DOMAIN ApplyOp(f[i - 1], b[i])[b[i].cf] = DOMAIN f[i - 1][b[i].cf] \ {b[i].key}
      BY <2>2, <2>3, ApplyOpIs, ZenonT(40)
    <3> QED BY <2>1, <2>4, <3>1
  <2>5. CASE b[i].cf # cf
    <3>1. \A c \in Family \ {b[i].cf} : ApplyOp(f[i - 1], b[i])[c] = f[i - 1][c]
      BY <2>2, <2>3, ApplyOpIs, Zenon
    <3> QED BY <2>1, <2>5, <3>1
  <2> QED BY <2>4, <2>5
<1>5. ASSUME NEW cf \in Family, NEW k \in DOMAIN f[n][cf] PROVE FALSE
  <2>1. ASSUME NEW m \in 0 .. n, k \notin DOMAIN f[m][cf] PROVE FALSE
    <3>1. PICK S : S = {i \in 0 .. n : i >= m => k \notin DOMAIN f[i][cf]}
      BY Zenon
    <3>2. 0 \in S
      BY <2>1, <3>1
    <3>3. ASSUME NEW i \in 1 .. n, i - 1 \in S PROVE i \in S
      <4>1. i - 1 >= m => k \notin DOMAIN f[i - 1][cf]
        BY <3>1, <3>3
      <4>2. CASE i = m
        BY <2>1, <3>1, <4>2
      <4>3. CASE i # m
        <5>1. i >= m => i - 1 >= m
          BY <4>3
        <5>2. i >= m => k \notin DOMAIN f[i][cf]
          BY <1>4, <4>1, <5>1, Zenon
        <5> QED BY <3>1, <5>2
      <4> QED BY <4>2, <4>3
    <3>4. n \in S
      BY <3>2, <3>3, Reached
    <3> QED BY <3>1, <3>4, <1>5
  <2>2. k \in DOMAIN d[cf]
    <3>1. 0 \in 0 .. n /\ f[0] = d
      BY <1>3 DEF IsBatch
    <3> QED BY <2>1, <3>1, Zenon
  <2>3. PICK i \in 1 .. n : b[i] = Delete(cf, k)
    BY <1>2, <2>2, Zenon
  <2>4. b[i].cf = cf /\ b[i].key = k /\ i \in 0 .. n
    BY <2>3 DEF Delete
  <2> QED BY <1>4, <2>1, <2>4, Zenon
<1>6. f[n] \in Db /\ WriteBatch(d, b) = f[n]
  BY <1>3 DEF IsBatch
<1> QED BY <1>1, <1>5, <1>6, EmptyIs

\* A batch of well-formed mutations makes a database of a database.
LEMMA BatchStays ==
  ASSUME NEW d \in Db, NEW T, IsFiniteSet(T), \A o \in T : IsOp(o)
  PROVE  WriteBatch(d, Batch(T)) \in Db
<1>1. PICK b : b = Batch(T)
  BY Zenon
<1>2. PICK n \in Nat : DOMAIN b = 1 .. n /\ Len(b) = n /\ \A i \in 1 .. n : b[i] \in T
  BY <1>1, Enumerated
<1>3. \E f : IsBatch(f, d, b, n)
  BY <1>2, BatchRuns, Zenon
<1> QED BY <1>1, <1>3 DEF IsBatch

\* The rows that write_batch is given are finitely many.
LEMMA RowsFinite ==
  ASSUME NEW d \in Db
  PROVE  /\ \A cf \in Family : IsFiniteSet({Delete(cf, k) : k \in DOMAIN d[cf]})
         /\ IsFiniteSet(Rows(d))
<1>1. ASSUME NEW cf \in Family, NEW g PROVE IsFiniteSet({g[k] : k \in DOMAIN d[cf]})
  <2>1. PICK K, T, h : /\ K = DOMAIN d[cf] /\ T = {g[k] : k \in K}
                       /\ h = [k \in K |-> g[k]]
    BY Zenon
  <2>2. h \in Surjection(K, T)
    BY <2>1 DEF Surjection
  <2>3. d[cf] \in Map
    BY Zenon DEF Db
  <2>4. IsFiniteSet(K)
    BY <2>1, <2>3, MapIs, Zenon
  <2> QED BY <2>1, <2>2, <2>4, FS_Surjection, Zenon
<1>2. ASSUME NEW cf \in Family PROVE IsFiniteSet({Delete(cf, k) : k \in DOMAIN d[cf]})
  <2>1. PICK g : g = [k \in DOMAIN d[cf] |-> Delete(cf, k)]
    BY Zenon
  <2>2. {Delete(cf, k) : k \in DOMAIN d[cf]} = {g[k] : k \in DOMAIN d[cf]}
    BY <2>1
  <2>3. IsFiniteSet({g[k] : k \in DOMAIN d[cf]})
    BY <1>1, Zenon
  <2> QED BY <2>2, <2>3, Zenon
<1>3. ASSUME NEW cf \in Family PROVE IsFiniteSet({Put(cf, k, d[cf][k]) : k \in DOMAIN d[cf]})
  <2>1. PICK g : g = [k \in DOMAIN d[cf] |-> Put(cf, k, d[cf][k])]
    BY Zenon
  <2>2. {Put(cf, k, d[cf][k]) : k \in DOMAIN d[cf]} = {g[k] : k \in DOMAIN d[cf]}
    BY <2>1
  <2>3. IsFiniteSet({g[k] : k \in DOMAIN d[cf]})
    BY <1>1, Zenon
  <2> QED BY <2>2, <2>3
<1>4. PICK g : g = [cf \in Family |-> {Put(cf, k, d[cf][k]) : k \in DOMAIN d[cf]}]
  BY Zenon
<1>5. Rows(d) = g[Families[1]] \cup g[Families[2]] /\ Families[1] \in Family /\ Families[2] \in Family
  <2>1. Family = {Families[1], Families[2]}
    BY DEF Family, Families, Range
  <2>2. \A cf \in Family : g[cf] = {Put(cf, k, d[cf][k]) : k \in DOMAIN d[cf]}
    BY <1>4, Zenon
  <2>3. Rows(d) = UNION {g[cf] : cf \in Family}
    BY <2>2 DEF Rows
  <2> QED BY <2>1, <2>3
<1>6. IsFiniteSet(g[Families[1]]) /\ IsFiniteSet(g[Families[2]])
  BY <1>3, <1>4, <1>5, Zenon
<1>7. IsFiniteSet(g[Families[1]] \cup g[Families[2]])
  BY <1>6, FS_Union, Zenon
<1> QED BY <1>2, <1>5, <1>7

\* A row of a dump, as the mutation that puts it.
LEMMA RowsOf ==
  ASSUME NEW dump \in Db, NEW o \in Rows(dump)
  PROVE  /\ IsOp(o) /\ o.op = "put" /\ o.key \in DOMAIN dump[o.cf]
         /\ o.value = dump[o.cf][o.key]
<1>1. PICK cf \in Family : \E k \in DOMAIN dump[cf] : o = Put(cf, k, dump[cf][k])
  BY DEF Rows
<1> PICK k \in DOMAIN dump[cf] : o = Put(cf, k, dump[cf][k])
  BY <1>1, Zenon
<1>2. dump[cf] \in Map
  BY Zenon DEF Db
<1>3. k \in Datum /\ dump[cf][k] \in Datum
  <2>1. DOMAIN dump[cf] \in SUBSET Datum /\ dump[cf] \in [DOMAIN dump[cf] -> Datum]
    BY <1>2, MapIs, Zenon
  <2> QED BY <2>1
<1>4. o.op = "put" /\ o.cf = cf /\ o.key = k /\ o.value = dump[cf][k]
  BY DEF Put
<1> QED BY <1>3, <1>4 DEF IsOp

\* The second batch of apply_dump puts the rows of the dump, and nothing else, into
\* the empty database.
LEMMA FillRestores ==
  ASSUME NEW dump \in Db
  PROVE  WriteBatch(EmptyDb, Batch(Rows(dump))) = dump
<1>1. PICK b : b = Batch(Rows(dump))
  BY Zenon
<1>2. IsFiniteSet(Rows(dump))
  BY RowsFinite, Zenon
<1>3. PICK n \in Nat : /\ DOMAIN b = 1 .. n /\ Len(b) = n
                       /\ \A i \in 1 .. n : b[i] \in Rows(dump)
                       /\ \A t \in Rows(dump) : \E i \in 1 .. n : b[i] = t
  BY <1>1, <1>2, Enumerated
<1>4. \A o \in Rows(dump) : /\ IsOp(o) /\ o.op = "put" /\ o.key \in DOMAIN dump[o.cf]
                             /\ o.value = dump[o.cf][o.key]
  BY RowsOf, Zenon
<1>5. EmptyDb \in Db
  BY EmptyIs, Zenon
<1>6. PICK f : IsBatch(f, EmptyDb, b, n)
  <2>1. \A i \in 1 .. n : IsOp(b[i])
    BY <1>3, <1>4, Zenon
  <2>2. \E f : IsBatch(f, EmptyDb, b, n)
    BY <1>3, <1>5, <2>1, BatchRuns, Zenon
  <2> QED BY <2>2, Zenon
<1>7. ASSUME NEW i \in 1 .. n, NEW cf \in Family
      PROVE  /\ DOMAIN f[i][cf] = DOMAIN f[i - 1][cf] \cup (IF b[i].cf = cf THEN {b[i].key} ELSE {})
             /\ \A k \in DOMAIN f[i][cf] :
                  f[i][cf][k] = IF b[i].cf = cf /\ b[i].key = k THEN dump[cf][k] ELSE f[i - 1][cf][k]
             /\ b[i].cf = cf => b[i].key \in DOMAIN dump[cf]
  <2>1. PICK d, o : d = f[i - 1] /\ o = b[i]
    BY Zenon
  <2>2. f[i] = ApplyOp(d, o)
    BY <1>6, <2>1, Zenon DEF IsBatch
  <2>3. d \in Db
    <3>1. i - 1 \in 0 .. n
      OBVIOUS
    <3> QED BY <1>6, <2>1, <3>1, Zenon DEF IsBatch
  <2>4. IsOp(o) /\ o.op = "put" /\ o.key \in DOMAIN dump[o.cf] /\ o.value = dump[o.cf][o.key]
    BY <1>3, <1>4, <2>1
  <2>5. /\ \A c \in Family \ {o.cf} : ApplyOp(d, o)[c] = d[c]
        /\ DOMAIN ApplyOp(d, o)[o.cf] = DOMAIN d[o.cf] \cup {o.key}
        /\ ApplyOp(d, o)[o.cf][o.key] = o.value
        /\ \A k \in DOMAIN d[o.cf] \ {o.key} : ApplyOp(d, o)[o.cf][k] = d[o.cf][k]
    BY <2>3, <2>4, ApplyOpIs, ZenonT(40)
  <2>6. CASE o.cf = cf
    BY SMTT(30), <2>1, <2>2, <2>4, <2>5, <2>6
  <2>7. CASE o.cf # cf
    <3>1. f[i][cf] = d[cf]
      BY <2>2, <2>5, <2>7
    <3> QED BY <2>1, <2>7, <3>1
  <2> QED BY <2>6, <2>7
<1>8. ASSUME NEW cf \in Family
      PROVE  DOMAIN f[n][cf] \subseteq DOMAIN dump[cf] /\ \A k \in DOMAIN f[n][cf] : f[n][cf][k] = dump[cf][k]
  <2> DEFINE Of(m) == DOMAIN m \subseteq DOMAIN dump[cf] /\ \A k \in DOMAIN m : m[k] = dump[cf][k]
  <2>1. PICK S : S = {i \in 0 .. n : Of(f[i][cf])}
    <3> HIDE DEF Of
    <3> QED BY Zenon
  <2>2. 0 \in S
    <3>1. f[0][cf] = EmptyMap
      BY <1>6 DEF IsBatch, EmptyDb
    <3>2. Of(f[0][cf])
      BY <3>1 DEF EmptyMap
    <3> HIDE DEF Of
    <3> QED BY <2>1, <3>2
  <2>3. ASSUME NEW i \in 1 .. n, i - 1 \in S PROVE i \in S
    <3>1. Of(f[i - 1][cf])
      <4> HIDE DEF Of
      <4> QED BY SMTT(30), <2>1, <2>3
    <3>2. Of(f[i][cf])
      BY <1>7, <3>1
    <3> HIDE DEF Of
    <3> QED BY <2>1, <3>2
  <2>4. n \in S
    <3> HIDE DEF Of
    <3> QED BY <2>2, <2>3, Reached
  <2> QED BY <2>1, <2>4
<1>9. ASSUME NEW cf \in Family, NEW k \in DOMAIN dump[cf] PROVE k \in DOMAIN f[n][cf]
  <2>1. Put(cf, k, dump[cf][k]) \in Rows(dump)
    BY DEF Rows
  <2>2. PICK m \in 1 .. n : b[m] = Put(cf, k, dump[cf][k])
    BY <1>3, <2>1, Zenon
  <2>3. b[m].cf = cf /\ b[m].key = k
    BY <2>2 DEF Put
  <2>4. PICK S : S = {i \in 0 .. n : i >= m => k \in DOMAIN f[i][cf]}
    BY Zenon
  <2>5. 0 \in S
    BY <2>4
  <2>6. ASSUME NEW i \in 1 .. n, i - 1 \in S PROVE i \in S
    <3>1. DOMAIN f[i][cf] = DOMAIN f[i - 1][cf] \cup (IF b[i].cf = cf THEN {b[i].key} ELSE {})
      BY <1>7, Zenon
    <3>2. i - 1 >= m => k \in DOMAIN f[i - 1][cf]
      BY <2>4, <2>6
    <3>3. i >= m => k \in DOMAIN f[i][cf]
      BY <2>3, <3>1, <3>2
    <3> QED BY <2>4, <3>3
  <2>7. n \in S
    BY <2>5, <2>6, Reached
  <2> QED BY <2>4, <2>7
<1>10. f[n] \in Db /\ WriteBatch(EmptyDb, b) = f[n]
  BY <1>6 DEF IsBatch
<1>11. f[n] = dump
  BY <1>8, <1>9, <1>10, SameDb, Zenon
<1> QED BY <1>1, <1>10, <1>11

-----------------------------------------------------------------------------
(* Restores.                                                               *)

\* Where a call is, and what it has gathered.
Typed(j) ==
  /\ job[j].dump \in Db
  /\ job[j].pc \in Making \cup {"prune", "pruning"} => job[j].call = "create"
  /\ job[j].pc \in {"read", "clear_scan", "clear", "fill"} => job[j].call = "restore"
  /\ job[j].call = "restore" => j = "operator"
  /\ job[j].pc \in {"checkpoint", "read"} => job[j].scanned = 0
  /\ job[j].pc = "read" => job[j].todo = {}
  /\ job[j].pc \in {"dump", "clear_scan"} => job[j].scanned \in 0 .. Len(Families) - 1
  /\ job[j].pc \in {"clear_scan", "clear"} =>
       IsFiniteSet(job[j].todo) /\ \A o \in job[j].todo : IsOp(o) /\ o.op = "delete"

\* What a call that nobody has disturbed knows of the database: the families that were
\* scanned are in the dump or will be deleted; from then on the database is empty, the
\* dump, and at last what the snapshot was taken of.
Progress(j) ==
  job[j].quiet =>
    /\ job[j].pc = "dump" =>
         \A i \in 1 .. job[j].scanned : job[j].dump[Families[i]] = db[Families[i]]
    /\ job[j].pc = "data" => job[j].dump = db
    /\ job[j].pc = "clear_scan" =>
         \A i \in 1 .. job[j].scanned : \A k \in DOMAIN db[Families[i]] :
           Delete(Families[i], k) \in job[j].todo
    /\ job[j].pc = "clear" =>
         \A cf \in Family : \A k \in DOMAIN db[cf] : Delete(cf, k) \in job[j].todo
    /\ job[j].pc = "fill" => db = EmptyDb
    /\ (job[j].pc = "recheck" /\ job[j].call = "restore") => db = job[j].dump
    /\ (job[j].pc \in {"smoke", "end"} /\ job[j].call = "restore" /\ job[j].id \notin reused
          /\ taken[job[j].id] # Nothing) => db = taken[job[j].id]

\* The snapshot that a restore has read is not made anew: its directory is there, with
\* the rows that were read, or it is too old to be named again.
Source(j) ==
  (job[j].call = "restore" /\ job[j].pc # "read" /\ job[j].id \notin reused) =>
    /\ \A i \in Caller : job[i].pc \in Making => job[i].id # job[j].id
    /\ disk[job[j].id].exists \/ job[j].id < now
    /\ (disk[job[j].id].exists /\ job[j].pc \in {"clear_scan", "clear", "fill", "recheck"}) =>
         disk[job[j].id].data = job[j].dump

\* A snapshot of a database that did not change has its rows.
Kept(id) ==
  /\ disk[id].data \in Db \cup {Nothing}
  /\ (id \notin reused /\ taken[id] # Nothing /\ disk[id].data # Nothing) => disk[id].data = taken[id]

RestoreInv ==
  /\ BackupInv
  /\ db \in Db /\ DOMAIN taken = Time
  /\ \A j \in Caller : Typed(j) /\ Progress(j) /\ Source(j)
  /\ \A id \in Time : Kept(id)

Applying == {"clear_scan", "clear", "fill", "recheck"}

\* A call that makes no step: at most it is disturbed, and it is if the database changes.
Same(i) ==
  /\ job'[i].call = job[i].call /\ job'[i].pc = job[i].pc /\ job'[i].id = job[i].id
  /\ job'[i].scanned = job[i].scanned /\ job'[i].dump = job[i].dump /\ job'[i].todo = job[i].todo
  /\ job'[i].quiet => job[i].quiet /\ db' = db

\* What every step leaves of the snapshots that restores have read.
Makes(k, id) == job[k].pc \in Making /\ job[k].id = id
Mild ==
  /\ reused \subseteq reused' /\ now <= now' /\ DOMAIN taken' = Time
  /\ \A k \in Caller : job'[k].pc \in Making =>
       Makes(k, job'[k].id) \/ (job'[k].id = now /\ (disk[now].exists => now \in reused'))
  /\ \A id \in Time :
       \/ disk'[id].exists = disk[id].exists /\ disk'[id].data = disk[id].data
       \/ \E k \in Caller : Makes(k, id)
       \/ ~disk'[id].exists /\ (id < now \/ \A k \in Caller : job'[k].call # "restore")
  /\ \A id \in Time : taken'[id] = taken[id] \/ \E k \in Caller : Makes(k, id)

\* The snapshot of a restore stays what it was.
LEMMA SourceStep ==
  ASSUME RestoreInv, BackupInv', Mild, NEW i \in Caller,
         (job'[i].call = "restore" /\ job'[i].pc # "read") =>
           /\ job[i].call = "restore" /\ job[i].pc # "read" /\ job'[i].id = job[i].id
           /\ job'[i].pc \in Applying => job[i].pc \in Applying /\ job'[i].dump = job[i].dump
  PROVE  Source(i)'
<1> SUFFICES ASSUME job'[i].call = "restore", job'[i].pc # "read", job'[i].id \notin reused'
             PROVE  /\ \A k \in Caller : job'[k].pc \in Making => job'[k].id # job'[i].id
                    /\ disk'[job'[i].id].exists \/ job'[i].id < now'
                    /\ (disk'[job'[i].id].exists /\ job'[i].pc \in Applying) =>
                         disk'[job'[i].id].data = job'[i].dump
  BY Zenon DEF Source, Applying
<1>1. PICK id \in Time : id = job[i].id /\ id = job'[i].id
  BY Zenon DEF RestoreInv, BackupInv, CallOk
<1>2. id \notin reused /\ Source(i) /\ job[i].call = "restore" /\ job[i].pc # "read"
  BY Zenon, <1>1 DEF Mild, RestoreInv
<1>3. /\ \A k \in Caller : ~Makes(k, id)
      /\ disk[id].exists \/ id < now
      /\ (disk[id].exists /\ job[i].pc \in Applying) => disk[id].data = job[i].dump
  BY ZenonT(40), <1>1, <1>2 DEF Source, Makes, Applying
<1>4. now \in Nat /\ now' \in Nat /\ id \in Nat /\ now <= now' /\ ~(now < now)
  BY SMTT(30) DEF RestoreInv, BackupInv, Time, Mild
<1>5. ASSUME NEW k \in Caller, job'[k].pc \in Making PROVE job'[k].id # id
  <2>1. Makes(k, job'[k].id) \/ (job'[k].id = now /\ (disk[now].exists => now \in reused'))
    BY Zenon, <1>5 DEF Mild
  <2>2. CASE Makes(k, job'[k].id)
    BY Zenon, <1>3, <2>2
  <2>3. CASE job'[k].id = now /\ (disk[now].exists => now \in reused')
    BY Zenon, <1>1, <1>3, <1>4, <2>3
  <2> QED BY <2>1, <2>2, <2>3
<1>6. \/ disk'[id].exists = disk[id].exists /\ disk'[id].data = disk[id].data
      \/ ~disk'[id].exists /\ id < now
  BY Zenon, <1>3 DEF Mild
<1>7. disk'[id].exists \/ id < now'
  BY <1>3, <1>4, <1>6
<1>8. (disk'[id].exists /\ job'[i].pc \in Applying) => disk'[id].data = job'[i].dump
  BY Zenon, <1>3, <1>6
<1> QED BY Zenon, <1>1, <1>5, <1>7, <1>8

\* A call that makes no step knows what it knew.
LEMMA Bystander ==
  ASSUME RestoreInv, BackupInv', Mild, NEW i \in Caller, Same(i)
  PROVE  Typed(i)' /\ Progress(i)' /\ Source(i)'
<1>1. Typed(i) /\ Progress(i) /\ Source(i) /\ job[i].id \in Time
  BY Zenon DEF RestoreInv, BackupInv, CallOk
<1>2. Typed(i)'
  BY Zenon, <1>1 DEF Typed, Same
<1>3. Source(i)'
  BY Zenon, SourceStep DEF Same
<1>4. Progress(i)'
  <2> SUFFICES ASSUME job'[i].quiet PROVE Progress(i)'
    BY Zenon DEF Progress
  <2>1. job[i].quiet /\ db' = db
    BY Zenon DEF Same
  <2>2. (/\ job[i].pc \in {"smoke", "end"} /\ job[i].call = "restore" /\ job[i].id \notin reused'
         /\ taken'[job[i].id] # Nothing) => db = taken'[job[i].id]
    <3> SUFFICES ASSUME job[i].pc \in {"smoke", "end"}, job[i].call = "restore",
                        job[i].id \notin reused', taken'[job[i].id] # Nothing
                 PROVE  db = taken'[job[i].id]
      BY Zenon
    <3>1. job[i].id \notin reused /\ job[i].pc # "read"
      BY DEF Mild
    <3>2. taken'[job[i].id] = taken[job[i].id]
      BY Zenon, <1>1, <3>1 DEF Source, Mild, Makes
    <3> QED BY Zenon, <1>1, <2>1, <3>1, <3>2 DEF Progress
  <2> QED BY Zenon, <1>1, <2>1, <2>2 DEF Progress, Same
<1> QED BY <1>2, <1>3, <1>4

\* A call that does nothing any more, and was no restore that succeeded.
LEMMA Ended ==
  ASSUME NEW i \in Caller, job'[i].pc = "end", job'[i].call # "restore", job'[i].dump = EmptyDb
  PROVE  Typed(i)' /\ Progress(i)' /\ Source(i)'
<1>1. EmptyDb \in Db
  BY Zenon, EmptyIs
<1>2. job'[i].pc \notin Making
  BY DEF Making
<1>3. Typed(i)'
  BY <1>1, <1>2 DEF Typed
<1> QED BY <1>3 DEF Progress, Source

\* A call of create_snapshot where nothing it has scanned is in use.
LEMMA Created ==
  ASSUME NEW i \in Caller, NEW pc \in {"dump", "manifest", "prune", "pruning"}, job'[i].pc = pc,
         job'[i].call = "create", job'[i].dump \in Db, pc = "dump" => job'[i].scanned = 0
  PROVE  Typed(i)' /\ Progress(i)' /\ Source(i)'
<1>1. Len(Families) = 2
  BY DEF Families
<1>2. pc = "dump" => job'[i].scanned \in 0 .. Len(Families) - 1
  BY <1>1
<1>3. Typed(i)'
  BY Zenon, <1>2 DEF Typed
<1>4. pc = "dump" => 1 .. job'[i].scanned = {}
  OBVIOUS
<1> QED BY Zenon, <1>3, <1>4 DEF Progress, Source

\* What the steps of a call use of the invariant.
LEMMA Known ==
  ASSUME RestoreInv, NEW j \in Caller, NEW id \in Time
  PROVE  /\ DOMAIN job = Caller /\ DOMAIN job[j] = DOMAIN NoJob /\ DOMAIN disk = Time
         /\ DOMAIN disk[id] = DOMAIN NoDir /\ now \in Nat /\ now <= now /\ DOMAIN taken = Time /\ db \in Db
         /\ Typed(j) /\ Progress(j) /\ Source(j) /\ Kept(id)
<1>1. now \in Time /\ DOMAIN job[j] = DOMAIN NoJob /\ DOMAIN disk[id] = DOMAIN NoDir
  BY Zenon DEF RestoreInv, BackupInv, CallOk, DirOk
<1>2. now \in Nat /\ now <= now
  BY <1>1 DEF Time
<1> QED BY Zenon, <1>1, <1>2 DEF RestoreInv, BackupInv

\* The step as a whole.
LEMMA Together ==
  ASSUME RestoreInv, BackupInv', Mild, db' \in Db, \A id \in Time : Kept(id)',
         \A i \in Caller : Same(i) \/ (Typed(i)' /\ Progress(i)' /\ Source(i)')
  PROVE  RestoreInv'
<1>1. \A i \in Caller : Typed(i)' /\ Progress(i)' /\ Source(i)'
  BY Zenon, Bystander
<1> QED BY Zenon, <1>1 DEF RestoreInv, Mild

\* Snapshots that no step touches, or that are removed.
LEMMA KeptStays ==
  ASSUME RestoreInv, reused \subseteq reused', taken' = taken,
         \A id \in Time : disk'[id].data = disk[id].data \/ disk'[id].data = Nothing
  PROVE  \A id \in Time : Kept(id)'
  BY Zenon DEF RestoreInv, Kept

\* A call returns: what it was asked is remembered if it was a restore that passed the
\* smoke test.
LEMMA ReturnRestores ==
  ASSUME RestoreInv, NEW j \in Caller, NEW ok \in BOOLEAN, Return(j, ok),
         UNCHANGED <<db, disk, now, taken, reused>>,
         (ok /\ job[j].call = "restore") => job[j].pc = "smoke"
  PROVE  RestoreInv'
<1>1. BackupInv /\ BackupInv'
  BY Zenon, ReturnKeeps DEF RestoreInv
<1>2. DOMAIN job = Caller /\ DOMAIN job[j] = DOMAIN NoJob /\ job[j].id \in Time /\ now \in Nat
  BY <1>1 DEF BackupInv, CallOk, Time
<1>3. PICK again : again = (ok /\ job[j].call = "restore")
  BY Zenon
<1>4. /\ \A i \in Caller \ {j} : job'[i] = job[i]
      /\ job'[j] = IF again THEN [NoJob EXCEPT !.call = "restore", !.id = job[j].id, !.quiet = job[j].quiet]
                   ELSE NoJob
  BY Zenon, <1>2, <1>3 DEF Return
<1>5. /\ job'[j].pc = "end" /\ job'[j].dump = EmptyDb
      /\ again => job'[j].call = "restore" /\ job'[j].id = job[j].id /\ job'[j].quiet = job[j].quiet
      /\ ~again => job'[j].call = "none"
  <2>1. CASE again
    BY <1>4, <2>1 DEF NoJob
  <2>2. CASE ~again
    BY <1>4, <2>2 DEF NoJob
  <2> QED BY <2>1, <2>2
<1>6. Mild
  <2>1. \A k \in Caller : job'[k].pc \in Making => Makes(k, job'[k].id)
    <3>1. job'[j].pc \notin Making
      BY <1>5 DEF Making
    <3> QED BY Zenon, <1>4, <3>1 DEF Makes
  <2>2. now <= now' /\ DOMAIN taken' = Time
    BY <1>2 DEF RestoreInv
  <2> QED BY Zenon, <2>1, <2>2 DEF Mild
<1>7. \A id \in Time : Kept(id)'
  BY Zenon, KeptStays
<1>8. CASE ~again
  <2>1. Typed(j)' /\ Progress(j)' /\ Source(j)'
    BY <1>5, <1>8, Ended
  <2> QED BY Zenon, <1>1, <1>4, <1>6, <1>7, <2>1, Together DEF RestoreInv, Same
<1>9. CASE again
  <2>1. job[j].call = "restore" /\ job[j].pc = "smoke" /\ Progress(j) /\ Typed(j)
    BY Zenon, <1>3, <1>9 DEF RestoreInv
  <2>2. Typed(j)'
    <3>1. job'[j].pc \notin Making /\ EmptyDb \in Db
      BY <1>5, EmptyIs DEF Making
    <3> QED BY SMTT(30), <1>5, <1>9, <2>1, <3>1 DEF Typed
  <2>3. Progress(j)'
    BY <1>5, <1>9, <2>1, Zenon DEF Progress
  <2>4. Source(j)'
    <3>1. "smoke" # "read" /\ "end" \notin Applying
      BY DEF Applying
    <3> QED BY Zenon, <1>1, <1>5, <1>6, <1>9, <2>1, <3>1, SourceStep
  <2> QED BY Zenon, <1>1, <1>4, <1>6, <1>7, <2>2, <2>3, <2>4, Together DEF RestoreInv, Same
<1> QED BY Zenon, <1>8, <1>9

\* A call begins.
LEMMA StartRestores ==
  ASSUME RestoreInv, BackupInv', NEW j \in Caller, NEW call, NEW pc, NEW id, Start(j, call, pc, id),
         reused \subseteq reused', taken' = taken,
         \/ call = "create" /\ pc = "checkpoint" /\ id = now /\ (disk[now].exists => now \in reused')
         \/ call = "restore" /\ pc = "read" /\ j = "operator"
         \/ call = "validate" /\ pc = "recheck"
  PROVE  RestoreInv'
<1>1. DOMAIN job = Caller /\ UNCHANGED <<db, disk, now>> /\ now \in Nat
  BY DEF Start, RestoreInv, BackupInv, Time
<1>2. /\ \A i \in Caller \ {j} : job'[i] = job[i]
      /\ job'[j] = [NoJob EXCEPT !.call = call, !.pc = pc, !.id = id, !.quiet = TRUE]
  BY Zenon, <1>1 DEF Start
<1>3. /\ job'[j].call = call /\ job'[j].pc = pc /\ job'[j].id = id /\ job'[j].dump = EmptyDb
      /\ job'[j].scanned = 0 /\ job'[j].todo = {}
  BY <1>2 DEF NoJob
<1>4. Mild
  <2>1. job'[j].pc \in Making => job'[j].id = now /\ (disk[now].exists => now \in reused')
    BY <1>3 DEF Making
  <2>2. now <= now' /\ DOMAIN taken' = Time
    BY <1>1 DEF RestoreInv
  <2>3. \A k \in Caller : job'[k].pc \in Making =>
          Makes(k, job'[k].id) \/ (job'[k].id = now /\ (disk[now].exists => now \in reused'))
    BY Zenon, <1>2, <2>1 DEF Makes
  <2> QED BY Zenon, <1>1, <2>2, <2>3 DEF Mild
<1>5. Typed(j)'
  <2>1. EmptyDb \in Db
    BY Zenon, EmptyIs
  <2> QED BY <1>3, <2>1 DEF Typed, Making
<1>6. Progress(j)' /\ Source(j)'
  BY <1>3 DEF Progress, Source
<1>7. \A id_1 \in Time : Kept(id_1)'
  BY Zenon, <1>1, KeptStays
<1> QED BY Zenon, <1>1, <1>2, <1>4, <1>5, <1>6, <1>7, Together DEF RestoreInv, Same

\* create_snapshot up to the manifest, and the list of what is too old.
LEMMA MakeRestores ==
  ASSUME RestoreInv, NEW j \in Caller,
         Checkpoint(j) \/ WriteData(j) \/ WriteManifest(j) \/ PruneList(j)
  PROVE  RestoreInv'
<1>1. BackupInv /\ BackupInv'
  BY Zenon, MakeKeeps, PruneListKeeps DEF RestoreInv
<1>2. PICK id \in Time : id = job[j].id
  BY Zenon, <1>1 DEF BackupInv, CallOk
<1>3. /\ id = job[j].id /\ DOMAIN job = Caller /\ DOMAIN job[j] = DOMAIN NoJob /\ DOMAIN disk = Time
      /\ DOMAIN disk[id] = DOMAIN NoDir /\ now \in Nat /\ Typed(j) /\ Progress(j) /\ DOMAIN taken = Time
      /\ db \in Db
  BY Zenon, <1>2, Known
<1>4. CASE (Checkpoint(j) \/ WriteManifest(j)) /\ Return(j, FALSE) /\ UNCHANGED disk
  <2>1. UNCHANGED <<db, disk, now, taken, reused>>
    BY Zenon, <1>4 DEF Checkpoint, WriteManifest
  <2> QED BY Zenon, <1>4, <2>1, ReturnRestores
<1>5. ASSUME NEW pc \in {"dump", "manifest", "prune", "pruning"},
             /\ job'[j].pc = pc /\ job'[j].call = "create" /\ job'[j].id = id
             /\ job'[j].dump = job[j].dump /\ job'[j].scanned = job[j].scanned,
             job[j].pc \in Making \/ pc = "pruning", pc = "dump" => job[j].scanned = 0,
             UNCHANGED <<db, now, reused>>, DOMAIN taken' = Time,
             \A i \in Caller \ {j} : job'[i] = job[i],
             \A i \in Time : disk'[i] = disk[i] \/ Makes(j, i),
             \A i \in Time : taken'[i] = taken[i] \/ Makes(j, i),
             \A i \in Time : Kept(i)'
      PROVE  RestoreInv'
  <2>1. Mild
    <3>1. now <= now'
      BY Zenon, <1>2, <1>5, Known
    <3>2. \A k \in Caller : job'[k].pc \in Making => Makes(k, job'[k].id)
      <4>1. job'[j].pc \in Making => Makes(j, id)
        BY <1>3, <1>5, Zenon DEF Makes, Making
      <4> QED BY Zenon, <1>5, <4>1 DEF Makes
    <3> QED BY Zenon, <1>5, <3>1, <3>2 DEF Mild
  <2>2. job'[j].dump \in Db
    BY <1>3, <1>5, Zenon DEF Typed
  <2>3. Typed(j)' /\ Progress(j)' /\ Source(j)'
    BY Zenon, <1>5, <2>2, Created
  <2> QED BY Zenon, <1>1, <1>3, <1>5, <2>1, <2>3, Together DEF Same
<1>6. CASE Checkpoint(j) /\ ~CheckpointFails(engine, disk[id].exists)
  <2>1. /\ job[j].pc = "checkpoint" /\ UNCHANGED <<db, now, taken, reused>>
        /\ job' = [job EXCEPT ![j].pc = "dump"] /\ disk' = [disk EXCEPT ![id].exists = TRUE]
    BY <1>3, <1>6 DEF Checkpoint, Advance
  <2>2. /\ \A i \in Caller \ {j} : job'[i] = job[i]
        /\ job'[j] = [job[j] EXCEPT !.pc = "dump"]
    BY Zenon, <1>3, <2>1
  <2>3. disk'[id] = [disk[id] EXCEPT !.exists = TRUE]
    BY Zenon, <1>3, <2>1
  <2>4. \A i \in Time \ {id} : disk'[i] = disk[i]
    BY Zenon, <1>3, <2>1
  <2>5. job[j].pc \in Making /\ job[j].call = "create" /\ job[j].scanned = 0
    BY <1>3, <2>1 DEF Typed, Making
  <2>6. /\ job'[j].pc = "dump" /\ job'[j].call = "create" /\ job'[j].id = id
        /\ job'[j].dump = job[j].dump /\ job'[j].scanned = job[j].scanned
    BY <1>3, <2>2, <2>5 DEF NoJob
  <2>7. disk'[id].data = disk[id].data
    BY <1>3, <2>3 DEF NoDir
  <2>8. \A i \in Time : Kept(i)'
    BY Zenon, <2>1, <2>4, <2>7, KeptStays
  <2>9. DOMAIN taken' = Time /\ Makes(j, id)
    BY Zenon, <1>3, <2>1, <2>5 DEF Makes
  <2> QED BY Zenon, <1>5, <2>1, <2>2, <2>4, <2>5, <2>6, <2>8, <2>9
<1>7. CASE WriteData(j)
  <2>1. /\ job[j].pc = "data" /\ UNCHANGED <<db, now, reused>>
        /\ job' = [job EXCEPT ![j].pc = "manifest"]
        /\ disk' = [disk EXCEPT ![id].exists = TRUE, ![id].data = job[j].dump]
        /\ taken' = [taken EXCEPT ![id] = IF job[j].quiet THEN db ELSE Nothing]
    BY <1>3, <1>7 DEF WriteData, Advance
  <2>2. /\ \A i \in Caller \ {j} : job'[i] = job[i]
        /\ job'[j] = [job[j] EXCEPT !.pc = "manifest"]
    BY Zenon, <1>3, <2>1
  <2>3. disk'[id] = [disk[id] EXCEPT !.exists = TRUE, !.data = job[j].dump]
    BY Zenon, <1>3, <2>1
  <2>4. \A i \in Time \ {id} : disk'[i] = disk[i]
    BY Zenon, <1>3, <2>1
  <2>5. job[j].pc \in Making /\ job[j].call = "create" /\ job[j].dump \in Db
    BY <1>3, <2>1 DEF Typed, Making
  <2>6. /\ job'[j].pc = "manifest" /\ job'[j].call = "create" /\ job'[j].id = id
        /\ job'[j].dump = job[j].dump /\ job'[j].scanned = job[j].scanned
    BY <1>3, <2>2, <2>5 DEF NoJob
  <2>7. disk'[id].data = job[j].dump
    BY <1>3, <2>3 DEF NoDir
  <2>8. /\ DOMAIN taken' = Time /\ \A i \in Time \ {id} : taken'[i] = taken[i]
        /\ taken'[id] = IF job[j].quiet THEN db ELSE Nothing
    BY Zenon, <1>3, <2>1
  <2>9. job[j].quiet => job[j].dump = db
    BY Zenon, <1>3, <2>1 DEF Progress
  <2>10. \A i \in Time : Kept(i)'
    <3>1. Kept(id)'
      BY Zenon, <2>5, <2>7, <2>8, <2>9 DEF Kept
    <3>2. ASSUME NEW i \in Time \ {id} PROVE Kept(i)'
      BY ZenonT(40), <2>1, <2>4, <2>8 DEF RestoreInv, Kept
    <3> QED BY Zenon, <3>1, <3>2
  <2>11. Makes(j, id)
    BY Zenon, <1>3, <2>5 DEF Makes
  <2> QED BY Zenon, <1>5, <2>1, <2>2, <2>4, <2>5, <2>6, <2>8, <2>10, <2>11
<1>8. CASE WriteManifest(j) /\ disk[id].exists
  <2>1. /\ job[j].pc = "manifest" /\ UNCHANGED <<db, now, taken, reused>>
        /\ job' = [job EXCEPT ![j].pc = "prune"]
        /\ disk' = [disk EXCEPT ![id].manifest = Checksums(job[j].dump)]
    BY <1>3, <1>8 DEF WriteManifest, Advance
  <2>2. /\ \A i \in Caller \ {j} : job'[i] = job[i]
        /\ job'[j] = [job[j] EXCEPT !.pc = "prune"]
    BY Zenon, <1>3, <2>1
  <2>3. disk'[id] = [disk[id] EXCEPT !.manifest = Checksums(job[j].dump)]
    BY Zenon, <1>3, <2>1
  <2>4. \A i \in Time \ {id} : disk'[i] = disk[i]
    BY Zenon, <1>3, <2>1
  <2>5. job[j].pc \in Making /\ job[j].call = "create"
    BY <1>3, <2>1 DEF Typed, Making
  <2>6. /\ job'[j].pc = "prune" /\ job'[j].call = "create" /\ job'[j].id = id
        /\ job'[j].dump = job[j].dump /\ job'[j].scanned = job[j].scanned
    BY <1>3, <2>2, <2>5 DEF NoJob
  <2>7. disk'[id].data = disk[id].data
    BY <1>3, <2>3 DEF NoDir
  <2>8. \A i \in Time : Kept(i)'
    BY Zenon, <2>1, <2>4, <2>7, KeptStays
  <2>9. DOMAIN taken' = Time /\ Makes(j, id)
    BY Zenon, <1>3, <2>1, <2>5 DEF Makes
  <2> QED BY ZenonT(40), <1>5, <2>1, <2>2, <2>4, <2>5, <2>6, <2>8, <2>9
<1>9. CASE PruneList(j)
  <2>1. job[j].pc = "prune" /\ UNCHANGED <<db, disk, now, taken, reused>>
    BY Zenon, <1>9 DEF PruneList
  <2>2. PICK old : job'[j] = [job[j] EXCEPT !.pc = "pruning", !.todo = old]
    BY Zenon, <1>3, <1>9 DEF PruneList
  <2>3. \A i \in Caller \ {j} : job'[i] = job[i]
    BY Zenon, <1>3, <1>9 DEF PruneList
  <2>4. job[j].call = "create"
    BY <1>3, <2>1, Zenon DEF Typed
  <2>5. /\ job'[j].pc = "pruning" /\ job'[j].call = "create" /\ job'[j].id = id
        /\ job'[j].dump = job[j].dump /\ job'[j].scanned = job[j].scanned
    BY <1>3, <2>2, <2>4 DEF NoJob
  <2>6. \A i \in Time : Kept(i)'
    BY Zenon, <2>1, KeptStays
  <2> QED BY Zenon, <1>3, <1>5, <2>1, <2>3, <2>5, <2>6
<1> QED BY Zenon, <1>3, <1>4, <1>6, <1>7, <1>8, <1>9 DEF Checkpoint, WriteManifest

\* A step of calls that touches no snapshot.
LEMMA MildJob ==
  ASSUME RestoreInv, UNCHANGED <<disk, taken, reused>>, now <= now',
         \A k \in Caller : job'[k].pc \in Making => Makes(k, job'[k].id)
  PROVE  Mild /\ \A id \in Time : Kept(id)'
<1>1. \A id \in Time : Kept(id)'
  BY Zenon, KeptStays
<1> QED BY Zenon, <1>1 DEF Mild, RestoreInv

\* The column families.
LEMMA FamilyIs ==
  /\ Family = {Families[1], Families[2]} /\ Len(Families) = 2
  /\ \A d \in Db : \A cf \in Family : Scan(d, cf, Unbounded, Unbounded) = d[cf]
<1>1. Family = {Families[1], Families[2]} /\ Len(Families) = 2
  BY DEF Family, Families, Range
<1>2. ASSUME NEW d \in Db, NEW cf \in Family PROVE Scan(d, cf, Unbounded, Unbounded) = d[cf]
  <2>1. PICK m : m = d[cf]
    BY Zenon
  <2>2. m \in [DOMAIN m -> Datum]
    BY Zenon, <2>1, MapIs DEF Db
  <2>3. {k \in DOMAIN m : InRange(k, Unbounded, Unbounded)} = DOMAIN m
    BY Zenon DEF InRange
  <2>4. [k \in DOMAIN m |-> m[k]] = m
    BY <2>2
  <2> QED BY Zenon, <2>1, <2>3, <2>4 DEF Scan
<1> QED BY <1>1, <1>2

\* The scan of a column family: what was scanned stays as it was while nobody writes.
LEMMA ScanRestores ==
  ASSUME RestoreInv, NEW j \in Caller, ScanNext(j)
  PROVE  RestoreInv'
<1>1. BackupInv /\ BackupInv'
  BY Zenon, ScanKeeps DEF RestoreInv
<1>2. /\ DOMAIN job = Caller /\ DOMAIN job[j] = DOMAIN NoJob /\ job[j].id \in Time /\ now \in Nat
      /\ Typed(j) /\ Progress(j) /\ db \in Db
  BY SMTT(30), <1>1 DEF RestoreInv, BackupInv, CallOk, Time
<1>3. job[j].pc \in {"dump", "clear_scan"} /\ UNCHANGED <<db, disk, now, taken, reused>>
  BY Zenon DEF ScanNext
<1>4. PICK s \in 0 .. 1 : s = job[j].scanned
  BY SMTT(30), <1>2, <1>3, FamilyIs DEF Typed
<1>5. PICK cf \in Family : cf = Families[s + 1]
  <2>1. Families[s + 1] \in Family
    BY FamilyIs
  <2> QED BY Zenon, <2>1
<1>6. PICK dump, todo, pc :
        /\ dump = IF job[j].pc = "dump"
                  THEN [job[j].dump EXCEPT ![cf] = Scan(db, cf, Unbounded, Unbounded)]
                  ELSE job[j].dump
        /\ todo = IF job[j].pc = "dump" THEN job[j].todo
                  ELSE job[j].todo \cup {Delete(cf, k) : k \in DOMAIN db[cf]}
        /\ pc = IF ~(s + 1 = Len(Families)) THEN job[j].pc
                ELSE IF job[j].pc = "dump" THEN "data" ELSE "clear"
  BY Zenon
<1>7. /\ \A i \in Caller \ {j} : job'[i] = job[i]
      /\ job'[j] = [job[j] EXCEPT !.scanned = s + 1, !.dump = dump, !.todo = todo, !.pc = pc]
  <2>1. \A i \in Caller \ {j} : job'[i] = job[i]
    BY Zenon, <1>2 DEF ScanNext
  <2> DEFINE c == Families[job[j].scanned + 1]
  <2>2. job'[j] = [job[j] EXCEPT
          !.scanned = @ + 1,
          !.dump = IF job[j].pc = "dump" THEN [@ EXCEPT ![c] = Scan(db, c, Unbounded, Unbounded)] ELSE @,
          !.todo = IF job[j].pc = "dump" THEN @ ELSE @ \cup {Delete(c, k) : k \in DOMAIN db[c]},
          !.pc = IF ~(job[j].scanned + 1 = Len(Families)) THEN @ ELSE IF @ = "dump" THEN "data" ELSE "clear"]
    BY Zenon, <1>2 DEF ScanNext
  <2>3. c = cf
    BY Zenon, <1>4, <1>5
  <2> HIDE DEF c
  <2>4. job'[j] = [job[j] EXCEPT
          !.scanned = job[j].scanned + 1,
          !.dump = IF job[j].pc = "dump" THEN [job[j].dump EXCEPT ![c] = Scan(db, c, Unbounded, Unbounded)]
                   ELSE job[j].dump,
          !.todo = IF job[j].pc = "dump" THEN job[j].todo
                   ELSE job[j].todo \cup {Delete(c, k) : k \in DOMAIN db[c]},
          !.pc = IF ~(job[j].scanned + 1 = Len(Families)) THEN job[j].pc
                 ELSE IF job[j].pc = "dump" THEN "data" ELSE "clear"]
    BY Zenon, <2>2
  <2> QED BY <1>4, <1>6, <2>1, <2>3, <2>4
<1>8. /\ job'[j].call = job[j].call /\ job'[j].id = job[j].id /\ job'[j].quiet = job[j].quiet
      /\ job'[j].scanned = s + 1 /\ job'[j].dump = dump /\ job'[j].todo = todo /\ job'[j].pc = pc
  BY SMTT(30), <1>2, <1>7 DEF NoJob
<1>9. pc = IF s = 0 THEN job[j].pc ELSE IF job[j].pc = "dump" THEN "data" ELSE "clear"
  BY SMTT(30), <1>6, FamilyIs
<1>10. Mild /\ \A id \in Time : Kept(id)'
  <2>1. now <= now'
    BY SMTT(30), <1>2, <1>3
  <2>2. job'[j].pc \in Making => Makes(j, job'[j].id)
    BY <1>3, <1>8, <1>9 DEF Makes, Making
  <2>3. \A k \in Caller : job'[k].pc \in Making => Makes(k, job'[k].id)
    BY Zenon, <1>7, <2>2 DEF Makes
  <2> QED BY ZenonT(40), <1>3, <2>1, <2>3, MildJob
<1>11. CASE job[j].pc = "dump"
  <2>1. dump = [job[j].dump EXCEPT ![cf] = db[cf]] /\ job[j].dump \in Db
    BY Zenon, <1>2, <1>6, <1>11, FamilyIs DEF Typed
  <2>2. dump \in Db /\ dump[cf] = db[cf] /\ \A c \in Family \ {cf} : dump[c] = job[j].dump[c]
    BY SMTT(30), <1>2, <2>1 DEF Db
  <2>3. job[j].call = "create"
    BY SMTT(30), <1>2, <1>11 DEF Typed, Making
  <2>4. Typed(j)'
    BY SMTT(30), <1>8, <1>9, <1>11, <2>2, <2>3, FamilyIs DEF Typed, Making
  <2>5. ASSUME job[j].quiet, NEW i \in 1 .. s + 1 PROVE dump[Families[i]] = db[Families[i]]
    <3>1. CASE i = s + 1
      BY <1>5, <2>2, <3>1
    <3>2. CASE i # s + 1
      <4>1. i \in 1 .. s /\ Families[i] \in Family
        BY SMTT(30), <3>2, FamilyIs
      <4>2. job[j].dump[Families[i]] = db[Families[i]]
        BY SMTT(30), <1>2, <1>4, <1>11, <2>5, <4>1 DEF Progress
      <4> QED BY Zenon, <2>2, <4>1, <4>2
    <3> QED BY <3>1, <3>2
  <2>6. (job[j].quiet /\ s = 1) => dump = db
    <3> SUFFICES ASSUME job[j].quiet, s = 1 PROVE dump = db
      OBVIOUS
    <3>1. dump[Families[1]] = db[Families[1]] /\ dump[Families[2]] = db[Families[2]]
      BY <2>5
    <3>2. \A c \in Family : dump[c] = db[c]
      BY Zenon, <3>1, FamilyIs
    <3> QED BY <1>2, <2>2, <3>2 DEF Db
  <2>7. Progress(j)'
    BY SMTT(30), <1>3, <1>8, <1>9, <1>11, <2>3, <2>5, <2>6 DEF Progress
  <2>8. Source(j)'
    BY SMTT(30), <1>8, <2>3 DEF Source
  <2> QED BY Zenon, <1>1, <1>2, <1>3, <1>7, <1>10, <2>4, <2>7, <2>8, Together DEF Same
<1>12. CASE job[j].pc = "clear_scan"
  <2>1. /\ dump = job[j].dump /\ todo = job[j].todo \cup {Delete(cf, k) : k \in DOMAIN db[cf]}
        /\ pc \in {"clear_scan", "clear"} /\ (pc = "clear_scan" <=> s = 0)
    BY SMTT(30), <1>6, <1>9, <1>12
  <2>2. /\ job[j].call = "restore" /\ j = "operator" /\ job[j].dump \in Db
        /\ IsFiniteSet(job[j].todo) /\ \A o \in job[j].todo : IsOp(o) /\ o.op = "delete"
    BY <1>2, <1>12 DEF Typed
  <2>3. IsFiniteSet(todo)
    <3>1. IsFiniteSet({Delete(cf, k) : k \in DOMAIN db[cf]})
      BY Zenon, <1>2, RowsFinite
    <3> QED BY Zenon, <2>1, <2>2, <3>1, FS_Union
  <2>4. \A o \in todo : IsOp(o) /\ o.op = "delete"
    <3>1. \A k : IsOp(Delete(cf, k)) /\ Delete(cf, k).op = "delete"
      BY SMTT(30) DEF IsOp, Delete
    <3> QED BY Zenon, <2>1, <2>2, <3>1
  <2>5. Typed(j)'
    BY SMTT(30), <1>8, <2>1, <2>2, <2>3, <2>4, FamilyIs DEF Typed, Making
  <2>6. ASSUME job[j].quiet, NEW i \in 1 .. s + 1, NEW k \in DOMAIN db[Families[i]]
        PROVE  Delete(Families[i], k) \in todo
    <3>1. CASE i = s + 1
      BY Zenon, <1>5, <2>1, <2>6, <3>1
    <3>2. CASE i # s + 1
      <4>1. i \in 1 .. s
        BY <3>2
      <4>2. Delete(Families[i], k) \in job[j].todo
        BY Zenon, <1>2, <1>4, <1>12, <2>6, <4>1 DEF Progress
      <4> QED BY Zenon, <2>1, <4>2
    <3> QED BY <3>1, <3>2
  <2>7. (job[j].quiet /\ s = 1) => \A c \in Family : \A k \in DOMAIN db[c] : Delete(c, k) \in todo
    <3> SUFFICES ASSUME job[j].quiet, s = 1, NEW c \in Family, NEW k \in DOMAIN db[c]
                 PROVE  Delete(c, k) \in todo
      OBVIOUS
    <3>1. PICK i \in 1 .. s + 1 : c = Families[i]
      BY FamilyIs, SMTT(30)
    <3> QED BY Zenon, <2>6, <3>1
  <2>8. Progress(j)'
    BY <1>3, <1>8, <2>1, <2>6, <2>7 DEF Progress
  <2>9. Source(j)'
    <3>1. pc # "read" /\ pc \in Applying /\ job[j].pc # "read" /\ job[j].pc \in Applying
      BY <1>12, <2>1 DEF Applying
    <3> QED BY Zenon, <1>1, <1>8, <1>10, <2>1, <3>1, SourceStep
  <2> QED BY Zenon, <1>1, <1>2, <1>3, <1>7, <1>10, <2>5, <2>8, <2>9, Together DEF Same
<1> QED BY <1>3, <1>11, <1>12, Zenon

\* prune_retention removes a directory, and no restore has read it unless it is too
\* old to be made anew.
LEMMA PruneRestores ==
  ASSUME RestoreInv, NEW j \in Caller, PruneNext(j)
  PROVE  RestoreInv'
<1>1. /\ BackupInv /\ BackupInv'
      /\ \/ disk' = disk
         \/ \E id \in Time : id + Retention < now /\ disk' = [disk EXCEPT ![id] = NoDir]
  BY Zenon, PruneStep DEF RestoreInv
<1>2. /\ DOMAIN job = Caller /\ DOMAIN job[j] = DOMAIN NoJob /\ now \in Nat /\ Typed(j)
      /\ DOMAIN disk = Time /\ db \in Db
  BY SMTT(30), <1>1 DEF RestoreInv, BackupInv, CallOk, Time
<1>3. job[j].pc = "pruning" /\ UNCHANGED <<db, now, taken, reused>>
  BY Zenon DEF PruneNext
<1>4. job[j].call = "create" /\ job[j].dump \in Db
  BY <1>2, <1>3, Zenon DEF Typed
<1>5. CASE \E ok \in BOOLEAN : Return(j, ok) /\ UNCHANGED disk
  BY Zenon, <1>3, <1>4, <1>5, ReturnRestores
<1>6. CASE \E todo : job' = [job EXCEPT ![j].todo = todo]
  <2>1. PICK todo : job' = [job EXCEPT ![j].todo = todo]
    BY <1>6, Zenon
  <2>2. /\ \A i \in Caller \ {j} : job'[i] = job[i]
        /\ job'[j] = [job[j] EXCEPT !.todo = todo]
    BY Zenon, <1>2, <2>1
  <2>3. job'[j].pc = "pruning" /\ job'[j].call = "create" /\ job'[j].dump = job[j].dump
    BY <1>2, <1>3, <1>4, <2>2 DEF NoJob
  <2>4. ASSUME NEW id \in Time
        PROVE  \/ disk'[id] = disk[id]
               \/ disk'[id].data = Nothing /\ ~disk'[id].exists /\ id < now
    <3>1. CASE disk' = disk
      BY Zenon, <3>1
    <3>2. CASE \E x \in Time : x + Retention < now /\ disk' = [disk EXCEPT ![x] = NoDir]
      <4>1. PICK x \in Time : x + Retention < now /\ disk' = [disk EXCEPT ![x] = NoDir]
        BY <3>2, Zenon
      <4>2. x < now
        BY <1>2, <4>1, BackupAssumption DEF Time
      <4>3. disk'[id] = IF id = x THEN NoDir ELSE disk[id]
        BY Zenon, <1>2, <4>1
      <4> QED BY SMTT(30), <4>2, <4>3 DEF NoDir
    <3> QED BY Zenon, <1>1, <3>1, <3>2
  <2>5. \A id \in Time : Kept(id)'
    BY Zenon, <1>3, <2>4, KeptStays
  <2>6. Mild
    <3>1. now <= now' /\ DOMAIN taken' = Time
      BY SMTT(30), <1>2, <1>3 DEF RestoreInv
    <3>2. job'[j].pc \notin Making
      BY <2>3 DEF Making
    <3>3. \A k \in Caller : job'[k].pc \in Making => Makes(k, job'[k].id)
      BY Zenon, <2>2, <3>2 DEF Makes
    <3> QED BY Zenon, <1>3, <2>4, <3>1, <3>3 DEF Mild
  <2>7. Typed(j)' /\ Progress(j)' /\ Source(j)'
    BY <1>4, <2>3 DEF Typed, Progress, Source, Making
  <2> QED BY Zenon, <1>1, <1>2, <1>3, <2>2, <2>5, <2>6, <2>7, Together DEF Same
<1> QED BY Zenon, <1>5, <1>6 DEF PruneNext

\* restore reads a complete snapshot: nobody is making it.
LEMMA ReadRestores ==
  ASSUME RestoreInv, NEW j \in Caller, ReadArtifacts(j)
  PROVE  RestoreInv'
<1>1. BackupInv /\ BackupInv'
  BY Zenon, OtherKeeps DEF RestoreInv
<1>2. PICK id \in Time : id = job[j].id
  BY Zenon, <1>1 DEF BackupInv, CallOk
<1>3. /\ id = job[j].id /\ DOMAIN job = Caller /\ DOMAIN job[j] = DOMAIN NoJob /\ now \in Nat
      /\ Typed(j) /\ db \in Db /\ Kept(id)
  BY Zenon, <1>2, Known
<1>4. job[j].pc = "read" /\ UNCHANGED <<db, disk, now, taken, reused>>
  BY Zenon DEF ReadArtifacts
<1>5. CASE ~Readable(id)
  BY Zenon, <1>3, <1>4, <1>5, ReturnRestores DEF ReadArtifacts
<1>6. CASE Readable(id)
  <2>1. PICK data : data = disk[id].data
    BY Zenon
  <2>2. data \in Db
    BY Zenon, <1>3, <1>6, <2>1 DEF Kept, Readable
  <2>3. /\ \A i \in Caller \ {j} : job'[i] = job[i]
        /\ job'[j] = [job[j] EXCEPT !.dump = data, !.pc = "clear_scan"]
    BY Zenon, <1>3, <1>6, <2>1 DEF ReadArtifacts
  <2>4. /\ job'[j].pc = "clear_scan" /\ job'[j].dump = data /\ job'[j].call = "restore" /\ j = "operator"
        /\ job'[j].id = id /\ job'[j].scanned = 0 /\ job'[j].todo = {}
    BY <1>3, <1>4, <2>3 DEF NoJob, Typed
  <2>5. job'[j].pc \notin Making
    BY <2>4 DEF Making
  <2>6. Mild /\ \A i \in Time : Kept(i)'
    <3>1. now <= now'
      BY <1>3, <1>4
    <3>2. \A k \in Caller : job'[k].pc \in Making => Makes(k, job'[k].id)
      BY Zenon, <2>3, <2>5 DEF Makes
    <3> QED BY Zenon, <1>4, <3>1, <3>2, MildJob
  <2>7. Typed(j)'
    <3>1. IsFiniteSet({}) /\ Len(Families) = 2
      BY SMTT(30), FS_EmptySet, FamilyIs
    <3> QED BY <2>2, <2>4, <3>1 DEF Typed, Making
  <2>8. Progress(j)'
    BY <2>4 DEF Progress
  <2>9. Source(j)'
    <3>1. ASSUME id \notin reused, NEW k \in Caller, job'[k].pc \in Making, job'[k].id = id PROVE FALSE
      <4>1. job[k].pc \in Making /\ job[k].id = id /\ CallOk(k)
        BY Zenon, <1>1, <2>3, <2>5, <3>1 DEF BackupInv
      <4> QED BY Zenon, <1>6, <3>1, <4>1 DEF CallOk, Readable
    <3>2. disk'[id].exists /\ disk'[id].data = data
      BY Zenon, <1>4, <1>6, <2>1 DEF Readable
    <3> QED BY Zenon, <1>4, <2>4, <3>1, <3>2 DEF Source
  <2> QED BY Zenon, <1>1, <1>3, <1>4, <2>3, <2>6, <2>7, <2>8, <2>9, Together DEF Same
<1> QED BY <1>5, <1>6

\* The two batches of apply_dump.
LEMMA ApplyRestores ==
  ASSUME RestoreInv, NEW j \in Caller, Clear(j) \/ Fill(j)
  PROVE  RestoreInv'
<1>1. BackupInv /\ BackupInv'
  BY Zenon, OtherKeeps DEF RestoreInv
<1>2. /\ DOMAIN job = Caller /\ DOMAIN job[j] = DOMAIN NoJob /\ now \in Nat
      /\ Typed(j) /\ Progress(j) /\ db \in Db /\ \A i \in Caller : DOMAIN job[i] = DOMAIN NoJob
  <2>1. \A i \in Caller : DOMAIN job[i] = DOMAIN NoJob /\ job[i].id \in Time
    BY Zenon, <1>1 DEF BackupInv, CallOk
  <2> QED BY Zenon, <2>1, Known
<1>3. UNCHANGED <<disk, now, taken, reused>>
  BY Zenon DEF Clear, Fill
<1>4. ASSUME NEW i \in Caller \ {j} PROVE Same(i)
  <2>1. job'[i] = [job[i] EXCEPT !.quiet = FALSE]
    BY Zenon DEF Clear, Fill
  <2> QED BY <1>2, <2>1 DEF NoJob, Same
<1>5. ASSUME NEW pc \in {"fill", "recheck"}, job'[j].pc = pc, job[j].pc \in Applying, job[j].call = "restore",
             job'[j].call = "restore", job'[j].id = job[j].id, job'[j].dump = job[j].dump,
             job'[j].quiet = job[j].quiet, db' \in Db,
             job[j].quiet => db' = IF pc = "fill" THEN EmptyDb ELSE job[j].dump
      PROVE  RestoreInv'
  <2>1. Mild /\ \A i \in Time : Kept(i)'
    <3>1. now <= now' /\ job'[j].pc \notin Making
      BY SMTT(30), <1>2, <1>3, <1>5 DEF Making
    <3>2. \A k \in Caller : job'[k].pc \in Making => Makes(k, job'[k].id)
      BY Zenon, <1>4, <3>1 DEF Makes, Same
    <3> QED BY Zenon, <1>3, <3>1, <3>2, MildJob
  <2>2. Typed(j)'
    BY SMTT(30), <1>2, <1>5 DEF Typed, Making
  <2>3. Progress(j)'
    BY <1>5 DEF Progress
  <2>4. Source(j)'
    <3>1. pc # "read" /\ pc \in Applying /\ job[j].pc # "read"
      BY <1>5 DEF Applying
    <3> QED BY Zenon, <1>1, <1>5, <2>1, <3>1, SourceStep
  <2> QED BY Zenon, <1>1, <1>4, <1>5, <2>1, <2>2, <2>3, <2>4, Together
<1>6. CASE Clear(j)
  <2>1. /\ job[j].pc = "clear" /\ db' = WriteBatch(db, Batch(job[j].todo))
        /\ job'[j] = [job[j] EXCEPT !.pc = "fill", !.todo = {}]
    BY Zenon, <1>6 DEF Clear
  <2>2. /\ job'[j].pc = "fill" /\ job'[j].call = job[j].call /\ job'[j].id = job[j].id
        /\ job'[j].dump = job[j].dump /\ job'[j].quiet = job[j].quiet
    BY <1>2, <2>1 DEF NoJob
  <2>3. /\ job[j].call = "restore" /\ IsFiniteSet(job[j].todo)
        /\ \A o \in job[j].todo : IsOp(o) /\ o.op = "delete"
    BY <1>2, <2>1 DEF Typed
  <2>4. job[j].quiet => db' = EmptyDb
    <3> SUFFICES ASSUME job[j].quiet PROVE db' = EmptyDb
      OBVIOUS
    <3>1. \A cf \in Family : \A k \in DOMAIN db[cf] : Delete(cf, k) \in job[j].todo
      BY Zenon, <1>2, <2>1 DEF Progress
    <3> QED BY Zenon, <1>2, <2>1, <2>3, <3>1, ClearEmpties
  <2>5. db' \in Db
    BY Zenon, <1>2, <2>1, <2>3, BatchStays
  <2>6. job[j].pc \in Applying
    BY <2>1 DEF Applying
  <2> QED BY Zenon, <1>5, <2>2, <2>3, <2>4, <2>5, <2>6
<1>7. CASE Fill(j)
  <2>1. /\ job[j].pc = "fill" /\ db' = WriteBatch(db, Batch(Rows(job[j].dump)))
        /\ job'[j] = [job[j] EXCEPT !.pc = "recheck"]
    BY Zenon, <1>7 DEF Fill
  <2>2. /\ job'[j].pc = "recheck" /\ job'[j].call = job[j].call /\ job'[j].id = job[j].id
        /\ job'[j].dump = job[j].dump /\ job'[j].quiet = job[j].quiet
    BY <1>2, <2>1 DEF NoJob
  <2>3. job[j].call = "restore" /\ job[j].dump \in Db
    BY <1>2, <2>1 DEF Typed
  <2>4. job[j].quiet => db' = job[j].dump
    <3> SUFFICES ASSUME job[j].quiet PROVE db' = job[j].dump
      OBVIOUS
    <3>1. db = EmptyDb
      BY Zenon, <1>2, <2>1 DEF Progress
    <3> QED BY Zenon, <2>1, <2>3, <3>1, FillRestores
  <2>5. db' \in Db
    <3>1. IsFiniteSet(Rows(job[j].dump)) /\ \A o \in Rows(job[j].dump) : IsOp(o)
      BY Zenon, <2>3, RowsFinite, RowsOf
    <3> QED BY Zenon, <1>2, <2>1, <3>1, BatchStays
  <2>6. job[j].pc \in Applying /\ "recheck" # "fill"
    BY <2>1 DEF Applying
  <2> QED BY Zenon, <1>5, <2>2, <2>3, <2>4, <2>5, <2>6
<1> QED BY <1>6, <1>7

\* validate reads the same rows again; the smoke test ends it.
LEMMA CheckRestores ==
  ASSUME RestoreInv, NEW j \in Caller, Recheck(j) \/ Smoke(j)
  PROVE  RestoreInv'
<1>1. BackupInv /\ BackupInv'
  BY Zenon, OtherKeeps DEF RestoreInv
<1>2. PICK id \in Time : id = job[j].id
  BY Zenon, <1>1 DEF BackupInv, CallOk
<1>3. /\ id = job[j].id /\ DOMAIN job = Caller /\ DOMAIN job[j] = DOMAIN NoJob /\ now \in Nat
      /\ Typed(j) /\ Progress(j) /\ Source(j) /\ db \in Db /\ Kept(id)
  BY Zenon, <1>2, Known
<1>4. UNCHANGED <<db, disk, now, taken, reused>>
  BY Zenon DEF Recheck, Smoke
<1>5. CASE Smoke(j)
  BY Zenon, <1>4, <1>5, ReturnRestores DEF Smoke
<1>6. CASE Recheck(j) /\ Return(j, FALSE)
  BY Zenon, <1>4, <1>6, ReturnRestores
<1>7. CASE Recheck(j) /\ ~Return(j, FALSE)
  <2>1. PICK data : data = disk[id].data
    BY Zenon
  <2>2. /\ job[j].pc = "recheck" /\ Readable(id)
        /\ job' = [job EXCEPT ![j].dump = disk[id].data, ![j].pc = "smoke"]
    BY Zenon, <1>3, <1>7 DEF Recheck
  <2>3. data \in Db /\ data # Nothing /\ disk[id].exists
    BY Zenon, <1>3, <2>1, <2>2 DEF Kept, Readable
  <2>4. /\ \A i \in Caller \ {j} : job'[i] = job[i]
        /\ job'[j] = [job[j] EXCEPT !.dump = data, !.pc = "smoke"]
    BY Zenon, <1>3, <2>1, <2>2
  <2>5. /\ job'[j].pc = "smoke" /\ job'[j].dump = data /\ job'[j].call = job[j].call
        /\ job'[j].id = id /\ job'[j].quiet = job[j].quiet
    BY <1>3, <2>4 DEF NoJob
  <2>6. job'[j].pc \notin Making
    BY <2>5 DEF Making
  <2>7. Mild /\ \A i \in Time : Kept(i)'
    <3>1. now <= now'
      BY <1>3, <1>4
    <3>2. \A k \in Caller : job'[k].pc \in Making => Makes(k, job'[k].id)
      BY Zenon, <2>4, <2>6 DEF Makes
    <3> QED BY Zenon, <1>4, <3>1, <3>2, MildJob
  <2>8. Typed(j)'
    BY <1>3, <2>3, <2>5, <2>6, Zenon DEF Typed
  <2>9. Progress(j)'
    <3>1. ASSUME job[j].quiet, job[j].call = "restore", id \notin reused, taken[id] # Nothing
          PROVE  db = taken[id]
      <4>1. db = job[j].dump
        BY Zenon, <1>3, <2>2, <3>1 DEF Progress
      <4>2. disk[id].data = job[j].dump
        <5>1. job[j].pc # "read" /\ job[j].pc \in {"clear_scan", "clear", "fill", "recheck"}
          BY <2>2
        <5> QED BY Zenon, <1>3, <2>3, <3>1, <5>1 DEF Source
      <4>3. disk[id].data = taken[id]
        BY Zenon, <1>3, <2>1, <2>3, <3>1 DEF Kept
      <4> QED BY Zenon, <4>1, <4>2, <4>3
    <3> QED BY <1>4, <2>5, <3>1, Zenon DEF Progress
  <2>10. Source(j)'
    <3>1. "smoke" \notin Applying /\ job[j].pc # "read"
      BY <2>2 DEF Applying
    <3> QED BY Zenon, <1>1, <1>3, <2>5, <2>7, <3>1, SourceStep
  <2> QED BY Zenon, <1>1, <1>3, <1>4, <2>4, <2>7, <2>8, <2>9, <2>10, Together DEF Same
<1> QED BY <1>5, <1>6, <1>7, Zenon

\* delete_snapshot is a call of the operator: no restore is remembered after it.
LEMMA DeleteRestores ==
  ASSUME RestoreInv, NEW id \in Time, DeleteSnapshot(id)
  PROVE  RestoreInv'
<1>1. BackupInv /\ BackupInv'
  BY Zenon, DeleteKeeps DEF RestoreInv
<1>2. DOMAIN job = Caller /\ DOMAIN disk = Time /\ now \in Nat /\ db \in Db
  BY Zenon, Known DEF Caller
<1>3. /\ disk' = [disk EXCEPT ![id] = NoDir] /\ UNCHANGED <<db, now, taken, reused>>
      /\ job' = [job EXCEPT !["operator"] = NoJob]
  BY Zenon DEF DeleteSnapshot
<1>4. job'["operator"] = NoJob /\ \A i \in Caller \ {"operator"} : job'[i] = job[i]
  BY Zenon, <1>2, <1>3 DEF Caller
<1>5. /\ job'["operator"].pc = "end" /\ job'["operator"].call = "none"
      /\ job'["operator"].dump = EmptyDb /\ "operator" \in Caller
  BY <1>4 DEF NoJob, Caller
<1>6. \A i \in Caller : job'[i].call # "restore"
  <2>1. \A i \in Caller \ {"operator"} : job[i].call # "restore"
    BY Zenon DEF RestoreInv, Typed
  <2> QED BY <1>4, <1>5, <2>1
<1>7. \A i \in Time : disk'[i] = disk[i] \/ (disk'[i].data = Nothing /\ ~disk'[i].exists)
  <2>1. \A i \in Time : disk'[i] = IF i = id THEN NoDir ELSE disk[i]
    BY Zenon, <1>2, <1>3
  <2> QED BY <2>1 DEF NoDir
<1>8. \A i \in Time : Kept(i)'
  BY Zenon, <1>3, <1>7, KeptStays
<1>9. Mild
  <2>1. now <= now' /\ DOMAIN taken' = Time /\ job'["operator"].pc \notin Making
    BY <1>2, <1>3, <1>5 DEF RestoreInv, Making
  <2>2. \A k \in Caller : job'[k].pc \in Making => Makes(k, job'[k].id)
    BY Zenon, <1>4, <2>1 DEF Makes
  <2> QED BY Zenon, <1>3, <1>6, <1>7, <2>1, <2>2 DEF Mild
<1>10. Typed("operator")' /\ Progress("operator")' /\ Source("operator")'
  BY <1>5, Ended
<1> QED BY Zenon, <1>1, <1>2, <1>3, <1>4, <1>8, <1>9, <1>10, Together DEF Same

\* A batch of two mutations.
LEMMA PairStays ==
  ASSUME NEW d \in Db, NEW o, NEW p, IsOp(o), IsOp(p)
  PROVE  WriteBatch(d, <<o, p>>) \in Db
<1>1. PICK b : b = <<o, p>>
  BY Zenon
<1>2. DOMAIN b = 1 .. 2 /\ Len(b) = 2 /\ b[1] = o /\ b[2] = p
  BY <1>1
<1>3. \A i \in 1 .. 2 : IsOp(b[i])
  BY <1>2
<1>4. \E f : IsBatch(f, d, b, 2)
  BY <1>2, <1>3, BatchRuns, Zenon
<1> QED BY <1>1, <1>4 DEF IsBatch

\* The rows that clients write.
LEMMA ClientOps ==
  ASSUME NEW cf \in {"default", "indexes"}, NEW k \in Datum, NEW v \in Datum
  PROVE  IsOp(Put(cf, k, v)) /\ IsOp(Delete(cf, k))
<1>1. cf \in Family
  BY DEF Family, Families, Range
<1> QED BY <1>1 DEF IsOp, Put, Delete

\* Clients, the clock and crashes: the calls in progress are disturbed if the database
\* changes.
LEMMA OtherRestores ==
  ASSUME RestoreInv, ClientWrite \/ Tick \/ Crash
  PROVE  RestoreInv'
<1>1. BackupInv /\ BackupInv'
  BY Zenon, OtherKeeps DEF RestoreInv
<1>2. /\ now \in Nat /\ db \in Db /\ \A i \in Caller : DOMAIN job[i] = DOMAIN NoJob
      /\ UNCHANGED <<disk, taken, reused>>
  BY SMTT(30), <1>1 DEF RestoreInv, BackupInv, CallOk, Time, ClientWrite, Tick, Crash
<1>3. CASE ClientWrite \/ Tick
  <2>1. ASSUME NEW i \in Caller PROVE Same(i)
    <3>1. CASE Tick
      BY Zenon, <3>1 DEF Tick, Same
    <3>2. CASE ClientWrite
      <4>1. job'[i] = [job[i] EXCEPT !.quiet = FALSE]
        BY Zenon, <3>2 DEF ClientWrite, ChangeDb
      <4> QED BY <1>2, <4>1 DEF Same, NoJob
    <3> QED BY <1>3, <3>1, <3>2
  <2>2. now <= now'
    BY SMTT(30), <1>2, <1>3 DEF ClientWrite, Tick
  <2>3. \A k \in Caller : job'[k].pc \in Making => Makes(k, job'[k].id)
    BY Zenon, <2>1 DEF Makes, Same
  <2>4. Mild /\ \A i \in Time : Kept(i)'
    BY Zenon, <1>2, <2>2, <2>3, MildJob
  <2>5. db' \in Db
    <3>1. CASE Tick
      BY Zenon, <1>2, <3>1 DEF Tick
    <3>2. CASE ClientWrite
      <4>1. \/ \E v \in Value : db' = WriteBatch(db, <<Put("default", 1, v), Put("indexes", v, v)>>)
            \/ db' = WriteBatch(db, <<Delete("default", 1), Delete("indexes", 1)>>)
        BY Zenon, <3>2 DEF ClientWrite, ChangeDb
      <4>2. 1 \in Datum /\ \A v \in Value : v \in Datum
        BY Zenon DEF Datum
      <4>3. IsOp(Delete("default", 1)) /\ IsOp(Delete("indexes", 1))
        BY Zenon, <4>2, ClientOps
      <4>4. \A v \in Value : IsOp(Put("default", 1, v)) /\ IsOp(Put("indexes", v, v))
        BY Zenon, <4>2, ClientOps
      <4> QED BY Zenon, <1>2, <4>1, <4>3, <4>4, PairStays
    <3> QED BY <1>3, <3>1, <3>2
  <2> QED BY Zenon, <1>1, <2>1, <2>4, <2>5, Together
<1>4. CASE Crash
  <2>1. \A i \in Caller : job'[i] = NoJob
    BY Zenon, <1>4 DEF Crash
  <2>2. NoJob.pc = "end" /\ NoJob.call = "none" /\ NoJob.dump = EmptyDb /\ NoJob.pc \notin Making
    BY DEF NoJob, Making
  <2>3. \A i \in Caller : Typed(i)' /\ Progress(i)' /\ Source(i)'
    BY <2>1, <2>2, Ended
  <2>4. now <= now'
    BY <1>2, <1>4 DEF Crash
  <2>5. Mild /\ \A i \in Time : Kept(i)'
    BY Zenon, <1>2, <2>1, <2>2, <2>4, MildJob
  <2>6. db' \in Db
    BY Zenon, <1>2, <1>4, EmptyIs DEF Crash, Reopened
  <2> QED BY Zenon, <1>1, <2>3, <2>5, <2>6, Together
<1> QED BY <1>3, <1>4

\* The calls start idle, with a database of two rows.
LEMMA RestoreStarts == BackupInit => RestoreInv
<1> SUFFICES ASSUME BackupInit PROVE RestoreInv
  OBVIOUS
<1>1. BackupInv /\ DOMAIN taken = Time
  BY Zenon, BackupStarts DEF BackupInit
<1>2. db \in Db /\ EmptyDb \in Db
  <2>1. 1 \in Datum
    BY Zenon DEF Datum
  <2>2. IsOp(Put("default", 1, 1)) /\ IsOp(Put("indexes", 1, 1))
    BY Zenon, <2>1, ClientOps
  <2>3. InitialDb \in Db
    BY Zenon, <2>2, EmptyIs, PairStays DEF InitialDb
  <2> QED BY Zenon, <2>3, EmptyIs DEF BackupInit
<1>3. ASSUME NEW j \in Caller PROVE Typed(j) /\ Progress(j) /\ Source(j)
  <2>1. job[j] = NoJob
    BY Zenon DEF BackupInit
  <2>2. job[j].pc = "end" /\ job[j].call = "none" /\ job[j].dump = EmptyDb
    BY <2>1 DEF NoJob
  <2> QED BY <1>2, <2>2, Zenon DEF Typed, Progress, Source, Making
<1>4. \A id \in Time : Kept(id)
  BY DEF BackupInit, Kept, NoDir
<1> QED BY Zenon, <1>1, <1>2, <1>3, <1>4 DEF RestoreInv

\* Every step of the backups keeps what restores rely on.
LEMMA RestoreKeeps ==
  ASSUME RestoreInv, [BackupNext]_backupVars
  PROVE  RestoreInv'
<1>1. ASSUME NEW j \in Caller, BeginCreate(j) PROVE RestoreInv'
  <2>1. BackupInv'
    BY Zenon, <1>1, BeginCreateKeeps DEF RestoreInv
  <2>2. Start(j, "create", "checkpoint", now) /\ taken' = taken
    BY Zenon, <1>1 DEF BeginCreate
  <2>3. reused \subseteq reused' /\ (disk[now].exists => now \in reused')
    BY <1>1 DEF BeginCreate
  <2> QED BY Zenon, <2>1, <2>2, <2>3, StartRestores
<1>2. ASSUME NEW id \in Time, BeginRestore(id) \/ BeginValidate(id) PROVE RestoreInv'
  <2>1. BackupInv' /\ taken' = taken /\ reused \subseteq reused' /\ "operator" \in Caller
    BY Zenon, <1>2, OtherKeeps DEF RestoreInv, BeginRestore, BeginValidate, Caller
  <2> QED BY Zenon, <1>2, <2>1, StartRestores DEF BeginRestore, BeginValidate
<1>3. ASSUME UNCHANGED backupVars PROVE RestoreInv'
  <2>1. UNCHANGED <<db, disk, now, job, taken, reused>>
    BY Zenon, <1>3 DEF backupVars
  <2>2. BackupInv'
    BY Zenon, <2>1 DEF RestoreInv, BackupInv, CallOk, DirOk, Readable, Alone
  <2>3. now <= now' /\ db' \in Db
    BY <2>1 DEF RestoreInv, BackupInv, Time
  <2>4. \A i \in Caller : Same(i) /\ (job'[i].pc \in Making => Makes(i, job'[i].id))
    BY Zenon, <2>1 DEF Same, Makes
  <2>5. Mild /\ \A id \in Time : Kept(id)'
    BY Zenon, <2>1, <2>3, <2>4, MildJob
  <2> QED BY Zenon, <2>2, <2>3, <2>4, <2>5, Together
<1> QED
  BY Zenon, <1>1, <1>2, <1>3, MakeRestores, ScanRestores, PruneRestores, ReadRestores,
     ApplyRestores, CheckRestores, DeleteRestores, OtherRestores DEF BackupNext, JobStep

-----------------------------------------------------------------------------
(* What the backups guarantee.                                             *)

\* Operations runs it beside services that leave its state alone.
BackupSpec == BackupInit /\ [][BackupNext]_backupVars

\* write_snapshot_artifacts writes manifest.json after data.json and from the same
\* rows: whatever else runs or crashes, the two files of a snapshot agree whenever
\* both can be read.
THEOREM ArtifactsAgree == BackupSpec => []ArtifactsMatch
<1>1. BackupInv /\ [BackupNext]_backupVars => BackupInv'
  BY Zenon, BackupKeeps
<1>2. BackupInv => ArtifactsMatch
  BY Zenon DEF BackupInv, DirOk, ArtifactsMatch
<1> QED BY BackupStarts, <1>1, <1>2, PTL DEF BackupSpec

\* prune_retention removes no snapshot that is younger than the retention, also when
\* the scheduler and an operator prune at once and the clock moves between listing
\* and deleting.
THEOREM SnapshotsAreRetained == BackupSpec => RetentionKept
<1>1. BackupInv /\ [BackupNext]_backupVars => BackupInv'
  BY Zenon, BackupKeeps
<1>2. BackupInv /\ [BackupNext]_backupVars =>
        [\A id \in Time : disk[id].exists /\ ~disk'[id].exists =>
           id + Retention < now \/ DeleteSnapshot(id)]_backupVars
  BY Zenon, BackupKeeps
<1> QED BY BackupStarts, <1>1, <1>2, PTL DEF BackupSpec, RetentionKept

\* A restore that returns Ok gives back the database as it was when the snapshot was
\* made, if nothing changed the database while the snapshot was made and nobody else
\* changed it since the restore began: for every database, any number of snapshots,
\* prunings, deletions and crashes, and whatever order the batches of apply_dump have.
THEOREM RestoresAreExact == BackupSpec => []RestoreIsExact
<1>1. RestoreInv /\ [BackupNext]_backupVars => RestoreInv'
  BY Zenon, RestoreKeeps
<1>2. RestoreInv => RestoreIsExact
  <2> SUFFICES ASSUME RestoreInv, NEW j \in Caller, job[j].call = "restore", job[j].pc = "end",
                      job[j].quiet, taken[job[j].id] # Nothing, job[j].id \notin reused
               PROVE  db = taken[job[j].id]
    BY Zenon DEF RestoreIsExact
  <2> QED BY Zenon DEF RestoreInv, Progress
<1> QED BY RestoreStarts, <1>1, <1>2, PTL DEF BackupSpec
=============================================================================
