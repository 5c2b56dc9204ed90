------------------------------- MODULE Backup -------------------------------
(***************************************************************************)
(* FsBackupManager and SnapshotScheduler of crates/bashfuldb-ops: calls    *)
(* that create, restore, validate, delete and prune snapshots of a node's  *)
(* database while clients write to it and the process crashes.             *)
(*                                                                         *)
(* The scheduler and an operator have one call each in progress; a step is *)
(* one access to the engine or to the file system.  A snapshot is named by *)
(* the second it was begun in.  A checksum is the rows it was made from:   *)
(* collisions of the hash are not modelled.  Directories are removed in    *)
(* one step.                                                               *)
(***************************************************************************)
EXTENDS Storage

CONSTANTS
  Retention, \* seconds a snapshot is kept
  MaxTime,   \* bound: the clock
  MaxCalls,  \* bound: calls
  MaxWrites, \* bound: client writes
  MaxCrashes, \* bound: crashes
  Nothing    \* no file, no record

ASSUME BackupAssumption == Retention \in Nat /\ MaxTime \in Nat \ {0}

VARIABLES
  engine,    \* "mem" or "rocksdb", fixed
  db,        \* the database
  disk,      \* disk[id]: the directory of snapshot id
  now,       \* the clock, in seconds
  job,       \* job[j]: the call that j, the scheduler or an operator, has in progress
  calls,     \* calls made
  writes,    \* client writes made
  crashes,   \* crashes
  taken,     \* history: taken[id]: what the database was while id was made, if it did not change
  reused     \* history: snapshots begun twice, in the same second

bound == <<calls, writes, crashes>>
backupVars == <<engine, db, disk, now, job, bound, taken, reused>>

Time == 1 .. MaxTime
Caller == {"scheduler", "operator"}

NoDir == [exists |-> FALSE, data |-> Nothing, manifest |-> Nothing]
Readable(id) == disk[id].exists /\ disk[id].data # Nothing /\ disk[id].manifest # Nothing

\* quiet: no one else has changed the database since the call began.
NoJob == [call |-> "none", pc |-> "end", id |-> 1, scanned |-> 0, dump |-> EmptyDb,
          todo |-> {}, quiet |-> FALSE]
Running(j) == job[j].pc # "end"

\* encode_dump: a checksum per column family.
Checksums(dump) == dump

-----------------------------------------------------------------------------
InitialDb == WriteBatch(EmptyDb, <<Put("default", 1, 1), Put("indexes", 1, 1)>>)

BackupInit ==
  /\ engine \in {"mem", "rocksdb"}
  /\ db = InitialDb
  /\ disk = [id \in Time |-> NoDir]
  /\ now = 1
  /\ job = [j \in Caller |-> NoJob]
  /\ calls = 0 /\ writes = 0 /\ crashes = 0
  /\ taken = [id \in Time |-> Nothing]
  /\ reused = {}

Advance(j, pc) == job' = [job EXCEPT ![j].pc = pc]

\* The call returns; what a restore that succeeded was asked is remembered.
Return(j, ok) ==
  LET r == job[j] IN
  job' = [job EXCEPT ![j] = IF ok /\ r.call = "restore"
                            THEN [NoJob EXCEPT !.call = "restore", !.id = r.id, !.quiet = r.quiet]
                            ELSE NoJob]

\* A write of a client disturbs the calls in progress.
ChangeDb(batch) ==
  /\ db' = WriteBatch(db, batch)
  /\ job' = [j \in Caller |-> [job[j] EXCEPT !.quiet = FALSE]]

\* A client writes or deletes a document and an index row in one batch.
ClientWrite ==
  /\ writes < MaxWrites
  /\ writes' = writes + 1
  /\ \/ \E v \in Value : ChangeDb(<<Put("default", 1, v), Put("indexes", v, v)>>)
     \/ ChangeDb(<<Delete("default", 1), Delete("indexes", 1)>>)
  /\ UNCHANGED <<engine, disk, now, calls, crashes, taken, reused>>

Start(j, call, pc, id) ==
  /\ ~Running(j) /\ calls < MaxCalls
  /\ calls' = calls + 1
  /\ job' = [job EXCEPT ![j] = [NoJob EXCEPT !.call = call, !.pc = pc, !.id = id, !.quiet = TRUE]]
  /\ UNCHANGED <<engine, db, disk, now, writes, crashes>>

\* create_snapshot names the snapshot by the clock, and flushes.
BeginCreate(j) ==
  /\ Start(j, "create", "checkpoint", now)
  /\ reused' = IF disk[now].exists \/ \E i \in Caller : Running(i) /\ job[i].call = "create" /\ job[i].id = now
               THEN reused \cup {now} ELSE reused
  /\ UNCHANGED taken

Checkpoint(j) ==
  LET id == job[j].id IN
  /\ job[j].pc = "checkpoint"
  /\ IF CheckpointFails(engine, disk[id].exists)
     THEN Return(j, FALSE) /\ UNCHANGED disk
     ELSE Advance(j, "dump") /\ disk' = [disk EXCEPT ![id].exists = TRUE]
  /\ UNCHANGED <<engine, db, now, bound, taken, reused>>

\* dump_from_engine, and the scans of apply_dump: one column family at a time.
ScanNext(j) ==
  LET cf == Families[job[j].scanned + 1]
      done == job[j].scanned + 1 = Len(Families)
  IN
  /\ job[j].pc \in {"dump", "clear_scan"}
  /\ job' = [job EXCEPT ![j].scanned = @ + 1,
                        ![j].dump = IF job[j].pc = "dump"
                                    THEN [@ EXCEPT ![cf] = Scan(db, cf, Unbounded, Unbounded)]
                                    ELSE @,
                        ![j].todo = IF job[j].pc = "dump" THEN @
                                    ELSE @ \cup {Delete(cf, k) : k \in DOMAIN db[cf]},
                        ![j].pc = IF ~done THEN @ ELSE IF @ = "dump" THEN "data" ELSE "clear"]
  /\ UNCHANGED <<engine, db, disk, now, bound, taken, reused>>

\* write_snapshot_artifacts: the directory and data.json, then manifest.json.
WriteData(j) ==
  LET id == job[j].id IN
  /\ job[j].pc = "data"
  /\ disk' = [disk EXCEPT ![id].exists = TRUE, ![id].data = job[j].dump]
  /\ taken' = [taken EXCEPT ![id] = IF job[j].quiet THEN db ELSE Nothing]
  /\ Advance(j, "manifest")
  /\ UNCHANGED <<engine, db, now, bound, reused>>

WriteManifest_Rescan(j) ==
  LET id == job[j].id IN
  /\ job[j].pc = "manifest"
  /\ IF disk[id].exists
     THEN disk' = [disk EXCEPT ![id].manifest = Checksums(db)] /\ Advance(j, "prune")
     ELSE UNCHANGED disk /\ Return(j, FALSE)
  /\ UNCHANGED <<engine, db, now, bound, taken, reused>>

WriteManifest(j) ==
  LET id == job[j].id IN
  /\ job[j].pc = "manifest"
  /\ IF disk[id].exists
     THEN disk' = [disk EXCEPT ![id].manifest = Checksums(job[j].dump)] /\ Advance(j, "prune")
     ELSE UNCHANGED disk /\ Return(j, FALSE)
  /\ UNCHANGED <<engine, db, now, bound, taken, reused>>

\* prune_retention: the snapshots that are too old, found once ...
Expired_NoRetention(id) == id < now
Expired(id) == id < (IF now > Retention THEN now - Retention ELSE 0)

PruneList(j) ==
  /\ job[j].pc = "prune"
  /\ job' = [job EXCEPT ![j].pc = "pruning",
                        ![j].todo = {id \in Time : disk[id].exists /\ Expired(id)}]
  /\ UNCHANGED <<engine, db, disk, now, bound, taken, reused>>

\* ... and deleted one by one, oldest first; one that is gone is an error.
PruneNext(j) ==
  LET id == CHOOSE x \in job[j].todo : \A y \in job[j].todo : x <= y IN
  /\ job[j].pc = "pruning"
  /\ IF job[j].todo = {} THEN Return(j, TRUE) /\ UNCHANGED disk
     ELSE IF disk[id].exists
     THEN disk' = [disk EXCEPT ![id] = NoDir] /\ job' = [job EXCEPT ![j].todo = @ \ {id}]
     ELSE Return(j, FALSE) /\ UNCHANGED disk
  /\ UNCHANGED <<engine, db, now, bound, taken, reused>>

-----------------------------------------------------------------------------
BeginRestore(id) == id <= now /\ Start("operator", "restore", "read", id) /\ UNCHANGED <<taken, reused>>

BeginValidate(id) == id <= now /\ Start("operator", "validate", "recheck", id) /\ UNCHANGED <<taken, reused>>

\* read_snapshot_artifacts, by restore.
ReadArtifacts(j) ==
  /\ job[j].pc = "read"
  /\ IF Readable(job[j].id)
     THEN job' = [job EXCEPT ![j].dump = disk[job[j].id].data, ![j].pc = "clear_scan"]
     ELSE Return(j, FALSE)
  /\ UNCHANGED <<engine, db, disk, now, bound, taken, reused>>

\* apply_dump: everything that was found is deleted in one batch ...
Clear_Skipped(j) ==
  /\ job[j].pc = "clear"
  /\ job' = [job EXCEPT ![j].pc = "fill"]
  /\ UNCHANGED <<engine, db, disk, now, bound, taken, reused>>

Clear(j) ==
  /\ job[j].pc = "clear"
  /\ db' = WriteBatch(db, Batch(job[j].todo))
  /\ job' = [i \in Caller |-> IF i = j THEN [job[i] EXCEPT !.pc = "fill", !.todo = {}]
                              ELSE [job[i] EXCEPT !.quiet = FALSE]]
  /\ UNCHANGED <<engine, disk, now, bound, taken, reused>>

\* ... and the rows of the dump are put in another.
Rows(dump) == UNION {{Put(cf, k, dump[cf][k]) : k \in DOMAIN dump[cf]} : cf \in Family}

Fill(j) ==
  /\ job[j].pc = "fill"
  /\ db' = WriteBatch(db, Batch(Rows(job[j].dump)))
  /\ job' = [i \in Caller |-> IF i = j THEN [job[i] EXCEPT !.pc = "recheck"]
                              ELSE [job[i] EXCEPT !.quiet = FALSE]]
  /\ UNCHANGED <<engine, disk, now, bound, taken, reused>>

\* validate reads the artifacts again, compares checksums and counts nodes.
Recheck(j) ==
  LET id == job[j].id IN
  /\ job[j].pc = "recheck"
  /\ \E quorum \in BOOLEAN :
       IF Readable(id) /\ disk[id].manifest = Checksums(disk[id].data) /\ quorum
       THEN job' = [job EXCEPT ![j].dump = disk[id].data, ![j].pc = "smoke"]
       ELSE Return(j, FALSE)
  /\ UNCHANGED <<engine, db, disk, now, bound, taken, reused>>

\* smoke_test_ok: rows of the dump are in the database, of which it compares the first
\* smoke_keys; here it compares any of them.
Smoke(j) ==
  /\ job[j].pc = "smoke"
  /\ \E sampled \in SUBSET Rows(job[j].dump) :
       Return(j, \A row \in sampled : Has(db, row.cf, row.key, row.value))
  /\ UNCHANGED <<engine, db, disk, now, bound, taken, reused>>

\* delete_snapshot.
DeleteSnapshot(id) ==
  /\ ~Running("operator") /\ calls < MaxCalls
  /\ calls' = calls + 1
  /\ disk[id].exists
  /\ disk' = [disk EXCEPT ![id] = NoDir]
  /\ job' = [job EXCEPT !["operator"] = NoJob]
  /\ UNCHANGED <<engine, db, now, writes, crashes, taken, reused>>

-----------------------------------------------------------------------------
Tick ==
  /\ now < MaxTime /\ now' = now + 1
  /\ UNCHANGED <<engine, db, disk, job, bound, taken, reused>>

\* The process ends and is started again: calls in progress are forgotten.
Crash ==
  /\ crashes < MaxCrashes /\ crashes' = crashes + 1
  /\ db' = Reopened(engine, db)
  /\ job' = [j \in Caller |-> NoJob]
  /\ UNCHANGED <<engine, disk, now, calls, writes, taken, reused>>

JobStep(j) ==
  \/ Checkpoint(j) \/ ScanNext(j) \/ WriteData(j) \/ WriteManifest(j) \/ PruneList(j)
  \/ PruneNext(j) \/ ReadArtifacts(j) \/ Clear(j) \/ Fill(j) \/ Recheck(j) \/ Smoke(j)

BackupNext ==
  \/ \E j \in Caller : BeginCreate(j) \/ JobStep(j)
  \/ \E id \in Time : BeginRestore(id) \/ BeginValidate(id) \/ DeleteSnapshot(id)
  \/ ClientWrite \/ Tick \/ Crash

-----------------------------------------------------------------------------
(* A restore that returns Ok gives back the database as it was when the snapshot
   was made: if nothing changed the database while the snapshot was made, and
   nobody else changed it since the restore began.  create_snapshot scans the
   column families one after the other, and restore clears and fills in two
   batches, so neither condition can be dropped.  Snapshots begun twice in the
   same second, which MemEngine allows, are excepted.                        *)
RestoreIsExact ==
  \A j \in Caller :
    LET r == job[j] IN
    r.call = "restore" /\ r.pc = "end" /\ r.quiet /\ taken[r.id] # Nothing /\ r.id \notin reused
      => db = taken[r.id]

(* data.json and manifest.json of one snapshot agree whenever both can be read,
   whatever writes, prunings, deletions and crashes happened in between: the
   manifest is computed from the rows of data.json and written after it.     *)
ArtifactsMatch ==
  \A id \in Time : Readable(id) /\ id \notin reused =>
    disk[id].manifest = Checksums(disk[id].data)

(* A snapshot disappears only because an operator deletes it or because it is
   older than the retention: prune_retention never takes a younger one, also
   when it runs twice at once.                                               *)
RetentionKept ==
  [][\A id \in Time : disk[id].exists /\ ~disk'[id].exists =>
       id + Retention < now \/ DeleteSnapshot(id)]_backupVars
=============================================================================
