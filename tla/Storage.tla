------------------------------ MODULE Storage -------------------------------
(***************************************************************************)
(* The storage engines of crates/bashfuldb-storage, as the crates that use *)
(* them see them.  A database is a function from column families to maps   *)
(* from keys to values; every operation is one step, since each engine     *)
(* applies it under one lock (MemEngine) or hands it to RocksDB as one     *)
(* write or one iterator.  Keys are numbers, in their lexicographic order. *)
(***************************************************************************)
EXTENDS Naturals, Sequences, FiniteSets, Functions

CONSTANT Value

\* ColumnFamily::all(), in its order.  Two of the six stand for the others,
\* which no code treats differently.
Families == <<"default", "indexes">>
Family == Range(Families)

\* A map from keys to values is a function on the keys that are present.
EmptyMap == <<>>
EmptyDb == [cf \in Family |-> EmptyMap]

Put(cf, key, value) == [op |-> "put", cf |-> cf, key |-> key, value |-> value]
Delete(cf, key) == [op |-> "delete", cf |-> cf, key |-> key]

\* One mutation of a batch.
ApplyOp(db, o) ==
  LET map == db[o.cf] IN
  [db EXCEPT ![o.cf] =
     IF o.op = "put"
     THEN [k \in DOMAIN map \cup {o.key} |-> IF k = o.key THEN o.value ELSE map[k]]
     ELSE [k \in DOMAIN map \ {o.key} |-> map[k]]]

\* write_batch: nothing is applied if a column family is unknown; else everything
\* is, in order and at once.
WriteBatch(db, batch) ==
  LET applied[i \in 0 .. Len(batch)] ==
        IF i = 0 THEN db ELSE ApplyOp(applied[i - 1], batch[i])
  IN  IF \E i \in DOMAIN batch : batch[i].cf \notin Family THEN db
      ELSE applied[Len(batch)]

\* The mutations of a set, in some order; none is in a batch twice.
Batch(ops) == CHOOSE b \in Injection(1 .. Cardinality(ops), ops) : TRUE

\* range_bounds: an empty bound is no bound.
Unbounded == 0
InRange(key, start, end) == (start = Unbounded \/ start <= key) /\ (end = Unbounded \/ key < end)

\* scan: a copy of the rows in a range.
Scan(db, cf, start, end) ==
  LET keys == {k \in DOMAIN db[cf] : InRange(k, start, end)}
  IN  [k \in keys |-> db[cf][k]]

\* get.
Has(db, cf, key, value) == key \in DOMAIN db[cf] /\ db[cf][key] = value

\* checkpoint: whether a new checkpoint may use a directory that exists.  MemEngine
\* creates the directory if it is missing; RocksDB refuses one that exists.
CheckpointFails(engine, dirExists) == engine = "rocksdb" /\ dirExists

\* What a restart finds: RocksDB syncs its log with every write (wal_sync).
Reopened(engine, db) == IF engine = "rocksdb" THEN db ELSE EmptyDb
=============================================================================
