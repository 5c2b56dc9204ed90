------------------------------ MODULE Versions ------------------------------
(***************************************************************************)
(* Vector clocks and the resolution of conflicting versions.               *)
(*                                                                         *)
(* Models crates/bashfuldb-clock/src/vector_clock.rs (type VectorClock)    *)
(* and resolve_two of crates/bashfuldb-replication/src/coordinator.rs.     *)
(*                                                                         *)
(* A VectorClock is a BTreeMap<NodeId, Hlc>: here a function whose domain  *)
(* is the set of nodes that have an entry.  An Hlc is a packed u64 that is *)
(* only ever compared, so it is a natural number; 0 is Hlc::zero().        *)
(***************************************************************************)
EXTENDS Naturals, FiniteSets

CONSTANT MAX_ENTRIES    \* capacity of a vector clock (4096 in the code)

ASSUME MaxEntriesAssumption == MAX_ENTRIES \in Nat \ {0}

-----------------------------------------------------------------------------
(* Vector clocks.                                                          *)

EmptyClock == [n \in {} |-> 0]

\* The clocks over the nodes of N with timestamps of T.
VectorClock(N, T) == UNION {[D -> T] : D \in SUBSET N}

\* entries.get(node).copied().unwrap_or(Hlc::zero())
Entry(v, n) == IF n \in DOMAIN v THEN v[n] ELSE 0

MaxHlc(a, b) == IF b > a THEN b ELSE a

\* increment fails, leaving the clock alone, when a new node would exceed
\* the capacity.
IncrementFails(v, n) == n \notin DOMAIN v /\ Cardinality(DOMAIN v) >= MAX_ENTRIES

Increment(v, n, h) ==
  IF IncrementFails(v, n)
  THEN v
  ELSE [m \in DOMAIN v \cup {n} |-> IF m = n THEN MaxHlc(Entry(v, n), h) ELSE v[m]]

\* self_le of compare: no entry of v is above the entry of w.
ClockLe(v, w) == \A n \in DOMAIN v \cup DOMAIN w : Entry(v, n) <= Entry(w, n)

Compare(v, w) ==
  IF ClockLe(v, w)
  THEN IF ClockLe(w, v) THEN "Equal" ELSE "Before"
  ELSE IF ClockLe(w, v) THEN "After" ELSE "Concurrent"

-----------------------------------------------------------------------------
(* Versioned documents.  `document` is NoDoc in a tombstone.               *)

Tombstone(noDoc, version, hlc) ==
  [document |-> noDoc, version |-> version, hlc |-> hlc, is_tombstone |-> TRUE]

LiveDoc(document, version, hlc) ==
  [document |-> document, version |-> version, hlc |-> hlc, is_tombstone |-> FALSE]

\* Concurrent versions: a tombstone beats a live document, otherwise the
\* higher timestamp wins and a tie goes to the first.
ResolveConcurrent(a, b) ==
  IF a.is_tombstone # b.is_tombstone
  THEN IF a.is_tombstone THEN a ELSE b
  ELSE IF a.hlc >= b.hlc THEN a ELSE b

\* Fault: the first of two ordered versions wins, whichever is later.
ResolveTwo_FirstWins(a, b) ==
  IF Compare(a.version, b.version) = "Concurrent" THEN ResolveConcurrent(a, b) ELSE a

\* resolve_two
ResolveTwo(a, b) ==
  LET order == Compare(a.version, b.version)
  IN  IF order = "Concurrent" THEN ResolveConcurrent(a, b)
      ELSE IF order = "Before" THEN b ELSE a

=============================================================================
