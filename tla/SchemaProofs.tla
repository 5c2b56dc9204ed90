---------------------------- MODULE SchemaProofs ----------------------------
(***************************************************************************)
(* Proofs about the schema manager, for any number of nodes, fields, calls *)
(* and faults: the inductions and the counting that SchemaSteps and        *)
(* SchemaCounts leave open, and the theorems.                              *)
(***************************************************************************)
EXTENDS SchemaCounts, FiniteSetTheorems, WellFoundedInduction

-----------------------------------------------------------------------------
\* A set with 0 that has with i - 1 also i, up to n, has n.
LEMMA Reached ==
  ASSUME NEW n \in Nat, NEW S, 0 \in S, \A i \in 1 .. n : i - 1 \in S => i \in S
  PROVE  n \in S
<1> DEFINE Bad == 0 .. n \ S
<1>1. SUFFICES ASSUME n \notin S PROVE FALSE
  OBVIOUS
<1>2. Bad \in SUBSET Nat /\ n \in Bad
  BY <1>1
<1>3. IsWellFoundedOn(OpToRel(<, Nat), Nat)
  BY Zenon, NatLessThanWellFounded
<1>4. PICK x \in Bad : \A y \in Bad : ~(<<y, x>> \in OpToRel(<, Nat))
  <2> HIDE DEF Bad
  <2> QED BY Zenon, <1>2, <1>3, WFMin
<1>5. x \in 0 .. n /\ x \notin S /\ \A y \in Bad : ~(y < x)
  BY Zenon, <1>2, <1>4 DEF OpToRel
<1>6. x \in 1 .. n /\ x - 1 \in 0 .. n /\ x - 1 < x
  BY <1>5
<1>7. x - 1 \in S
  BY <1>5, <1>6
<1> QED
  BY <1>5, <1>6, <1>7

\* A loop that starts with an element of S and whose rounds stay in S ends in S.
\* f[i] is its variable after i rounds.
LEMMA LoopStays ==
  ASSUME NEW S, NEW n \in Nat, NEW f, f[0] \in S,
         \A i \in 1 .. n : f[i - 1] \in S => f[i] \in S
  PROVE  f[n] \in S
<1> DEFINE In == {i \in 0 .. n : f[i] \in S}
<1>1. 0 \in In /\ \A i \in 1 .. n : i - 1 \in In => i \in In
  OBVIOUS
<1>2. n \in In
  <2> HIDE DEF In
  <2> QED BY <1>1, Reached
<1> QED
  BY <1>2

\* f has the values of a variable, in S, that is base before a loop of n rounds whose
\* body is g.
IsLoop(f, n, S, base, g) ==
  /\ f \in [0 .. n -> S] /\ f[0] = base
  /\ \A i \in 1 .. n : f[i] = g[<<f[i - 1], i>>]

\* A loop of n rounds has such values, whatever its body does with the variable and
\* the number of the round.
LEMMA LoopExists ==
  ASSUME NEW n \in Nat, NEW S, NEW base \in S, NEW g,
         \A s \in S : \A i \in 1 .. n : g[<<s, i>>] \in S
  PROVE  \E f : IsLoop(f, n, S, base, g)
<1> DEFINE Run(m, f) == IsLoop(f, m, S, base, g)
           Runs == {m \in 0 .. n : \E f : Run(m, f)}
<1>1. 0 \in Runs
  <2>1. Run(0, [i \in 0 .. 0 |-> base])
    BY DEF IsLoop
  <2> HIDE DEF Run
  <2> QED BY <2>1
<1>2. ASSUME NEW m \in 1 .. n, m - 1 \in Runs PROVE m \in Runs
  <2>1. PICK f : Run(m - 1, f)
    BY <1>2
  <2>2. f \in [0 .. m - 1 -> S] /\ f[0] = base /\ \A i \in 1 .. m - 1 : f[i] = g[<<f[i - 1], i>>]
    BY <2>1 DEF IsLoop
  <2> DEFINE h == [i \in 0 .. m |-> IF i = m THEN g[<<f[m - 1], m>>] ELSE f[i]]
  <2>3. f[m - 1] \in S
    BY <2>2
  <2>4. g[<<f[m - 1], m>>] \in S
    BY <2>3
  <2>5. h \in [0 .. m -> S]
    BY <2>2, <2>4
  <2>6. h[0] = base
    BY <2>2
  <2>7. ASSUME NEW i \in 1 .. m PROVE h[i] = g[<<h[i - 1], i>>]
    <3>1. h[i - 1] = f[i - 1] /\ i \in 0 .. m
      OBVIOUS
    <3>2. CASE i = m
      <4>1. h[i] = g[<<f[m - 1], m>>]
        BY <3>2
      <4> QED BY <3>1, <3>2, <4>1, Zenon
    <3>3. CASE i # m
      <4>1. h[i] = f[i] /\ i \in 1 .. m - 1
        BY <3>3
      <4> QED BY <2>2, <3>1, <4>1, Zenon
    <3> QED BY <3>2, <3>3
  <2>8. Run(m, h)
    <3> HIDE DEF h
    <3> QED BY <2>5, <2>6, <2>7, Zenon DEF IsLoop
  <2> HIDE DEF Run, h
  <2> QED BY <2>8
<1>3. n \in Runs
  <2> HIDE DEF Runs
  <2> QED BY SMTT(30), <1>1, <1>2, Reached
<1>4. PICK f : Run(n, f)
  BY <1>3
<1> QED
  BY <1>4, Zenon

\* apply_entries: what holds of the state, and what no entry that is newer destroys,
\* holds at the end.
LEMMA ApplyEntriesStays ==
  ASSUME NEW S, NEW st \in S, NEW entries, Len(entries) \in Nat,
         \A s \in S : \A i \in 1 .. Len(entries) : ApplyNewer(s, call[entries[i]]) \in S
  PROVE  ApplyEntries(st, entries) \in S
<1>1. PICK n \in Nat : n = Len(entries)
  OBVIOUS
<1>2. PICK g : g = [p \in S \X (1 .. n) |-> ApplyNewer(p[1], call[entries[p[2]]])]
  BY Zenon
<1> DEFINE Eq(f) == f = [i \in 0 .. n |-> IF i = 0 THEN st ELSE ApplyNewer(f[i - 1], call[entries[i]])]
<1>3. \A s \in S : \A i \in 1 .. n : g[<<s, i>>] \in S
  BY <1>1, <1>2
<1>4. PICK f : IsLoop(f, n, S, st, g)
  <2>1. \E h : IsLoop(h, n, S, st, g)
    BY <1>3, LoopExists, Zenon
  <2> QED BY <2>1, Zenon
<1>5. ASSUME NEW i \in 0 .. n PROVE f[i] = IF i = 0 THEN st ELSE ApplyNewer(f[i - 1], call[entries[i]])
  <2>1. CASE i = 0
    BY SMTT(30), <1>4, <2>1 DEF IsLoop
  <2>2. CASE i # 0
    <3>1. i \in 1 .. n /\ i - 1 \in 0 .. n
      BY <2>2
    <3>2. <<f[i - 1], i>> \in S \X (1 .. n)
      BY SMTT(30), <1>4, <3>1 DEF IsLoop
    <3>3. g[<<f[i - 1], i>>] = ApplyNewer(f[i - 1], call[entries[i]])
      BY <1>2, <3>2
    <3>4. f[i] = g[<<f[i - 1], i>>]
      BY <1>4, <3>1, Zenon DEF IsLoop
    <3> QED BY <2>2, <3>3, <3>4, Zenon
  <2> QED BY <2>1, <2>2
<1>6. Eq(f)
  BY <1>4, <1>5 DEF IsLoop
<1>7. PICK run : run = CHOOSE h : Eq(h)
  <2> HIDE DEF Eq
  <2> QED BY Zenon
<1>8. Eq(run)
  <2> HIDE DEF Eq
  <2> QED BY <1>6, <1>7, Zenon
<1>9. run[0] \in S
  <2>1. 0 \in 0 .. n
    OBVIOUS
  <2>2. run[0] = st
    BY SMTT(30), <1>8, <2>1
  <2> QED BY <2>2
<1>10. ASSUME NEW i \in 1 .. n, run[i - 1] \in S PROVE run[i] \in S
  <2>1. i \in 0 .. n /\ i # 0
    OBVIOUS
  <2>2. run[i] = ApplyNewer(run[i - 1], call[entries[i]])
    BY <1>8, <2>1
  <2> QED BY SMTT(30), <1>1, <1>10, <2>2
<1>11. run[n] \in S
  BY SMTT(30), <1>9, <1>10, LoopStays
<1> QED
  BY <1>1, <1>7, <1>11 DEF ApplyEntries

\* log_entries_since: the sort has a place for every entry, and gives only entries of
\* the log that are newer.
LEMMA EntriesSinceOf ==
  ASSUME NEW l, NEW v \in Nat, IsFiniteSet(DOMAIN l), DOMAIN l \subseteq Nat,
         \A i \in DOMAIN l : call[l[i]].version \in Nat
  PROVE  /\ Len(EntriesSince(l, v)) \in Nat
         /\ EntriesSince(l, v) \in Seq({l[i] : i \in Newer(l, v)})
<1> DEFINE Below(i) == {j \in Newer(l, v) : NoLater(l, j, i)}
<1>1. PICK N : N = Newer(l, v)
  BY Zenon
<1>2. N \subseteq DOMAIN l /\ \A i \in N : i \in Nat /\ call[l[i]].version \in Nat
  BY <1>1 DEF Newer
<1>3. IsFiniteSet(N) /\ Cardinality(N) \in Nat
  BY SMTT(30), <1>2, FS_Subset, FS_CardinalityType
<1>4. ASSUME NEW i \in N PROVE /\ Below(i) \in SUBSET N /\ i \in Below(i)
                               /\ IsFiniteSet(Below(i)) /\ Cardinality(Below(i)) \in 1 .. Cardinality(N)
  <2>1. Below(i) \in SUBSET N /\ i \in Below(i)
    BY <1>1, <1>2 DEF NoLater
  <2> HIDE DEF Below
  <2>2. IsFiniteSet(Below(i)) /\ Cardinality(Below(i)) <= Cardinality(N)
    BY SMTT(30), <1>3, <2>1, FS_Subset
  <2>3. Cardinality(Below(i)) \in Nat /\ Cardinality(Below(i)) # 0
    BY SMTT(30), <2>1, <2>2, FS_CardinalityType, FS_EmptySet
  <2> QED BY SMTT(30), <1>3, <2>1, <2>2, <2>3
<1>5. ASSUME NEW i \in N, NEW j \in N, i # j, NoLater(l, i, j)
      PROVE  Cardinality(Below(i)) # Cardinality(Below(j))
  <2>1. Below(i) \subseteq Below(j) /\ j \notin Below(i)
    BY SMTT(30), <1>1, <1>2, <1>5 DEF NoLater
  <2>2. i \in N /\ j \in N
    OBVIOUS
  <2>3. j \in Below(j) /\ IsFiniteSet(Below(j))
    BY <1>4, <2>2, Zenon
  <2> HIDE DEF Below
  <2> QED BY SMTT(30), <2>1, <2>3, FS_Subset
<1>6. ASSUME NEW i \in N, NEW j \in N, i # j
      PROVE  Cardinality(Below(i)) # Cardinality(Below(j))
  <2>1. NoLater(l, i, j) \/ NoLater(l, j, i)
    BY <1>2 DEF NoLater
  <2>2. i \in N /\ j \in N
    OBVIOUS
  <2> HIDE DEF Below
  <2> QED BY <1>5, <1>6, <2>1, <2>2, Zenon
<1>7. PICK rank : rank = [i \in N |-> Cardinality(Below(i))]
  <2> HIDE DEF Below
  <2> QED BY Zenon
<1>8. rank \in Injection(N, 1 .. Cardinality(N))
  <2> HIDE DEF Below
  <2>1. rank \in [N -> 1 .. Cardinality(N)]
    BY <1>4, <1>7
  <2>2. \A i, j \in N : rank[i] = rank[j] => i = j
    BY <1>6, <1>7
  <2> QED BY <2>1, <2>2 DEF Injection, IsInjective
<1>9. rank \in Surjection(N, 1 .. Cardinality(N))
  <2>1. IsFiniteSet(1 .. Cardinality(N)) /\ Cardinality(1 .. Cardinality(N)) = Cardinality(N)
    BY SMTT(30), <1>3, FS_Interval
  <2> QED BY SMTT(30), <1>8, <2>1, FS_Injection
<1>10. ASSUME NEW r \in 1 .. Cardinality(N)
       PROVE  (CHOOSE i \in Newer(l, v) : Rank(l, v, i) = r) \in N
  <2>1. PICK i \in N : rank[i] = r
    BY <1>9 DEF Surjection
  <2>2. Rank(l, v, i) = rank[i]
    BY <1>7 DEF Rank
  <2> QED BY <1>1, <2>1, <2>2, Zenon
<1>11. EntriesSince(l, v) \in [1 .. Cardinality(N) -> {l[i] : i \in N}]
  BY <1>1, <1>10, Zenon DEF EntriesSince
<1>12. EntriesSince(l, v) \in Seq({l[i] : i \in N})
  BY <1>3, <1>11
<1> QED
  BY <1>1, <1>12

-----------------------------------------------------------------------------
\* The facts about loops that the steps need.
LEMMA Loops ==
  ASSUME TypeInv
  PROVE  LoopFacts
<1>1. ASSUME NEW S, NEW st \in S, NEW e \in Seq(Index),
             \A s \in S : \A i \in 1 .. Len(e) : ApplyNewer(s, call[e[i]]) \in S
      PROVE  ApplyEntries(st, e) \in S
  <2>1. Len(e) \in Nat
    OBVIOUS
  <2> QED BY <1>1, <2>1, ApplyEntriesStays, Zenon
<1>2. ASSUME NEW n \in Node, NEW v \in Nat PROVE EntriesSince(log[n], v) \in Seq(LogSet(n))
  <2>1. PICK l : l = log[n]
    BY Zenon
  <2>2. l \in Seq(Index) /\ LogSet(n) \subseteq Calls /\ LogSet(n) = {l[i] : i \in DOMAIN l}
    <3>1. log[n] \in Seq(Index) /\ LogSet(n) \subseteq Of(n)
      BY Facts, Zenon DEF TypeInv, NodeInv
    <3>2. LogSet(n) = {l[i] : i \in DOMAIN l}
      BY <2>1 DEF LogSet
    <3>3. Of(n) \subseteq Calls
      BY Zenon DEF Of
    <3> QED BY <2>1, <3>1, <3>2, <3>3, Zenon
  <2>3. DOMAIN l = 1 .. Len(l) /\ Len(l) \in Nat
    BY <2>2
  <2>4. IsFiniteSet(DOMAIN l) /\ DOMAIN l \subseteq Nat
    BY SMTT(30), <2>3, FS_Interval
  <2>5. \A i \in DOMAIN l : call[l[i]].version \in Nat
    BY <2>2, Facts, Zenon DEF TypeInv
  <2>6. EntriesSince(l, v) \in Seq({l[i] : i \in Newer(l, v)})
    BY <2>4, <2>5, EntriesSinceOf, Zenon
  <2>7. {l[i] : i \in Newer(l, v)} \subseteq LogSet(n)
    BY <2>2, Zenon DEF Newer
  <2>8. ASSUME NEW A, NEW B, A \subseteq B PROVE Seq(A) \subseteq Seq(B)
    BY <2>8
  <2> QED BY <2>1, <2>6, <2>7, <2>8, Zenon
<1> QED BY <1>1, <1>2, Zenon DEF LoopFacts

-----------------------------------------------------------------------------
\* The number of calls that have a version.
LEMMA StampedCount ==
  ASSUME Shape
  PROVE  /\ IsFiniteSet(Calls) /\ IsFiniteSet(Stamped) /\ Cardinality(Stamped) \in Nat
         /\ Cardinality(Stamped) <= Len(call)
<1>1. PICK n \in Nat : n = Len(call) /\ Calls = 1 .. n
  BY Zenon DEF Shape, CallShape
<1>2. IsFiniteSet(1 .. n) /\ Cardinality(1 .. n) = n
  BY FS_Interval
<1>3. PICK S : S = Stamped
  BY Zenon
<1>4. S \in SUBSET (1 .. n)
  BY <1>1, <1>3, Zenon DEF Stamped
<1>5. IsFiniteSet(S) /\ Cardinality(S) <= Cardinality(1 .. n)
  BY <1>2, <1>4, FS_Subset, Zenon
<1>6. Cardinality(S) \in Nat
  BY <1>5, FS_CardinalityType, Zenon
<1> QED BY <1>1, <1>2, <1>3, <1>5, <1>6, Zenon

\* No version is over that number.
VersionInv == \E b \in Nat : b = Cardinality(Stamped) /\ Within(b)

\* A step keeps it.
LEMMA VersionStep ==
  ASSUME TypeInv, LoopFacts, StepKind, VersionInv
  PROVE  VersionInv'
<1>1. PICK b \in Nat : b = Cardinality(Stamped) /\ Within(b)
  BY Zenon DEF VersionInv
<1>2. SameStamps(b) \/ OneStamp(b)
  BY <1>1, Stamps, Zenon
<1>3. CASE SameStamps(b)
  BY <1>1, <1>3, Zenon DEF SameStamps, VersionInv
<1>4. CASE OneStamp(b)
  <2>1. PICK k : k \notin Stamped /\ Stamped' = Stamped \cup {k}
    BY <1>4, Zenon DEF OneStamp
  <2>2. PICK S : S = Stamped
    BY Zenon
  <2>3. IsFiniteSet(S) /\ k \notin S
    BY <2>1, <2>2, StampedCount, Zenon DEF TypeInv
  <2>4. Cardinality(S \cup {k}) = Cardinality(S) + 1
    BY <2>3, FS_AddElement, Zenon
  <2>5. PICK c \in Nat : c = b + 1
    OBVIOUS
  <2>6. c = Cardinality(Stamped)' /\ Within(c)'
    BY <1>1, <1>4, <2>1, <2>2, <2>4, <2>5, Zenon DEF OneStamp
  <2> QED BY <2>6, Zenon DEF VersionInv
<1> QED BY <1>2, <1>3, <1>4, Zenon

\* It holds at the start.
LEMMA VersionInit ==
  ASSUME Init
  PROVE  VersionInv
<1>1. 0 \in Nat /\ Cardinality({}) = 0
  BY FS_EmptySet
<1> QED BY <1>1, WithinInit, Zenon DEF VersionInv

-----------------------------------------------------------------------------
\* Counting.  One more element at most:
LEMMA OneMore ==
  ASSUME NEW S, NEW T, NEW x, IsFiniteSet(S), T \subseteq S \cup {x}
  PROVE  IsFiniteSet(T) /\ Cardinality(T) \in Nat /\ Cardinality(T) <= Cardinality(S) + 1
<1>1. IsFiniteSet(S \cup {x}) /\ Cardinality(S) \in Nat
      /\ Cardinality(S \cup {x}) = IF x \in S THEN Cardinality(S) ELSE Cardinality(S) + 1
  BY FS_AddElement, FS_CardinalityType, Zenon
<1>2. T \in SUBSET (S \cup {x})
  BY Zenon
<1>3. IsFiniteSet(T) /\ Cardinality(T) <= Cardinality(S \cup {x})
  BY <1>1, <1>2, FS_Subset, Zenon
<1>4. Cardinality(T) \in Nat
  BY <1>3, FS_CardinalityType, Zenon
<1> QED BY SMTT(30), <1>1, <1>3, <1>4

\* A set and the image of another:
LEMMA WithImage ==
  ASSUME NEW W, IsFiniteSet(W), NEW E \in SUBSET W, NEW A, IsFiniteSet(A),
         NEW F, NEW g \in Surjection(E, F)
  PROVE  IsFiniteSet(A \cup F) /\ Cardinality(A \cup F) <= Cardinality(A) + Cardinality(W)
<1>5. IsFiniteSet(E) /\ Cardinality(E) <= Cardinality(W)
  BY FS_Subset, Zenon
<1>6. IsFiniteSet(F) /\ Cardinality(F) <= Cardinality(E)
  BY <1>5, FS_Surjection, Zenon
<1>7. IsFiniteSet(A \cup F) /\ Cardinality(A \cup F) = Cardinality(A) + Cardinality(F) - Cardinality(A \cap F)
  BY <1>6, FS_Union, Zenon
<1>8. IsFiniteSet(A \cap F)
  BY FS_Intersection, Zenon
<1>9. /\ Cardinality(A) \in Nat /\ Cardinality(F) \in Nat /\ Cardinality(E) \in Nat /\ Cardinality(W) \in Nat
      /\ Cardinality(A \cap F) \in Nat
  BY <1>5, <1>6, <1>8, FS_CardinalityType, Zenon
<1>10. Cardinality(A \cup F) <= Cardinality(A) + Cardinality(W)
  BY SMTT(30), <1>5, <1>6, <1>7, <1>9
<1> QED BY <1>7, <1>10, Zenon

\* On a node that takes all the calls: the calls that clients wait for are within the
\* width, and the fields that are claimed within the bound.
QuotaOf(n) ==
  /\ IsFiniteSet(Claimed(n)) /\ IsFiniteSet(revived)
  /\ Cardinality(WaitingOf(n)) <= workload.width
  /\ Cardinality(Claimed(n)) <= Limit + workload.width - 1 + Cardinality(revived)

QuotaInv == \A n \in Node : SteadyWriter(n) => QuotaOf(n)

\* The numbers involved.
LEMMA Numbers ==
  ASSUME Shape
  PROVE  Limit \in Nat /\ workload.width \in Nat \ {0} /\ \A n : IsFiniteSet(WaitingOf(n)) /\ Cardinality(WaitingOf(n)) \in Nat
<1>1. workload \in Workload /\ Limit \in Nat
  BY SchemaAssumption, Zenon DEF Shape, WorkloadShape
<1>2. workload.width \in Nat \ {0}
  BY <1>1 DEF Workload
<1>3. ASSUME NEW n PROVE IsFiniteSet(WaitingOf(n)) /\ Cardinality(WaitingOf(n)) \in Nat
  <2>1. PICK S, T : S = Calls /\ T = WaitingOf(n)
    BY Zenon
  <2>2. T \in SUBSET S /\ IsFiniteSet(S)
    BY <2>1, StampedCount, Zenon DEF WaitingOf, Of
  <2>3. IsFiniteSet(T)
    BY <2>2, FS_Subset, Zenon
  <2> QED BY <2>1, <2>3, FS_CardinalityType, Zenon
<1> QED BY <1>1, <1>2, <1>3, Zenon

\* A step keeps it.
LEMMA QuotaOfStep ==
  ASSUME Shape, NEW n \in Node, Steady(n)', QuotaOf(n), QuotaStep(n), workload' = workload
  PROVE  QuotaOf(n)'
<1>1. PICK w, W, V, C, D, R, T : /\ w = workload.width /\ W = WaitingOf(n) /\ V = WaitingOf(n)' /\ C = Claimed(n)
                                 /\ D = Claimed(n)' /\ R = revived /\ T = revived'
  BY Zenon
<1>2. /\ w \in Nat \ {0} /\ Limit \in Nat /\ IsFiniteSet(W) /\ Cardinality(W) \in Nat
  BY <1>1, Numbers, Zenon
<1>4. /\ IsFiniteSet(C) /\ IsFiniteSet(R) /\ Cardinality(W) <= w
      /\ Cardinality(C) <= Limit + w - 1 + Cardinality(R)
  BY <1>1, Zenon DEF QuotaOf
<1>5. Cardinality(C) \in Nat /\ Cardinality(R) \in Nat
  BY <1>4, FS_CardinalityType, Zenon
<1>6. IsFiniteSet(V) /\ Cardinality(V) \in Nat /\ Cardinality(V) <= w
  <2>1. CASE NoWait(n)
    <3>1. V \in SUBSET W
      BY <1>1, <2>1, Zenon DEF NoWait
    <3>2. IsFiniteSet(V) /\ Cardinality(V) <= Cardinality(W)
      BY <1>2, <3>1, FS_Subset, Zenon
    <3>3. Cardinality(V) \in Nat
      BY <3>2, FS_CardinalityType, Zenon
    <3> QED BY SMTT(30), <1>2, <1>4, <3>2, <3>3
  <2>2. CASE OneWaits(n)
    <3>1. PICK i : V \subseteq W \cup {i}
      BY <1>1, <2>2, Zenon DEF OneWaits
    <3>2. IsFiniteSet(V) /\ Cardinality(V) \in Nat /\ Cardinality(V) <= Cardinality(W) + 1
      BY <1>2, <3>1, OneMore, Zenon
    <3>3. Cardinality(W) < w
      BY <1>1, <2>2, Zenon DEF OneWaits, MayCall, WaitingOf
    <3> QED BY SMTT(30), <1>2, <3>2, <3>3
  <2> QED BY <2>1, <2>2, Zenon DEF QuotaStep
<1>7. IsFiniteSet(D) /\ IsFiniteSet(T) /\ Cardinality(D) <= Limit + w - 1 + Cardinality(T)
  <2>1. CASE NoClaim(n)
    <3>1. D \in SUBSET C /\ T = R
      BY <1>1, <2>1, Zenon DEF NoClaim
    <3>2. IsFiniteSet(D) /\ Cardinality(D) <= Cardinality(C)
      BY <1>4, <3>1, FS_Subset, Zenon
    <3>3. Cardinality(D) \in Nat
      BY <3>2, FS_CardinalityType, Zenon
    <3> QED BY SMTT(30), <1>2, <1>4, <1>5, <3>1, <3>2, <3>3
  <2>2. CASE Revival(n)
    <3>1. PICK k, f : D \subseteq C \cup {f} /\ k \notin R /\ T = R \cup {k}
      BY <1>1, <2>2, Zenon DEF Revival
    <3>2. IsFiniteSet(D) /\ Cardinality(D) \in Nat /\ Cardinality(D) <= Cardinality(C) + 1
      BY <1>4, <3>1, OneMore, Zenon
    <3>3. IsFiniteSet(T) /\ Cardinality(T) = Cardinality(R) + 1
      BY <1>4, <3>1, FS_AddElement, Zenon
    <3> QED BY SMTT(30), <1>2, <1>4, <1>5, <3>2, <3>3
  <2>3. CASE Passes(n)
    <3>1. PICK A, E, f : A = ActiveFields(n) /\ E = Entering' /\ f = [k \in E |-> call'[k].field]
      BY Zenon
    <3>2. A \in SUBSET C /\ T = R
      BY <1>1, <2>3, <3>1, Zenon DEF Passes, Claimed
    <3>3. IsFiniteSet(A)
      BY <1>4, <3>2, FS_Subset, Zenon
    <3>4. Cardinality(A) \in Nat
      BY <3>3, FS_CardinalityType, Zenon
    <3>5. Cardinality(A) < Limit
      <4>1. ~ (Cardinality(A) >= Limit)
        BY <2>3, <3>1, Zenon DEF Passes, OverQuota, ActiveFields
      <4> QED BY SMTT(30), <1>2, <3>4, <4>1
    <3>6. E \subseteq V
      BY <1>1, <3>1, EnteringWaits, Zenon
    <3>7. PICK F : F = {f[k] : k \in E}
      BY Zenon
    <3>8. D = A \cup F
      BY SMTT(30), <1>1, <2>3, <3>1, <3>7 DEF Passes, Claimed
    <3>9. IsFiniteSet(D) /\ Cardinality(D) <= Cardinality(A) + Cardinality(V)
      <4>1. f \in Surjection(E, F)
        BY SMTT(30), <3>1, <3>7 DEF Surjection
      <4>2. IsFiniteSet(V) /\ E \in SUBSET V
        BY <1>6, <3>6, Zenon
      <4>3. IsFiniteSet(A \cup F) /\ Cardinality(A \cup F) <= Cardinality(A) + Cardinality(V)
        BY <3>3, <4>1, <4>2, WithImage, Zenon
      <4> QED BY <3>8, <4>3, Zenon
    <3>10. Cardinality(D) \in Nat
      BY <3>9, FS_CardinalityType, Zenon
    <3> QED BY SMTT(30), <1>2, <1>4, <1>5, <1>6, <3>2, <3>4, <3>5, <3>9, <3>10
  <2> QED BY <2>1, <2>2, <2>3, Zenon DEF QuotaStep
<1> QED BY <1>1, <1>6, <1>7, Zenon DEF QuotaOf

\* No field has an index at the start.
LEMMA QuotaInit ==
  ASSUME Init
  PROVE  QuotaInv
<1> SUFFICES ASSUME NEW n \in Node PROVE QuotaOf(n)
  BY Zenon DEF QuotaInv
<1>1. Calls = {} /\ revived = {} /\ state[n].active_by_field = [f \in Field |-> NoIndex]
  BY DEF Init, Calls, EmptyState
<1>2. Claimed(n) = {} /\ WaitingOf(n) = {}
  BY <1>1 DEF Claimed, ActiveFields, Active, Entering, WaitingOf, Of
<1>3. workload.width \in Nat \ {0} /\ Limit \in Nat
  BY TypeInit, Numbers, Zenon DEF TypeInv
<1>4. IsFiniteSet({}) /\ Cardinality({}) = 0
  BY FS_EmptySet, Zenon
<1>5. 0 <= workload.width /\ 0 <= Limit + workload.width - 1 + 0
  BY <1>3
<1> QED BY <1>1, <1>2, <1>4, <1>5, Zenon DEF QuotaOf

-----------------------------------------------------------------------------
\* The lines of the log, on a node that makes its calls one after the other and neither
\* crashes nor fails to write: only the call that is between its two writes leaves the
\* last line open.
OneAtATime(n) == workload.width = 1 /\ n \notin workload.crashing
LinesOf(n) ==
  /\ \A j, k \in WaitingOf(n) : j = k
  /\ lines[n] = "open" => \E k \in WaitingOf(n) : call[k].pc = "newline"
  /\ lines[n] # "broken"

LinesInv == lines \in [Node -> LineForms] /\ \A n \in Node : OneAtATime(n) => LinesOf(n)

\* What a step of call k writes: nothing, and then it is not between its writes; part
\* of an entry; an entry; the end of a line.
Writes(k, n) ==
  \/ lines' = lines /\ (call[k].pc = "newline" => n \in workload.crashing)
  \/ n \in workload.crashing /\ lines' = [lines EXCEPT ![n] = "broken"]
  \/ /\ call[k].pc = "append" /\ call'[k].pc = "newline"
     /\ lines' = [lines EXCEPT ![n] = IF @ = "whole" THEN "open" ELSE "broken"]
  \/ call[k].pc = "newline" /\ lines' = [lines EXCEPT ![n] = IF @ = "open" THEN "whole" ELSE @]

\* A step of a call is one of these.
LEMMA LinesMove ==
  ASSUME Shape, NEW k \in Calls, CallStep(k) \/ CallFails(k)
  PROVE  Writes(k, call[k].node)
<1>1. ASSUME UNCHANGED disk \/ UNCHANGED lines, call[k].pc # "newline" PROVE Writes(k, call[k].node)
  BY <1>1, Zenon DEF Writes, disk
<1>2. CASE AppendLog(k)
  <2>1. Goto(k, "newline") /\ workload' = workload /\ "newline" \in Pcs
    BY <1>2, Zenon DEF AppendLog, Pcs, Waiting
  <2>2. /\ call[k].version \in Nat /\ call[k].acked \in BOOLEAN /\ call[k].image \in Image
    BY Facts, Zenon
  <2>3. CallMoves(k, call[k].version, "newline", call[k].acked, call[k].image)
    BY <2>1, <2>2, CallMoved, Zenon
  <2>4. call'[k].pc = "newline"
    BY <2>3, Zenon DEF CallMoves, SameBut
  <2> QED BY <1>2, <2>4, Zenon DEF AppendLog, Writes
<1>3. CASE EndLine(k)
  BY <1>3, Zenon DEF EndLine, Writes
<1>4. CASE CallFails(k)
  BY <1>4, Zenon DEF CallFails, Writes
<1>5. CASE QuotaExceeded(k) \/ TakeVersion(k) \/ ApplyCall(k) \/ Serialize(k) \/ MarkReady(k)
  <2>1. UNCHANGED disk
    BY <1>5, Zenon DEF QuotaExceeded, TakeVersion, ApplyCall, Serialize, MarkReady
  <2>2. call[k].pc # "newline"
    BY SMTT(30), <1>5 DEF QuotaExceeded, TakeVersion, ApplyCall, Serialize, MarkReady
  <2> QED BY <1>1, <2>1, <2>2, Zenon
<1>6. CASE PutSnapshot(k) \/ BuildRows(k) \/ Swap(k) \/ DropRows(k) \/ DropReady(k) \/ PutAfterSwap(k)
  <2>1. UNCHANGED disk \/ UNCHANGED lines
    BY <1>6, ZenonT(40) DEF PutSnapshot, BuildRows, Swap, DropRows, DropReady, PutAfterSwap
  <2>2. call[k].pc # "newline"
    BY SMTT(30), <1>6 DEF PutSnapshot, BuildRows, Swap, DropRows, DropReady, PutAfterSwap
  <2> QED BY <1>1, <2>1, <2>2, Zenon
<1> QED BY <1>2, <1>3, <1>4, <1>5, <1>6, Zenon DEF CallStep

\* Every line is whole at the start.
LEMMA LinesInit ==
  ASSUME Init
  PROVE  LinesInv
<1>1. lines \in [Node -> LineForms] /\ \A n \in Node : lines[n] = "whole"
  BY DEF Init, LineForms
<1>2. Calls = {}
  BY DEF Init, Calls
<1>3. "whole" # "open" /\ "whole" # "broken"
  OBVIOUS
<1> QED BY <1>1, <1>2, <1>3, Zenon DEF LinesInv, LinesOf, WaitingOf, Of

\* A step of a call keeps it.
LEMMA MoveLines ==
  ASSUME TypeInv, LinesInv, NEW k \in Calls, CallStep(k) \/ CallFails(k)
  PROVE  LinesInv'
<1>1. PICK n, p, pc : Move(k, n, p, pc)
  BY Moves, Zenon DEF TypeInv
<1>2. /\ n = call[k].node /\ n \in Node /\ p = call[k].pc /\ pc = call'[k].pc /\ Static
      /\ Calls' = Calls /\ \A j \in Calls : j # k => call'[j] = call[j]
  BY <1>1, Zenon DEF Move, CallMove
<1>3. Writes(k, n)
  BY <1>2, LinesMove, Zenon DEF TypeInv
<1>4. lines \in [Node -> LineForms] /\ lines' \in [Node -> LineForms]
  BY SMTT(30), <1>2, <1>3 DEF LinesInv, Writes, LineForms
<1>5. ASSUME NEW m \in Node, OneAtATime(m)' PROVE LinesOf(m)'
  <2>1. LinesOf(m) /\ m \notin workload.crashing
    BY <1>2, <1>5, Zenon DEF LinesInv, OneAtATime, Static
  <2>2. pc \in Waiting => p \in Waiting
    BY <1>1, Zenon DEF Move, Route, Waiting
  <2>3. Of(m)' = Of(m)
    BY <1>2, Zenon DEF Of, Static
  <2>4. WaitingOf(m)' \subseteq WaitingOf(m)
    BY <1>2, <2>2, <2>3, Zenon DEF WaitingOf, Of
  <2>5. \A i, j \in WaitingOf(m)' : i = j
    BY <2>1, <2>4, Zenon DEF LinesOf
  <2>6. ASSUME NEW j \in WaitingOf(m), call[j].pc = "newline", j # k
        PROVE  j \in WaitingOf(m)' /\ call'[j].pc = "newline"
    BY <1>2, <2>3, <2>6, Zenon DEF WaitingOf, Of
  <2>7. CASE m # n
    <3>1. lines'[m] = lines[m]
      BY <1>2, <1>3, <1>4, <2>7, Zenon DEF Writes
    <3>2. k \notin WaitingOf(m)
      BY <1>2, <2>7, Zenon DEF WaitingOf, Of
    <3> QED BY <2>1, <2>5, <2>6, <3>1, <3>2, Zenon DEF LinesOf
  <2>8. CASE m = n /\ lines' = lines /\ call[k].pc # "newline"
    BY <2>1, <2>5, <2>6, <2>8, Zenon DEF LinesOf
  <2>9. CASE /\ m = n /\ call[k].pc = "append" /\ call'[k].pc = "newline"
             /\ lines' = [lines EXCEPT ![n] = IF @ = "whole" THEN "open" ELSE "broken"]
    <3>1. k \in WaitingOf(n) /\ k \in WaitingOf(n)'
      BY <1>2, <2>3, <2>9, Zenon DEF WaitingOf, Of, Waiting
    <3>2. lines[n] # "open"
      <4>1. ASSUME NEW j \in WaitingOf(n), call[j].pc = "newline" PROVE FALSE
        <5>1. j = k
          BY <2>1, <2>9, <3>1, <4>1, Zenon DEF LinesOf
        <5> QED BY <2>9, <4>1, <5>1
      <4> QED BY <2>1, <2>9, <4>1, Zenon DEF LinesOf
    <3>3. lines[n] = "whole"
      BY SMTT(30), <1>2, <1>4, <2>1, <2>9, <3>2 DEF LinesOf, LineForms
    <3>4. lines'[n] = "open"
      BY SMTT(30), <1>2, <1>4, <2>9, <3>3
    <3>5. lines'[n] # "broken"
      BY <3>4
    <3> QED BY <2>5, <2>9, <3>1, <3>4, <3>5, Zenon DEF LinesOf
  <2>10. CASE m = n /\ lines' = [lines EXCEPT ![n] = IF @ = "open" THEN "whole" ELSE @]
    <3>1. lines'[n] # "open" /\ lines'[n] # "broken"
      BY SMTT(30), <1>2, <1>4, <2>1, <2>10 DEF LinesOf
    <3> QED BY <2>5, <2>10, <3>1, Zenon DEF LinesOf
  <2> QED BY <1>3, <2>1, <2>7, <2>8, <2>9, <2>10, Zenon DEF Writes
<1> QED BY <1>4, <1>5, Zenon DEF LinesInv

\* A call begins only when no other one of its node is waited for.
LEMMA BornLines ==
  ASSUME TypeInv, LinesInv, NEW n, NEW i, Born(n, i), lines' = lines
  PROVE  LinesInv'
<1>1. /\ Static /\ n \in Node /\ MayCall(n) /\ i \notin Calls /\ call'[i].node = n
      /\ Calls' = Calls \cup {i} /\ \A j \in Calls : call'[j] = call[j]
  BY Zenon DEF Born
<1>2. ASSUME NEW m \in Node, OneAtATime(m)' PROVE LinesOf(m)'
  <2>1. LinesOf(m) /\ workload.width = 1
    BY <1>1, <1>2, Zenon DEF LinesInv, OneAtATime, Static
  <2>2. \A j \in Calls : (j \in WaitingOf(m)' <=> j \in WaitingOf(m)) /\ call'[j].pc = call[j].pc
    BY <1>1, Zenon DEF WaitingOf, Of
  <2>3. WaitingOf(m) \subseteq Calls /\ \A j \in WaitingOf(m)' : j \in Calls \/ (j = i /\ m = n)
    BY <1>1, Zenon DEF WaitingOf, Of
  <2>4. CASE m # n
    BY <2>1, <2>2, <2>3, <2>4, Zenon DEF LinesOf
  <2>5. CASE m = n
    <3>1. Cardinality(WaitingOf(n)) < workload.width
      BY <1>1, Zenon DEF MayCall, WaitingOf
    <3>2. IsFiniteSet(WaitingOf(n)) /\ Cardinality(WaitingOf(n)) \in Nat
      BY Numbers, Zenon DEF TypeInv
    <3>3. Cardinality(WaitingOf(n)) = 0
      BY SMTT(30), <2>1, <3>1, <3>2
    <3>4. WaitingOf(n) = {}
      BY <3>2, <3>3, FS_EmptySet, Zenon
    <3> QED BY <2>1, <2>2, <2>3, <2>5, <3>4, Zenon DEF LinesOf
  <2> QED BY <2>4, <2>5
<1> QED BY <1>2, Zenon DEF LinesInv

\* Nothing is called, written or ended.
LEMMA LinesRest ==
  ASSUME LinesInv, UNCHANGED <<workload, lines, call>>
  PROVE  LinesInv'
<1>1. \A n : WaitingOf(n)' = WaitingOf(n)
  BY Zenon DEF WaitingOf, Of, Calls
<1>2. \A n : LinesOf(n) => LinesOf(n)'
  BY <1>1, Zenon DEF LinesOf
<1> QED BY <1>2, Zenon DEF LinesInv, OneAtATime

\* Every step keeps it.
LEMMA LinesNext ==
  ASSUME TypeInv, LoopFacts, LinesInv, Next
  PROVE  LinesInv'
<1>2. ASSUME NEW n \in Node, (\E f \in Field : CreateIndex(n, f)) \/ \E x \in Index : DropIndex(n, x)
      PROVE  LinesInv'
  <2>1. lines' = lines
    BY <1>2, Zenon DEF CreateIndex, DropIndex, disk
  <2>2. PICK i : Born(n, i)
    BY <1>2, Births, Zenon
  <2> QED BY <2>1, <2>2, BornLines, Zenon
<1>3. ASSUME NEW n \in Node, Crash(n) PROVE LinesInv'
  <2>1. Crashed(n)
    BY <1>3, Crashes, Zenon
  <2>2. /\ n \in workload.crashing /\ workload' = workload /\ lines' = lines /\ Calls' = Calls
        /\ \A k \in Calls : call'[k].node = call[k].node /\ (call[k].node # n => call'[k] = call[k])
    BY <1>3, <2>1, Zenon DEF Crashed, Crash, Static, disk
  <2>3. ASSUME NEW m \in Node, OneAtATime(m)' PROVE LinesOf(m)'
    <3>1. LinesOf(m) /\ m # n
      BY <2>2, <2>3, Zenon DEF LinesInv, OneAtATime
    <3>2. WaitingOf(m)' = WaitingOf(m) /\ \A k \in WaitingOf(m) : call'[k] = call[k]
      BY <2>2, <3>1, Zenon DEF WaitingOf, Of
    <3> QED BY <2>2, <3>1, <3>2, Zenon DEF LinesOf
  <2> QED BY <2>2, <2>3, Zenon DEF LinesInv
<1>4. ASSUME NEW n \in Node, SyncStep(n) \/ SyncFails(n) \/ Restart(n) \/ \E m \in Node : HearVersion(n, m)
      PROVE  LinesInv'
  <2>1. UNCHANGED <<workload, lines, call>>
    BY <1>4, Zenon DEF SyncStep, Fetch, SyncApply, SyncSerialize, SyncPut, SyncFails, Restart, HearVersion, disk
  <2> QED BY <2>1, LinesRest, Zenon
<1> QED BY <1>2, <1>3, <1>4, MoveLines, Zenon DEF Next

-----------------------------------------------------------------------------
\* The inductive invariant.
SchemaInv == /\ TypeInv /\ RunInv /\ BuildInv /\ AckInv /\ SteadyInv
             /\ VersionInv /\ RevivedInv /\ QuotaInv /\ LinesInv

\* It holds in every state.
LEMMA SchemaInduction == Spec => []SchemaInv
<1>1. Init => SchemaInv
  BY TypeInit, RunInit, BuildInit, AckInit, SteadyInit, VersionInit, RevivedInit, QuotaInit, LinesInit,
     Zenon DEF SchemaInv
<1>2. SchemaInv /\ [Next]_vars => SchemaInv'
  <2> SUFFICES ASSUME SchemaInv, [Next]_vars PROVE SchemaInv'
    BY Zenon
  <2>1. /\ TypeInv /\ RunInv /\ BuildInv /\ AckInv /\ SteadyInv
        /\ VersionInv /\ RevivedInv /\ QuotaInv /\ LinesInv
    BY Zenon DEF SchemaInv
  <2>2. CASE Next
    <3>1. LoopFacts
      BY <2>1, Loops, Zenon
    <3>2. TypeInv' /\ StepKind /\ Static
      BY <2>1, <2>2, <3>1, Kinds, Zenon DEF Grows
    <3>3. RunInv' /\ BuildInv' /\ AckInv'
      BY <2>1, <3>1, <3>2, RunStep, BuildStep, AckNext, Zenon
    <3>4. SteadyInv' /\ VersionInv' /\ RevivedInv'
      BY <2>1, <3>1, <3>2, SteadyNext, VersionStep, RevivedNext, Zenon
    <3>5. QuotaInv'
      <4> SUFFICES ASSUME NEW n \in Node, SteadyWriter(n)' PROVE QuotaOf(n)'
        BY Zenon DEF QuotaInv
      <4>1. SteadyWriter(n) /\ workload' = workload
        BY <3>2, Zenon DEF SteadyWriter, Static
      <4>2. Steady(n) /\ Steady(n)' /\ QuotaOf(n)
        BY <2>1, <3>4, <4>1, Zenon DEF SteadyInv, QuotaInv
      <4>3. QuotaStep(n)
        BY <2>1, <3>2, <4>1, <4>2, QuotaSteps, Zenon
      <4> QED BY <2>1, <4>1, <4>2, <4>3, QuotaOfStep, Zenon DEF TypeInv
    <3>6. LinesInv'
      BY <2>1, <2>2, <3>1, LinesNext, Zenon
    <3> QED BY <3>2, <3>3, <3>4, <3>5, <3>6, Zenon DEF SchemaInv
  <2>3. CASE UNCHANGED vars
    <3>1. TypeInv' /\ RunInv' /\ RevivedInv' /\ BuildInv' /\ AckInv' /\ SteadyInv'
      BY <2>1, <2>3, TypeStutters, Stutters, Zenon
    <3>2. VersionInv'
      BY <2>1, <2>3, CountStutters, Zenon DEF VersionInv
    <3>3. QuotaInv'
      <4>1. workload' = workload /\ revived' = revived
        BY <2>3, Zenon DEF vars, history
      <4> QED BY <2>1, <2>3, <4>1, CountStutters, Zenon DEF QuotaInv, QuotaOf, SteadyWriter
    <3>4. LinesInv'
      BY <2>1, <2>3, LinesRest, Zenon DEF vars, disk
    <3> QED BY <3>1, <3>2, <3>3, <3>4, Zenon DEF SchemaInv
  <2> QED BY <2>2, <2>3, Zenon
<1> QED BY <1>1, <1>2, PTL DEF Spec

(* The variables keep their types, and the counters of versions and the versions of
   states and snapshots stay within the number of calls (TypeOK), on any number of
   nodes, fields, calls and faults: next_version counts one for a call, and
   apply_entries and restore_state take only versions that some call has taken. *)
THEOREM SchemaTypes == Spec => []TypeOK
<1>1. SchemaInv => TypeOK
  <2> SUFFICES ASSUME TypeInv, VersionInv, LinesInv PROVE TypeOK
    BY Zenon DEF SchemaInv
  <2>1. PICK b \in Nat : b = Cardinality(Stamped) /\ Within(b)
    BY Zenon DEF VersionInv
  <2>2. Shape /\ NoIndex \notin gone /\ workload \in Workloads /\ workload \in Workload /\ MaxCalls \in Nat
    BY SchemaAssumption, Zenon DEF TypeInv, Shape, WorkloadShape
  <2>3. b <= MaxCalls
    <3>1. Len(call) \in Nat /\ Len(call) <= workload.calls
      BY <2>2, Zenon DEF Shape, CallShape
    <3>2. b <= Len(call)
      BY <2>1, <2>2, StampedCount, Zenon
    <3>3. workload.calls \in 1 .. MaxCalls
      BY <2>2 DEF Workload, Call
    <3> QED BY SMTT(30), <2>2, <3>1, <3>2, <3>3
  <2>4. up \subseteq Node
    <3>1. workload.nodes \subseteq Node /\ up \subseteq workload.nodes
      BY <2>2 DEF Workload, Shape, WorkloadShape
    <3> QED BY <3>1, Zenon
  <2>5. \A v \in Nat : v <= b => v \in 0 .. MaxCalls
    BY <2>2, <2>3
  <2>6. version \in [Node -> 0 .. MaxCalls]
    <3>1. version \in [Node -> Nat] /\ \A n \in Node : version[n] <= b
      BY <2>1, <2>2, Zenon DEF Within, Shape, MemoryShape
    <3> QED BY <2>5, <3>1
  <2>7. ASSUME NEW s \in State, s.version <= b PROVE s \in SchemaState(0 .. MaxCalls)
    <3>1. s.version \in Nat
      BY DEF State, SchemaState
    <3>2. s.version \in 0 .. MaxCalls
      BY <2>5, <2>7, <3>1, Zenon
    <3> QED BY <3>2 DEF State, SchemaState
  <2>8. state \in [Node -> SchemaState(0 .. MaxCalls)]
    <3>1. state \in [Node -> State] /\ \A n \in Node : state[n] \in State /\ state[n].version <= b
      BY <2>1, <2>2, Listed, Zenon DEF Within, Under, Shape, MemoryShape
    <3>2. \A n \in Node : state[n] \in SchemaState(0 .. MaxCalls)
      BY <2>7, <3>1, Zenon
    <3> QED BY <3>1, <3>2, Zenon
  <2>9. snap \in [Node -> SchemaState(0 .. MaxCalls) \cup {NoState}]
    <3>1. snap \in [Node -> Image] /\ \A n \in Node : snap[n] \in Image /\ Under(b, snap[n])
      BY <2>1, <2>2, Facts, Zenon DEF Within, Shape, DiskShape
    <3>2. \A n \in Node : snap[n] \in SchemaState(0 .. MaxCalls) \cup {NoState}
      BY <2>7, <3>1, Zenon DEF Under, Image
    <3> QED BY <3>1, <3>2, Zenon
  <2>10. /\ log \in [Node -> Seq(Call)] /\ lines \in [Node -> LineForms]
         /\ rows \in [Node -> SUBSET Index] /\ ready \in [Node -> SUBSET Index]
    BY <2>2, Zenon DEF Shape, DiskShape, MemoryShape, Index, LinesInv
  <2>11. Calls \subseteq Call /\ \A k \in Calls : call[k].pc \in Pcs /\ call[k].index \in Index
    BY <2>2, Facts, Zenon DEF Index
  <2>12. faults \in 0 .. MaxFaults /\ {gone, lost, revived} \subseteq SUBSET Index
    BY <2>2, Zenon DEF Shape, WorkloadShape, HistoryShape
  <2> QED BY <2>2, <2>4, <2>6, <2>8, <2>9, <2>10, <2>11, <2>12, Zenon DEF TypeOK
<1> QED BY <1>1, SchemaInduction, PTL

(* An index that any node lists, in memory or in its snapshot, is in the log of the
   node that created it: create_index appends to the log before it applies the entry,
   and log_entries_since and replay_from_log hand on only what a log has.  On a node
   that makes its calls one after the other and neither crashes nor fails to write,
   read_log_entries can read the log (ListedIsLogged): append_log_entry writes an entry
   and its newline separately, and no other entry comes between.               *)
THEOREM SchemaListedIsLogged == Spec => []ListedIsLogged
<1>1. SchemaInv => ListedIsLogged
  <2> SUFFICES ASSUME TypeInv, LinesInv PROVE ListedIsLogged
    BY Zenon DEF SchemaInv
  <2>1. ASSUME NEW n \in Node,
               NEW i \in state[n].indexes \cup (IF snap[n] = NoState THEN {} ELSE snap[n].indexes)
        PROVE  \E j \in DOMAIN log[call[i].node] : log[call[i].node][j] = i
    <3>1. i \in Listable
      BY Listed, Zenon DEF TypeInv, NodeInv, Lists
    <3> QED BY <3>1, Zenon DEF Listable, LogSet
  <2>2. \A n \in Node : workload.width = 1 /\ n \notin workload.crashing => Readable(n)
    BY Zenon DEF LinesInv, OneAtATime, LinesOf, Readable
  <2> QED BY <2>1, <2>2, Zenon DEF ListedIsLogged
<1> QED BY <1>1, SchemaInduction, PTL

(* An index whose creation was acknowledged, that was not dropped or replaced, and that
   no later snapshot left out while it was in memory, is in memory, and restore_state
   finds it after a crash (AckedSurvives): create_index returns only once the state with
   its index has been written, and nothing but a drop or a swap takes it from memory. *)
THEOREM SchemaAckedSurvives == Spec => []AckedSurvives
<1>1. SchemaInv => AckedSurvives
  BY AckSurvives, Zenon DEF SchemaInv
<1> QED BY <1>1, SchemaInduction, PTL

(* Queries are sent only to indexes whose rows are built, as long as these are listed
   (ServedIsBuilt): materialize sets ready after the last row, and rows are deleted
   after the index has left the list, whatever calls and tasks overlap and wherever
   the process crashes.                                                         *)
THEOREM SchemaServedIsBuilt == Spec => []ServedIsBuilt
<1>1. SchemaInv => ServedIsBuilt
  BY BuildServed, Zenon DEF SchemaInv
<1> QED BY <1>1, SchemaInduction, PTL

(* The log of a node that takes all the calls and does not crash has no version twice
   (VersionsUnique): next_version takes a version over all that exist, and such a node
   never sets its counter back to that of a state it fetched.                   *)
THEOREM SchemaVersionsUnique == Spec => []VersionsUnique
<1>1. SchemaInv => VersionsUnique
  BY SteadyUnique, Zenon DEF SchemaInv
<1> QED BY <1>1, SchemaInduction, PTL

(* On such a node, the fields that have an index are at most the quota and the calls
   that overlap, less one, and the replacements that were revived (QuotaBounded): a
   create_index that passes the check finds a free place, and only the calls that
   clients wait for can pass it at the same time.                               *)
THEOREM SchemaQuotaBounded == Spec => []QuotaBounded
<1>1. SchemaInv => QuotaBounded
  <2> SUFFICES ASSUME TypeInv, QuotaInv, NEW n \in Node, SteadyWriter(n)
               PROVE  Cardinality({f \in Field : Active(n, f) # NoIndex})
                        <= Limit + workload.width - 1 + Cardinality(revived)
    BY Zenon DEF QuotaBounded, SchemaInv
  <2>1. PICK A, C, R : A = ActiveFields(n) /\ C = Claimed(n) /\ R = revived
    BY Zenon
  <2>2. /\ IsFiniteSet(C) /\ IsFiniteSet(R) /\ A \in SUBSET C
        /\ Cardinality(C) <= Limit + workload.width - 1 + Cardinality(R)
    BY <2>1, Zenon DEF QuotaInv, QuotaOf, Claimed
  <2>3. IsFiniteSet(A) /\ Cardinality(A) <= Cardinality(C)
    BY <2>2, FS_Subset, Zenon
  <2>4. Cardinality(A) \in Nat /\ Cardinality(C) \in Nat /\ Cardinality(R) \in Nat
    BY <2>2, <2>3, FS_CardinalityType, Zenon
  <2>5. workload.width \in Nat \ {0} /\ Limit \in Nat
    BY Numbers, Zenon DEF TypeInv
  <2>6. Cardinality(A) <= Limit + workload.width - 1 + Cardinality(R)
    BY SMTT(30), <2>2, <2>3, <2>4, <2>5
  <2> QED BY <2>1, <2>6, Zenon DEF ActiveFields
<1> QED BY <1>1, SchemaInduction, PTL
=============================================================================
