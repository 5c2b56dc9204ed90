---------------------------- MODULE SchemaCounts ----------------------------
(***************************************************************************)
(* What the steps of the schema manager do to what is counted: the         *)
(* versions that calls take, and the fields that have an index.            *)
(***************************************************************************)
EXTENDS SchemaSteps

-----------------------------------------------------------------------------
\* Versions on a node that takes all the calls and does not crash.
Stamped == {k \in Calls : call[k].version # 0}
UpTo(n, s) == s # NoState => s.version <= version[n]

\* Its counter is ahead of every version in the system, ...
SteadyNode(n, m) ==
  version[m] <= version[n] /\ UpTo(n, state[m]) /\ UpTo(n, snap[m]) /\ UpTo(n, sync[m].image)
SteadyCall(n, k) ==
  /\ call[k].node = n /\ call[k].version <= version[n] /\ UpTo(n, call[k].image)
  /\ call[k].pc \in {"quota", "append"} => k \notin LogSet(n)
  /\ call[k].pc = "append" => call[k].version # 0

\* ... no version is taken twice, no call is logged twice, and every one that is has a
\* version.
Distinct == \A j, k \in Stamped : j # k => call[j].version # call[k].version
SteadyLog(n) ==
  /\ LogSet(n) \subseteq Stamped
  /\ \A i, j \in DOMAIN log[n] : i # j => log[n][i] # log[n][j]

SteadyRuns(n) == (n \in workload.nodes => n \in up) /\ sync[n].pc = "idle"

Steady(n) == /\ SteadyRuns(n) /\ Distinct /\ SteadyLog(n)
             /\ (\A m \in Node : SteadyNode(n, m)) /\ \A k \in Calls : SteadyCall(n, k)

SteadyInv == \A n \in Node : SteadyWriter(n) => Steady(n)

\* No version is taken at the start.
LEMMA SteadyInit ==
  ASSUME Init
  PROVE  SteadyInv
<1> SUFFICES ASSUME NEW n \in Node PROVE Steady(n)
  BY Zenon DEF SteadyInv
<1>1. Calls = {} /\ up = workload.nodes /\ \A m \in Node : LogSet(m) = {} /\ DOMAIN log[m] = {}
  BY DEF Init, Calls, LogSet
<1>2. \A m \in Node : /\ sync[m].pc = "idle" /\ sync[m].image = NoState /\ snap[m] = NoState
                      /\ version[m] = 0 /\ state[m].version = 0
  BY DEF Init, Idle, EmptyState
<1>3. 0 <= 0
  OBVIOUS
<1>4. \A m \in Node : SteadyNode(n, m)
  BY <1>2, <1>3, Zenon DEF SteadyNode, UpTo
<1> QED BY <1>1, <1>2, <1>4, Zenon DEF Steady, SteadyRuns, Distinct, SteadyLog, Stamped

\* It says that the versions of the log differ.
LEMMA SteadyUnique ==
  ASSUME SteadyInv
  PROVE  VersionsUnique
BY Zenon DEF SteadyInv, Steady, SteadyLog, Distinct, LogSet, VersionsUnique

\* A bound on the versions of a state and of all calls bounds what apply_entries gives.
LEMMA ApplyBound ==
  ASSUME TypeInv, LoopFacts, NEW b \in Nat, \A k \in Calls : call[k].version <= b,
         NEW st \in State, st.version <= b, NEW e \in Seq(Index), \A i \in 1 .. Len(e) : e[i] \in Calls
  PROVE  ApplyEntries(st, e).version <= b
<1>1. PICK S : S = {s \in State : s.version <= b}
  BY Zenon
<1>2. st \in S
  BY <1>1, Zenon
<1>3. ASSUME NEW s \in S, NEW i \in 1 .. Len(e) PROVE ApplyNewer(s, call[e[i]]) \in S
  <2>1. PICK r : r = call[e[i]] /\ r \in CallRec /\ r.version <= b
    BY Facts, Zenon DEF TypeInv
  <2>2. s \in State /\ s.version <= b
    BY <1>1, Zenon
  <2>3. ApplyNewer(s, r) \in State
    BY <2>1, <2>2, ApplyEntryState, Zenon
  <2>4. ApplyEntry(s, r).version = r.version
    BY DEF ApplyEntry
  <2>5. ApplyNewer(s, r).version <= b
    BY <2>1, <2>2, <2>4, Zenon DEF ApplyNewer
  <2> QED BY <1>1, <2>1, <2>3, <2>5, Zenon
<1>4. ApplyEntries(st, e) \in S
  BY <1>2, <1>3, Zenon DEF LoopFacts
<1> QED BY <1>1, <1>4, Zenon

\* And what a restart restores.
LEMMA RestoredBound ==
  ASSUME TypeInv, LoopFacts, NEW b \in Nat, \A k \in Calls : call[k].version <= b,
         NEW n \in Node, snap[n] # NoState => snap[n].version <= b
  PROVE  Restored(n).version <= b
<1>1. CASE snap[n] # NoState
  BY <1>1, Zenon DEF Restored
<1>2. CASE snap[n] = NoState
  <2>1. PICK e : e = EntriesSince(log[n], 0)
    BY Zenon
  <2>2. e \in Seq(LogSet(n))
    BY <2>1, Zenon DEF LoopFacts
  <2>3. LogSet(n) \subseteq Calls /\ Calls \subseteq Index
    BY Facts, Zenon DEF TypeInv, NodeInv, Of
  <2>4. e \in Seq(Index) /\ \A i \in 1 .. Len(e) : e[i] \in Calls
    BY <2>2, <2>3
  <2>5. PICK st : st = EmptyState /\ st \in State /\ st.version = 0
    BY EmptyIsState, Zenon
  <2>6. st.version <= b
    BY <2>5
  <2>7. ApplyEntries(st, e).version <= b
    BY <2>4, <2>5, <2>6, ApplyBound, Zenon
  <2> QED BY <1>2, <2>1, <2>5, <2>7, Zenon DEF Restored
<1> QED BY <1>1, <1>2, Zenon

\* While the counter grows, what was bounded by it stays so.
LEMMA SteadyKept ==
  ASSUME Shape, Shape', NEW n \in Node, version[n] <= version'[n], Steady(n)
  PROVE  /\ \A s \in Image : UpTo(n, s) => UpTo(n, s)'
         /\ \A v \in Nat : v <= version[n] => v <= version'[n]
         /\ \A m \in Node :
              (/\ version'[m] = version[m] \/ m = n
               /\ state'[m] = state[m] /\ snap'[m] = snap[m] /\ sync'[m] = sync[m])
                 => SteadyNode(n, m)'
         /\ \A k \in Calls : call'[k] = call[k] /\ (k \in LogSet(n)' => k \in LogSet(n)) => SteadyCall(n, k)'
<1>1. version[n] \in Nat /\ version'[n] \in Nat
  BY DEF Shape, MemoryShape
<1>2. \A v \in Nat : v <= version[n] => v <= version'[n]
  BY <1>1
<1>3. \A s \in Image : s # NoState => s.version \in Nat
  BY DEF Image, State, SchemaState
<1>4. ASSUME NEW s \in Image, UpTo(n, s) PROVE UpTo(n, s)'
  BY <1>2, <1>3, <1>4, Zenon DEF UpTo
<1>5. ASSUME NEW m \in Node, version'[m] = version[m] \/ m = n, state'[m] = state[m],
             snap'[m] = snap[m], sync'[m] = sync[m]
      PROVE  SteadyNode(n, m)'
  <2>1. SteadyNode(n, m) /\ version[m] \in Nat /\ state[m] \in Image /\ snap[m] \in Image /\ sync[m].image \in Image
    BY Facts, Zenon DEF Steady, Image
  <2>2. version'[m] <= version'[n]
    <3>1. CASE m = n
      BY <1>1, <3>1
    <3>2. CASE version'[m] = version[m]
      BY <1>2, <2>1, <3>2, Zenon DEF SteadyNode
    <3> QED BY <1>5, <3>1, <3>2, Zenon
  <2>3. PICK x, y, z : x = state[m] /\ y = snap[m] /\ z = sync[m].image
    BY Zenon
  <2>4. UpTo(n, x) /\ UpTo(n, y) /\ UpTo(n, z)
    BY <2>1, <2>3, Zenon DEF SteadyNode
  <2>5. UpTo(n, x)' /\ UpTo(n, y)' /\ UpTo(n, z)'
    BY <1>4, <2>1, <2>3, <2>4, Zenon
  <2> QED BY <1>5, <2>2, <2>3, <2>5, Zenon DEF SteadyNode, UpTo
<1>6. ASSUME NEW k \in Calls, call'[k] = call[k], k \in LogSet(n)' => k \in LogSet(n) PROVE SteadyCall(n, k)'
  <2>1. SteadyCall(n, k) /\ call[k].version \in Nat /\ call[k].image \in Image
    BY Facts, Zenon DEF Steady
  <2>2. PICK x : x = call[k].image
    BY Zenon
  <2>3. UpTo(n, x)'
    BY <1>4, <2>1, <2>2, Zenon DEF SteadyCall
  <2>4. call'[k].version <= version'[n]
    BY <1>2, <1>6, <2>1, Zenon DEF SteadyCall
  <2> QED BY <1>6, <2>1, <2>2, <2>3, <2>4, Zenon DEF SteadyCall, UpTo
<1> QED BY <1>2, <1>4, <1>5, <1>6, Zenon

\* Versions stay distinct where the others keep theirs, and the one that a call may take
\* is over the counter.
LEMMA DistinctKept ==
  ASSUME Shape, NEW n \in Node, Steady(n), NEW k, \A j \in Calls' \ {k} : j \in Calls /\ call'[j] = call[j],
         \/ call'[k].version = version[n] + 1
         \/ call'[k].version = 0
         \/ k \in Calls /\ call'[k].version = call[k].version
  PROVE  Distinct'
<1>1. Distinct /\ (\A j \in Calls : call[j].version <= version[n] /\ call[j].version \in Nat) /\ version[n] \in Nat
  BY Facts, Zenon DEF Steady, SteadyCall
<1>2. \A v \in Nat : v <= version[n] => v # version[n] + 1
  BY <1>1
<1>3. ASSUME NEW j \in Stamped', j # k PROVE j \in Stamped /\ call'[j].version = call[j].version
  BY <1>3, Zenon DEF Stamped
<1>4. ASSUME NEW j \in Stamped', j # k, k \in Stamped' PROVE call'[j].version # call'[k].version
  <2>1. j \in Stamped /\ j \in Calls /\ call'[j].version = call[j].version
    BY <1>3, <1>4, Zenon DEF Stamped
  <2>2. CASE call'[k].version = version[n] + 1
    BY <1>1, <1>2, <2>1, <2>2, Zenon
  <2>3. CASE call'[k].version = 0
    BY <1>4, <2>3, Zenon DEF Stamped
  <2>4. CASE k \in Calls /\ call'[k].version = call[k].version
    <3>1. k \in Stamped
      BY <1>4, <2>4, Zenon DEF Stamped
    <3> QED BY <1>1, <1>4, <2>1, <2>4, <3>1, Zenon DEF Distinct
  <2> QED BY <2>2, <2>3, <2>4, Zenon
<1>5. ASSUME NEW i \in Stamped', NEW j \in Stamped', i # j PROVE call'[i].version # call'[j].version
  <2>1. CASE i = k
    BY <1>4, <1>5, <2>1, Zenon
  <2>2. CASE j = k
    BY <1>4, <1>5, <2>2, Zenon
  <2>3. CASE i # k /\ j # k
    BY <1>1, <1>3, <1>5, <2>3, Zenon DEF Distinct
  <2> QED BY <2>1, <2>2, <2>3, Zenon
<1> QED BY <1>5, Zenon DEF Distinct

\* A call that is not in the log can be appended to it.
LEMMA AppendOnce ==
  ASSUME Shape, NEW n \in Node, NEW k \in Index, k \notin LogSet(n), log'[n] = Append(log[n], k),
         \A i, j \in DOMAIN log[n] : i # j => log[n][i] # log[n][j]
  PROVE  \A i, j \in DOMAIN log'[n] : i # j => log'[n][i] # log'[n][j]
<1>1. PICK l, t : l = log[n] /\ t = log'[n]
  BY Zenon
<1>2. l \in Seq(Index) /\ t = Append(l, k) /\ \A i \in DOMAIN l : l[i] # k
  BY <1>1, Facts, Zenon DEF LogSet
<1>3. \A i, j \in DOMAIN l : i # j => l[i] # l[j]
  BY <1>1, Zenon
<1>4. DOMAIN l = 1 .. Len(l) /\ Len(l) \in Nat /\ DOMAIN t = 1 .. Len(l) + 1
  BY <1>2
<1>5. t[Len(l) + 1] = k /\ \A i \in DOMAIN l : t[i] = l[i]
  BY <1>2, <1>4
<1>6. \A i \in DOMAIN t : i \in DOMAIN l \/ i = Len(l) + 1
  BY <1>4
<1>7. ASSUME NEW i \in DOMAIN t, NEW j \in DOMAIN t, i # j PROVE t[i] # t[j]
  <2>1. CASE i \in DOMAIN l /\ j \in DOMAIN l
    BY <1>3, <1>5, <1>7, <2>1, Zenon
  <2>2. CASE i \in DOMAIN l /\ j = Len(l) + 1
    BY <1>2, <1>5, <2>2, Zenon
  <2>3. CASE i = Len(l) + 1 /\ j \in DOMAIN l
    BY <1>2, <1>5, <2>3, Zenon
  <2> QED BY <1>6, <1>7, <2>1, <2>2, <2>3, Zenon
<1> QED BY <1>1, <1>7, Zenon

\* A log that stays keeps its part of the invariant.
LEMMA SteadyLogKept ==
  ASSUME NEW n, SteadyLog(n), log'[n] = log[n], \A j \in Stamped : j \in Stamped'
  PROVE  SteadyLog(n)'
<1>1. PICK l : l = log[n] /\ l = log'[n]
  BY Zenon
<1>2. {l[j] : j \in DOMAIN l} \subseteq Stamped /\ \A i, j \in DOMAIN l : i # j => l[i] # l[j]
  BY <1>1 DEF SteadyLog, LogSet
<1>3. {l[j] : j \in DOMAIN l} \subseteq Stamped'
  BY <1>2, Zenon
<1> QED BY <1>1, <1>2, <1>3 DEF SteadyLog, LogSet

\* A move keeps it: a call takes a version over all the others.
LEMMA MoveSteady ==
  ASSUME TypeInv, NEW w \in Node, Steady(w), NEW k \in Calls, NEW n, NEW p, NEW pc, Move(k, n, p, pc)
  PROVE  Steady(w)'
<1>1. /\ Shape /\ Shape' /\ Static /\ OnlyNode(n) /\ n \in Node /\ n = call[k].node /\ p = call[k].pc
      /\ pc = call'[k].pc /\ Calls' = Calls /\ (\A j \in Calls : j # k => call'[j] = call[j])
      /\ up' = up /\ sync' = sync /\ workload' = workload
  BY Zenon DEF TypeInv, Move, CallMove, Static
<1>16. LogSet(n)' = IF pc = "newline" THEN LogSet(n) \cup {k} ELSE LogSet(n)
  BY MoveLog DEF TypeInv
<1>2. n = w /\ SteadyCall(n, k) /\ SteadyNode(n, n) /\ SteadyLog(n) /\ Steady(n)
  BY <1>1, Zenon DEF Steady, SteadyCall
<1>3. /\ version[n] \in Nat /\ version'[n] \in Nat /\ call[k].version \in Nat /\ call[k].image \in Image
      /\ state[n] \in State /\ snap[n] \in Image /\ NoState \notin State /\ CallInv(k) /\ k \in Index
  BY <1>1, Facts, Zenon DEF TypeInv, Shape, MemoryShape
<1>4. \/ /\ p = "quota" /\ pc = "append" /\ version'[n] = version[n] + 1
         /\ call'[k].version = version[n] + 1
      \/ ~ (p = "quota" /\ pc = "append") /\ version'[n] = version[n] /\ call'[k].version = call[k].version
  BY Zenon DEF Move, MoveMemory
<1>5. version[n] <= version'[n] /\ version'[n] <= version'[n] /\ call'[k].version <= version'[n]
  <2>1. call[k].version <= version[n]
    BY <1>2, Zenon DEF SteadyCall
  <2> QED BY <1>3, <1>4, <2>1
<1>6. /\ \A s \in Image : UpTo(n, s) => UpTo(n, s)'
      /\ \A m \in Node : m # n => SteadyNode(n, m)'
      /\ \A j \in Calls : j # k => SteadyCall(n, j)'
  <2>1. \A j \in Calls : j # k => (j \in LogSet(n)' => j \in LogSet(n))
    <3>1. CASE pc = "newline"
      <4>1. LogSet(n)' = LogSet(n) \cup {k}
        BY <1>16, <3>1, Zenon
      <4> QED BY <4>1, Zenon
    <3>2. CASE ~ (pc = "newline")
      <4>1. LogSet(n)' = LogSet(n)
        BY <1>16, <3>2, Zenon
      <4> QED BY <4>1, Zenon
    <3> QED BY <3>1, <3>2, Zenon
  <2> QED BY <1>1, <1>2, <1>5, <2>1, SteadyKept, Zenon DEF OnlyNode
<1>7. UpTo(n, state[n])'
  <2>1. PICK s : s = state[n] /\ s \in Image /\ UpTo(n, s) /\ s # NoState
    BY <1>2, <1>3, Zenon DEF SteadyNode, Image
  <2>2. s.version <= version'[n]
    BY <1>6, <2>1, Zenon DEF UpTo
  <2>3. CASE p = "apply"
    <3>1. state'[n] = ApplyEntry(state[n], call[k]) /\ call[k].version <= version'[n]
      BY <1>4, <1>5, <2>3, Zenon DEF Move, MoveMemory
    <3>2. state'[n].version = call[k].version
      BY <3>1 DEF ApplyEntry
    <3> QED BY <3>1, <3>2, Zenon DEF UpTo
  <2>4. CASE p = "swap"
    <3>1. state'[n] = Swapped(k, n)
      BY <2>4, Zenon DEF Move, MoveMemory
    <3>2. state'[n].version = s.version
      BY <2>1, <3>1 DEF Swapped
    <3> QED BY <2>2, <3>2, Zenon DEF UpTo
  <2>5. CASE p \notin {"apply", "swap"}
    <3>1. state'[n] = s
      BY <2>1, <2>5, Zenon DEF Move, MoveMemory
    <3> QED BY <2>2, <3>1, Zenon DEF UpTo
  <2> QED BY <2>3, <2>4, <2>5, Zenon
<1>8. UpTo(n, snap[n])' /\ UpTo(n, sync[n].image)'
  <2>1. PICK s, i, y : s = snap[n] /\ i = call[k].image /\ y = sync[n].image
    BY Zenon
  <2>2. s \in Image /\ i \in Image /\ y \in Image /\ UpTo(n, s) /\ UpTo(n, i) /\ UpTo(n, y)
    BY <1>1, <1>2, <1>3, <2>1, Facts, Zenon DEF SteadyNode, SteadyCall
  <2>3. UpTo(n, s)' /\ UpTo(n, i)' /\ UpTo(n, y)'
    BY <1>6, <2>2, Zenon
  <2>4. snap'[n] = s \/ snap'[n] = i
    BY <2>1, Zenon DEF Move, MoveSnap
  <2> QED BY <1>1, <2>1, <2>3, <2>4, Zenon DEF UpTo
<1>9. SteadyNode(n, n)'
  BY <1>5, <1>7, <1>8, Zenon DEF SteadyNode
<1>10. UpTo(n, call[k].image)'
  <2>1. PICK s, i : s = state[n] /\ i = call[k].image
    BY Zenon
  <2>2. s \in Image /\ i \in Image /\ UpTo(n, s) /\ UpTo(n, i)
    BY <1>2, <1>3, <2>1, Zenon DEF SteadyNode, SteadyCall, Image
  <2>3. UpTo(n, s)' /\ UpTo(n, i)'
    BY <1>6, <2>2, Zenon
  <2>4. PICK x : x = call'[k].image
    BY Zenon
  <2>5. x = s \/ x = i \/ x = NoState
    BY <2>1, <2>4, Zenon DEF Move, MoveSnap
  <2>6. UpTo(n, x)'
    <3>1. x = NoState => UpTo(n, x)'
      BY Zenon DEF UpTo
    <3> QED BY <2>3, <2>5, <3>1, Zenon
  <2> QED BY <2>4, <2>6, Zenon DEF UpTo
<1>11. pc \in {"quota", "append"} => p = "quota" /\ pc = "append"
  BY Zenon DEF Move, Route
<1>12. SteadyCall(n, k)'
  <2>1. ASSUME pc \in {"quota", "append"} PROVE k \notin LogSet(n)' /\ call'[k].version # 0
    <3>1. p = "quota" /\ pc = "append"
      BY <1>11, <2>1, Zenon
    <3>2. LogSet(n)' = LogSet(n)
      BY <1>16, <3>1, Zenon
    <3>3. version[n] + 1 # 0
      BY <1>3
    <3> QED BY <1>1, <1>2, <1>4, <3>1, <3>2, <3>3, Zenon DEF SteadyCall
  <2> QED BY <1>1, <1>5, <1>10, <2>1, Zenon DEF SteadyCall, Static
<1>13. Distinct'
  <2>1. \A j \in Calls' \ {k} : j \in Calls /\ call'[j] = call[j]
    BY <1>1, Zenon
  <2> QED BY <1>1, <1>2, <1>4, <2>1, DistinctKept, Zenon
<1>14. SteadyLog(n)'
  <2>1. \A j \in Stamped : j \in Stamped'
    <3>1. version[n] + 1 # 0
      BY <1>3
    <3> QED BY <1>1, <1>4, <3>1, Zenon DEF Stamped
  <2>2. CASE pc = "newline"
    <3>6. p = "append"
      BY <2>2, Zenon DEF Move, Route
    <3>4. k \notin LogSet(n) /\ k \in Stamped
      BY <1>1, <1>2, <3>6, Zenon DEF SteadyCall, Stamped
    <3>5. LogSet(n)' = LogSet(n) \cup {k}
      BY <1>16, <2>2, Zenon
    <3>1. k \notin LogSet(n) /\ k \in Stamped /\ LogSet(n)' = LogSet(n) \cup {k}
      BY <3>4, <3>5, Zenon
    <3>2. log'[n] = Append(log[n], k)
      BY <2>2, Zenon DEF Move, MoveMemory
    <3>3. \A i, j \in DOMAIN log'[n] : i # j => log'[n][i] # log'[n][j]
      BY <1>1, <1>2, <1>3, <3>1, <3>2, AppendOnce, Zenon DEF SteadyLog
    <3> QED BY <1>2, <2>1, <3>1, <3>3, Zenon DEF SteadyLog
  <2>3. CASE ~ (pc = "newline")
    <3>1. log'[n] = log[n]
      BY <2>3, Zenon DEF Move, MoveMemory
    <3>2. LogSet(n)' = LogSet(n)
      BY <3>1, Zenon DEF LogSet
    <3> QED BY <1>2, <2>1, <3>1, <3>2, SteadyLogKept, Zenon
  <2> QED BY <2>2, <2>3, Zenon
<1>15. SteadyRuns(n)'
  BY <1>1, <1>2, Zenon DEF SteadyRuns, Steady
<1> QED BY <1>1, <1>2, <1>6, <1>9, <1>12, <1>13, <1>14, <1>15, Zenon DEF Steady

\* The start of a call keeps it: the node is the writer.
LEMMA BornSteady ==
  ASSUME TypeInv, NEW w \in Node, SteadyWriter(w), Steady(w), NEW n, NEW i, Born(n, i)
  PROVE  Steady(w)'
<1>1. /\ Shape /\ Shape' /\ OnlyNode(n) /\ n \in Node /\ i \notin Calls /\ Calls' = Calls \cup {i}
      /\ (\A j \in Calls : call'[j] = call[j]) /\ call'[i].node = n /\ call'[i].image = NoState
      /\ UNCHANGED <<up, log, snap, state, sync>> /\ workload' = workload
  BY Zenon DEF TypeInv, Born, Static
<1>2. n = w /\ Steady(n) /\ version[n] \in Nat
  BY <1>1, Facts, Zenon DEF Born, MayCall, SteadyWriter
<1>3. \/ version'[n] = version[n] /\ call'[i].version = 0 /\ call'[i].pc = "quota"
      \/ version'[n] = version[n] + 1 /\ call'[i].version = version[n] + 1 /\ call'[i].pc = "append"
  BY Zenon DEF Born, Creates, Drops
<1>4. /\ version[n] <= version'[n] /\ call'[i].version <= version'[n]
      /\ (call'[i].pc = "append" => call'[i].version # 0)
  BY <1>2, <1>3
<1>5. \A m \in Node : LogSet(m)' = LogSet(m)
  BY <1>1, Zenon DEF LogSet
<1>6. (\A m \in Node : SteadyNode(n, m)') /\ \A j \in Calls : SteadyCall(n, j)'
  BY <1>1, <1>2, <1>4, <1>5, SteadyKept, Zenon DEF OnlyNode
<1>7. i \notin LogSet(n)'
  BY <1>1, <1>5, Zenon DEF TypeInv, NodeInv, Of
<1>8. SteadyCall(n, i)'
  BY <1>1, <1>4, <1>7, Zenon DEF SteadyCall, UpTo
<1>9. Distinct'
  <2>1. \A j \in Calls' \ {i} : j \in Calls /\ call'[j] = call[j]
    BY <1>1, Zenon
  <2> QED BY <1>1, <1>2, <1>3, <2>1, DistinctKept, Zenon
<1>10. SteadyLog(n)'
  <2>1. \A j \in Stamped : j \in Stamped'
    BY <1>1, Zenon DEF Stamped
  <2> QED BY <1>1, <1>2, <2>1, SteadyLogKept, Zenon DEF Steady
<1>11. SteadyRuns(n)'
  BY <1>1, <1>2, Zenon DEF SteadyRuns, Steady
<1> QED BY <1>1, <1>2, <1>6, <1>8, <1>9, <1>10, <1>11, Zenon DEF Steady

\* A step of another node keeps it where it takes no version over the counter.
LEMMA SteadyOther ==
  ASSUME TypeInv, Shape', NEW w \in Node, Steady(w), NEW n \in Node, n # w, OnlyNode(n), Calls' = Calls,
         call' = call, log' = log, workload' = workload, w \in up => w \in up',
         version'[n] <= version[w], state'[n].version <= version[w],
         snap'[n] # NoState => snap'[n].version <= version[w],
         sync'[n].image # NoState => sync'[n].image.version <= version[w]
  PROVE  Steady(w)'
<1>1. version'[w] = version[w] /\ sync'[w] = sync[w] /\ version[w] \in Nat /\ Shape
  BY Facts, Zenon DEF OnlyNode, TypeInv
<1>2. version[w] <= version'[w]
  BY <1>1
<1>3. (\A m \in Node : m # n => SteadyNode(w, m)')
  BY <1>1, <1>2, SteadyKept, Zenon DEF OnlyNode
<1>4. LogSet(w)' = LogSet(w) /\ Stamped' = Stamped /\ (Distinct => Distinct')
  BY DEF LogSet, Stamped, Distinct
<1>5. \A k \in Calls : SteadyCall(w, k)'
  BY <1>1, <1>2, <1>4, SteadyKept, Zenon
<1>6. SteadyNode(w, n)'
  BY <1>1, Zenon DEF SteadyNode, UpTo
<1>7. SteadyLog(w)'
  BY <1>4, SteadyLogKept, Zenon DEF Steady
<1>8. SteadyRuns(w)'
  BY <1>1, Zenon DEF SteadyRuns, Steady
<1> QED BY <1>3, <1>4, <1>5, <1>6, <1>7, <1>8, Zenon DEF Steady

\* The writer does not synchronize, crash or restart, and a crash ends no call: the
\* others have none.
LEMMA SteadyAlone ==
  ASSUME TypeInv, NEW w \in Node, SteadyWriter(w), Steady(w)
  PROVE  /\ \A n, p, pc : SyncMove(n, p, pc) => n # w
         /\ \A n : Crashed(n) => n # w /\ call' = call
         /\ \A n : Restarted(n) => n # w
<1>1. ASSUME NEW n, NEW p, NEW pc, SyncMove(n, p, pc), n = w PROVE FALSE
  <2>1. p = "idle" /\ Shape'
    BY <1>1, Zenon DEF SyncMove, SyncKeeps, Steady, SteadyRuns
  <2>2. PICK m : m = sync'[n].from
    BY Zenon
  <2>3. version[m] > version[w]
    BY <1>1, <2>1, <2>2, Zenon DEF SyncMove, SyncRoute
  <2>4. m \in Node
    <3>1. sync' \in [Node -> SyncRec]
      BY <2>1, Zenon DEF Shape, SyncShape
    <3>2. sync'[n] \in SyncRec
      BY <1>1, <3>1, Zenon
    <3> QED BY <2>2, <3>2 DEF SyncRec
  <2>5. version[m] \in Nat /\ version[w] \in Nat /\ version[m] <= version[w]
    BY <2>4, Facts, Zenon DEF TypeInv, Steady, SteadyNode
  <2> QED BY <2>3, <2>5
<1>2. ASSUME NEW n, Crashed(n) PROVE n # w /\ call' = call
  <2>1. /\ Shape /\ Shape' /\ n \in workload.crashing /\ Calls' = Calls
        /\ \A k \in Calls : call[k].node # n => call'[k] = call[k]
    BY <1>2, Zenon DEF TypeInv, Crashed
  <2>2. n # w
    BY <2>1, Zenon DEF SteadyWriter
  <2>3. \A k \in Calls : call'[k] = call[k]
    BY <2>1, <2>2, Zenon DEF Steady, SteadyCall
  <2>4. call \in [Calls -> CallRec] /\ call' \in [Calls' -> CallRec]
    BY <2>1, Zenon DEF Shape, CallShape
  <2> QED BY <2>1, <2>2, <2>3, <2>4
<1>3. ASSUME NEW n, Restarted(n) PROVE n # w
  BY <1>3, Zenon DEF Restarted, Steady, SteadyRuns
<1> QED BY <1>1, <1>2, <1>3, Zenon

\* A synchronization keeps it: the writer hears of no higher version, and the others
\* take the versions of its entries.
LEMMA SyncSteady ==
  ASSUME TypeInv, LoopFacts, NEW w \in Node, SteadyWriter(w), Steady(w), NEW n, NEW p, NEW pc, SyncMove(n, p, pc)
  PROVE  Steady(w)'
<1>1. /\ Shape /\ Shape' /\ OnlyNode(n) /\ n \in Node /\ p = sync[n].pc /\ pc = sync'[n].pc
      /\ call' = call /\ log' = log /\ up' = up /\ Calls' = Calls /\ workload' = workload
  BY Zenon DEF TypeInv, SyncMove, SyncKeeps, Calls, Static
<1>2. /\ version[w] \in Nat /\ \A m \in Node : version[m] \in Nat /\ version[m] <= version[w]
      /\ sync[w].pc = "idle" /\ state[n] \in State /\ NoState \notin State /\ SteadyNode(w, n)
  BY <1>1, Facts, Zenon DEF Steady, SteadyNode, SteadyRuns
<1>3. n # w
  BY SteadyAlone, Zenon
<1>4. state[n].version <= version[w] /\ UpTo(w, snap[n]) /\ UpTo(w, sync[n].image)
  BY <1>2, Zenon DEF SteadyNode, UpTo
<1>5. state'[n].version <= version[w] /\ version'[n] <= version[w]
  <2>1. CASE p = "apply"
    <3>1. PICK st, e, b : st = state[n] /\ e = sync[n].entries /\ b = version[w]
      BY Zenon
    <3>2. e \in Seq(Index) /\ \A i \in 1 .. Len(e) : e[i] \in Calls
      BY <1>1, <3>1, Facts, ZenonT(40) DEF TypeInv, NodeInv, SyncInv, Of
    <3>3. \A k \in Calls : call[k].version <= b
      BY <3>1, Zenon DEF Steady, SteadyCall
    <3>4. ApplyEntries(st, e).version <= b
      BY <1>2, <1>4, <3>1, <3>2, <3>3, ApplyBound, Zenon
    <3> QED BY <2>1, <3>1, <3>4, Zenon DEF SyncMove, SyncSets
  <2>2. CASE p # "apply"
    BY <1>1, <1>2, <1>4, <2>2, Zenon DEF SyncMove, SyncSets
  <2> QED BY <2>1, <2>2, Zenon
<1>6. snap'[n] # NoState => snap'[n].version <= version[w]
  <2>1. PICK i : i = snap'[n]
    BY Zenon
  <2>2. i = sync[n].image \/ i = snap[n]
    BY <2>1, Zenon DEF SyncMove, SyncSets
  <2>3. UpTo(w, i)
    BY <1>4, <2>2, Zenon
  <2> QED BY <2>1, <2>3, Zenon DEF UpTo
<1>7. sync'[n].image # NoState => sync'[n].image.version <= version[w]
  <2>1. PICK i : i = sync'[n].image
    BY Zenon
  <2>2. i \in {state[n], sync[n].image, NoState}
    BY <2>1, Zenon DEF SyncMove, SyncSets
  <2>3. i # NoState => i.version <= version[w]
    BY <1>4, <2>2, Zenon DEF UpTo
  <2> QED BY <2>1, <2>3, Zenon
<1> QED BY <1>1, <1>3, <1>5, <1>6, <1>7, SteadyOther, Zenon

\* A crash keeps it: it is one of another node, whose calls are none.
LEMMA CrashSteady ==
  ASSUME TypeInv, NEW w \in Node, SteadyWriter(w), Steady(w), NEW n, Crashed(n)
  PROVE  Steady(w)'
<1>1. /\ Shape /\ Shape' /\ OnlyNode(n) /\ n \in Node /\ n \in workload.crashing /\ up' = up \ {n}
      /\ Calls' = Calls /\ workload' = workload
      /\ version'[n] = 0 /\ state'[n] = EmptyState /\ sync'[n].image = NoState
      /\ UNCHANGED <<log, snap>>
      /\ \A k \in Calls : IF call[k].node = n
                          THEN SameBut(call'[k], call[k], call[k].version, "done", call[k].acked, NoState)
                          ELSE call'[k] = call[k]
  BY Zenon DEF TypeInv, Crashed, Static
<1>2. n # w /\ call' = call
  BY SteadyAlone, Zenon
<1>4. version[w] \in Nat /\ EmptyState.version = 0 /\ SteadyNode(w, n)
  BY <1>1, Facts, EmptyIsState, Zenon DEF Steady
<1>5. 0 <= version[w]
  BY <1>4
<1>6. version'[n] <= version[w] /\ state'[n].version <= version[w]
  BY <1>1, <1>4, <1>5, Zenon
<1>7. snap'[n] # NoState => snap'[n].version <= version[w]
  BY <1>1, <1>4, Zenon DEF SteadyNode, UpTo
<1> QED BY <1>1, <1>2, <1>6, <1>7, SteadyOther, Zenon

\* A restart keeps it: the writer does not restart.
LEMMA RestartSteady ==
  ASSUME TypeInv, LoopFacts, NEW w \in Node, SteadyWriter(w), Steady(w), NEW n, Restarted(n)
  PROVE  Steady(w)'
<1>1. /\ Shape /\ Shape' /\ OnlyNode(n) /\ n \in Node /\ n \in workload.nodes \ up /\ up' = up \cup {n}
      /\ Calls' = Calls /\ workload' = workload /\ call' = call /\ log' = log /\ sync' = sync
      /\ state'[n] = Restored(n) /\ version'[n] = Restored(n).version
      /\ (snap'[n] = snap[n] \/ snap'[n] = Restored(n))
  BY Zenon DEF TypeInv, Restarted, Static, Calls
<1>2. n # w
  BY SteadyAlone, Zenon
<1>3. SteadyNode(w, n) /\ version[w] \in Nat
  BY <1>1, Facts, Zenon DEF Steady
<1>4. Restored(n).version <= version[w]
  <2>1. PICK b : b = version[w]
    BY Zenon
  <2>2. (\A k \in Calls : call[k].version <= b) /\ (snap[n] # NoState => snap[n].version <= b)
    BY <1>3, <2>1, Zenon DEF Steady, SteadyCall, SteadyNode, UpTo
  <2>3. Restored(n).version <= b
    BY <1>1, <1>3, <2>1, <2>2, RestoredBound, Zenon
  <2> QED BY <2>1, <2>3, Zenon
<1>5. snap'[n] # NoState => snap'[n].version <= version[w]
  BY <1>1, <1>3, <1>4, Zenon DEF SteadyNode, UpTo
<1>6. sync'[n].image # NoState => sync'[n].image.version <= version[w]
  BY <1>1, <1>3, Zenon DEF SteadyNode, UpTo
<1> QED BY <1>1, <1>2, <1>4, <1>5, <1>6, SteadyOther, Zenon

\* Every step keeps SteadyInv.
LEMMA SteadyNext ==
  ASSUME TypeInv, LoopFacts, SteadyInv, StepKind, Static
  PROVE  SteadyInv'
<1> SUFFICES ASSUME NEW w \in Node, SteadyWriter(w)' PROVE Steady(w)'
  BY Zenon DEF SteadyInv
<1>1. SteadyWriter(w) /\ Steady(w)
  BY Zenon DEF SteadyWriter, Static, SteadyInv
<1> QED BY <1>1, MoveSteady, BornSteady, SyncSteady, CrashSteady, RestartSteady, Zenon DEF StepKind

-----------------------------------------------------------------------------
\* Versions are counted: none is over the number of calls that have taken one.
Under(b, s) == s # NoState => s.version <= b

Within(b) ==
  /\ \A m \in Node : /\ version[m] <= b /\ Under(b, state[m]) /\ Under(b, snap[m])
                     /\ Under(b, sync[m].image)
  /\ \A k \in Calls : call[k].version <= b /\ Under(b, call[k].image)

\* No call has a version at the start.
LEMMA WithinInit ==
  ASSUME Init
  PROVE  Within(0) /\ Stamped = {}
<1>1. Calls = {} /\ \A m \in Node : /\ sync[m].image = NoState /\ snap[m] = NoState
                                    /\ version[m] = 0 /\ state[m].version = 0
  BY DEF Init, Calls, Idle, EmptyState
<1>2. 0 <= 0
  OBVIOUS
<1> QED BY <1>1, <1>2, Zenon DEF Within, Under, Stamped

\* A larger bound is a bound.
LEMMA WithinMore ==
  ASSUME Shape, NEW b \in Nat, Within(b)
  PROVE  Within(b + 1)
<1>1. \A v \in Nat : v <= b => v <= b + 1
  OBVIOUS
<1>2. \A s \in Image : Under(b, s) => Under(b + 1, s)
  <2>1. \A s \in Image : s # NoState => s.version \in Nat
    BY DEF Image, State, SchemaState
  <2> QED BY <1>1, <2>1, Zenon DEF Under
<1>3. \A m \in Node : version[m] \in Nat /\ state[m] \in Image /\ snap[m] \in Image /\ sync[m].image \in Image
  BY Facts, Zenon DEF Image
<1>4. \A k \in Calls : call[k].version \in Nat /\ call[k].image \in Image
  BY Facts, Zenon
<1>5. \A k \in Calls : call[k].version <= b + 1 /\ Under(b + 1, call[k].image)
  BY <1>1, <1>2, <1>4, Zenon DEF Within
<1>6. \A m \in Node : version[m] <= b + 1 /\ Under(b + 1, state[m])
  BY <1>1, <1>2, <1>3, Zenon DEF Within
<1>7. \A m \in Node : Under(b + 1, snap[m]) /\ Under(b + 1, sync[m].image)
  BY <1>2, <1>3, Zenon DEF Within
<1> QED BY <1>5, <1>6, <1>7, Zenon DEF Within

\* A node and a call that a step leaves alone stay under the bound.
LEMMA WithinKept ==
  ASSUME NEW b, Within(b)
  PROVE  /\ \A n : OnlyNode(n) => \A m \in Node : m # n =>
              version'[m] <= b /\ Under(b, state'[m]) /\ Under(b, snap'[m]) /\ Under(b, sync'[m].image)
         /\ \A k \in Calls : call'[k] = call[k] => call'[k].version <= b /\ Under(b, call'[k].image)
BY Zenon DEF Within, OnlyNode

\* The bound after the steps of node n, on that node and on the calls that change.
LEMMA WithinNext ==
  ASSUME NEW b, NEW n \in Node,
         \A m \in Node : m # n =>
           version'[m] <= b /\ Under(b, state'[m]) /\ Under(b, snap'[m]) /\ Under(b, sync'[m].image),
         version'[n] <= b, Under(b, state'[n]), Under(b, snap'[n]), Under(b, sync'[n].image),
         \A k \in Calls' : call'[k].version <= b /\ Under(b, call'[k].image)
  PROVE  Within(b)'
<1>1. \A m \in Node : version'[m] <= b /\ Under(b, state'[m]) /\ Under(b, snap'[m]) /\ Under(b, sync'[m].image)
  BY Zenon
<1> QED BY <1>1, Zenon DEF Within, Under

\* A move that takes no version, and what the others do.
LEMMA MoveWithin ==
  ASSUME TypeInv, NEW b \in Nat, Within(b), NEW k \in Calls, NEW n, NEW p, NEW pc, Move(k, n, p, pc),
         version'[n] <= b, call'[k].version <= b
  PROVE  Within(b)'
<1>1. /\ OnlyNode(n) /\ n \in Node /\ n = call[k].node /\ sync' = sync
      /\ Calls' = Calls /\ (\A j \in Calls : j # k => call'[j] = call[j])
      /\ state[n] \in State /\ NoState \notin State
  BY Facts, Zenon DEF TypeInv, Move, CallMove
<1>2. /\ Under(b, state[n]) /\ Under(b, snap[n]) /\ Under(b, sync[n].image) /\ Under(b, call[k].image)
      /\ state[n].version <= b /\ call[k].version <= b
  BY <1>1, Zenon DEF Within, Under
<1>3. Under(b, state'[n])
  <2>1. CASE p = "apply"
    <3>1. state'[n] = ApplyEntry(state[n], call[k])
      BY <2>1, Zenon DEF Move, MoveMemory
    <3>2. state'[n].version = call[k].version
      BY <3>1 DEF ApplyEntry
    <3> QED BY <1>2, <3>2, Zenon DEF Under
  <2>2. CASE p = "swap"
    <3>1. state'[n] = Swapped(k, n)
      BY <2>2, Zenon DEF Move, MoveMemory
    <3>2. state'[n].version = state[n].version
      BY <3>1 DEF Swapped
    <3> QED BY <1>2, <3>2, Zenon DEF Under
  <2>3. CASE p \notin {"apply", "swap"}
    <3>1. state'[n] = state[n]
      BY <2>3, Zenon DEF Move, MoveMemory
    <3> QED BY <1>2, <3>1, Zenon
  <2> QED BY <2>1, <2>2, <2>3, Zenon
<1>4. Under(b, snap'[n])
  <2>1. snap'[n] = snap[n] \/ snap'[n] = call[k].image
    BY Zenon DEF Move, MoveSnap
  <2> QED BY <1>2, <2>1, Zenon
<1>5. Under(b, call'[k].image)
  <2>1. call'[k].image = state[n] \/ call'[k].image = call[k].image \/ call'[k].image = NoState
    BY Zenon DEF Move, MoveSnap
  <2>2. Under(b, NoState)
    BY Zenon DEF Under
  <2> QED BY <1>2, <2>1, <2>2, Zenon
<1>6. \A j \in Calls' : call'[j].version <= b /\ Under(b, call'[j].image)
  BY <1>1, <1>5, WithinKept, Zenon
<1>7. \A m \in Node : m # n =>
        version'[m] <= b /\ Under(b, state'[m]) /\ Under(b, snap'[m]) /\ Under(b, sync'[m].image)
  BY <1>1, WithinKept, Zenon
<1> QED BY <1>1, <1>2, <1>3, <1>4, <1>6, <1>7, WithinNext, Zenon

\* How a step changes the calls that have a version, and the bound: not at all, ...
SameStamps(b) == Within(b)' /\ Stamped' = Stamped
\* ... or by one.
OneStamp(b) == Within(b + 1)' /\ \E k : k \notin Stamped /\ Stamped' = Stamped \cup {k}

\* A move takes a version once, after the check of the quota.
LEMMA MoveStamps ==
  ASSUME TypeInv, NEW b \in Nat, Within(b), NEW k \in Calls, NEW n, NEW p, NEW pc, Move(k, n, p, pc)
  PROVE  SameStamps(b) \/ OneStamp(b)
<1>1. /\ Shape /\ n \in Node /\ p = call[k].pc /\ CallInv(k) /\ version[n] \in Nat
      /\ Calls' = Calls /\ \A j \in Calls : j # k => call'[j] = call[j]
  BY Facts, Zenon DEF TypeInv, Move, CallMove
<1>2. version[n] <= b /\ call[k].version <= b
  BY <1>1, Zenon DEF Within
<1>3. CASE p = "quota" /\ pc = "append"
  <2>1. version'[n] = version[n] + 1 /\ call'[k].version = version[n] + 1 /\ call[k].version = 0
    BY <1>1, <1>3, Zenon DEF Move, MoveMemory, CallInv
  <2>2. version'[n] <= b + 1 /\ call'[k].version <= b + 1 /\ call'[k].version # 0 /\ b + 1 \in Nat
    BY <1>1, <1>2, <2>1
  <2>3. PICK c \in Nat : c = b + 1
    BY <2>2, Zenon
  <2>4. Within(c)
    BY <1>1, <2>3, WithinMore, Zenon
  <2>5. Within(c)'
    BY <2>2, <2>3, <2>4, MoveWithin, Zenon
  <2>6. Within(b + 1)'
    BY <2>3, <2>5, Zenon
  <2>7. k \notin Stamped /\ Stamped' = Stamped \cup {k}
    BY <1>1, <2>1, <2>2, Zenon DEF Stamped
  <2> QED BY <2>6, <2>7, Zenon DEF OneStamp
<1>4. CASE ~ (p = "quota" /\ pc = "append")
  <2>1. version'[n] = version[n] /\ call'[k].version = call[k].version
    BY <1>4, Zenon DEF Move, MoveMemory
  <2>2. version'[n] <= b /\ call'[k].version <= b
    BY <1>2, <2>1, Zenon
  <2>3. Within(b)'
    BY <2>2, MoveWithin, Zenon
  <2>4. \A j \in Calls : call'[j].version = call[j].version
    BY <1>1, <2>1, Zenon
  <2>5. Stamped' = Stamped
    BY <1>1, <2>4 DEF Stamped
  <2> QED BY <2>3, <2>5, Zenon DEF SameStamps
<1> QED BY <1>3, <1>4, Zenon

\* drop_index takes one at its start, create_index does not.
LEMMA BornStamps ==
  ASSUME TypeInv, NEW b \in Nat, Within(b), NEW n, NEW i, Born(n, i)
  PROVE  SameStamps(b) \/ OneStamp(b)
<1>1. /\ Shape /\ OnlyNode(n) /\ n \in Node /\ i \notin Calls /\ Calls' = Calls \cup {i}
      /\ (\A j \in Calls : call'[j] = call[j]) /\ call'[i].image = NoState
      /\ UNCHANGED <<snap, state, sync>> /\ version[n] \in Nat
  BY Facts, Zenon DEF TypeInv, Born
<1>2. ASSUME NEW c, Within(c), version'[n] <= c, call'[i].version <= c PROVE Within(c)'
  <2>1. \A j \in Calls' : call'[j].version <= c /\ Under(c, call'[j].image)
    <3>1. Under(c, call'[i].image)
      BY <1>1, Zenon DEF Under
    <3> QED BY <1>1, <1>2, <3>1, WithinKept, Zenon
  <2>2. Under(c, state'[n]) /\ Under(c, snap'[n]) /\ Under(c, sync'[n].image)
    BY <1>1, <1>2, Zenon DEF Within
  <2>3. \A m \in Node : m # n =>
          version'[m] <= c /\ Under(c, state'[m]) /\ Under(c, snap'[m]) /\ Under(c, sync'[m].image)
    BY <1>1, <1>2, WithinKept, Zenon
  <2> QED BY <1>1, <1>2, <2>1, <2>2, <2>3, WithinNext, Zenon
<1>3. version[n] <= b
  BY <1>1, Zenon DEF Within
<1>4. CASE Creates(n, i)
  <2>1. version'[n] = version[n] /\ call'[i].version = 0
    BY <1>4, Zenon DEF Creates
  <2>2. version'[n] <= b /\ call'[i].version <= b
    BY <1>3, <2>1
  <2>3. Stamped' = Stamped
    BY <1>1, <2>1, Zenon DEF Stamped
  <2> QED BY <1>2, <2>2, <2>3, Zenon DEF SameStamps
<1>5. CASE Drops(n, i)
  <2>1. version'[n] = version[n] + 1 /\ call'[i].version = version[n] + 1
    BY <1>5, Zenon DEF Drops
  <2>2. version'[n] <= b + 1 /\ call'[i].version <= b + 1 /\ call'[i].version # 0
    BY <1>1, <1>3, <2>1
  <2>3. Within(b + 1)
    BY <1>1, WithinMore, Zenon
  <2>4. Within(b + 1)'
    BY <1>2, <2>2, <2>3, Zenon
  <2>5. i \notin Stamped /\ Stamped' = Stamped \cup {i}
    BY <1>1, <2>2, Zenon DEF Stamped
  <2> QED BY <2>4, <2>5, Zenon DEF OneStamp
<1> QED BY <1>4, <1>5, Zenon DEF Born

\* A synchronization, a crash or a restart takes none.
LEMMA NodeStamps ==
  ASSUME TypeInv, LoopFacts, NEW b \in Nat, Within(b), NEW n \in Node, OnlyNode(n), Calls' = Calls,
         \A k \in Calls : /\ call'[k].version = call[k].version
                          /\ call'[k].image = call[k].image \/ call'[k].image = NoState,
         version'[n] <= b, Under(b, state'[n]),
         \/ snap'[n] = snap[n]
         \/ snap'[n] = sync[n].image
         \/ snap'[n] = state'[n],
         \/ sync'[n].image = sync[n].image
         \/ sync'[n].image = NoState
         \/ sync'[n].image = state[n]
  PROVE  SameStamps(b)
<1>1. /\ Under(b, NoState) /\ Under(b, state[n]) /\ Under(b, snap[n]) /\ Under(b, sync[n].image)
      /\ \A k \in Calls : call[k].version <= b /\ Under(b, call[k].image)
  BY Zenon DEF Within, Under
<1>2. Under(b, snap'[n])
  BY <1>1, Zenon
<1>3. Under(b, sync'[n].image)
  BY <1>1, Zenon
<1>4. \A k \in Calls' : call'[k].version <= b /\ Under(b, call'[k].image)
  BY <1>1, Zenon
<1>5. \A m \in Node : m # n =>
        version'[m] <= b /\ Under(b, state'[m]) /\ Under(b, snap'[m]) /\ Under(b, sync'[m].image)
  BY WithinKept, Zenon
<1>6. Within(b)'
  BY <1>2, <1>3, <1>4, <1>5, WithinNext, ZenonT(40)
<1>7. Stamped' = Stamped
  BY DEF Stamped
<1> QED BY <1>6, <1>7, Zenon DEF SameStamps

\* Every step takes at most one version, over no other by more than one.
LEMMA Stamps ==
  ASSUME TypeInv, LoopFacts, NEW b \in Nat, Within(b), StepKind
  PROVE  SameStamps(b) \/ OneStamp(b)
<1>1. ASSUME NEW n, NEW p, NEW pc, SyncMove(n, p, pc) PROVE SameStamps(b)
  <2>1. OnlyNode(n) /\ n \in Node /\ p = sync[n].pc /\ call' = call /\ Calls' = Calls
    BY <1>1, Zenon DEF SyncMove, SyncKeeps, Calls
  <2>2. /\ version[n] <= b /\ Under(b, state[n]) /\ state[n] \in State /\ state[n] # NoState
        /\ \A k \in Calls : call[k].version <= b
    BY <2>1, Listed, Zenon DEF Within
  <2>3. version'[n] <= b /\ Under(b, state'[n])
    <3>1. CASE p = "apply"
      <4>1. PICK st, e : st = state[n] /\ e = sync[n].entries
        BY Zenon
      <4>2. e \in Seq(Index) /\ \A i \in 1 .. Len(e) : e[i] \in Calls
        BY <2>1, <4>1, Facts, Zenon DEF TypeInv, NodeInv, SyncInv, Of
      <4>3. st \in State /\ st.version <= b
        BY <2>2, <4>1, Zenon DEF Under
      <4>4. ApplyEntries(st, e).version <= b
        BY <2>2, <4>2, <4>3, ApplyBound, Zenon
      <4> QED BY <1>1, <3>1, <4>1, <4>4, Zenon DEF SyncMove, SyncSets, Under
    <3>2. CASE p # "apply"
      <4>1. version' = version /\ state' = state
        BY <1>1, <3>2, Zenon DEF SyncMove, SyncSets
      <4> QED BY <2>2, <4>1, Zenon
    <3> QED BY <3>1, <3>2, Zenon
  <2>4. snap'[n] = snap[n] \/ snap'[n] = sync[n].image
    BY <1>1, Zenon DEF SyncMove, SyncSets
  <2>5. sync'[n].image = sync[n].image \/ sync'[n].image = NoState \/ sync'[n].image = state[n]
    BY <1>1, Zenon DEF SyncMove, SyncSets
  <2> QED BY <2>1, <2>3, <2>4, <2>5, NodeStamps, Zenon
<1>2. ASSUME NEW n, Crashed(n) PROVE SameStamps(b)
  <2>1. /\ OnlyNode(n) /\ n \in Node /\ Calls' = Calls /\ version'[n] = 0 /\ state'[n] = EmptyState
        /\ sync'[n].image = NoState /\ snap' = snap
        /\ \A k \in Calls : IF call[k].node = n
                            THEN SameBut(call'[k], call[k], call[k].version, "done", call[k].acked, NoState)
                            ELSE call'[k] = call[k]
    BY <1>2, Zenon DEF Crashed
  <2>2. \A k \in Calls : /\ call'[k].version = call[k].version
                         /\ call'[k].image = call[k].image \/ call'[k].image = NoState
    BY <2>1, Zenon DEF SameBut
  <2>3. 0 <= b
    OBVIOUS
  <2>4. version'[n] <= b /\ Under(b, state'[n])
    BY <2>1, <2>3, EmptyIsState, Zenon DEF Under
  <2> QED BY <2>1, <2>2, <2>4, NodeStamps, Zenon
<1>3. ASSUME NEW n, Restarted(n) PROVE SameStamps(b)
  <2>1. /\ OnlyNode(n) /\ n \in Node /\ Calls' = Calls /\ call' = call /\ sync' = sync
        /\ state'[n] = Restored(n) /\ version'[n] = Restored(n).version
        /\ (snap'[n] = snap[n] \/ snap'[n] = state'[n])
    BY <1>3, Zenon DEF Restarted, Calls
  <2>2. Restored(n).version <= b
    BY <2>1, RestoredBound, Zenon DEF Within, Under
  <2>3. version'[n] <= b /\ Under(b, state'[n])
    BY <2>1, <2>2, Zenon DEF Under
  <2> QED BY <2>1, <2>3, NodeStamps, Zenon
<1> QED BY <1>1, <1>2, <1>3, MoveStamps, BornStamps, Zenon DEF StepKind

-----------------------------------------------------------------------------
\* The quota on a node that takes all the calls.  A replacement is revived once, by its
\* swap.
RevivedInv == \A k \in revived : k \in Calls /\ call[k].pc \notin BeforeReady \cup {"swap"}

\* Nothing is revived at the start.
LEMMA RevivedInit ==
  ASSUME Init
  PROVE  RevivedInv
BY Zenon DEF Init, RevivedInv

\* Every step keeps it.
LEMMA RevivedNext ==
  ASSUME TypeInv, RevivedInv, StepKind
  PROVE  RevivedInv'
<1>1. ASSUME NEW k \in Calls, NEW n, NEW p, NEW pc, Move(k, n, p, pc) PROVE RevivedInv'
  <2>1. /\ p = call[k].pc /\ pc = call'[k].pc /\ Calls' = Calls
        /\ \A j \in Calls : j # k => call'[j] = call[j]
    BY <1>1, Zenon DEF Move, CallMove
  <2>2. p \notin BeforeReady \/ p = "swap" => pc \notin BeforeReady \cup {"swap"}
    BY <1>1, Zenon DEF Move, Route, BeforeReady, BeforeApply
  <2>3. revived' = revived \/ (p = "swap" /\ revived' = revived \cup {k})
    BY <1>1, Zenon DEF Move, MoveMemory
  <2>4. ASSUME NEW j \in revived' PROVE j \in Calls' /\ call'[j].pc \notin BeforeReady \cup {"swap"}
    <3>1. CASE j # k
      BY <2>1, <2>3, <3>1, Zenon DEF RevivedInv
    <3>2. CASE j = k
      BY <2>1, <2>2, <2>3, <3>2, Zenon DEF RevivedInv
    <3> QED BY <3>1, <3>2, Zenon
  <2> QED BY <2>4, Zenon DEF RevivedInv
<1>2. ASSUME NEW n, NEW i, Born(n, i) PROVE RevivedInv'
  <2>1. Calls \subseteq Calls' /\ (\A j \in Calls : call'[j] = call[j]) /\ revived' = revived
    BY <1>2, Zenon DEF Born
  <2> QED BY <2>1, Zenon DEF RevivedInv
<1>3. ASSUME NEW n, Crashed(n) PROVE RevivedInv'
  <2>1. revived' = revived /\ Calls' = Calls /\ \A k \in Calls : call'[k].pc = "done" \/ call'[k] = call[k]
    BY <1>3, Zenon DEF Crashed, SameBut
  <2> QED BY <2>1, Zenon DEF RevivedInv, BeforeReady, BeforeApply
<1>4. ASSUME call' = call, revived' = revived PROVE RevivedInv'
  BY <1>4, Zenon DEF RevivedInv, Calls
<1>5. ASSUME NEW n, NEW p, NEW pc, SyncMove(n, p, pc) PROVE RevivedInv'
  BY <1>4, <1>5, Zenon DEF SyncMove, SyncKeeps
<1>6. ASSUME NEW n, Restarted(n) PROVE RevivedInv'
  BY <1>4, <1>6, Zenon DEF Restarted
<1> QED BY <1>1, <1>2, <1>3, <1>5, <1>6, Zenon DEF StepKind

\* The fields that have an index on node n, the calls that have passed the check and will
\* make theirs active, and the fields of both; the calls that clients wait for.
ActiveFields(n) == {f \in Field : Active(n, f) # NoIndex}
Entering ==
  {k \in Calls : /\ call[k].op = "create"
                 /\ call[k].pc \in {"append", "newline", "apply"} \/ (call[k].pc = "quota" /\ call[k].old # NoIndex)}
Claimed(n) == ActiveFields(n) \cup {call[k].field : k \in Entering}
WaitingOf(n) == {k \in Of(n) : call[k].pc \in Waiting}

\* What a step does to them: no field is claimed anew; or one is, by a replacement that
\* is revived; or a call passes the check.
NoClaim(n) == Claimed(n)' \subseteq Claimed(n) /\ revived' = revived
Revival(n) == \E k, f : /\ Claimed(n)' \subseteq Claimed(n) \cup {f}
                        /\ k \notin revived /\ revived' = revived \cup {k}
Passes(n) == ~OverQuota(n) /\ ActiveFields(n)' = ActiveFields(n) /\ revived' = revived

\* The calls that clients wait for are no more, but for a new one that the width allows.
NoWait(n) == WaitingOf(n)' \subseteq WaitingOf(n)
OneWaits(n) == MayCall(n) /\ \E i : i \notin WaitingOf(n) /\ WaitingOf(n)' \subseteq WaitingOf(n) \cup {i}

QuotaStep(n) == (NoClaim(n) \/ Revival(n) \/ Passes(n)) /\ (NoWait(n) \/ OneWaits(n))

\* A call that enters has its client waiting.
LEMMA EnteringWaits ==
  ASSUME NEW n \in Node, Steady(n)'
  PROVE  Entering' \subseteq WaitingOf(n)'
BY Zenon DEF Entering, WaitingOf, Of, Waiting, Steady, SteadyCall

\* A field with an index or of a call that enters is claimed, and no other is.
LEMMA ClaimedIs ==
  ASSUME NEW n
  PROVE  /\ \A f \in Claimed(n) : (f \in Field /\ Active(n, f) # NoIndex) \/ \E k \in Entering : f = call[k].field
         /\ \A f \in Field : Active(n, f) # NoIndex => f \in Claimed(n)
         /\ \A k \in Entering : call[k].field \in Claimed(n)
BY Zenon DEF Claimed, ActiveFields

\* What a move does to the quota.
LEMMA MoveQuota ==
  ASSUME TypeInv, RevivedInv, NEW w \in Node, Steady(w), NEW k \in Calls, NEW n, NEW p, NEW pc, Move(k, n, p, pc)
  PROVE  QuotaStep(w)
<1>1. /\ Shape /\ Shape' /\ n \in Node /\ n = call[k].node /\ p = call[k].pc /\ pc = call'[k].pc /\ Calls' = Calls
      /\ (\A j \in Calls : j # k => call'[j] = call[j]) /\ Static
      /\ call'[k].op = call[k].op /\ call'[k].old = call[k].old /\ call'[k].field = call[k].field
      /\ call[k].field \in Field /\ CallInv(k)
  BY Facts, Zenon DEF TypeInv, Move, CallMove, Static
<1>2. n = w
  BY <1>1, Zenon DEF Steady, SteadyCall
<1>3. \A j \in Calls : call'[j].field = call[j].field
  BY <1>1, Zenon
<1>4. NoWait(n)
  <2>1. pc \in Waiting => p \in Waiting
    BY Zenon DEF Move, Route, Waiting
  <2>2. Of(n)' = Of(n)
    BY <1>1, Zenon DEF Of, Static
  <2> QED BY <1>1, <2>1, <2>2, Zenon DEF NoWait, WaitingOf, Of
<1>5. ASSUME ~ (p = "quota" /\ pc = "append" /\ call[k].old = NoIndex) PROVE Entering' \subseteq Entering
  <2>1. ASSUME k \in Entering' PROVE k \in Entering
    <3>1. call[k].op = "create" /\ (pc \in {"append", "newline", "apply"} \/ pc = "quota")
      BY <1>1, <2>1, Zenon DEF Entering
    <3>2. (p = "quota" /\ pc = "append") \/ p \in {"append", "newline"}
      BY <3>1, Zenon DEF Move, Route
    <3> QED BY <1>1, <1>5, <3>1, <3>2, Zenon DEF Entering
  <2> QED BY <1>1, <2>1, Zenon DEF Entering
<1>6. CASE p = "quota" /\ pc = "append" /\ call[k].old = NoIndex
  <2>1. ~OverQuota(n) /\ state'[n] = state[n] /\ revived' = revived
    BY <1>1, <1>6, Zenon DEF Move, Route, MoveMemory
  <2>2. ActiveFields(n)' = ActiveFields(n)
    BY <2>1, Zenon DEF ActiveFields, Active
  <2> QED BY <1>2, <1>4, <2>1, <2>2, Zenon DEF QuotaStep, Passes
<1>7. ASSUME Entering' \subseteq Entering, revived' = revived,
             \A f \in Field : Active(n, f)' # NoIndex => f \in Claimed(n)
      PROVE  QuotaStep(w)
  <2>2. ASSUME NEW f \in Claimed(n)' PROVE f \in Claimed(n)
    <3>1. CASE f \in Field /\ Active(n, f)' # NoIndex
      BY <1>7, <3>1, Zenon
    <3>2. CASE \E j \in Entering' : f = call'[j].field
      <4>1. PICK j \in Entering' : f = call'[j].field
        BY <3>2, Zenon
      <4>2. j \in Entering /\ j \in Calls
        BY <1>7, <4>1, Zenon DEF Entering
      <4> QED BY <1>3, <4>1, <4>2, ClaimedIs, Zenon
    <3> QED BY <2>2, <3>1, <3>2, Zenon DEF Claimed, ActiveFields
  <2>1. Claimed(n)' \subseteq Claimed(n)
    BY <2>2, Zenon
  <2> QED BY <1>2, <1>4, <1>7, <2>1, Zenon DEF QuotaStep, NoClaim
<1>8. CASE p = "apply"
  <2>1. state'[n] = ApplyEntry(state[n], call[k]) /\ revived' = revived
    BY <1>8, Zenon DEF Move, MoveMemory
  <2>2. state[n] \in State
    BY <1>1, Facts, Zenon
  <2>7. PICK s, r, g : s = state[n] /\ r = call[k] /\ g = call[k].field /\ g \in Field
    BY <1>1, Zenon
  <2>8. \A f \in Field :
          /\ f # r.field => ApplyEntry(s, r).active_by_field[f] = s.active_by_field[f]
          /\ r.op # "create" => (ApplyEntry(s, r).active_by_field[f] # NoIndex => s.active_by_field[f] # NoIndex)
    BY <2>2, <2>7, ApplyEntryActive, ZenonT(40)
  <2>9. \A f : Active(n, f) = s.active_by_field[f] /\ Active(n, f)' = ApplyEntry(s, r).active_by_field[f]
    BY <2>1, <2>7, Zenon DEF Active
  <2>3. \A f \in Field : f # call[k].field => Active(n, f)' = Active(n, f)
    BY <2>7, <2>8, <2>9, ZenonT(40)
  <2>4. call[k].op # "create" => (Active(n, g)' # NoIndex => Active(n, g) # NoIndex)
    BY <2>7, <2>8, <2>9, Zenon
  <2>5. call[k].op = "create" => call[k].field \in Claimed(n)
    BY <1>1, <1>8, ClaimedIs, Zenon DEF Entering
  <2>6. ASSUME NEW f \in Field, Active(n, f)' # NoIndex PROVE f \in Claimed(n)
    <3>1. CASE f # call[k].field
      BY <2>3, <2>6, <3>1, ClaimedIs, Zenon
    <3>2. CASE f = call[k].field
      BY <2>4, <2>5, <2>6, <2>7, <3>2, ClaimedIs, Zenon
    <3> QED BY <3>1, <3>2, Zenon
  <2> QED BY <1>5, <1>7, <1>8, <2>1, <2>6, Zenon
<1>9. CASE p = "swap"
  <2>1. state'[n] = Swapped(k, n)
    BY <1>9, Zenon DEF Move, MoveMemory
  <2>2. state[n] \in State
    BY <1>1, Facts, Zenon
  <2>3. \A f \in Field : f # call[k].field => Active(n, f)' = Active(n, f)
    <3>1. PICK s : s = Swapped(k, n)
      BY Zenon
    <3>2. \A f \in Field : f # call[k].field => s.active_by_field[f] = state[n].active_by_field[f]
      BY <2>2, <3>1, SwappedActive, Zenon
    <3>3. \A f : Active(n, f)' = s.active_by_field[f]
      BY <2>1, <3>1, Zenon DEF Active
    <3> QED BY <3>2, <3>3, Zenon DEF Active
  <2>4. CASE Active(n, call[k].field) # NoIndex
    <3>1. \A f \in Field : Active(n, f)' # NoIndex => f \in Claimed(n)
      BY <1>1, <2>3, <2>4, ClaimedIs, Zenon
    <3>2. revived' = revived
      BY <1>9, <2>4, Zenon DEF Move, MoveMemory
    <3> QED BY <1>5, <1>7, <1>9, <3>1, <3>2, Zenon
  <2>5. CASE Active(n, call[k].field) = NoIndex
    <3>1. revived' = revived \cup {k} /\ k \notin revived
      BY <1>1, <1>9, <2>5, Zenon DEF Move, MoveMemory, RevivedInv
    <3>2. PICK g : g = call[k].field
      BY Zenon
    <3>3. Entering' \subseteq Entering
      BY <1>5, <1>9, Zenon
    <3>4. ASSUME NEW f \in Claimed(n)' PROVE f \in Claimed(n) \cup {g}
      <4>1. CASE f \in Field /\ Active(n, f)' # NoIndex
        BY <2>3, <3>2, <4>1, ClaimedIs, Zenon
      <4>2. CASE \E j \in Entering' : f = call'[j].field
        <5>1. PICK j \in Entering' : f = call'[j].field
          BY <4>2, Zenon
        <5>2. j \in Entering /\ j \in Calls
          BY <3>3, <5>1, Zenon DEF Entering
        <5> QED BY <1>3, <5>1, <5>2, ClaimedIs, Zenon
      <4> QED BY <3>4, <4>1, <4>2, Zenon DEF Claimed, ActiveFields
    <3>5. Revival(n)
      BY <3>1, <3>4, Zenon DEF Revival
    <3> QED BY <1>2, <1>4, <3>5, Zenon DEF QuotaStep
  <2> QED BY <2>4, <2>5, Zenon
<1>10. CASE p \notin {"apply", "swap"} /\ ~ (p = "quota" /\ pc = "append" /\ call[k].old = NoIndex)
  <2>1. state'[n] = state[n] /\ revived' = revived
    BY <1>10, Zenon DEF Move, MoveMemory
  <2>2. \A f \in Field : Active(n, f)' # NoIndex => f \in Claimed(n)
    BY <2>1, ClaimedIs, Zenon DEF Active
  <2> QED BY <1>5, <1>7, <1>10, <2>1, <2>2, Zenon
<1> QED BY <1>6, <1>8, <1>9, <1>10, Zenon

\* What the start of a call does: a replacement has a field that is claimed already.
LEMMA BornQuota ==
  ASSUME TypeInv, NEW w \in Node, SteadyWriter(w), Steady(w), NEW n, NEW i, Born(n, i)
  PROVE  QuotaStep(w)
<1>1. /\ Shape' /\ i \notin Calls /\ Calls' = Calls \cup {i} /\ (\A j \in Calls : call'[j] = call[j])
      /\ call'[i].node = n /\ state' = state /\ revived' = revived /\ MayCall(n)
  BY Zenon DEF Born
<1>2. n = w
  BY <1>1, Zenon DEF MayCall, SteadyWriter
<1>3. OneWaits(n)
  <2>1. i \notin WaitingOf(n)
    BY <1>1, Zenon DEF WaitingOf, Of
  <2>2. WaitingOf(n)' \subseteq WaitingOf(n) \cup {i}
    BY <1>1, Zenon DEF WaitingOf, Of
  <2> QED BY <1>1, <2>1, <2>2, Zenon DEF OneWaits
<1>4. \A f : Active(n, f)' = Active(n, f)
  BY <1>1, Zenon DEF Active
<1>5. ASSUME i \in Entering' PROVE call'[i].field \in Claimed(n)
  <2>1. PICK f : f = call'[i].field /\ f \in Field
    <3>1. call' \in [Calls' -> CallRec] /\ i \in Calls'
      BY <1>1, Zenon DEF Shape, CallShape
    <3>2. call'[i] \in CallRec
      BY <3>1, Zenon
    <3>3. call'[i].field \in Field
      BY <3>2 DEF CallRec
    <3> QED BY <3>3, Zenon
  <2>2. Active(n, f) # NoIndex
    BY <1>5, <2>1, Zenon DEF Entering, Born, Creates, Drops
  <2> QED BY <2>1, <2>2, ClaimedIs, Zenon
<1>6. ASSUME NEW f \in Claimed(n)' PROVE f \in Claimed(n)
  <2>1. CASE f \in Field /\ Active(n, f)' # NoIndex
    BY <1>4, <2>1, ClaimedIs, Zenon
  <2>2. CASE \E j \in Entering' : f = call'[j].field
    <3>1. PICK j \in Entering' : f = call'[j].field
      BY <2>2, Zenon
    <3>2. CASE j = i
      BY <1>5, <3>1, <3>2, Zenon
    <3>3. CASE j # i
      <4>1. j \in Entering /\ call'[j] = call[j]
        BY <1>1, <3>1, <3>3, Zenon DEF Entering
      <4> QED BY <3>1, <4>1, ClaimedIs, Zenon
    <3> QED BY <3>2, <3>3, Zenon
  <2> QED BY <1>6, <2>1, <2>2, Zenon DEF Claimed, ActiveFields
<1>7. NoClaim(n)
  BY <1>1, <1>6, Zenon DEF NoClaim
<1> QED BY <1>2, <1>3, <1>7, Zenon DEF QuotaStep

\* Steps of other nodes, with no call of theirs, do nothing to the quota.
LEMMA OtherQuota ==
  ASSUME NEW w \in Node, NEW n, n # w, OnlyNode(n), call' = call, revived' = revived
  PROVE  QuotaStep(w)
<1>1. state'[w] = state[w]
  BY Zenon DEF OnlyNode
<1>2. ActiveFields(w)' = ActiveFields(w) /\ Entering' = Entering /\ WaitingOf(w)' = WaitingOf(w)
  BY <1>1, Zenon DEF ActiveFields, Active, Entering, WaitingOf, Of, Calls
<1>3. Claimed(w)' = Claimed(w)
  BY <1>2, Zenon DEF Claimed
<1> QED BY <1>2, <1>3, Zenon DEF QuotaStep, NoClaim, NoWait

\* What every step does to the quota.
LEMMA QuotaSteps ==
  ASSUME TypeInv, RevivedInv, StepKind, NEW w \in Node, SteadyWriter(w), Steady(w)
  PROVE  QuotaStep(w)
<1>1. ASSUME NEW n, NEW p, NEW pc, SyncMove(n, p, pc) PROVE QuotaStep(w)
  <2>1. n # w /\ OnlyNode(n) /\ call' = call /\ revived' = revived
    BY <1>1, SteadyAlone, Zenon DEF SyncMove, SyncKeeps
  <2> QED BY <2>1, OtherQuota, Zenon
<1>2. ASSUME NEW n, Crashed(n) PROVE QuotaStep(w)
  <2>1. n # w /\ OnlyNode(n) /\ call' = call /\ revived' = revived
    BY <1>2, SteadyAlone, Zenon DEF Crashed
  <2> QED BY <2>1, OtherQuota, Zenon
<1>3. ASSUME NEW n, Restarted(n) PROVE QuotaStep(w)
  <2>1. n # w /\ OnlyNode(n) /\ call' = call /\ revived' = revived
    BY <1>3, SteadyAlone, Zenon DEF Restarted
  <2> QED BY <2>1, OtherQuota, Zenon
<1> QED BY <1>1, <1>2, <1>3, MoveQuota, BornQuota, Zenon DEF StepKind

-----------------------------------------------------------------------------
\* A step that changes no variable keeps all the invariants.
LEMMA TypeStutters ==
  ASSUME UNCHANGED vars
  PROVE  (TypeInv => TypeInv') /\ (RunInv => RunInv') /\ (RevivedInv => RevivedInv')
<1>1. /\ UNCHANGED <<workload, up, log, snap, rows, version, state, ready, call, sync, faults, gone, lost, revived>>
      /\ Calls' = Calls
  BY Zenon DEF vars, disk, memory, history, Calls
<1>2. Shape => Shape'
  BY <1>1, Zenon DEF Shape, CallShape, MemoryShape, DiskShape, WorkloadShape, HistoryShape, SyncShape
<1>3. (\A n : LogSet(n)' = LogSet(n) /\ Of(n)' = Of(n)) /\ Listable' = Listable
  BY SMTT(30), <1>1 DEF LogSet, Of, Listable
<1>4. \A k : CallInv(k) => CallInv(k)'
  BY <1>1, <1>3 DEF CallInv, Lists
<1>5. \A n : NodeInv(n) => NodeInv(n)'
  BY <1>1, <1>3, Zenon DEF NodeInv, SyncInv, Lists
<1>6. TypeInv => TypeInv'
  BY <1>1, <1>2, <1>4, <1>5, Zenon DEF TypeInv
<1> QED BY <1>1, <1>6, Zenon DEF RunInv, RevivedInv

\* The same for the others.
LEMMA Stutters ==
  ASSUME UNCHANGED vars
  PROVE  (BuildInv => BuildInv') /\ (AckInv => AckInv') /\ (SteadyInv => SteadyInv')
<1>1. /\ UNCHANGED <<workload, up, log, snap, rows, version, state, ready, call, sync, faults, gone, lost, revived>>
      /\ Calls' = Calls
  BY Zenon DEF vars, disk, memory, history, Calls
<1>2. (\A n : LogSet(n)' = LogSet(n) /\ Of(n)' = Of(n)) /\ Stamped' = Stamped
  BY <1>1 DEF LogSet, Of, Stamped
<1>3. \A k : Applied(k)' = Applied(k) /\ Dropping(k)' = Dropping(k) /\ Dropped(k)' = Dropped(k)
  BY <1>1 DEF Applied, Dropping, Dropped
<1>4. BuildInv => BuildInv'
  BY <1>1, <1>2, <1>3 DEF BuildInv, ReadyInv, ListedInv, DroppedInv, Applied
<1>5. AckInv => AckInv'
  BY <1>1, <1>2, Zenon DEF AckInv, AckCall, AckSync, Mine
<1>6. SteadyInv => SteadyInv'
  BY <1>1, <1>2 DEF SteadyInv, SteadyWriter, Steady, SteadyRuns, Distinct, SteadyLog, SteadyNode, SteadyCall, UpTo
<1> QED BY <1>4, <1>5, <1>6, Zenon

\* And for what is counted.
LEMMA CountStutters ==
  ASSUME UNCHANGED vars
  PROVE  /\ \A b : Within(b) => Within(b)'
         /\ Stamped' = Stamped /\ \A n : Claimed(n)' = Claimed(n) /\ WaitingOf(n)' = WaitingOf(n)
<1>1. /\ UNCHANGED <<workload, up, log, snap, rows, version, state, ready, call, sync, faults, gone, lost, revived>>
      /\ Calls' = Calls
  BY Zenon DEF vars, disk, memory, history, Calls
<1>2. \A b : Within(b) => Within(b)'
  BY <1>1, Zenon DEF Within, Under
<1>3. Stamped' = Stamped /\ \A n : Of(n)' = Of(n)
  BY <1>1 DEF Stamped, Of
<1>4. \A n : Claimed(n)' = Claimed(n) /\ WaitingOf(n)' = WaitingOf(n)
  BY <1>1, <1>3 DEF Claimed, ActiveFields, Active, Entering, WaitingOf
<1> QED BY <1>2, <1>3, <1>4, Zenon

====
