---------------------------- MODULE ClusterProofs ----------------------------
(***************************************************************************)
(* What the nodes of a cluster agree by.  WallClock, for every number of   *)
(* nodes, every width of the logical counter and every behaviour of the    *)
(* system clocks.  Membership, for any number of nodes, operators,         *)
(* messages and faults: the tables keep their types, the rings hold the    *)
(* Healthy members, records are those that were made for their member, and *)
(* tables never go back.  The ring, for every placement of virtual nodes:  *)
(* a change of the members moves the owners of a key as little as it can.  *)
(***************************************************************************)
EXTENDS HybridClock, Ring, FiniteSetTheorems, WellFoundedInduction, TLAPS

-----------------------------------------------------------------------------
(* The functions of one clock.                                             *)

\* Comparing physical parts first and logical parts second is comparing the
\* packed 64-bit values, which is how the code orders timestamps.
LEMMA PackedOrder ==
  ASSUME NEW a \in Hlc, NEW b \in Hlc
  PROVE  Lt(a, b) <=> ToU64(a) < ToU64(b)
<1> DEFINE B == MAX_LOGICAL + 1
<1>1. /\ a.physical \in Nat /\ b.physical \in Nat /\ a.logical \in Nat /\ b.logical \in Nat
      /\ a.logical < B /\ b.logical < B /\ B \in Nat
  BY ClockAssumption DEF Hlc, Millis
<1>2. ASSUME NEW p \in Nat, NEW q \in Nat, NEW i \in Nat, NEW j \in Nat, NEW c \in Nat,
             i < c, p < q
      PROVE  p * c + i < q * c + j
  <2>1. PICK d \in Nat : q = p + 1 + d
    <3>1. q - p - 1 \in Nat /\ q = p + 1 + (q - p - 1)
      BY <1>2
    <3> QED BY <3>1
  <2>2. q * c = p * c + c + d * c
    BY <2>1, SMT
  <2>3. d * c \in Nat /\ p * c \in Nat
    BY <2>1, SMT
  <2> QED BY <2>2, <2>3, <1>2
<1>3. CASE a.physical < b.physical
  <2>1. ToU64(a) < ToU64(b)
    BY <1>1, <1>2, <1>3 DEF ToU64
  <2> QED BY <2>1, <1>3 DEF Lt
<1>4. CASE b.physical < a.physical
  <2>1. ToU64(b) < ToU64(a)
    BY <1>1, <1>2, <1>4 DEF ToU64
  <2>2. ToU64(a) \in Nat /\ ToU64(b) \in Nat
    BY <1>1, SMT DEF ToU64
  <2> QED BY <1>1, <2>1, <2>2, <1>4 DEF Lt
<1>5. CASE a.physical = b.physical
  <2>1. a.physical * B \in Nat
    BY <1>1, SMT
  <2> QED BY <1>1, <2>1, <1>5 DEF Lt, ToU64
<1> QED BY <1>1, <1>3, <1>4, <1>5

\* tick() returns a timestamp above the clock's, with a physical part that is
\* the clock's or the system time.
LEMMA TickAdvances ==
  ASSUME NEW h \in Hlc, NEW now \in Millis, ~TickOverflows(h, now)
  PROVE  /\ TickOf(h, now) \in Hlc
         /\ Lt(h, TickOf(h, now))
         /\ TickOf(h, now).physical \in {h.physical, now}
BY SMTT(30), ClockAssumption DEF TickOverflows, TickOf, NewHlc, Lt, Hlc, Millis

\* update() returns a timestamp above the clock's and above the received one,
\* with a physical part that is one of three.
LEMMA UpdateAdvances ==
  ASSUME NEW h \in Hlc, NEW r \in Hlc, NEW now \in Millis, ~UpdateOverflows(h, r, now)
  PROVE  /\ UpdateOf(h, r, now) \in Hlc
         /\ Lt(h, UpdateOf(h, r, now)) /\ Lt(r, UpdateOf(h, r, now))
         /\ UpdateOf(h, r, now).physical \in {h.physical, r.physical, now}
BY ClockAssumption
DEF UpdateOverflows, UpdateOf, UpdatePhysical, LogicalBefore, Larger, NewHlc, Lt, Hlc, Millis

\* from_persisted() is at or above the saved value, whatever the system time.
LEMMA FromPersistedAdvances ==
  ASSUME NEW h \in Hlc, NEW now \in Millis
  PROVE  /\ FromPersisted(h, now) \in Hlc
         /\ Le(h, FromPersisted(h, now))
         /\ FromPersisted(h, now).physical \in {h.physical, now}
BY ClockAssumption DEF FromPersisted, Larger, NewHlc, Le, Lt, Hlc, Millis

\* from_persisted() is above the saved value unless the saved counter is used up.
LEMMA FromPersistedTicks ==
  ASSUME NEW h \in Hlc, NEW now \in Millis
  PROVE  \/ Lt(h, FromPersisted(h, now))
         \/ h = FromPersisted(h, now) /\ TickOverflows(h, now)
BY ClockAssumption DEF FromPersisted, TickOverflows, Larger, NewHlc, Lt, Hlc, Millis

\* The order of timestamps (physical part first) is transitive.
LEMMA LtTransitive ==
  ASSUME NEW a \in Hlc, NEW b \in Hlc, NEW c \in Hlc, Le(a, b), Lt(b, c)
  PROVE  Lt(a, c)
BY ClockAssumption DEF Le, Lt, Hlc, Millis

-----------------------------------------------------------------------------
(* The clocks of all nodes.                                                *)

\* Every clock, saved value and sent timestamp is a timestamp.
THEOREM ClocksTyped == ClockSpec => []ClockTypeOK
<1>1. ClockInit => ClockTypeOK
  BY ClockAssumption DEF ClockInit, ClockTypeOK, Hlc, NewHlc, Millis
<1>2. ClockTypeOK /\ [ClockNext]_clockVars => ClockTypeOK'
  <2> SUFFICES ASSUME ClockTypeOK, [ClockNext]_clockVars
               PROVE  ClockTypeOK'
    OBVIOUS
  <2>1. ASSUME NEW n \in Clock, Tick(n)
        PROVE  ClockTypeOK'
    BY <2>1, TickAdvances DEF ClockTypeOK, Tick
  <2>2. ASSUME NEW n \in Clock, NEW r \in sent, Update(n, r)
        PROVE  ClockTypeOK'
    BY <2>2, UpdateAdvances DEF ClockTypeOK, Update
  <2>3. ASSUME NEW n \in Clock, NEW t \in Millis, SetWall(n, t)
        PROVE  ClockTypeOK'
    BY <2>3 DEF ClockTypeOK, SetWall, Larger
  <2>4. ASSUME NEW n \in Clock, Persist(n)
        PROVE  ClockTypeOK'
    BY <2>4 DEF ClockTypeOK, Persist
  <2>5. ASSUME NEW n \in Clock, Restart(n)
        PROVE  ClockTypeOK'
    BY <2>5, FromPersistedAdvances DEF ClockTypeOK, Restart
  <2>6. CASE UNCHANGED clockVars
    BY <2>6 DEF ClockTypeOK, clockVars
  <2> QED BY <2>1, <2>2, <2>3, <2>4, <2>5, <2>6 DEF ClockNext
<1> QED BY <1>1, <1>2, PTL DEF ClockSpec

\* No timestamp is ahead of the greatest system time any node has had: tick,
\* update and from_persisted only return physical parts they were given.  The
\* invariant is inductive once the present system times are bounded too.
WallsBounded == \A n \in Clock : wall[n] <= maxWall

\* However nodes exchange timestamps, tick() and update() return none that is
\* ahead of every system time there has been.
THEOREM DriftIsBounded == ClockSpec => []BoundedDrift
<1> DEFINE Inv == BoundedDrift /\ WallsBounded
<1>1. ClockInit => Inv
  BY DEF ClockInit, BoundedDrift, WallsBounded, NewHlc
<1>2. ClockTypeOK /\ Inv /\ [ClockNext]_clockVars => Inv'
  <2> SUFFICES ASSUME ClockTypeOK, Inv, [ClockNext]_clockVars
               PROVE  Inv'
    OBVIOUS
  <2>1. ASSUME NEW n \in Clock, Tick(n)
        PROVE  Inv'
    <3>1. TickOf(state[n], wall[n]).physical <= maxWall
      BY <2>1, TickAdvances DEF Tick, ClockTypeOK, BoundedDrift, WallsBounded
    <3> QED BY <2>1, <3>1 DEF Tick, ClockTypeOK, BoundedDrift, WallsBounded
  <2>2. ASSUME NEW n \in Clock, NEW r \in sent, Update(n, r)
        PROVE  Inv'
    <3>1. UpdateOf(state[n], r, wall[n]).physical <= maxWall
      BY SMTT(30), <2>2, UpdateAdvances DEF Update, ClockTypeOK, BoundedDrift, WallsBounded
    <3> QED BY <2>2, <3>1 DEF Update, ClockTypeOK, BoundedDrift, WallsBounded
  <2>3. ASSUME NEW n \in Clock, NEW t \in Millis, SetWall(n, t)
        PROVE  Inv'
    BY <2>3, ClockAssumption
    DEF SetWall, ClockTypeOK, BoundedDrift, WallsBounded, Larger, Hlc, Millis
  <2>4. ASSUME NEW n \in Clock, Persist(n)
        PROVE  Inv'
    BY <2>4 DEF Persist, ClockTypeOK, BoundedDrift, WallsBounded
  <2>5. ASSUME NEW n \in Clock, Restart(n)
        PROVE  Inv'
    <3>1. FromPersisted(persisted[n], wall[n]).physical <= maxWall
      BY ZenonT(40), FromPersistedAdvances DEF ClockTypeOK, BoundedDrift, WallsBounded
    <3> QED BY <2>5, <3>1 DEF Restart, ClockTypeOK, BoundedDrift, WallsBounded
  <2>6. CASE UNCHANGED clockVars
    BY <2>6 DEF clockVars, BoundedDrift, WallsBounded
  <2> QED BY <2>1, <2>2, <2>3, <2>4, <2>5, <2>6 DEF ClockNext
<1>3. Inv => BoundedDrift
  OBVIOUS
<1> QED BY <1>1, <1>2, <1>3, ClocksTyped, PTL DEF ClockSpec

\* A clock is never behind the value saved for it: the saved value changes only to
\* the clock's own, and the clock only moves up or is restored from the saved value.
NotBehindPersisted == \A n \in Clock : Le(persisted[n], state[n])

\* It is so across restarts of from_persisted and steps back of the system clock.
LEMMA NeverBehindPersisted == ClockSpec => []NotBehindPersisted
<1>1. ClockInit => NotBehindPersisted
  BY DEF ClockInit, NotBehindPersisted, Le
<1>2. ClockTypeOK /\ NotBehindPersisted /\ [ClockNext]_clockVars => NotBehindPersisted'
  <2> SUFFICES ASSUME ClockTypeOK, NotBehindPersisted, [ClockNext]_clockVars
               PROVE  NotBehindPersisted'
    OBVIOUS
  <2>1. ASSUME NEW n \in Clock, Tick(n)
        PROVE  NotBehindPersisted'
    <3>1. Lt(persisted[n], TickOf(state[n], wall[n]))
      BY <2>1, TickAdvances, LtTransitive DEF Tick, ClockTypeOK, NotBehindPersisted
    <3> QED BY <2>1, <3>1 DEF Tick, ClockTypeOK, NotBehindPersisted, Le
  <2>2. ASSUME NEW n \in Clock, NEW r \in sent, Update(n, r)
        PROVE  NotBehindPersisted'
    <3>1. Lt(persisted[n], UpdateOf(state[n], r, wall[n]))
      BY <2>2, UpdateAdvances, LtTransitive DEF Update, ClockTypeOK, NotBehindPersisted
    <3> QED BY <2>2, <3>1 DEF Update, ClockTypeOK, NotBehindPersisted, Le
  <2>3. ASSUME NEW n \in Clock, NEW t \in Millis, SetWall(n, t)
        PROVE  NotBehindPersisted'
    BY <2>3 DEF SetWall, NotBehindPersisted
  <2>4. ASSUME NEW n \in Clock, Persist(n)
        PROVE  NotBehindPersisted'
    BY <2>4 DEF Persist, ClockTypeOK, NotBehindPersisted, Le
  <2>5. ASSUME NEW n \in Clock, Restart(n)
        PROVE  NotBehindPersisted'
    BY Zenon, <2>5, FromPersistedAdvances DEF Restart, ClockTypeOK, NotBehindPersisted
  <2>6. CASE UNCHANGED clockVars
    BY <2>6 DEF clockVars, NotBehindPersisted
  <2> QED BY <2>1, <2>2, <2>3, <2>4, <2>5, <2>6 DEF ClockNext
<1> QED BY <1>1, <1>2, ClocksTyped, PTL DEF ClockSpec

\* tick() and update() return values above the saved one, and from_persisted starts
\* one tick above it unless the saved counter is used up and the system clock is not
\* past the saved time: the clock was not behind, and each function moves it up.
THEOREM RestartsAhead == ClockSpec => AheadOfPersisted
<1> DEFINE Ahead ==
      \A n \in Clock :
        /\ Tick(n) \/ (\E r \in sent : Update(n, r)) => Lt(persisted[n], state'[n])
        /\ Restart(n) =>
             \/ Lt(persisted[n], state'[n])
             \/ persisted[n] = state'[n] /\ TickOverflows(persisted[n], wall[n])
<1>1. ASSUME ClockTypeOK, NotBehindPersisted, NEW n \in Clock, Tick(n)
      PROVE  Lt(persisted[n], state'[n])
  <2>1. Lt(persisted[n], TickOf(state[n], wall[n]))
    BY <1>1, TickAdvances, LtTransitive DEF Tick, ClockTypeOK, NotBehindPersisted
  <2> QED BY <1>1, <2>1 DEF Tick, ClockTypeOK
<1>2. ASSUME ClockTypeOK, NotBehindPersisted, NEW n \in Clock, NEW r \in sent, Update(n, r)
      PROVE  Lt(persisted[n], state'[n])
  <2>1. Lt(persisted[n], UpdateOf(state[n], r, wall[n]))
    BY <1>2, UpdateAdvances, LtTransitive DEF Update, ClockTypeOK, NotBehindPersisted
  <2> QED BY <1>2, <2>1 DEF Update, ClockTypeOK
<1>3. ASSUME ClockTypeOK, NEW n \in Clock, Restart(n)
      PROVE  \/ Lt(persisted[n], state'[n])
             \/ persisted[n] = state'[n] /\ TickOverflows(persisted[n], wall[n])
  <2>1. persisted[n] \in Hlc /\ wall[n] \in Millis
    BY <1>3 DEF ClockTypeOK
  <2>2. state'[n] = FromPersisted(persisted[n], wall[n])
    BY <1>3 DEF Restart, ClockTypeOK
  <2> QED BY <2>1, <2>2, FromPersistedTicks
<1>4. ClockTypeOK /\ NotBehindPersisted => Ahead
  BY <1>1, <1>2, <1>3
<1>5. ClockTypeOK /\ NotBehindPersisted /\ [ClockNext]_clockVars => [Ahead]_clockVars
  BY <1>4
<1> QED BY <1>5, ClocksTyped, NeverBehindPersisted, PTL DEF ClockSpec, AheadOfPersisted

\* tick() and update() never return a value twice: each result is above the
\* clock's last value, and update()'s above the received one as well.
THEOREM ClocksIncrease == ClockSpec => StrictlyIncreasing
<1> DEFINE Increasing ==
      \A n \in Clock :
        /\ Tick(n) => Lt(state[n], state'[n])
        /\ \A r \in sent : Update(n, r) => Lt(state[n], state'[n]) /\ Lt(r, state'[n])
<1>1. ClockTypeOK => Increasing
  BY TickAdvances, UpdateAdvances DEF ClockTypeOK, Tick, Update
<1>2. ClockTypeOK /\ [ClockNext]_clockVars => [Increasing]_clockVars
  BY <1>1
<1> QED BY <1>2, ClocksTyped, PTL DEF ClockSpec, StrictlyIncreasing

-----------------------------------------------------------------------------
(* Membership.                                                             *)

\* Inserting a record in a table, or merging two tables, gives a table that has at
\* least the members of the old one (membership.rs only ever adds and replaces).
LEMMA InsertIsTable ==
  ASSUME NEW table, IsTable(table), NEW m \in Node, NEW rec \in MemberRecord
  PROVE  /\ IsTable(Insert(table, m, rec))
         /\ DOMAIN Insert(table, m, rec) = DOMAIN table \cup {m}
         /\ Insert(table, m, rec)[m] = rec
         /\ \A x \in DOMAIN table : x # m => Insert(table, m, rec)[x] = table[x]
BY DEF IsTable, Insert

\* merge_digests yields a table: records of the old one or of the digest.
LEMMA MergedIsTable ==
  ASSUME NEW table, IsTable(table), NEW remote, IsTable(remote)
  PROVE  /\ IsTable(Merged(table, remote))
         /\ DOMAIN table \subseteq DOMAIN Merged(table, remote)
         /\ \A m \in DOMAIN Merged(table, remote) :
              \/ m \in DOMAIN table /\ Merged(table, remote)[m] = table[m]
              \/ /\ m \in DOMAIN remote /\ Merged(table, remote)[m] = remote[m]
                 /\ Accepts(table, m, remote[m])
BY DEF IsTable, Merged

\* emit_rebalance_if_needed: a ring that held the Healthy members of the old table
\* holds those of the new one, rebuilt or not.
LEMMA RebalancedIsHealthy ==
  ASSUME NEW old, NEW new, DOMAIN old \subseteq DOMAIN new
  PROVE  Rebalanced(HealthyIn(old), old, new) = HealthyIn(new)
<1>1. CASE \E m \in DOMAIN new :
             (m \in DOMAIN old /\ old[m].state = "Healthy") # (new[m].state = "Healthy")
  BY <1>1 DEF Rebalanced
<1>2. CASE \A m \in DOMAIN new :
             (m \in DOMAIN old /\ old[m].state = "Healthy") <=> (new[m].state = "Healthy")
  <2>1. HealthyIn(old) = HealthyIn(new)
    BY <1>2 DEF HealthyIn
  <2>2. Rebalanced(HealthyIn(old), old, new) = HealthyIn(old)
    BY <1>2 DEF Rebalanced
  <2> QED
    BY <2>1, <2>2
<1> QED
  BY <1>1, <1>2

-----------------------------------------------------------------------------
\* What every step keeps of the tables and the rings, and how it may change them.
Tables ==
  /\ members = [n \in Node |-> members[n]] /\ \A n \in Node : IsTable(members[n])
  /\ ring \in [Node -> SUBSET Node]
  /\ RingIsHealthy

Advance ==
  \A n \in Node : \A m \in Known(n) :
    /\ m \in DOMAIN members'[n]
    /\ members'[n][m] = members[n][m] \/ Newer(members'[n][m], members[n][m])

TablesAuthentic == \A n \in Node : \A m \in Known(n) : <<m, members[n][m]>> \in made
MsgsAuthentic == \A msg \in msgs : \A m \in DOMAIN msg.members : <<m, msg.members[m]>> \in made

\* SetTable, the only operation that changes a table, changes one table and takes
\* its ring along.
LEMMA SetTableKeeps ==
  ASSUME Tables, NEW n \in Node, NEW table, IsTable(table),
         Known(n) \subseteq DOMAIN table, SetTable(n, table)
  PROVE  /\ Tables'
         /\ members'[n] = table
         /\ \A k \in Node \ {n} : members'[k] = members[k]
<1>1. /\ members' = [k \in Node |-> members'[k]]
      /\ members'[n] = table
      /\ \A k \in Node \ {n} : members'[k] = members[k]
  BY DEF Tables, SetTable
<1>2. \A k \in Node : IsTable(members'[k])
  BY <1>1 DEF Tables
<1>3. ring'[n] = HealthyIn(table)
  <2>1. ring[n] = HealthyIn(members[n])
    BY DEF Tables, RingIsHealthy
  <2>2. Rebalanced(ring[n], members[n], table) = HealthyIn(table)
    BY <2>1, RebalancedIsHealthy DEF Known
  <2> QED
    BY <2>2 DEF SetTable, Tables
<1>4. HealthyIn(table) \subseteq Node
  BY DEF HealthyIn, IsTable
<1>5. ring' \in [Node -> SUBSET Node] /\ \A k \in Node \ {n} : ring'[k] = ring[k]
  BY <1>3, <1>4 DEF SetTable, Tables
<1>6. RingIsHealthy'
  BY <1>1, <1>3, <1>5 DEF RingIsHealthy, Tables
<1> QED
  BY <1>1, <1>2, <1>5, <1>6 DEF Tables

\* upsert_local_member, transition_state and the evaluation make a record of the next
\* generation, or the first one of a member.
LEMMA CreateKeeps ==
  ASSUME Tables, TablesAuthentic, clock \in [Node -> Time],
         NEW n \in Node, NEW m \in Node, NEW s \in NodeState, NEW g \in Nat,
         m \in Known(n) => g = members[n][m].generation + 1,
         Create(n, m, s, g)
  PROVE  /\ Tables' /\ TablesAuthentic' /\ Advance
         /\ clock' \in [Node -> Time]
         /\ made \subseteq made'
         /\ \A k \in Node : Known(k) \subseteq Known(k)'
<1> DEFINE rec == Record(s, g, Stamp(n))
           table == Insert(members[n], m, rec)
<1>1. rec \in MemberRecord /\ rec.generation = g
  BY DEF Create, Record, MemberRecord
<1>2. IsTable(members[n])
  BY DEF Tables
<1> HIDE DEF rec
<1>3. /\ IsTable(table)
      /\ DOMAIN table = Known(n) \cup {m}
      /\ table[m] = rec
      /\ \A x \in Known(n) : x # m => table[x] = members[n][x]
  BY <1>1, <1>2, InsertIsTable, ZenonT(40) DEF Known
<1>4. SetTable(n, table) /\ made' = made \cup {<<m, rec>>} /\ clock' \in [Node -> Time]
  BY DEF Create, rec
<1> HIDE DEF table
<1>5. /\ Tables'
      /\ members'[n] = table
      /\ \A k \in Node \ {n} : members'[k] = members[k]
  BY <1>3, <1>4, SetTableKeeps, Zenon
<1>6. \A k \in Node : Known(k) \subseteq Known(k)'
  BY <1>3, <1>5 DEF Known
<1>7. TablesAuthentic'
  BY <1>3, <1>4, <1>5, Zenon DEF TablesAuthentic, Known
<1>8. Advance
  <2>1. ASSUME m \in Known(n) PROVE Newer(rec, members[n][m])
    BY SMTT(30), <1>1, <1>2, <2>1 DEF Newer, IsTable, MemberRecord, Known
  <2> QED
    BY <1>3, <1>5, <2>1 DEF Advance, Known
<1> QED
  BY SMTT(30), <1>4, <1>5, <1>6, <1>7, <1>8

\* A record taken over by merge_remote_digests is newer than the one it replaces.
LEMMA MergeKeeps ==
  ASSUME Tables, TablesAuthentic, NEW n \in Node, NEW remote, IsTable(remote),
         \A m \in DOMAIN remote : <<m, remote[m]>> \in made, made' = made,
         SetTable(n, Merged(members[n], remote))
  PROVE  /\ Tables' /\ TablesAuthentic' /\ Advance
         /\ IsTable(Merged(members[n], remote))
         /\ \A m \in DOMAIN Merged(members[n], remote) :
              <<m, Merged(members[n], remote)[m]>> \in made
         /\ \A k \in Node : Known(k) \subseteq Known(k)'
<1> DEFINE table == Merged(members[n], remote)
<1>1. IsTable(members[n])
  BY DEF Tables
<1>2. /\ IsTable(table)
      /\ Known(n) \subseteq DOMAIN table
      /\ \A m \in DOMAIN table :
           \/ m \in Known(n) /\ table[m] = members[n][m]
           \/ m \in DOMAIN remote /\ table[m] = remote[m] /\ Accepts(members[n], m, remote[m])
  BY <1>1, MergedIsTable, Zenon DEF Known
<1> HIDE DEF table
<1>3. /\ Tables'
      /\ members'[n] = table
      /\ \A k \in Node \ {n} : members'[k] = members[k]
  BY <1>2, SetTableKeeps, Zenon DEF table
<1>4. \A m \in DOMAIN table : <<m, table[m]>> \in made
  BY <1>2, Zenon DEF TablesAuthentic
<1>5. TablesAuthentic'
  BY <1>3, <1>4, Zenon DEF TablesAuthentic, Known
<1>6. Advance
  <2>1. \A m \in Known(n) : Accepts(members[n], m, remote[m]) => Newer(remote[m], members[n][m])
    BY Zenon DEF Accepts, Known
  <2> QED
    BY <1>2, <1>3, <2>1, Zenon DEF Advance, Known
<1>7. \A k \in Node : Known(k) \subseteq Known(k)'
  BY <1>2, <1>3, Zenon DEF Known
<1> QED
  BY <1>2, <1>3, <1>4, <1>5, <1>6, <1>7 DEF table

-----------------------------------------------------------------------------
\* The rest of TypeOK: the engine's state, given the tables.
Engine ==
  /\ heartbeats \in [Node -> [Node -> 0 .. 2]]
  /\ silent \in [Node -> SUBSET Node]
  /\ todo \in [Node -> SUBSET Node] /\ \A n \in Node : todo[n] \subseteq Known(n)
  /\ pending = [n \in Node |-> pending[n]]
  /\ \A n \in Node :
       pending[n] # None => pending[n].node \in Known(n) /\ pending[n].to \in {"Suspect", "Down"}
MsgsTyped ==
  \A msg \in msgs : msg.from \in Node /\ msg.to \in Node /\ msg.hlc \in Time /\ IsTable(msg.members)
Counted == changes \in 0 .. MaxChanges /\ faults \in 0 .. MaxFaults

\* The inductive invariant, in the parts that actions leave alone or disturb.
IInv ==
  /\ Tables /\ TablesAuthentic
  /\ clock \in [Node -> Time]
  /\ Engine
  /\ MsgsTyped /\ MsgsAuthentic
  /\ Counted

\* The conjuncts of IInv by name are the three invariants.
LEMMA IInvImplies == IInv <=> TypeOK /\ RingIsHealthy /\ RecordsAuthentic
BY Zenon DEF IInv, TypeOK, Tables, TablesAuthentic, Engine, MsgsTyped, MsgsAuthentic, Counted,
             RecordsAuthentic

\* Tables that stay as they are.
LEMMA Unchanged ==
  ASSUME IInv, UNCHANGED <<members, ring, clock, made>>
  PROVE  /\ Tables' /\ TablesAuthentic' /\ clock' \in [Node -> Time] /\ Advance
         /\ \A k \in Node : Known(k)' = Known(k)
BY Zenon DEF IInv, Tables, TablesAuthentic, RingIsHealthy, Advance, Known

\* ClusterMembership::new: the first tables.
LEMMA InitIInv == Init => IInv
<1> SUFFICES ASSUME Init PROVE IInv
  OBVIOUS
<1> DEFINE first(m) == Record(IF m \in Meshed THEN "Healthy" ELSE "Joining", 0, 0)
           known(n) == {n} \cup (IF n \in Meshed THEN Meshed ELSE {})
<1>1. \A m \in Node : first(m) \in MemberRecord
  BY MembershipAssumption DEF Record, MemberRecord, NodeState, Time
<1>2. members = [n \in Node |-> [m \in known(n) |-> first(m)]]
  BY DEF Init
<1>3. \A n \in Node : known(n) \subseteq Node
  BY MembershipAssumption
<1> HIDE DEF first, known
<1>4. \A n \in Node : IsTable(members[n]) /\ Known(n) = known(n)
  BY <1>1, <1>2, <1>3 DEF IsTable, Known
<1>5. Tables
  <2>1. \A n \in Node : HealthyIn(members[n]) \subseteq Node
    BY <1>4, Zenon DEF HealthyIn, IsTable
  <2>2. ring = [n \in Node |-> HealthyIn(members[n])]
    BY DEF Init
  <2> QED
    BY <1>2, <1>4, <2>1, <2>2 DEF Tables, RingIsHealthy
<1>6. TablesAuthentic
  <2>1. made = {<<m, first(m)>> : m \in Node}
    BY DEF Init, first
  <2> QED
    BY SMTT(30), <1>2, <1>3, <1>4, <2>1 DEF TablesAuthentic
<1>7. clock \in [Node -> Time]
  BY MembershipAssumption DEF Init, Time
<1>8. Engine
  BY DEF Init, Engine
<1>9. MsgsTyped /\ MsgsAuthentic /\ Counted
  BY MembershipAssumption DEF Init, MsgsTyped, MsgsAuthentic, Counted
<1> QED
  BY <1>5, <1>6, <1>7, <1>8, <1>9 DEF IInv

\* What is left to show of a step that changes no messages, or no engine.
LEMMA MsgsKept ==
  ASSUME IInv, made \subseteq made', msgs' \subseteq msgs
  PROVE  MsgsTyped' /\ MsgsAuthentic'
BY Zenon DEF IInv, MsgsTyped, MsgsAuthentic

\* A step outside the engine, that forgets no member, leaves the engine typed.
LEMMA EngineKept ==
  ASSUME IInv, UNCHANGED <<heartbeats, silent, todo, pending>>,
         \A k \in Node : Known(k) \subseteq Known(k)'
  PROVE  Engine'
BY DEF IInv, Engine

\* A message that carries a table of its sender, if it is sent at all.
LEMMA SendKeeps ==
  ASSUME MsgsTyped, MsgsAuthentic, NEW kept, kept \subseteq msgs,
         NEW n \in Node, NEW target \in Node, NEW table, IsTable(table), NEW t \in Time,
         \A m \in DOMAIN table : <<m, table[m]>> \in made, made' = made,
         msgs' = Sent(kept, Digest(n, target, table, t))
  PROVE  MsgsTyped' /\ MsgsAuthentic'
<1> DEFINE new == Digest(n, target, table, t)
<1>1. new.from = n /\ new.to = target /\ new.hlc = t /\ new.members = table
  BY DEF Digest
<1>2. msgs' \subseteq kept \cup {new}
  BY DEF Sent
<1> HIDE DEF new
<1> QED
  BY <1>1, <1>2, Zenon DEF MsgsTyped, MsgsAuthentic

\* An operator's call or the end of an evaluation step, from CreateKeeps.
LEMMA CreateStep ==
  ASSUME IInv, NEW n \in Node, NEW m \in Node, NEW s \in NodeState, NEW g \in Nat,
         m \in Known(n) => g = members[n][m].generation + 1,
         Create(n, m, s, g), msgs' = msgs
  PROVE  /\ Tables' /\ TablesAuthentic' /\ Advance /\ clock' \in [Node -> Time]
         /\ MsgsTyped' /\ MsgsAuthentic'
         /\ \A k \in Node : Known(k) \subseteq Known(k)'
<1>1. Tables /\ TablesAuthentic /\ clock \in [Node -> Time]
  BY Zenon DEF IInv
<1>2. /\ Tables' /\ TablesAuthentic' /\ Advance
      /\ clock' \in [Node -> Time]
      /\ made \subseteq made'
      /\ \A k \in Node : Known(k) \subseteq Known(k)'
  BY <1>1, CreateKeeps, Zenon
<1> QED
  BY <1>2, MsgsKept, Zenon

\* transition_state adds one to the generation of a record.
LEMMA GenerationIsNat ==
  ASSUME IInv, NEW n \in Node, NEW m \in Known(n)
  PROVE  m \in Node /\ members[n][m].generation + 1 \in Nat /\ members[n][m].state \in NodeState
BY DEF IInv, Tables, IsTable, Known, MemberRecord

\* Every operator call, timer, message, evaluation step and fault keeps IInv and
\* takes no table back.
LEMMA StepKeeps ==
  ASSUME IInv, [Next]_vars
  PROVE  IInv' /\ Advance
<1> USE DEF gossipVars
<1>1. ASSUME NEW n \in Running, NEW m \in Node, NEW s \in Targets,
             UpsertLocalMember(n, m, s) \/ TransitionState(n, m, s)
      PROVE  IInv' /\ Advance
  <2> DEFINE g == IF m \in Known(n) THEN members[n][m].generation + 1 ELSE 0
  <2>1. n \in Node /\ s \in NodeState /\ g \in Nat
    BY MembershipAssumption, GenerationIsNat
  <2>2. Create(n, m, s, g) /\ msgs' = msgs /\ UNCHANGED <<heartbeats, silent, todo, pending>>
    BY <1>1 DEF UpsertLocalMember, TransitionState
  <2>3. m \in Known(n) => g = members[n][m].generation + 1
    OBVIOUS
  <2> HIDE DEF g
  <2>4. /\ Tables' /\ TablesAuthentic' /\ Advance /\ clock' \in [Node -> Time]
        /\ MsgsTyped' /\ MsgsAuthentic'
        /\ \A k \in Node : Known(k) \subseteq Known(k)'
    BY <2>1, <2>2, <2>3, CreateStep, Zenon
  <2>5. Engine'
    BY <2>2, <2>4, EngineKept, Zenon
  <2>6. Counted'
    BY <1>1, MembershipAssumption DEF UpsertLocalMember, TransitionState, IInv, Counted
  <2> QED
    BY <2>4, <2>5, <2>6, Zenon DEF IInv
<1>2. ASSUME NEW n \in Running, NEW target \in Node, GossipTick(n, target)
      PROVE  IInv' /\ Advance
  <2>1. n \in Node /\ UNCHANGED <<members, ring, clock, made, heartbeats, silent, pending, changes, faults>>
    BY <1>2, MembershipAssumption DEF GossipTick
  <2>2. /\ Tables' /\ TablesAuthentic' /\ clock' \in [Node -> Time] /\ Advance
        /\ \A k \in Node : Known(k)' = Known(k)
    BY <2>1, Unchanged, Zenon
  <2>3. Known(n) \subseteq Node
    BY <2>1, Zenon DEF IInv, Tables, IsTable, Known
  <2>4. Engine'
    BY <1>2, <2>1, <2>2, <2>3 DEF GossipTick, IInv, Engine
  <2>5. MsgsTyped' /\ MsgsAuthentic'
    <3>1. CASE msgs' = msgs
      BY <2>1, <3>1, MsgsKept, Zenon
    <3>2. CASE msgs' = Sent(msgs, Digest(n, target, members[n], clock[n]))
      <4>1. IsTable(members[n]) /\ clock[n] \in Time
        BY <2>1 DEF IInv, Tables
      <4>2. \A m \in DOMAIN members[n] : <<m, members[n][m]>> \in made
        BY <2>1, Zenon DEF IInv, TablesAuthentic, Known
      <4>3. MsgsTyped /\ MsgsAuthentic
        BY Zenon DEF IInv
      <4> QED
        BY <2>1, <3>2, <4>1, <4>2, <4>3, SendKeeps, Zenon
    <3> QED
      BY <1>2, <3>1, <3>2, Zenon DEF GossipTick
  <2> QED
    BY <2>1, <2>2, <2>4, <2>5, ZenonT(40) DEF IInv, Counted
<1>3. ASSUME NEW msg \in msgs, HandleIncoming(msg)
      PROVE  IInv' /\ Advance
  <2> DEFINE n == msg.to
             table == Merged(members[n], msg.members)
             now == IF msg.hlc > clock[n] THEN msg.hlc ELSE clock[n]
  <2>1. n \in Node /\ msg.from \in Node /\ IsTable(msg.members) /\ now \in Time
    BY DEF IInv, MsgsTyped
  <2>2. \A m \in DOMAIN msg.members : <<m, msg.members[m]>> \in made
    BY Zenon DEF IInv, MsgsAuthentic
  <2>3. /\ SetTable(n, table) /\ made' = made
        /\ clock' = [clock EXCEPT ![n] = now]
        /\ msgs' = Sent(msgs \ {msg}, Digest(n, msg.from, table, now))
        /\ Heartbeat(n, msg.from)
        /\ UNCHANGED <<todo, pending, changes, faults>>
    BY <1>3 DEF HandleIncoming
  <2> HIDE DEF n, now
  <2>4. /\ Tables' /\ TablesAuthentic' /\ Advance
        /\ IsTable(table)
        /\ \A m \in DOMAIN table : <<m, table[m]>> \in made
        /\ \A k \in Node : Known(k) \subseteq Known(k)'
    BY <2>1, <2>2, <2>3, MergeKeeps, Zenon DEF IInv
  <2> HIDE DEF table
  <2>5. clock' \in [Node -> Time]
    BY SMTT(30), <2>1, <2>3 DEF IInv
  <2>6. Engine'
    BY SMTT(30), <2>1, <2>3, <2>4 DEF IInv, Engine, Heartbeat
  <2>7. MsgsTyped' /\ MsgsAuthentic'
    <3>1. msgs \ {msg} \subseteq msgs /\ MsgsTyped /\ MsgsAuthentic
      BY Zenon DEF IInv
    <3> QED
      BY <2>1, <2>3, <2>4, <3>1, SendKeeps, Zenon
  <2> QED
    BY <2>3, <2>4, <2>5, <2>6, <2>7, Zenon DEF IInv, Counted
<1>4. ASSUME NEW msg \in msgs, HandleIncomingFails(msg) \/ Lose(msg)
      PROVE  IInv' /\ Advance
  <2>1. /\ UNCHANGED <<members, ring, clock, made, todo, pending>> /\ Fault /\ changes' = changes
        /\ msgs' \subseteq msgs
        /\ Heartbeat(msg.to, msg.from) \/ UNCHANGED <<heartbeats, silent>>
    BY <1>4 DEF HandleIncomingFails, Lose
  <2>2. /\ Tables' /\ TablesAuthentic' /\ clock' \in [Node -> Time] /\ Advance
        /\ \A k \in Node : Known(k)' = Known(k)
    BY <2>1, Unchanged, Zenon
  <2>3. msg.to \in Node /\ msg.from \in Node
    BY Zenon DEF IInv, MsgsTyped
  <2>4. Engine'
    BY SMTT(30), <2>1, <2>2, <2>3 DEF IInv, Engine, Heartbeat
  <2>5. MsgsTyped' /\ MsgsAuthentic'
    BY <2>1, MsgsKept, Zenon
  <2>6. Counted'
    BY <2>1, MembershipAssumption DEF Fault, IInv, Counted
  <2> QED
    BY <2>2, <2>4, <2>5, <2>6, Zenon DEF IInv
<1>5. ASSUME NEW n \in Running, NEW m \in Node, EvaluateRead(n, m)
      PROVE  IInv' /\ Advance
  <2>1. /\ n \in Node
        /\ UNCHANGED <<members, ring, clock, made, heartbeats, silent, msgs, changes, faults>>
    BY <1>5, MembershipAssumption DEF EvaluateRead
  <2>2. /\ Tables' /\ TablesAuthentic' /\ clock' \in [Node -> Time] /\ Advance
        /\ \A k \in Node : Known(k)' = Known(k)
    BY <2>1, Unchanged, Zenon
  <2>3. m \in Known(n) /\ Decision(n, m) \in {None, "Suspect", "Down"}
    BY SMTT(30), <1>5, <2>1 DEF EvaluateRead, Decision, IInv, Engine
  <2> DEFINE decided == IF Decision(n, m) = None THEN None ELSE [node |-> m, to |-> Decision(n, m)]
  <2>4. decided # None => decided.node = m /\ decided.to \in {"Suspect", "Down"}
    BY <2>3
  <2>5. pending' = [pending EXCEPT ![n] = decided] /\ todo' = [todo EXCEPT ![n] = @ \ {m}]
    BY <1>5 DEF EvaluateRead
  <2> HIDE DEF decided
  <2>6. Engine'
    BY ZenonT(40), <2>1, <2>2, <2>3, <2>4, <2>5 DEF IInv, Engine
  <2>7. MsgsTyped' /\ MsgsAuthentic'
    BY <2>1, MsgsKept, Zenon
  <2> QED
    BY <2>1, <2>2, <2>6, <2>7, Zenon DEF IInv, Counted
<1>6. ASSUME NEW n \in Running, EvaluateApply(n)
      PROVE  IInv' /\ Advance
  <2> DEFINE m == pending[n].node
             s == pending[n].to
  <2>1. n \in Node /\ m \in Known(n) /\ s \in NodeState
    BY <1>6, MembershipAssumption DEF EvaluateApply, IInv, Engine, NodeState
  <2>2. m \in Node /\ members[n][m].generation + 1 \in Nat
    BY <2>1, GenerationIsNat, Zenon
  <2>3. /\ \/ Create(n, m, s, members[n][m].generation + 1)
           \/ UNCHANGED <<members, ring, clock, made>>
        /\ pending' = [pending EXCEPT ![n] = None]
        /\ UNCHANGED <<heartbeats, silent, todo, msgs, changes, faults>>
    BY SMTT(30), <1>6 DEF EvaluateApply
  <2> HIDE DEF m, s
  <2>4. /\ Tables' /\ TablesAuthentic' /\ Advance /\ clock' \in [Node -> Time]
        /\ MsgsTyped' /\ MsgsAuthentic'
        /\ \A k \in Node : Known(k) \subseteq Known(k)'
    <3>1. CASE Create(n, m, s, members[n][m].generation + 1)
      BY <2>1, <2>2, <2>3, <3>1, CreateStep, Zenon
    <3>2. CASE UNCHANGED <<members, ring, clock, made>>
      BY <2>3, <3>2, Unchanged, MsgsKept, Zenon
    <3> QED
      BY <2>3, <3>1, <3>2
  <2>5. Engine'
    BY SMTT(30), <2>1, <2>3, <2>4 DEF IInv, Engine
  <2> QED
    BY <2>3, <2>4, <2>5, Zenon DEF IInv, Counted
<1>7. ASSUME NEW n \in Running, EvaluateFails(n)
      PROVE  IInv' /\ Advance
  <2>1. /\ n \in Node /\ Fault /\ changes' = changes
        /\ UNCHANGED <<members, ring, clock, made, heartbeats, silent, msgs>>
        /\ pending' = [pending EXCEPT ![n] = None] /\ todo' = [todo EXCEPT ![n] = {}]
    BY <1>7, MembershipAssumption DEF EvaluateFails
  <2>2. /\ Tables' /\ TablesAuthentic' /\ clock' \in [Node -> Time] /\ Advance
        /\ \A k \in Node : Known(k)' = Known(k)
    BY <2>1, Unchanged, Zenon
  <2>3. Engine'
    BY <2>1, <2>2 DEF IInv, Engine
  <2>4. MsgsTyped' /\ MsgsAuthentic'
    BY <2>1, MsgsKept, Zenon
  <2>5. Counted'
    BY <2>1, MembershipAssumption DEF Fault, IInv, Counted
  <2> QED
    BY <2>2, <2>3, <2>4, <2>5, Zenon DEF IInv
<1>8. ASSUME NEW n \in Running, NEW m \in Node, Silence(n, m)
      PROVE  IInv' /\ Advance
  <2>1. /\ n \in Node /\ silent' = [silent EXCEPT ![n] = @ \cup {m}]
        /\ UNCHANGED <<members, ring, clock, made, heartbeats, todo, pending, msgs, changes, faults>>
    BY <1>8, MembershipAssumption DEF Silence
  <2>2. /\ Tables' /\ TablesAuthentic' /\ clock' \in [Node -> Time] /\ Advance
        /\ \A k \in Node : Known(k)' = Known(k)
    BY <2>1, Unchanged, Zenon
  <2>3. Engine'
    BY <2>1, <2>2 DEF IInv, Engine
  <2>4. MsgsTyped' /\ MsgsAuthentic'
    BY <2>1, MsgsKept, Zenon
  <2> QED
    BY <2>1, <2>2, <2>3, <2>4, Zenon DEF IInv, Counted
<1>9. ASSUME UNCHANGED vars
      PROVE  IInv' /\ Advance
  <2>1. /\ UNCHANGED <<members, ring, clock, made>> /\ UNCHANGED <<heartbeats, silent, todo, pending>>
        /\ UNCHANGED <<msgs, changes, faults>>
    BY <1>9 DEF vars
  <2>2. /\ Tables' /\ TablesAuthentic' /\ clock' \in [Node -> Time] /\ Advance
        /\ \A k \in Node : Known(k)' = Known(k)
    BY <2>1, Unchanged, Zenon
  <2>3. Engine'
    BY <2>1, <2>2, EngineKept, Zenon
  <2>4. MsgsTyped' /\ MsgsAuthentic'
    BY <2>1, MsgsKept, Zenon
  <2> QED
    BY <2>1, <2>2, <2>3, <2>4, Zenon DEF IInv, Counted
<1> QED
  BY <1>1, <1>2, <1>3, <1>4, <1>5, <1>6, <1>7, <1>8, <1>9, Zenon DEF Next, Operate, Evaluate

\* Whatever operators do and messages suffer, the tables, the engines and the
\* messages keep their types; an evaluation visits nodes of the table only.
THEOREM TypesHold == Spec => []TypeOK
<1>1. IInv /\ [Next]_vars => IInv'
  BY StepKeeps, Zenon
<1>2. IInv => TypeOK
  BY IInvImplies, Zenon
<1> QED
  BY InitIInv, <1>1, <1>2, PTL DEF Spec

\* The ring a node routes by is always made of exactly the Healthy members of its
\* table, although it is only rebuilt when a change seems to call for it.
THEOREM RingFollowsTable == Spec => []RingIsHealthy
<1>1. IInv /\ [Next]_vars => IInv'
  BY StepKeeps, Zenon
<1>2. IInv => RingIsHealthy
  BY IInvImplies, Zenon
<1> QED
  BY InitIInv, <1>1, <1>2, PTL DEF Spec

\* Gossip hands records on as they were made, for the member they were made for.
THEOREM GossipIsAuthentic == Spec => []RecordsAuthentic
<1>1. IInv /\ [Next]_vars => IInv'
  BY StepKeeps, Zenon
<1>2. IInv => RecordsAuthentic
  BY IInvImplies, Zenon
<1> QED
  BY InitIInv, <1>1, <1>2, PTL DEF Spec

\* No step of any node takes a table back: members stay, and a record gives way only
\* to a newer one, however messages are delayed, reordered or lost.
THEOREM TablesAdvance == Spec => RecordsAdvance
<1>1. IInv /\ [Next]_vars => IInv'
  BY StepKeeps, Zenon
<1>2. IInv /\ [Next]_vars => Advance
  BY StepKeeps, Zenon
<1>3. Advance => [\A n \in Node : \A m \in Known(n) :
                   /\ m \in DOMAIN members'[n]
                   /\ members'[n][m] = members[n][m] \/ Newer(members'[n][m], members[n][m])]_vars
  BY Zenon DEF Advance
<1> QED
  BY InitIInv, <1>1, <1>2, <1>3, PTL DEF Spec, RecordsAdvance

-----------------------------------------------------------------------------
(* Owners of a key.                                                        *)

\* A set with 0 that has with i - 1 also i, up to n, has n.
LEMMA Reached ==
  ASSUME NEW n \in Nat, NEW S, 0 \in S, \A i \in 1 .. n : i - 1 \in S => i \in S
  PROVE  n \in S
<1> DEFINE Bad == 0 .. n \ S
<1>1. SUFFICES ASSUME n \notin S PROVE FALSE
  OBVIOUS
<1>2. Bad \in SUBSET Nat /\ n \in Bad
  BY <1>1
<1>3. IsWellFoundedOn(OpToRel(<, Nat), Nat)
  BY Zenon, NatLessThanWellFounded
<1>4. PICK x \in Bad : \A y \in Bad : ~(<<y, x>> \in OpToRel(<, Nat))
  <2> HIDE DEF Bad
  <2> QED BY Zenon, <1>2, <1>3, WFMin
<1>5. x \in 0 .. n /\ x \notin S /\ \A y \in Bad : ~(y < x)
  BY Zenon, <1>2, <1>4 DEF OpToRel
<1>6. x \in 1 .. n /\ x - 1 \in 0 .. n /\ x - 1 < x
  BY <1>5
<1>7. x - 1 \in S
  BY <1>5, <1>6
<1> QED
  BY <1>5, <1>6, <1>7

\* What owners_for_key has collected after i steps of a walk: different nodes of the
\* ring, each of which was met when the ones before it, and no others, had been met;
\* all that were met, while there are less than count.
Collected(nodes, w, count, o, i) ==
  /\ o \in Seq(nodes) /\ Len(o) <= count
  /\ \A p, q \in DOMAIN o : p # q => o[p] # o[q]
  /\ Len(o) < count => \A k \in 1 .. i : w[k] \in nodes => \E q \in DOMAIN o : o[q] = w[k]
  /\ \A p \in DOMAIN o : \E j \in 1 .. i :
       w[j] = o[p] /\ \A k \in 1 .. j - 1 : w[k] \in nodes => \E q \in 1 .. p - 1 : o[q] = w[k]

\* A step of the walk keeps this.
LEMMA VisitCollects ==
  ASSUME NEW nodes, NEW w, NEW count \in Nat \ {0}, NEW o, NEW i \in Nat \ {0}, i \in DOMAIN w,
         Collected(nodes, w, count, o, i - 1)
  PROVE  Collected(nodes, w, count, Visit(nodes, w, count, o, i), i)
<1>1. o \in Seq(nodes) /\ Len(o) \in Nat /\ DOMAIN o = 1 .. Len(o)
  BY DEF Collected
<1>2. PICK v : v = Visit(nodes, w, count, o, i)
  BY Zenon
<1>3. \/ v = o /\ (w[i] \in nodes => (\E q \in DOMAIN o : o[q] = w[i]) \/ Len(o) >= count)
      \/ v = Append(o, w[i]) /\ w[i] \in nodes /\ Len(o) < count /\ ~\E q \in DOMAIN o : o[q] = w[i]
  <2>1. w[i] \notin nodes => v = o
    BY <1>2, Zenon DEF Visit, Vnodes
  <2>2. w[i] \in nodes => v = Collect(o, w[i], count)
    BY <1>2, Zenon DEF Visit, Vnodes
  <2>3. Len(o) >= count => o # <<>>
    BY <1>1
  <2>4. w[i] \in Range(o) <=> \E q \in DOMAIN o : o[q] = w[i]
    BY Zenon DEF Range
  <2>5. Collect(o, w[i], count) = IF (\E q \in DOMAIN o : o[q] = w[i]) \/ Len(o) >= count THEN o
                                  ELSE Append(o, w[i])
    BY <2>3, <2>4, Zenon DEF Collect
  <2>6. Len(o) >= count \/ Len(o) < count
    BY <1>1
  <2> QED BY <2>1, <2>2, <2>5, <2>6, Zenon
<1>4. CASE v = o /\ (w[i] \in nodes => (\E q \in DOMAIN o : o[q] = w[i]) \/ Len(o) >= count)
  <2>1. Len(o) < count => \A k \in 1 .. i : w[k] \in nodes => \E q \in DOMAIN o : o[q] = w[k]
    BY <1>1, <1>4 DEF Collected
  <2>2. ASSUME NEW p \in DOMAIN o
        PROVE  \E j \in 1 .. i : w[j] = o[p] /\ \A k \in 1 .. j - 1 :
                 w[k] \in nodes => \E q \in 1 .. p - 1 : o[q] = w[k]
    <3>1. PICK j \in 1 .. i - 1 : w[j] = o[p] /\ \A k \in 1 .. j - 1 :
                 w[k] \in nodes => \E q \in 1 .. p - 1 : o[q] = w[k]
      BY Zenon DEF Collected
    <3>2. j \in 1 .. i
      BY <3>1
    <3> QED BY <3>1, <3>2, Zenon
  <2>3. Collected(nodes, w, count, o, i)
    BY Zenon, <2>1, <2>2 DEF Collected
  <2> QED BY Zenon, <1>2, <1>4, <2>3
<1>5. CASE v = Append(o, w[i]) /\ w[i] \in nodes /\ Len(o) < count /\ ~\E q \in DOMAIN o : o[q] = w[i]
  <2>1. /\ v \in Seq(nodes) /\ Len(v) = Len(o) + 1 /\ DOMAIN v = 1 .. Len(o) + 1
        /\ v[Len(o) + 1] = w[i] /\ \A q \in 1 .. Len(o) : v[q] = o[q]
    BY <1>1, <1>5
  <2>2. Len(v) <= count
    BY <1>1, <1>5, <2>1
  <2>3. \A p, q \in DOMAIN v : p # q => v[p] # v[q]
    <3>1. \A p, q \in DOMAIN o : p # q => o[p] # o[q]
      BY Zenon DEF Collected
    <3> QED BY <1>1, <1>5, <2>1, <3>1
  <2>4. \A k \in 1 .. i - 1 : w[k] \in nodes => \E q \in 1 .. Len(o) : v[q] = w[k]
    <3>1. \A k \in 1 .. i - 1 : w[k] \in nodes => \E q \in DOMAIN o : o[q] = w[k]
      BY Zenon, <1>5 DEF Collected
    <3> QED BY Zenon, <1>1, <2>1, <3>1
  <2>5. \A k \in 1 .. i : w[k] \in nodes => \E q \in DOMAIN v : v[q] = w[k]
    <3> SUFFICES ASSUME NEW k \in 1 .. i, w[k] \in nodes PROVE \E q \in DOMAIN v : v[q] = w[k]
      OBVIOUS
    <3>1. CASE k = i
      <4>1. Len(o) + 1 \in DOMAIN v
        BY <1>1, <2>1
      <4> QED BY <2>1, <3>1, <4>1, Zenon
    <3>2. CASE k # i
      <4>1. k \in 1 .. i - 1
        BY <3>2
      <4>2. PICK q \in 1 .. Len(o) : v[q] = w[k]
        BY <2>4, <4>1, Zenon
      <4>3. q \in DOMAIN v
        BY <1>1, <2>1, <4>2
      <4> QED BY <4>2, <4>3, Zenon
    <3> QED BY <3>1, <3>2
  <2>6. ASSUME NEW p \in DOMAIN v
        PROVE  \E j \in 1 .. i : w[j] = v[p] /\ \A k \in 1 .. j - 1 :
                 w[k] \in nodes => \E q \in 1 .. p - 1 : v[q] = w[k]
    <3>1. CASE p = Len(o) + 1
      <4>1. p - 1 = Len(o) /\ i \in 1 .. i
        BY <1>1, <3>1
      <4>2. w[i] = v[p] /\ \A k \in 1 .. i - 1 : w[k] \in nodes => \E q \in 1 .. p - 1 : v[q] = w[k]
        BY Zenon, <2>1, <2>4, <3>1, <4>1
      <4> QED BY Zenon, <4>1, <4>2
    <3>2. CASE p # Len(o) + 1
      <4>1. p \in DOMAIN o /\ \A q \in 1 .. p - 1 : q \in 1 .. Len(o)
        BY <1>1, <2>1, <3>2
      <4>2. PICK j \in 1 .. i - 1 : w[j] = o[p] /\ \A k \in 1 .. j - 1 :
                 w[k] \in nodes => \E q \in 1 .. p - 1 : o[q] = w[k]
        BY Zenon, <4>1 DEF Collected
      <4>3. j \in 1 .. i
        BY <4>2
      <4>4. v[p] = o[p] /\ \A q \in 1 .. p - 1 : v[q] = o[q]
        BY Zenon, <1>1, <2>1, <4>1
      <4>5. \A k \in 1 .. j - 1 : w[k] \in nodes => \E q \in 1 .. p - 1 : v[q] = w[k]
        BY Zenon, <4>2, <4>4
      <4> QED BY Zenon, <4>2, <4>3, <4>4, <4>5
    <3> QED BY <3>1, <3>2
  <2>7. Collected(nodes, w, count, v, i)
    BY Zenon, <2>1, <2>2, <2>3, <2>5, <2>6 DEF Collected
  <2> QED BY Zenon, <1>2, <2>7
<1> QED BY Zenon, <1>3, <1>4, <1>5

\* owners_for_key returns what the whole walk collects.
LEMMA OwnersCollected ==
  ASSUME NEW nodes, NEW count \in Nat \ {0}, NEW n \in Nat, NEW w, DOMAIN w = 1 .. n, Len(w) = n
  PROVE  Collected(nodes, w, count, OwnersForKey(nodes, w, count), n)
<1> DEFINE Run(m, f) ==
             f = [i \in 0 .. m |-> IF i = 0 THEN <<>> ELSE Visit(nodes, w, count, f[i - 1], i)]
           Runs == {m \in 0 .. n : \E f : Run(m, f)}
<1>1. 0 \in Runs
  <2>1. Run(0, [i \in 0 .. 0 |-> <<>>])
    OBVIOUS
  <2> HIDE DEF Run
  <2> QED BY <2>1
<1>2. ASSUME NEW m \in 1 .. n, m - 1 \in Runs PROVE m \in Runs
  <2>1. PICK f : Run(m - 1, f)
    BY <1>2
  <2>2. PICK last : last = Visit(nodes, w, count, f[m - 1], m)
    BY Zenon
  <2>3. PICK h : h = [i \in 0 .. m |-> IF i = m THEN last ELSE f[i]]
    BY Zenon
  <2>4. ASSUME NEW i \in 0 .. m
        PROVE  h[i] = IF i = 0 THEN <<>> ELSE Visit(nodes, w, count, h[i - 1], i)
    <3>1. CASE i = 0
      <4>1. h[0] = f[0] /\ 0 \in 0 .. m - 1
        BY <2>3
      <4>2. f[0] = <<>>
        BY <2>1, <4>1
      <4> QED BY <3>1, <4>1, <4>2
    <3>2. CASE i # 0 /\ i # m
      <4>1. h[i] = f[i] /\ h[i - 1] = f[i - 1] /\ i \in 0 .. m - 1
        BY <2>3, <3>2
      <4>2. f[i] = Visit(nodes, w, count, f[i - 1], i)
        BY <2>1, <3>2, <4>1
      <4> QED BY <3>2, <4>1, <4>2, Zenon
    <3>3. CASE i = m
      <4>1. h[i] = last /\ h[i - 1] = f[i - 1] /\ i # 0
        BY <2>3, <3>3
      <4> QED BY <2>2, <3>3, <4>1, Zenon
    <3> QED BY <3>1, <3>2, <3>3
  <2>5. Run(m, h)
    BY <2>3, <2>4
  <2> HIDE DEF Run
  <2> QED BY <2>5
<1>3. n \in Runs
  <2> HIDE DEF Runs
  <2> QED BY <1>1, <1>2, Reached
<1>4. PICK g : g = CHOOSE f : Run(n, f)
  <2> HIDE DEF Run
  <2> QED BY Zenon
<1>5. Run(n, g)
  <2>1. \E f : Run(n, f)
    BY <1>3
  <2> HIDE DEF Run
  <2> QED BY <1>4, <2>1, Zenon
<1>6. g[0] = <<>> /\ \A i \in 1 .. n : g[i] = Visit(nodes, w, count, g[i - 1], i)
  <2>1. \A i \in 0 .. n : g[i] = IF i = 0 THEN <<>> ELSE Visit(nodes, w, count, g[i - 1], i)
    BY <1>5
  <2> QED BY <2>1
<1>7. OwnersForKey(nodes, w, count) = g[n]
  BY <1>4, Zenon DEF OwnersForKey
<1>8. PICK S : S = {i \in 0 .. n : Collected(nodes, w, count, g[i], i)}
  BY Zenon
<1>9. 0 \in S
  <2>1. Collected(nodes, w, count, <<>>, 0)
    BY DEF Collected
  <2> QED BY <1>6, <1>8, <2>1
<1>10. ASSUME NEW i \in 1 .. n, i - 1 \in S PROVE i \in S
  <2>1. Collected(nodes, w, count, g[i - 1], i - 1) /\ i \in Nat \ {0} /\ i \in DOMAIN w /\ i \in 0 .. n
    BY <1>8, <1>10
  <2>2. Collected(nodes, w, count, Visit(nodes, w, count, g[i - 1], i), i)
    BY <2>1, VisitCollects, Zenon
  <2>3. g[i] = Visit(nodes, w, count, g[i - 1], i)
    BY <1>6, Zenon
  <2>4. Collected(nodes, w, count, g[i], i)
    BY <2>2, <2>3, Zenon
  <2> QED BY <1>8, <2>1, <2>4
<1>11. n \in S
  BY <1>9, <1>10, Reached
<1> QED BY <1>7, <1>8, <1>11

\* The first n steps of a walk meet x, and not y before.
MetFirst(w, n, x, y) == \E j \in 1 .. n : w[j] = x /\ \A k \in 1 .. j - 1 : w[k] # y

\* An owner comes before another node of the ring, owner or not, because a walk meets
\* it first.
LEMMA PreferredFirst ==
  ASSUME NEW nodes, NEW w, NEW count \in Nat \ {0}, NEW n \in Nat, NEW o,
         Collected(nodes, w, count, o, n), NEW x, NEW y \in nodes, Prefers(o, x, y)
  PROVE  MetFirst(w, n, x, y)
<1>1. PICK p \in DOMAIN o : o[p] = x /\ \A q \in 1 .. p : o[q] # y
  BY Zenon DEF Prefers
<1>2. PICK j \in 1 .. n : w[j] = o[p] /\ \A k \in 1 .. j - 1 :
        w[k] \in nodes => \E q \in 1 .. p - 1 : o[q] = w[k]
  BY Zenon, <1>1 DEF Collected
<1>3. \A q \in 1 .. p - 1 : q \in 1 .. p
  <2>1. p \in Nat
    BY <1>1 DEF Collected
  <2> QED BY <2>1
<1> QED BY Zenon, <1>1, <1>2, <1>3 DEF MetFirst

\* The owners of a key on two rings agree.
LEMMA OwnersAgree ==
  ASSUME NEW w \in Walks, NEW nodes \in SUBSET Node, NEW others \in SUBSET Node
  PROVE  Agree(w, nodes, others)
<1>1. PICK n \in Nat : n = VnodesPerNode * Cardinality(Node)
  <2>1. Cardinality(Node) \in Nat
    BY RingAssumption, FS_CardinalityType
  <2> QED BY <2>1, RingAssumption
<1>2. DOMAIN w = 1 .. n /\ Len(w) = n /\ w \in [1 .. n -> Node]
  BY <1>1 DEF Walks
<1>3. PICK mine : mine = OwnersForKey(nodes, w, Replicas)
  BY Zenon
<1>4. PICK theirs : theirs = OwnersForKey(others, w, Replicas)
  BY Zenon
<1>5. Replicas \in Nat \ {0}
  BY RingAssumption, Zenon
<1>6. Collected(nodes, w, Replicas, mine, n) /\ Collected(others, w, Replicas, theirs, n)
  BY <1>1, <1>2, <1>3, <1>4, <1>5, OwnersCollected, Zenon
<1>7. \A m \in Node : \E k \in 1 .. n : w[k] = m
  <2> SUFFICES ASSUME NEW m \in Node PROVE \E k \in 1 .. n : w[k] = m
    OBVIOUS
  <2>1. Cardinality({i \in DOMAIN w : w[i] = m}) = VnodesPerNode
    BY Zenon DEF Walks
  <2>2. {i \in DOMAIN w : w[i] = m} # {}
    BY <2>1, FS_EmptySet, RingAssumption, Zenon
  <2> QED BY <1>2, <2>2, Zenon
<1>8. /\ mine \in Seq(nodes) /\ Len(mine) \in Nat /\ DOMAIN mine = 1 .. Len(mine) /\ Range(mine) \subseteq nodes
      /\ \A i, j \in DOMAIN mine : i # j => mine[i] # mine[j]
  BY <1>6 DEF Collected, Range
<1>9. Len(mine) = IF Cardinality(nodes) < Replicas THEN Cardinality(nodes) ELSE Replicas
  <2>1. IsFiniteSet(nodes) /\ Cardinality(nodes) \in Nat
    BY RingAssumption, FS_Subset, FS_CardinalityType, Zenon
  <2>2. mine \in Bijection(1 .. Len(mine), Range(mine))
    <3>1. mine \in [1 .. Len(mine) -> Range(mine)]
      BY <1>8 DEF Range
    <3> QED BY <1>8, <3>1, Zenon DEF Bijection, Injection, Surjection, IsInjective, Range
  <2>3. IsFiniteSet(1 .. Len(mine)) /\ Cardinality(1 .. Len(mine)) = Len(mine)
    BY SMTT(30), <1>8, FS_Interval
  <2>4. IsFiniteSet(Range(mine)) /\ Cardinality(Range(mine)) = Len(mine)
    <3>1. PICK l \in Nat : l = Len(mine)
      BY <1>8, Zenon
    <3>2. ExistsBijection(1 .. l, Range(mine))
      BY <2>2, <3>1, Zenon DEF ExistsBijection
    <3> QED BY <2>3, <3>1, <3>2, FS_Bijection, Zenon
  <2>5. Cardinality(Range(mine)) <= Cardinality(nodes) /\ Len(mine) <= Replicas
    BY <1>6, <1>8, <2>1, FS_Subset, Zenon DEF Collected
  <2>6. Len(mine) < Replicas => Range(mine) = nodes
    <3> SUFFICES ASSUME Len(mine) < Replicas, NEW m \in nodes PROVE m \in Range(mine)
      BY <1>8
    <3>1. PICK k \in 1 .. n : w[k] = m
      BY <1>7, Zenon
    <3>2. \E q \in DOMAIN mine : mine[q] = w[k]
      BY <1>6, <3>1, Zenon DEF Collected
    <3> QED BY <3>1, <3>2, Zenon DEF Range
  <2>7. PICK l \in Nat, c \in Nat : l = Len(mine) /\ c = Cardinality(nodes)
    BY <1>8, <2>1, Zenon
  <2>8. l <= c /\ l <= Replicas /\ (l < Replicas => l = c)
    BY <2>4, <2>5, <2>6, <2>7, Zenon
  <2>9. l = IF c < Replicas THEN c ELSE Replicas
    BY <1>5, <2>7, <2>8
  <2> QED BY <2>7, <2>9, Zenon
<1>10. ASSUME NEW x \in nodes \cap others, NEW y \in nodes \cap others,
              Prefers(mine, x, y), Prefers(theirs, y, x)
       PROVE  FALSE
  <2>1. PICK i \in 1 .. n : w[i] = x /\ \A k \in 1 .. i - 1 : w[k] # y
    <3>1. Collected(nodes, w, Replicas, mine, n) /\ Prefers(mine, x, y) /\ y \in nodes
      BY <1>6, <1>10, Zenon
    <3>2. MetFirst(w, n, x, y)
      BY <1>1, <1>5, <3>1, PreferredFirst, Zenon
    <3> QED BY <3>2, Zenon DEF MetFirst
  <2>2. PICK j \in 1 .. n : w[j] = y /\ \A k \in 1 .. j - 1 : w[k] # x
    <3>1. Collected(others, w, Replicas, theirs, n) /\ Prefers(theirs, y, x) /\ x \in others
      BY <1>6, <1>10, Zenon
    <3>2. MetFirst(w, n, y, x)
      BY <1>1, <1>5, <3>1, PreferredFirst, Zenon
    <3> QED BY <3>2, Zenon DEF MetFirst
  <2>3. i = j
    BY <2>1, <2>2
  <2>4. x = y
    BY <2>1, <2>2, <2>3, Zenon
  <2>5. PICK p \in DOMAIN mine : mine[p] = x /\ \A q \in 1 .. p : mine[q] # y
    BY <1>10, Zenon DEF Prefers
  <2>6. p \in 1 .. p
    BY <1>8, <2>5
  <2> QED BY <2>4, <2>5, <2>6, Zenon
<1> QED BY <1>3, <1>4, <1>8, <1>9, <1>10, Zenon DEF Agree

\* owners_for_key, whatever operators, gossip and the failure detector do to the rings:
\* as many distinct owners as there can be, and nothing moves that need not move.
THEOREM OwnersStay == Spec => OwnersMoveLittle
<1>1. TypeOK /\ TypeOK' => \A n, m \in Running : <<ring'[n], ring[m]>> \in Agreeing
  <2> SUFFICES ASSUME TypeOK, TypeOK', NEW n \in Running, NEW m \in Running
               PROVE  <<ring'[n], ring[m]>> \in Agreeing
    OBVIOUS
  <2>1. PICK r \in SUBSET Node : r = ring'[n]
    BY SMTT(30), MembershipAssumption DEF TypeOK
  <2>2. PICK s \in SUBSET Node : s = ring[m]
    BY MembershipAssumption DEF TypeOK
  <2>3. PICK p : p = <<r, s>>
    BY Zenon
  <2>4. p \in {<<x, y>> : x \in SUBSET Node, y \in SUBSET Node} /\ p[1] = r /\ p[2] = s
    BY <2>3
  <2>5. \A w \in Walks : Agree(w, p[1], p[2])
    BY <2>4, OwnersAgree, Zenon
  <2>6. p \in Agreeing
    BY <2>4, <2>5 DEF Agreeing
  <2> QED BY <2>1, <2>2, <2>3, <2>6, Zenon
<1>2. TypeOK /\ TypeOK' =>
        [\A n \in Running : ring'[n] # ring[n] =>
           \A m \in Running : <<ring'[n], ring[m]>> \in Agreeing]_vars
  BY <1>1, Zenon
<1> QED BY <1>2, TypesHold, PTL DEF OwnersMoveLittle
=============================================================================
