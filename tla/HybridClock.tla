---------------------------- MODULE HybridClock -----------------------------
(***************************************************************************)
(* Hybrid logical clocks: Hlc (hlc.rs) and WallClock (traits.rs) of        *)
(* crates/bashfuldb-clock, one clock per node.                             *)
(*                                                                         *)
(* Timestamps travel in gossip messages and in writes; a node merges the   *)
(* ones it receives with update().  The system time of a node is whatever  *)
(* the operating system says: it may stand still, jump and step back.      *)
(*                                                                         *)
(* A call that fails with LogicalOverflow changes nothing, so it is no     *)
(* step of this specification.                                             *)
(***************************************************************************)
EXTENDS Naturals

CONSTANTS
  Clock,         \* the clocks, one per node
  MAX_LOGICAL,   \* greatest logical counter (65535 in the code)
  MaxMillis      \* bound: greatest reading of a system clock, in ms

ASSUME ClockAssumption == MAX_LOGICAL \in Nat /\ MaxMillis \in Nat

VARIABLES
  state,      \* the mutex-protected Hlc of each node's WallClock
  wall,       \* what system_time_ms() returns at each node
  persisted,  \* the Hlc each node has saved for from_persisted
  sent,       \* every timestamp tick() has returned, on any node
  maxWall     \* history: the greatest system time any node has had

clockVars == <<state, wall, persisted, sent, maxWall>>

-----------------------------------------------------------------------------
Millis == 0 .. MaxMillis
Hlc == [physical : Millis, logical : 0 .. MAX_LOGICAL]

NewHlc(p, l) == [physical |-> p, logical |-> l]

\* The order of the packed values: the physical part is the high 48 bits, the
\* logical part the low 16.
Lt(a, b) == \/ a.physical < b.physical
            \/ a.physical = b.physical /\ a.logical < b.logical
Le(a, b) == a = b \/ Lt(a, b)

ToU64(h) == h.physical * (MAX_LOGICAL + 1) + h.logical

Larger(i, j) == IF i >= j THEN i ELSE j

\* Fault: the logical counter is not checked.
TickOverflows_Unchecked(h, now) == FALSE

\* tick(): the system time if it is ahead, else the next logical value.
TickOverflows(h, now) == now <= h.physical /\ h.logical = MAX_LOGICAL
TickOf(h, now) ==
  IF now > h.physical THEN NewHlc(now, 0) ELSE NewHlc(h.physical, h.logical + 1)

\* update(received): the greatest of three physical parts; the logical part
\* continues the one of whoever has that physical part.
UpdatePhysical(h, r, now) == Larger(Larger(now, h.physical), r.physical)
LogicalBefore_Local(h, r, p) ==      \* fault: forgets the received counter
  IF p = h.physical THEN h.logical ELSE r.logical
LogicalBefore(h, r, p) ==
  IF p = h.physical /\ p = r.physical THEN Larger(h.logical, r.logical)
  ELSE IF p = h.physical THEN h.logical ELSE r.logical
UpdateOverflows(h, r, now) ==
  LET p == UpdatePhysical(h, r, now)
  IN  p \in {h.physical, r.physical} /\ LogicalBefore(h, r, p) = MAX_LOGICAL
UpdateOf(h, r, now) ==
  LET p == UpdatePhysical(h, r, now)
  IN  NewHlc(p, IF p \in {h.physical, r.physical} THEN LogicalBefore(h, r, p) + 1 ELSE 0)

\* Faults: the restored clock is a millisecond ahead; the saved value is ignored.
FromPersisted_Skips(h, now) == NewHlc(Larger(now, h.physical + 1), 0)
FromPersisted_Fresh(h, now) == NewHlc(now, 0)

\* from_persisted(): saturating_add keeps the logical part at its maximum.
FromPersisted(h, now) ==
  LET p == Larger(now, h.physical)
  IN  NewHlc(p, IF p # h.physical THEN 0
                ELSE IF h.logical = MAX_LOGICAL THEN MAX_LOGICAL ELSE h.logical + 1)

-----------------------------------------------------------------------------
ClockInit ==
  /\ wall \in [Clock -> Millis]
  /\ state = [n \in Clock |-> NewHlc(wall[n], 0)]     \* WallClock::new
  /\ persisted = state
  /\ sent = {}
  /\ maxWall \in {wall[n] : n \in Clock} /\ \A n \in Clock : wall[n] <= maxWall

Tick(n) ==
  /\ ~TickOverflows(state[n], wall[n])
  /\ state' = [state EXCEPT ![n] = TickOf(state[n], wall[n])]
  /\ sent' = sent \cup {TickOf(state[n], wall[n])}
  /\ UNCHANGED <<wall, persisted, maxWall>>

Update(n, r) ==
  /\ r \in sent
  /\ ~UpdateOverflows(state[n], r, wall[n])
  /\ state' = [state EXCEPT ![n] = UpdateOf(state[n], r, wall[n])]
  /\ UNCHANGED <<wall, persisted, sent, maxWall>>

\* The system clock of a node is read as a new value, later or earlier.
SetWall(n, t) ==
  /\ wall' = [wall EXCEPT ![n] = t]
  /\ maxWall' = Larger(maxWall, t)
  /\ UNCHANGED <<state, persisted, sent>>

\* The owner of the clock saves now().
Persist(n) ==
  /\ persisted' = [persisted EXCEPT ![n] = state[n]]
  /\ UNCHANGED <<state, wall, sent, maxWall>>

Restart(n) ==
  /\ state' = [state EXCEPT ![n] = FromPersisted(persisted[n], wall[n])]
  /\ UNCHANGED <<wall, persisted, sent, maxWall>>

ClockNext == \E n \in Clock :
  \/ Tick(n) \/ Persist(n) \/ Restart(n)
  \/ \E r \in sent : Update(n, r)
  \/ \E t \in Millis : SetWall(n, t)

ClockSpec == ClockInit /\ [][ClockNext]_clockVars

-----------------------------------------------------------------------------
(* Properties.                                                             *)

\* tick(), update() and from_persisted() never take the logical counter past
\* its 16 bits, nor the physical part outside the system times.
ClockTypeOK ==
  /\ state \in [Clock -> Hlc]
  /\ wall \in [Clock -> Millis]
  /\ persisted \in [Clock -> Hlc]
  /\ sent \subseteq Hlc
  /\ maxWall \in Millis

\* No timestamp anywhere runs ahead of every system clock: a node's physical
\* part is at most the greatest system time some node has had, however often
\* timestamps are passed around and whatever restarts happen.
BoundedDrift ==
  /\ \A n \in Clock : state[n].physical <= maxWall /\ persisted[n].physical <= maxWall
  /\ \A h \in sent : h.physical <= maxWall

\* What tick() and update() return is above the value saved for the clock, also
\* after restarts with a system clock that was set back.  A restarted clock is
\* "at least one tick ahead of the persisted value", except when the saved counter is
\* at its maximum and the system clock not past it: saturating_add then leaves the
\* clock where it was, and it is the next tick() that fails.
AheadOfPersisted ==
  [][\A n \in Clock :
       /\ Tick(n) \/ (\E r \in sent : Update(n, r)) => Lt(persisted[n], state'[n])
       /\ Restart(n) =>
            \/ Lt(persisted[n], state'[n])
            \/ persisted[n] = state'[n] /\ TickOverflows(persisted[n], wall[n])]_clockVars

\* tick() and update() return a value above the previous one, and update() one
\* above the received one; only a restart may return to an earlier value.
StrictlyIncreasing ==
  [][\A n \in Clock :
       /\ Tick(n) => Lt(state[n], state'[n])
       /\ \A r \in sent : Update(n, r) => Lt(state[n], state'[n]) /\ Lt(r, state'[n])]_clockVars

=============================================================================
