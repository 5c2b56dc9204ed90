----------------------------- MODULE Membership -----------------------------
(***************************************************************************)
(* Cluster membership of crates/bashfuldb-cluster: the membership table of *)
(* every node (membership.rs, node_state.rs), the gossip engine that       *)
(* exchanges the tables (gossip.rs), the failure detector it consults      *)
(* (failure_detector.rs) and a transport that delays, reorders and loses   *)
(* messages (simulated_transport.rs).                                      *)
(*                                                                         *)
(* A gossip engine is one task: it sends and evaluates the failure         *)
(* detector on a timer, and handles a received message, never two of these *)
(* at once.  The table is behind a mutex that the evaluation releases      *)
(* between reading a state and changing it, and operators change the table *)
(* through the same mutex.                                                 *)
(*                                                                         *)
(* Hybrid timestamps are Lamport counters here: a tick that stamps a       *)
(* record adds one, a tick that only stamps a message is not counted, since *)
(* records are all that timestamps order.  The ring is the set of nodes on *)
(* it.  The schema version that gossip carries is not part of this module. *)
(***************************************************************************)
EXTENDS Naturals, FiniteSets

CONSTANTS
  Node,
  Running,     \* nodes whose process runs; the others are records in tables
  Meshed,      \* nodes that know one another from the start
  Targets,     \* states operators move a node to
  MaxChanges,  \* bound: operator calls
  MaxFaults,   \* bound: lost messages and clock errors
  MaxMsgs,     \* bound: messages in flight
  MaxTime,     \* bound: timestamps
  None         \* no decision pending

VARIABLES
  members,    \* members[n][m]: the record node n has of node m
  ring,       \* ring[n]: the nodes on n's ring
  clock,      \* clock[n]: the greatest timestamp n has seen
  heartbeats, \* heartbeats[n][m]: messages from m, up to the two that make an interval
  silent,     \* silent[n]: the nodes whose phi is over n's threshold
  todo,       \* todo[n]: the nodes n's evaluation has still to look at
  pending,    \* pending[n]: the transition n's evaluation has decided and not yet made
  msgs,       \* gossip messages in flight
  changes,    \* operator calls made
  faults,     \* faults that have happened
  made        \* history: every record some node has created, with its subject

gossipVars == <<heartbeats, silent, todo, pending, msgs>>
vars == <<members, ring, clock, gossipVars, changes, faults, made>>

-----------------------------------------------------------------------------
NodeState == {"Joining", "Bootstrapping", "Healthy", "Leaving", "Draining",
              "Suspect", "Down", "Rebuilding"}
Time == 0 .. MaxTime

ASSUME MembershipAssumption ==
  /\ Running \subseteq Node /\ Meshed \subseteq Node /\ Targets \subseteq NodeState
  /\ {MaxChanges, MaxFaults, MaxMsgs, MaxTime} \subseteq Nat

ValidTransitions ==
  [Joining       |-> {"Bootstrapping", "Down"},
   Bootstrapping |-> {"Healthy", "Down"},
   Healthy       |-> {"Leaving", "Draining", "Suspect", "Down"},
   Leaving       |-> {"Draining", "Down"},
   Draining      |-> {"Down"},
   Suspect       |-> {"Healthy", "Down"},
   Down          |-> {"Rebuilding", "Joining"},
   Rebuilding    |-> {"Healthy", "Down"}]

MemberRecord == [state : NodeState, generation : Nat, updated_at : Time]
Record(s, g, t) == [state |-> s, generation |-> g, updated_at |-> t]

IsTable(table) == DOMAIN table \subseteq Node /\ table \in [DOMAIN table -> MemberRecord]
Known(n) == DOMAIN members[n]
MayBecome(from, to) == from = to \/ to \in ValidTransitions[from]

HealthyIn(table) == {m \in DOMAIN table : table[m].state = "Healthy"}

\* Fault: the ring is rebuilt only when a node ceases to be Healthy.
Rebalanced_OnLeave(r, old, new) ==
  IF \E m \in DOMAIN old : old[m].state = "Healthy" /\ new[m].state # "Healthy"
  THEN HealthyIn(new) ELSE r

\* emit_rebalance_if_needed over the changes from one table to the next: the
\* ring is rebuilt from the new table if some node became or ceased to be
\* Healthy.
Rebalanced(r, old, new) ==
  IF \E m \in DOMAIN new :
       (m \in DOMAIN old /\ old[m].state = "Healthy") # (new[m].state = "Healthy")
  THEN HealthyIn(new) ELSE r

\* A table with a record inserted or replaced.
Insert(table, m, rec) ==
  [x \in DOMAIN table \cup {m} |-> IF x = m THEN rec ELSE table[x]]

\* Fault: records of a later generation are not taken for newer.
Newer_SameGeneration(d, rec) ==
  d.generation = rec.generation /\ d.updated_at > rec.updated_at

Newer(d, rec) == \/ d.generation > rec.generation
                 \/ d.generation = rec.generation /\ d.updated_at > rec.updated_at

\* Fault: the age of a received record is not checked.
Accepts_AnyAge(table, m, d) ==
  IF m \in DOMAIN table
  THEN MayBecome(table[m].state, d.state)
  ELSE d.state \in {"Joining", "Healthy"}

\* merge_remote_digests: which records of a received table are taken over.
Accepts(table, m, d) ==
  IF m \in DOMAIN table
  THEN Newer(d, table[m]) /\ MayBecome(table[m].state, d.state)
  ELSE d.state \in {"Joining", "Healthy"}

\* Fault: the merged record keeps the local timestamp.
Merged_KeepsTime(table, remote) ==
  LET taken == {m \in DOMAIN remote : Accepts(table, m, remote[m])}
  IN  [m \in DOMAIN table \cup taken |->
         IF m \notin taken THEN table[m]
         ELSE IF m \in DOMAIN table THEN [remote[m] EXCEPT !.updated_at = table[m].updated_at]
         ELSE remote[m]]

Merged(table, remote) ==
  LET taken == {m \in DOMAIN remote : Accepts(table, m, remote[m])}
  IN  [m \in DOMAIN table \cup taken |-> IF m \in taken THEN remote[m] ELSE table[m]]

\* Node n's table becomes table; the ring follows in the same call.
SetTable(n, table) ==
  /\ members' = [members EXCEPT ![n] = table]
  /\ ring' = [ring EXCEPT ![n] = Rebalanced(ring[n], members[n], table)]

\* A record is made with the next timestamp of node n's clock.
Stamp(n) == clock[n] + 1
Create(n, m, s, g) ==
  /\ Stamp(n) \in Time
  /\ SetTable(n, Insert(members[n], m, Record(s, g, Stamp(n))))
  /\ clock' = [clock EXCEPT ![n] = Stamp(n)]
  /\ made' = made \cup {<<m, Record(s, g, Stamp(n))>>}

Digest(n, target, table, t) == [from |-> n, to |-> target, hlc |-> t, members |-> table]

\* A message is in flight unless MaxMsgs are.
Sent(ms, msg) == IF Cardinality(ms) < MaxMsgs THEN ms \cup {msg} ELSE ms

Idle(n) == todo[n] = {} /\ pending[n] = None
Fault == faults < MaxFaults /\ faults' = faults + 1

-----------------------------------------------------------------------------
\* ClusterMembership::new, followed by upsert_local_member for the peers a
\* node is configured with.
Init ==
  /\ members = [n \in Node |->
       [m \in {n} \cup (IF n \in Meshed THEN Meshed ELSE {}) |->
          Record(IF m \in Meshed THEN "Healthy" ELSE "Joining", 0, 0)]]
  /\ ring = [n \in Node |-> HealthyIn(members[n])]
  /\ clock = [n \in Node |-> 0]
  /\ heartbeats = [n \in Node |-> [m \in Node |-> 0]]
  /\ silent = [n \in Node |-> {}]
  /\ todo = [n \in Node |-> {}]
  /\ pending = [n \in Node |-> None]
  /\ msgs = {}
  /\ changes = 0 /\ faults = 0
  /\ made = {<<m, Record(IF m \in Meshed THEN "Healthy" ELSE "Joining", 0, 0)>> : m \in Node}

\* An operator adds node m to n's table or changes m's record there
\* (upsert_local_member), or moves it to another state (transition_state).
UpsertLocalMember(n, m, s) ==
  /\ changes < MaxChanges /\ changes' = changes + 1
  /\ m \in Known(n) => MayBecome(members[n][m].state, s)
  /\ Create(n, m, s, IF m \in Known(n) THEN members[n][m].generation + 1 ELSE 0)
  /\ UNCHANGED <<gossipVars, faults>>

TransitionState(n, m, s) ==
  /\ changes < MaxChanges /\ changes' = changes + 1
  /\ m \in Known(n) /\ MayBecome(members[n][m].state, s)
  /\ Create(n, m, s, members[n][m].generation + 1)
  /\ UNCHANGED <<gossipVars, faults>>

\* The timer: send the table to a random peer, if there is one (else target is
\* n itself), then start an evaluation.
GossipTick(n, target) ==
  /\ Idle(n)
  /\ target \in Known(n) /\ (target = n => Known(n) = {n})
  /\ msgs' = IF target \notin Running \ {n} THEN msgs
             ELSE Sent(msgs, Digest(n, target, members[n], clock[n]))
  /\ todo' = [todo EXCEPT ![n] = Known(n)]
  /\ UNCHANGED <<members, ring, clock, heartbeats, silent, pending, changes, faults, made>>

\* The detector hears from the sender.
Heartbeat(n, m) ==
  /\ heartbeats' = [heartbeats EXCEPT ![n][m] = IF @ < 2 THEN @ + 1 ELSE 2]
  /\ silent' = [silent EXCEPT ![n] = @ \ {m}]

\* A message is merged and answered with the resulting table.
HandleIncoming(msg) ==
  LET n == msg.to
      table == Merged(members[n], msg.members)
      now == IF msg.hlc > clock[n] THEN msg.hlc ELSE clock[n]
  IN  /\ Idle(n)
      /\ Heartbeat(n, msg.from)
      /\ clock' = [clock EXCEPT ![n] = now]
      /\ SetTable(n, table)
      /\ msgs' = Sent(msgs \ {msg}, Digest(n, msg.from, table, now))
      /\ UNCHANGED <<todo, pending, changes, faults, made>>

\* clock.update fails: the heartbeat counts, the tables in the message do not.
HandleIncomingFails(msg) ==
  /\ Idle(msg.to)
  /\ Fault
  /\ Heartbeat(msg.to, msg.from)
  /\ msgs' = msgs \ {msg}
  /\ UNCHANGED <<members, ring, clock, todo, pending, changes, made>>

\* Fault: a state that needs no change is asserted again.
Decision_Reasserts(n, m) ==
  IF members[n][m].state = "Suspect" THEN "Down"
  ELSE IF m \in silent[n] THEN "Suspect" ELSE members[n][m].state

\* One node of an evaluation: its state is read and the detector is asked ...
Decision(n, m) ==
  IF members[n][m].state = "Down" THEN None
  ELSE IF members[n][m].state = "Suspect" THEN "Down"
  ELSE IF m \in silent[n] THEN "Suspect" ELSE None
EvaluateRead(n, m) ==
  /\ pending[n] = None /\ m \in todo[n]
  /\ todo' = [todo EXCEPT ![n] = @ \ {m}]
  /\ pending' = [pending EXCEPT ![n] =
       IF Decision(n, m) = None THEN None ELSE [node |-> m, to |-> Decision(n, m)]]
  /\ UNCHANGED <<members, ring, clock, heartbeats, silent, msgs, changes, faults, made>>

\* ... and, after another lock, the transition is made if it is still valid.
EvaluateApply(n) ==
  /\ pending[n] # None
  /\ LET m == pending[n].node
         s == pending[n].to
     IN  IF MayBecome(members[n][m].state, s)
         THEN Create(n, m, s, members[n][m].generation + 1)
         ELSE UNCHANGED <<members, ring, clock, made>>
  /\ pending' = [pending EXCEPT ![n] = None]
  /\ UNCHANGED <<heartbeats, silent, todo, msgs, changes, faults>>

\* clock.tick fails: the rest of the evaluation is given up.
EvaluateFails(n) ==
  /\ pending[n] # None
  /\ Fault
  /\ pending' = [pending EXCEPT ![n] = None]
  /\ todo' = [todo EXCEPT ![n] = {}]
  /\ UNCHANGED <<members, ring, clock, heartbeats, silent, msgs, changes, made>>

\* Time passes without a message from m: phi needs an interval to compare with.
Silence(n, m) ==
  /\ heartbeats[n][m] = 2 /\ m \notin silent[n]
  /\ silent' = [silent EXCEPT ![n] = @ \cup {m}]
  /\ UNCHANGED <<members, ring, clock, heartbeats, todo, pending, msgs, changes, faults, made>>

Lose(msg) ==
  /\ Fault
  /\ msgs' = msgs \ {msg}
  /\ UNCHANGED <<members, ring, clock, heartbeats, silent, todo, pending, changes, made>>

Operate == \E n \in Running, m \in Node, s \in Targets : UpsertLocalMember(n, m, s) \/ TransitionState(n, m, s)
Evaluate(n) == EvaluateApply(n) \/ \E m \in Node : EvaluateRead(n, m)

Next ==
  \/ Operate
  \/ \E n \in Running : Evaluate(n) \/ EvaluateFails(n)
  \/ \E n \in Running, m \in Node : GossipTick(n, m) \/ Silence(n, m)
  \/ \E msg \in msgs : HandleIncoming(msg) \/ HandleIncomingFails(msg) \/ Lose(msg)

Spec == Init /\ [][Next]_vars

\* Every engine's loop runs: its timer fires for every peer, what has arrived
\* is handled and an evaluation goes on.
Fairness ==
  /\ \A n \in Running : WF_vars(Evaluate(n))
  /\ \A n \in Running : \A m \in Node \ {n} : SF_vars(GossipTick(n, m))
  /\ \A n \in Running : \A m \in Running \ {n} :
       SF_vars(\E msg \in msgs : msg.from = m /\ msg.to = n /\ HandleIncoming(msg))
FairSpec == Spec /\ Fairness

-----------------------------------------------------------------------------
(* Properties.                                                             *)

\* Types, and what an evaluation of the failure detector relies on: it visits
\* nodes of the table only and decides on Suspect or Down only.
TypeOK ==
  /\ members = [n \in Node |-> members[n]] /\ \A n \in Node : IsTable(members[n])
  /\ ring \in [Node -> SUBSET Node]
  /\ clock \in [Node -> Time]
  /\ heartbeats \in [Node -> [Node -> 0 .. 2]]
  /\ silent \in [Node -> SUBSET Node]
  /\ todo \in [Node -> SUBSET Node] /\ \A n \in Node : todo[n] \subseteq Known(n)
  /\ pending = [n \in Node |-> pending[n]]
  /\ \A n \in Node :
       pending[n] # None => pending[n].node \in Known(n) /\ pending[n].to \in {"Suspect", "Down"}
  /\ \A msg \in msgs : /\ msg.from \in Node /\ msg.to \in Node /\ msg.hlc \in Time
                      /\ IsTable(msg.members)
  /\ changes \in 0 .. MaxChanges /\ faults \in 0 .. MaxFaults

\* The ring is rebuilt only when a change calls for it, and still holds exactly
\* the Healthy members: no request is routed by an outdated ring.
RingIsHealthy == \A n \in Node : ring[n] = HealthyIn(members[n])

\* Whatever messages are lost, delayed or reordered, a table never goes back:
\* members do not disappear, and a record is replaced only by one of a greater
\* generation, or of the same generation and a later timestamp.
RecordsAdvance ==
  [][\A n \in Node : \A m \in Known(n) :
       /\ m \in DOMAIN members'[n]
       /\ members'[n][m] = members[n][m] \/ Newer(members'[n][m], members[n][m])]_vars

\* A record in a table or a message is one that some node created for that
\* member: gossip does not mix the fields of two records.
RecordsAuthentic ==
  /\ \A n \in Node : \A m \in Known(n) : <<m, members[n][m]>> \in made
  /\ \A msg \in msgs : \A m \in DOMAIN msg.members : <<m, msg.members[m]>> \in made

\* Without operators, a node that is Down for one peer is Down for everyone who knows
\* it in the end, itself included: no lost or reordered message, no clock error and
\* no older record that is still under way keeps the news from the others.
FailureSpreads ==
  \A m \in Meshed :
    (\E n \in Meshed : members[n][m].state = "Down")
      ~> (\A n \in Meshed : members[n][m].state = "Down")

\* "After threshold, node transitions to Suspect, then Down if no recovery":
\* an evaluation that takes a peer from Suspect to Down has not heard from it.
DownIfNoRecovery ==
  [][\A n \in Node : \A m \in Known(n) \ {n} :
       members[n][m].state = "Suspect" /\ EvaluateApply(n) /\ members'[n][m].state = "Down"
         => m \in silent[n]]_vars

=============================================================================
