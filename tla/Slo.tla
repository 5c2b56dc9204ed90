-------------------------------- MODULE Slo ---------------------------------
(***************************************************************************)
(* SloTracker of crates/bashfuldb-ops: a sliding window of requests per    *)
(* latency class, of which this module has one; the ratio of requests that *)
(* violate the objective; the 95th percentile of their latencies.  Ratios  *)
(* are compared as products of whole numbers, in percent.                  *)
(***************************************************************************)
EXTENDS Naturals, Sequences, FiniteSets

CONSTANTS
  Latency,     \* latencies requests have
  Threshold,   \* the latency above which a request violates the objective
  WindowSize,  \* window_size
  BudgetPercent, \* error_budget_threshold
  MaxRequests, \* bound: requests recorded
  MaxSwitches  \* bound: how often a request differs from the one before it

ASSUME SloAssumption == WindowSize \in Nat /\ BudgetPercent \in Nat /\ Latency \subseteq Nat

VARIABLES
  queue,     \* the window
  recorded,  \* history: every request recorded
  rollbacks  \* rollbacks[i]: whether the i-th request sent a RollbackEvent

sloVars == <<queue, recorded, rollbacks>>

SloInit == queue = <<>> /\ recorded = <<>> /\ rollbacks = <<>>

Violations(q) == Cardinality({i \in DOMAIN q : q[i].violation})

\* error_budget_ratio(queue) > error_budget_threshold.
OverBudget_Count(q) == Violations(q) * 100 > BudgetPercent * WindowSize

OverBudget(q) == q # <<>> /\ Violations(q) * 100 > BudgetPercent * Len(q)

\* The newest WindowSize samples.
Trim(q) == IF Len(q) > WindowSize THEN SubSeq(q, Len(q) - WindowSize + 1, Len(q)) ELSE q

\* How often a request of the history differs from the one before it.
Switches(h) == Cardinality({i \in DOMAIN h : i > 1 /\ h[i] # h[i - 1]})

\* record_request.
RecordRequest(latency, error) ==
  LET sample == [latency |-> latency, violation |-> error \/ latency > Threshold] IN
  /\ Len(recorded) < MaxRequests
  /\ queue' = Trim(Append(queue, sample))
  /\ recorded' = Append(recorded, sample) /\ Switches(recorded') <= MaxSwitches
  /\ rollbacks' = Append(rollbacks, OverBudget(queue'))

SloNext == \E l \in Latency, e \in BOOLEAN : RecordRequest(l, e)

\* latencies.sort_unstable(): the r-th latency is the one that r of the samples, with
\* itself, come no later than; which of two equal ones comes first does not matter.
NoLater(q, i, j) ==
  q[i].latency < q[j].latency \/ (q[i].latency = q[j].latency /\ i <= j)
Place(q, i) == Cardinality({j \in DOMAIN q : NoLater(q, j, i)})
Sorted(q, r) == q[CHOOSE i \in DOMAIN q : Place(q, i) = r].latency

\* p95_latency: the sorted latencies at ceil(0.95 n), clamped.
P95_IndexIsRank(q) ==
  LET rank == (Len(q) * 95 + 99) \div 100 + 1
  IN  Sorted(q, IF rank > Len(q) THEN Len(q) ELSE rank)

P95(q) ==
  LET rank == (Len(q) * 95 + 99) \div 100
  IN  Sorted(q, IF rank = 0 THEN 1 ELSE IF rank > Len(q) THEN Len(q) ELSE rank)

Share(q, l) == Cardinality({i \in DOMAIN q : q[i].latency <= l}) * 100

(* p95_latency is the 95th percentile: the least latency that at least 95 percent of
   the requests in the window do not exceed.  From 20 requests on it is no longer
   the largest of them.                                                      *)
P95IsQuantile ==
  queue # <<>> =>
    /\ Share(queue, P95(queue)) >= 95 * Len(queue)
    /\ \A l \in Latency : Share(queue, l) >= 95 * Len(queue) => l >= P95(queue)

(* A RollbackEvent is sent for exactly the requests after which more than the
   budgeted share of the last WindowSize requests were violations, as the history
   of all requests tells it.                                                 *)
RollbackOnBreach ==
  \A i \in DOMAIN recorded :
    LET first == IF i > WindowSize THEN i - WindowSize + 1 ELSE 1
        bad == Cardinality({k \in first .. i : recorded[k].violation})
    IN  rollbacks[i] <=> bad * 100 > BudgetPercent * (i - first + 1)
=============================================================================
