------------------------------- MODULE Cluster ------------------------------
(***************************************************************************)
(* What the nodes of a cluster agree by: the hybrid clocks, and the        *)
(* membership tables with their rings.  Membership has counters of its own *)
(* for the order of records, so that the two share no state and a          *)
(* behaviour exercises one of them while the other rests.                  *)
(***************************************************************************)
EXTENDS HybridClock, Ring

VARIABLE part  \* the part that is exercised, fixed

clusterVars == <<part, clockVars, vars>>

ClusterInit ==
  /\ part \in {"clock", "membership"}
  /\ ClockInit /\ Init
  /\ part # "clock" => \A n \in Clock : wall[n] = 0

ClusterNext ==
  /\ UNCHANGED part
  /\ \/ part = "clock" /\ ClockNext /\ UNCHANGED vars
     \/ part = "membership" /\ Next /\ UNCHANGED clockVars

ClusterSpec == ClusterInit /\ [][ClusterNext]_clusterVars
=============================================================================
