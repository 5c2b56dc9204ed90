----------------------------- MODULE Operations -----------------------------
(***************************************************************************)
(* The services of crates/bashfuldb-ops on one node.  They share no state, *)
(* so a behaviour exercises one of them while the others rest.             *)
(***************************************************************************)
EXTENDS Backup, Traffic, Slo

VARIABLE service  \* the service that is exercised, fixed

opsVars == <<service, backupVars, trafficVars, sloVars>>

Init ==
  /\ service \in {"backup", "traffic", "slo"}
  /\ BackupInit /\ TrafficInit /\ SloInit
  /\ service # "backup" => engine = "rocksdb"

Next ==
  /\ UNCHANGED service
  /\ \/ service = "backup" /\ BackupNext /\ UNCHANGED <<trafficVars, sloVars>>
     \/ service = "traffic" /\ TrafficNext /\ UNCHANGED <<backupVars, sloVars>>
     \/ service = "slo" /\ SloNext /\ UNCHANGED <<backupVars, trafficVars>>

Spec == Init /\ [][Next]_opsVars
=============================================================================
