--------------------------- MODULE MCReplication ----------------------------
(* Instances of Replication for TLC. *)
EXTENDS Replication, TLC

Symmetric == Permutations(Owners \ Coordinators)

(* The behaviours of Spec in which the clients issue these operations, in this
   order, and none fails.                                                    *)
Script == <<"delete", "write", "write", "read">>
FollowsScript == \A o \in Op : req[o] = NoRequest \/ req[o].kind = Script[o]
ScriptSpec == Init /\ [][Next /\ FollowsScript']_vars
=============================================================================
