------------------------------ MODULE MCSchema ------------------------------
(* Workloads of Schema for TLC. *)
EXTENDS Schema

CONSTANTS a, b

(* One orderly writer and a reader that crashes; two writers, whose versions
   collide; one node with three calls, two at a time; one node whose replacements
   overlap, and that crashes; one that crashes while two calls overlap; one that
   replaces and drops without crashes, also while a task waits.              *)
MCWorkloads ==
  {[nodes |-> {a, b}, writers |-> {a}, calls |-> 2, width |-> 1, crashing |-> {b},
    replacing |-> FALSE],
   [nodes |-> {a, b}, writers |-> {a, b}, calls |-> 2, width |-> 1, crashing |-> {},
    replacing |-> FALSE],
   [nodes |-> {a}, writers |-> {a}, calls |-> 3, width |-> 2, crashing |-> {},
    replacing |-> FALSE],
   [nodes |-> {a}, writers |-> {a}, calls |-> 3, width |-> 1, crashing |-> {a},
    replacing |-> TRUE],
   [nodes |-> {a}, writers |-> {a}, calls |-> 2, width |-> 2, crashing |-> {a},
    replacing |-> TRUE],
   [nodes |-> {a}, writers |-> {a}, calls |-> 3, width |-> 1, crashing |-> {},
    replacing |-> TRUE]}

(* One node with two calls at a time, without crashes and replacements. *)
MCOverlap ==
  {[nodes |-> {a}, writers |-> {a}, calls |-> 2, width |-> 2, crashing |-> {},
    replacing |-> FALSE]}
=============================================================================
