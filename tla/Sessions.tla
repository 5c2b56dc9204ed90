------------------------------ MODULE Sessions ------------------------------
(***************************************************************************)
(* What the TCP server promises: a bounded number of connections is open;  *)
(* a connection executes commands only for the one user it has entered     *)
(* for, who was valid then and is the one it showed credentials of; after  *)
(* shutdown no connection is opened, and the server ends when every        *)
(* connection has ended.  Who is valid, and what connections show, is not  *)
(* up to the server: both may change at any time.                          *)
(***************************************************************************)
EXTENDS Naturals, FiniteSets

CONSTANTS
  Conn,           \* connections
  MaxConnections, \* how many may be open
  Nobody

VARIABLES
  phase,    \* phase[c]: "away", "open", "entered" or "gone"
  user,     \* user[c]: who c has entered for
  executed, \* executed[c]: commands executed for c
  serving,  \* "yes", "closing" or "no"
  valid,    \* the users who may enter
  shown     \* shown[c]: the user c has shown credentials of

vars == <<phase, user, executed, serving>>

Present == {c \in Conn : phase[c] \in {"open", "entered"}}

Init ==
  /\ phase = [c \in Conn |-> "away"]
  /\ user = [c \in Conn |-> Nobody]
  /\ executed = [c \in Conn |-> 0]
  /\ serving = "yes"

Open(c) ==
  /\ serving = "yes" /\ phase[c] = "away"
  /\ Cardinality(Present) < MaxConnections
  /\ phase' = [phase EXCEPT ![c] = "open"]
  /\ UNCHANGED <<user, executed, serving>>

Enter(c) ==
  /\ phase[c] = "open" /\ shown[c] \in valid
  /\ phase' = [phase EXCEPT ![c] = "entered"]
  /\ user' = [user EXCEPT ![c] = shown[c]]
  /\ UNCHANGED <<executed, serving>>

Execute(c) ==
  /\ phase[c] = "entered"
  /\ executed' = [executed EXCEPT ![c] = @ + 1]
  /\ UNCHANGED <<phase, user, serving>>

Leave(c) ==
  /\ c \in Present
  /\ phase' = [phase EXCEPT ![c] = "gone"]
  /\ UNCHANGED <<user, executed, serving>>

Close ==
  /\ serving = "yes" /\ serving' = "closing"
  /\ UNCHANGED <<phase, user, executed>>

Finish ==
  /\ serving = "closing" /\ Present = {}
  /\ serving' = "no"
  /\ UNCHANGED <<phase, user, executed>>

Next == Close \/ Finish \/ \E c \in Conn : Open(c) \/ Enter(c) \/ Execute(c) \/ Leave(c)

Spec == Init /\ [][Next]_vars
=============================================================================
