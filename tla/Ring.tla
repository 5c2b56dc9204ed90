-------------------------------- MODULE Ring --------------------------------
(***************************************************************************)
(* The consistent-hashing ring of crates/bashfuldb-cluster (ring.rs), over *)
(* the rings that Membership keeps.                                        *)
(*                                                                         *)
(* A hash is any fixed placement: all that a key's owners depend on is the *)
(* order in which a walk round the ring, from the key's position, meets    *)
(* the virtual nodes of all nodes there might be.  Two virtual nodes at    *)
(* one 64-bit position are not modelled.                                   *)
(***************************************************************************)
EXTENDS Membership, Sequences, Functions

CONSTANTS
  VnodesPerNode, \* vnodes_per_node
  Replicas       \* the n of owners_for_key

ASSUME RingAssumption ==
  IsFiniteSet(Node) /\ VnodesPerNode \in Nat \ {0} /\ Replicas \in Nat \ {0}

\* hash_key and hash_vnode: the walks of all keys under all placements.
Walks ==
  {w \in [1 .. VnodesPerNode * Cardinality(Node) -> Node] :
     \A n \in Node : Cardinality({i \in DOMAIN w : w[i] = n}) = VnodesPerNode}

\* add_node, for every node of a ring: the places of a walk that are on it.
Vnodes(nodes, w) == {i \in DOMAIN w : w[i] \in nodes}

\* owners_for_key: one step of the walk, and the first distinct nodes of all of it;
\* the first always counts.
Collect_Repeats(owners, n, count) ==
  IF owners # <<>> /\ Len(owners) >= count THEN owners ELSE Append(owners, n)

Collect(owners, n, count) ==
  IF n \in Range(owners) \/ (owners # <<>> /\ Len(owners) >= count) THEN owners
  ELSE Append(owners, n)

Visit(nodes, w, count, owners, i) ==
  IF i \in Vnodes(nodes, w) THEN Collect(owners, w[i], count) ELSE owners

OwnersForKey(nodes, w, count) ==
  LET owners[i \in 0 .. Len(w)] ==
        IF i = 0 THEN <<>> ELSE Visit(nodes, w, count, owners[i - 1], i)
  IN  owners[Len(w)]

\* x is an owner, and y is none or comes later.
Prefers(owners, x, y) ==
  \E i \in DOMAIN owners : owners[i] = x /\ \A j \in 1 .. i : owners[j] # y

\* Owners on a ring, compared with those on another: as many distinct nodes of the
\* ring as it has, up to Replicas; of two nodes that are on both rings, these do not
\* prefer the one here and the other there.
Agree(w, nodes, others) ==
  LET mine == OwnersForKey(nodes, w, Replicas)
      theirs == OwnersForKey(others, w, Replicas)
  IN  /\ Range(mine) \subseteq nodes /\ \A i, j \in DOMAIN mine : i # j => mine[i] # mine[j]
      /\ Len(mine) = IF Cardinality(nodes) < Replicas THEN Cardinality(nodes) ELSE Replicas
      /\ \A x, y \in nodes \cap others : ~(Prefers(mine, x, y) /\ Prefers(theirs, y, x))

\* The pairs of rings that agree, whatever the key and the placement.
Agreeing ==
  {p \in {<<r, s>> : r \in SUBSET Node, s \in SUBSET Node} : \A w \in Walks : Agree(w, p[1], p[2])}

(* Whenever operators, gossip or the failure detector change a ring, each key has as
   many distinct owners as replicas are asked for and nodes are Healthy, and a node
   that stays on the ring is no owner any more, or has become one, only because of
   nodes that came or went: nothing else moves.  The same holds between the new
   ring and the rings that other nodes have at that time.                     *)
OwnersMoveLittle ==
  [][\A n \in Running : ring'[n] # ring[n] =>
       \A m \in Running : <<ring'[n], ring[m]>> \in Agreeing]_vars
=============================================================================
