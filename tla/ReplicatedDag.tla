---------------------------- MODULE ReplicatedDag ---------------------------
(***************************************************************************)
(* What the MerkleCRDT promises a document field replicated across nodes   *)
(* (spec sections 3 and 4), with no transactions, heads entries or         *)
(* messages: each node holds a grow-only, ancestor-closed set of commit    *)
(* blocks.  A local write adds one block that links exactly the node's     *)
(* current frontier, so it causally follows everything the node has seen;  *)
(* a sync adds a block some other node holds together with all of its      *)
(* ancestors.  Nothing else changes a node's DAG.                          *)
(***************************************************************************)
EXTENDS MerkleDag

CONSTANTS Nodes, Values

VARIABLE dag   \* dag[n]: the commit blocks node n holds

Init == dag = [n \in Nodes |-> {}]

(* A local AddDelta on node n.                                             *)
LocalWrite(n) ==
    \E v \in Values :
        dag' = [dag EXCEPT ![n] = @ \cup {NewBlock(ReduceHeads(@), v)}]

(* Node n takes a block of node m, with its whole history.                 *)
Replicate(n) ==
    \E m \in Nodes \ {n} : \E b \in dag[m] :
        dag' = [dag EXCEPT ![n] = @ \cup {b} \cup Ancestors(b)]

Next == \E n \in Nodes : LocalWrite(n) \/ Replicate(n)

Spec == Init /\ [][Next]_dag

=============================================================================
