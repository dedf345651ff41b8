----------------------------- MODULE MerkleDag ------------------------------
(***************************************************************************)
(* Commit blocks of the MerkleCRDT and the operators on their DAG.          *)
(*                                                                         *)
(* Content addressing is modelled by identifying a block with its content: *)
(* a block is the record of its links (the blocks it supersedes), its      *)
(* priority and its delta, so two blocks have the same address exactly     *)
(* when they have the same payload and the same links, which is the        *)
(* collision-free, canonical ContentAddresser the spec asks for (a link    *)
(* set is a set, so its order cannot matter).  A block nests the blocks it *)
(* links to, which is what makes the DAG a Merkle DAG: the address of a    *)
(* block determines all of its history.                                    *)
(***************************************************************************)
EXTENDS Naturals, FiniteSets, FiniteSetsExt

(* All blocks reachable from b through links, b excluded.                  *)
RECURSIVE Ancestors(_)
Ancestors(b) == b.links \cup UNION {Ancestors(l) : l \in b.links}

(* Priority (height) of a new commit linking the given heads: 0 for a root *)
(* commit, otherwise one more than the highest linked priority.            *)
Priority(links) == IF links = {} THEN 0 ELSE 1 + Max({l.prio : l \in links})

(* The CommitBlock AddDelta builds on the current heads.                   *)
NewBlock(links, delta) ==
    [links |-> links, prio |-> Priority(links), delta |-> delta]

(* b is reachable through the links of another member of S.               *)
Dominated(b, S) == \E c \in S : b \in Ancestors(c)

(* The head set recomputed by MergeHeads: the members of S that no other  *)
(* member of S links to, directly or transitively.                         *)
ReduceHeads(S) == {b \in S : ~Dominated(b, S)}

(* The blocks a node that knows the blocks in known has to fetch (GetLog) *)
(* and persist to add b: b and its ancestors that it does not have yet.    *)
MissingBlocks(b, known) == ({b} \cup Ancestors(b)) \ known

=============================================================================
