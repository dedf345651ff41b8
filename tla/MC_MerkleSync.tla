--------------------------- MODULE MC_MerkleSync ---------------------------
(* Model-checking instance of MerkleSync: two nodes with one writer each.  *)
EXTENDS MerkleSync, TLC

CONSTANTS n1, n2, w1, w2, v1, v2

MCNodes == {n1, n2}
MCWriters == {w1, w2}
MCWriterNode == (w1 :> n1) @@ (w2 :> n2)
MCValues == {v1, v2}
=============================================================================
