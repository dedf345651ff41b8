----------------------------- MODULE MerkleSync -----------------------------
(***************************************************************************)
(* Nodes that version one field of one document with a MerkleClock and    *)
(* replicate its commit DAG to each other.                                 *)
(*                                                                         *)
(* Each node has a BlockStore (blocks) and the HeadStore entry of the      *)
(* field (heads), with hver counting the commits of transactions that      *)
(* wrote that entry.  Every operation runs in a transaction that reads the *)
(* heads when it begins and fails with ErrTxnConflict at commit when hver  *)
(* has moved since (DatastoreTxn models the same store check).             *)
(*                                                                         *)
(* Writers save the document through the integration test executor        *)
(* (createDoc / updateDoc), which wraps each Save in withRetry: on a       *)
(* conflict it sleeps and calls Save again, up to MaxTxnRetries calls, and *)
(* returns nil when the calls are used up.  A Save is AddDelta: a new      *)
(* block linking the heads read, which becomes the only head; its success  *)
(* hook pushes it (PushLog) to the other nodes.                            *)
(*                                                                         *)
(* A node handles one PushLog at a time: the block is a no-op when known;  *)
(* otherwise the node fetches the missing ancestors from the sender         *)
(* (GetLog), which may time out, and commits MergeHeads; a conflicting     *)
(* merge is retried up to MaxTxnRetries times.  GetHeadLog is left out:   *)
(* its request and reply carry nothing in net.proto, so a lost push is    *)
(* never repaired here.  The network may lose and duplicate pushes; FaultBudget bounds the lost, *)
(* duplicated and timed-out deliveries of one run.                         *)
(*                                                                         *)
(* A Restart action of the test case (restartNodes) closes every node and  *)
(* reopens it on its file-backed store: blocks, heads and hver survive;    *)
(* the transaction of a merge in progress is gone with the closed          *)
(* database, and so are the pushes in flight on the closed connections.   *)
(* FaultBudget bounds the restarts together with the faults.              *)
(***************************************************************************)
EXTENDS MerkleDag

CONSTANTS
    Nodes,          \* the peers
    Writers,        \* local writers, each saving on one node
    WriterNode,     \* Writers -> Nodes
    Values,         \* field values a Save may write
    MaxWrites,      \* Saves per writer
    MaxTxnRetries,  \* db.MaxTxnRetries(): attempts of withRetry and of a merge
    FaultBudget     \* lost, duplicated or timed-out deliveries and
                    \* restarts per run

ASSUME WriterNode \in [Writers -> Nodes]
ASSUME MaxWrites \in Nat /\ MaxTxnRetries \in Nat \ {0} /\ FaultBudget \in Nat

VARIABLES
    blocks,   \* blocks[n]: BlockStore of node n
    heads,    \* heads[n]: HeadStore entry of the field on node n
    hver,     \* hver[n]: commits that wrote heads[n]
    wr,       \* wr[w]: the Save in progress of writer w and its counts
    mt,       \* mt[n]: the PushLog node n is handling
    msgs,     \* PushLog requests in flight
    faults    \* faults and restarts injected so far

vars == <<blocks, heads, hver, wr, mt, msgs, faults>>

Msg == [from : Nodes, to : Nodes, blk : UNION {blocks[n] : n \in Nodes}]

TypeOK ==
    /\ \A n \in Nodes : heads[n] \subseteq blocks[n]
    /\ hver \in [Nodes -> Nat]
    /\ \A w \in Writers :
         /\ wr[w].pc \in {"idle", "commit", "retry"}
         /\ wr[w].attempt \in 0..MaxTxnRetries - 1
         /\ wr[w].val \in Values
         /\ wr[w].saves \in 0..MaxWrites
         /\ wr[w].committed \in 0..MaxWrites
    /\ \A n \in Nodes : mt[n].pc \in {"idle", "commit", "retry"}
    /\ msgs \subseteq Msg
    /\ faults \in 0..FaultBudget

Init ==
    /\ blocks = [n \in Nodes |-> {}]
    /\ heads = [n \in Nodes |-> {}]
    /\ hver = [n \in Nodes |-> 0]
    /\ wr = [w \in Writers |-> [pc |-> "idle", attempt |-> 0,
                                val |-> CHOOSE v \in Values : TRUE,
                                snap |-> {}, snapVer |-> 0,
                                saves |-> 0, committed |-> 0]]
    /\ mt = [n \in Nodes |-> [pc |-> "idle", blk |-> {}, from |-> n,
                              fetched |-> {}, snapVer |-> 0, attempt |-> 0]]
    /\ msgs = {}
    /\ faults = 0

-----------------------------------------------------------------------------
(* Local writes: withRetry(Save) with Save = AddDelta in a transaction.    *)

(* createDoc / updateDoc call withRetry(Save); the Save's transaction      *)
(* reads the heads.                                                        *)
SaveStart(w) ==
    LET n == WriterNode[w] IN
    /\ wr[w].pc = "idle"
    /\ wr[w].saves < MaxWrites
    /\ \E v \in Values :
         wr' = [wr EXCEPT ![w] = [@ EXCEPT !.pc = "commit", !.attempt = 0,
                                   !.val = v, !.snap = heads[n],
                                   !.snapVer = hver[n]]]
    /\ UNCHANGED <<blocks, heads, hver, mt, msgs, faults>>

(* The next call of Save after a conflict (withRetry's continue).          *)
SaveRetry(w) ==
    LET n == WriterNode[w] IN
    /\ wr[w].pc = "retry"
    /\ wr' = [wr EXCEPT ![w] = [@ EXCEPT !.pc = "commit", !.snap = heads[n],
                                          !.snapVer = hver[n]]]
    /\ UNCHANGED <<blocks, heads, hver, mt, msgs, faults>>

(* Mutant: the store never detects a conflict on the heads entry.          *)
HeadsStaleNever(n, ver) == FALSE

(* The commit of a transaction that read heads[n] at version ver fails.    *)
HeadsStale(n, ver) == hver[n] # ver

(* Mutant: an off-by-one loop bound that makes one call too many.        *)
RetriesLeftOffByOne(attempt) == attempt < MaxTxnRetries

(* withRetry's loop bound: another call is made while i < MaxTxnRetries.   *)
RetriesLeft(attempt) == attempt + 1 < MaxTxnRetries

(* The Save's commit.  On success AddDelta's block is persisted and is the *)
(* only head, and the success hook pushes it to every other node.  On      *)
(* ErrTxnConflict withRetry calls Save again while calls are left, and     *)
(* otherwise returns nil.                                                  *)
SaveCommit(w) ==
    LET n == WriterNode[w]
        b == NewBlock(wr[w].snap, wr[w].val)
    IN
    /\ wr[w].pc = "commit"
    /\ IF ~HeadsStale(n, wr[w].snapVer)
       THEN /\ blocks' = [blocks EXCEPT ![n] = @ \cup {b}]
            /\ heads' = [heads EXCEPT ![n] = {b}]
            /\ hver' = [hver EXCEPT ![n] = @ + 1]
            /\ msgs' = msgs \cup {[from |-> n, to |-> p, blk |-> b] :
                                  p \in Nodes \ {n}}
            /\ wr' = [wr EXCEPT ![w] = [@ EXCEPT !.pc = "idle",
                                   !.saves = @ + 1, !.committed = @ + 1]]
       ELSE /\ wr' = [wr EXCEPT ![w] =
                        IF RetriesLeft(@.attempt)
                        THEN [@ EXCEPT !.pc = "retry", !.attempt = @ + 1]
                        ELSE [@ EXCEPT !.pc = "idle", !.saves = @ + 1]]
            /\ UNCHANGED <<blocks, heads, hver, msgs>>
    /\ UNCHANGED <<mt, faults>>

-----------------------------------------------------------------------------
(* Replication: PushLog, GetLog, MergeHeads.                               *)

(* Node n takes a PushLog from the network.  Its transaction reads the     *)
(* heads; a known block is a no-op; otherwise GetLog fetches the blocks it *)
(* is missing from the sender.  Keeping the message is a duplicate.        *)
ReceivePush(n) ==
    /\ mt[n].pc = "idle"
    /\ \E m \in msgs :
         /\ m.to = n
         /\ \E dup \in BOOLEAN :
              /\ dup => faults < FaultBudget
              /\ msgs' = IF dup THEN msgs ELSE msgs \ {m}
              /\ faults' = IF dup THEN faults + 1 ELSE faults
         /\ mt' = IF m.blk \in blocks[n] THEN mt
                  ELSE [mt EXCEPT ![n] =
                          [pc |-> "commit", blk |-> m.blk, from |-> m.from,
                           fetched |-> MissingBlocks(m.blk, blocks[n]),
                           snapVer |-> hver[n], attempt |-> 0]]
    /\ UNCHANGED <<blocks, heads, hver, wr>>

(* GetLog to the sender times out: ErrMissingAncestors, nothing of the     *)
(* chain is persisted and the push is gone.                                *)
GetLogTimeout(n) ==
    /\ mt[n].pc = "idle"
    /\ faults < FaultBudget
    /\ \E m \in msgs :
         /\ m.to = n
         /\ m.blk \notin blocks[n]
         /\ msgs' = msgs \ {m}
    /\ faults' = faults + 1
    /\ UNCHANGED <<blocks, heads, hver, wr, mt>>

(* The network loses a push.                                               *)
LosePush ==
    /\ faults < FaultBudget
    /\ \E m \in msgs : msgs' = msgs \ {m}
    /\ faults' = faults + 1
    /\ UNCHANGED <<blocks, heads, hver, wr, mt>>

(* MergeHeads commits: the fetched blocks are persisted verbatim and the   *)
(* heads become the reduced union with the pushed block.  A conflicting    *)
(* merge is retried while attempts are left, and dropped otherwise.        *)
MergeCommit(n) ==
    LET t == mt[n] IN
    /\ t.pc = "commit"
    /\ IF ~HeadsStale(n, t.snapVer)
       THEN /\ blocks' = [blocks EXCEPT ![n] = @ \cup t.fetched]
            /\ heads' = [heads EXCEPT ![n] = ReduceHeads(@ \cup {t.blk})]
            /\ hver' = [hver EXCEPT ![n] = @ + 1]
            /\ mt' = [mt EXCEPT ![n].pc = "idle"]
       ELSE /\ mt' = [mt EXCEPT ![n] =
                        IF RetriesLeft(t.attempt)
                        THEN [@ EXCEPT !.pc = "retry", !.attempt = @ + 1]
                        ELSE [@ EXCEPT !.pc = "idle"]]
            /\ UNCHANGED <<blocks, heads, hver>>
    /\ UNCHANGED <<wr, msgs, faults>>

(* The merge's new transaction: heads read again, GetLog again.            *)
MergeRetry(n) ==
    LET t == mt[n] IN
    /\ t.pc = "retry"
    /\ mt' = [mt EXCEPT ![n] =
                IF t.blk \in blocks[n]
                THEN [@ EXCEPT !.pc = "idle"]
                ELSE [@ EXCEPT !.pc = "commit",
                               !.fetched = MissingBlocks(t.blk, blocks[n]),
                               !.snapVer = hver[n]]]
    /\ UNCHANGED <<blocks, heads, hver, wr, msgs, faults>>

(* restartNodes on file-backed nodes, between two actions of the test     *)
(* case (no Save is in progress): closeNodes closes every peer and         *)
(* database, then every node is reopened on its path and restarted on its  *)
(* old address.  What was committed stays; merges in progress and pushes  *)
(* in flight are lost.                                                     *)
Restart ==
    /\ faults < FaultBudget
    /\ \A w \in Writers : wr[w].pc = "idle"
    /\ mt' = [n \in Nodes |-> [mt[n] EXCEPT !.pc = "idle"]]
    /\ msgs' = {}
    /\ faults' = faults + 1
    /\ UNCHANGED <<blocks, heads, hver, wr>>

-----------------------------------------------------------------------------
Next ==
    \/ \E w \in Writers : SaveStart(w) \/ SaveRetry(w) \/ SaveCommit(w)
    \/ \E n \in Nodes :
         \/ ReceivePush(n) \/ GetLogTimeout(n)
         \/ MergeCommit(n) \/ MergeRetry(n)
    \/ LosePush
    \/ Restart

Spec == Init /\ [][Next]_vars

-----------------------------------------------------------------------------
Abstract == INSTANCE ReplicatedDag WITH dag <- blocks

(* The nodes implement the MerkleCRDT's replicated DAG: a Save adds one    *)
(* block linking exactly the node's frontier at commit time, and a merge   *)
(* adds a block another node holds together with all of its ancestors;    *)
(* no lost, duplicated or timed-out push, no restart and no conflicting or *)
(* abandoned transaction changes a BlockStore any other way (AddDelta,     *)
(* MergeHeads, GetLog, withRetry, restartNodes).                           *)
ReplicatedDagSpec == Abstract!Spec

(* The HeadStore entry of every node is exactly the frontier of its        *)
(* BlockStore: no head is reachable through another head's links (the      *)
(* spec's head-dominance invariant) and every stored block is a head or    *)
(* an ancestor of one, so no commit is lost to a Save and a MergeHeads, or *)
(* two merges, racing on the same heads (AddDelta / MergeHeads / txn       *)
(* conflict detection).                                                    *)
HeadsAreFrontier ==
    \A n \in Nodes : heads[n] = ReduceHeads(blocks[n])

(* withRetry returns nil only for a Save that committed: every Save the    *)
(* test executor saw succeed wrote a block (createDoc / updateDoc treat a  *)
(* nil error as a saved document).                                         *)
SaveReportsTruthfully ==
    \A w \in Writers : wr[w].pc = "idle" => wr[w].saves = wr[w].committed

=============================================================================
