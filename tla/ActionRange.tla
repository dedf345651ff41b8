---------------------------- MODULE ActionRange -----------------------------
(***************************************************************************)
(* getActionRange of the integration test executor (src/unnamed/part_000):  *)
(* the first and last index of testCase.Actions that executeTestCase runs. *)
(*                                                                         *)
(* Under the change detector (DetectDbChanges) a test case runs twice on   *)
(* the same database: once with SetupOnly, which runs the setup actions,   *)
(* and once without, which runs the rest.  Actions are abstracted to their *)
(* kind: "SetupComplete", "Setup" (SchemaUpdate, CreateDoc, UpdateDoc,     *)
(* Restart) and "Other".  Indices are Go's, from 0, and -1 is Go's -1.     *)
(*                                                                         *)
(* The state is one input, chosen in Init: every action list up to         *)
(* MaxActions long and every value of the two flags.                       *)
(***************************************************************************)
EXTENDS Integers, Sequences, FiniteSets, FiniteSetsExt, SequencesExt

CONSTANT MaxActions

Kinds == {"SetupComplete", "Setup", "Other"}

VARIABLE input   \* [acts, detect, setupOnly]

Inputs == [acts : BoundedSeq(Kinds, MaxActions),
           detect : BOOLEAN, setupOnly : BOOLEAN]

Init == input \in Inputs

Next == UNCHANGED input

Spec == Init /\ [][Next]_input

-----------------------------------------------------------------------------
(* The ActionLoop: the index of the first action that is not a setup       *)
(* mutation (the loop breaks there), or -1 when there is none.             *)
FirstStop(acts) ==
    LET stops == {i \in 0..Len(acts) - 1 : acts[i + 1] # "Setup"}
    IN  IF stops = {} THEN -1 ELSE Min(stops)

(* Mutant: the second process starts at the SetupComplete action itself. *)
PastMarkerSame(sc) == sc

(* "+1 to exclude the SetupComplete action".                               *)
PastMarker(sc) == sc + 1

(* getActionRange: <<startIndex, endIndex>>.  setupCompleteIndex is the   *)
(* stop when it is a SetupComplete, firstNonSetupIndex when it is not.     *)
GetActionRange(acts, detect, setupOnly) ==
    LET last == Len(acts) - 1
        stop == FirstStop(acts)
        sc == IF stop > -1 /\ acts[stop + 1] = "SetupComplete" THEN stop ELSE -1
        fn == IF stop > -1 /\ acts[stop + 1] # "SetupComplete" THEN stop ELSE -1
    IN  CASE ~detect   -> <<0, last>>
          [] setupOnly -> <<0, IF sc > -1 THEN sc ELSE IF fn > -1 THEN fn - 1 ELSE last>>
          [] OTHER     -> <<IF sc > -1 THEN PastMarker(sc) ELSE IF fn > -1 THEN fn ELSE last, last>>

(* The indices executeTestCase's loop visits: startIndex..endIndex.        *)
Visited(acts, detect, setupOnly) ==
    LET r == GetActionRange(acts, detect, setupOnly) IN r[1]..r[2]

-----------------------------------------------------------------------------
(* Under the change detector the setup process and the second process      *)
(* between them run every action of the test case, in order, and no action *)
(* twice, except that a test case made only of setup mutations runs its    *)
(* last action again ("just use the last action").  The empty test case   *)
(* is LoopIndicesValid's.                                                  *)
SplitPartitionsActions ==
    LET acts == input.acts
        setup == Visited(acts, TRUE, TRUE)
        rest == Visited(acts, TRUE, FALSE)
        all == 0..Len(acts) - 1
    IN  input.detect /\ acts # << >> =>
          /\ setup \cup rest = all
          /\ \A i \in setup, j \in rest : i <= j
          /\ setup \cap rest = IF FirstStop(acts) = -1 THEN {Len(acts) - 1} ELSE {}

(* executeTestCase's loop only indexes actions that exist.                 *)
LoopIndicesValid ==
    Visited(input.acts, input.detect, input.setupOnly) \subseteq 0..Len(input.acts) - 1

(* getActionRange's comment: "If a SetupComplete action is provided, the   *)
(* actions will be split there".  Under the change detector the setup      *)
(* process runs the actions up to and including the first SetupComplete,  *)
(* and the second process runs the ones after it.                          *)
SplitAtSetupComplete ==
    LET acts == input.acts
        marks == {i \in 0..Len(acts) - 1 : acts[i + 1] = "SetupComplete"}
    IN  input.detect /\ marks # {} =>
          /\ Visited(acts, TRUE, TRUE) = 0..Min(marks)
          /\ Visited(acts, TRUE, FALSE) = Min(marks) + 1..Len(acts) - 1

=============================================================================
