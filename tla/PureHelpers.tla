----------------------------- MODULE PureHelpers -----------------------------
(***************************************************************************)
(* The pure helpers, checked together: of the integration test executor, *)
(* getActionRange (ActionRange), which splits a test case's actions        *)
(* between the two processes of the change detector, and findTargetNode   *)
(* and trimExplainAttributes (FindTarget), which pick the nodes the        *)
(* explain assertions compare; of the database, substituteSchemaPatch      *)
(* (SchemaPatch), which replaces kind names in a schema patch.             *)
(*                                                                         *)
(* A behaviour holds one input of one of the helpers, chosen in Init; the  *)
(* other helpers' inputs are NoInput.                                      *)
(***************************************************************************)
CONSTANTS
    MaxActions,   \* bound on the actions of a test case
    UintModulus,  \* 2^w for the width w of uint
    MaxSkip,      \* bound on OccurancesToSkip
    KnownKinds,   \* the names FieldKindStringToEnumMapping maps
    KindNames,    \* the kind names a schema patch may use
    MaxOps        \* bound on the operations of a schema patch

VARIABLES
    ar,   \* the input of getActionRange, or NoInput
    ft,   \* the input of findTargetNode, or NoInput
    sp    \* the input of substituteSchemaPatch, or NoInput

vars == <<ar, ft, sp>>

AR == INSTANCE ActionRange WITH input <- ar
FT == INSTANCE FindTarget WITH input <- ft
SP == INSTANCE SchemaPatch WITH input <- sp

NoInput == [none |-> TRUE]

Init ==
    \/ ar \in AR!Inputs /\ ft = NoInput /\ sp = NoInput
    \/ ar = NoInput /\ ft \in FT!Inputs /\ sp = NoInput
    \/ ar = NoInput /\ ft = NoInput /\ sp \in SP!Inputs

Next == UNCHANGED vars

Spec == Init /\ [][Next]_vars

-----------------------------------------------------------------------------
(* getActionRange: under the change detector the setup process and the    *)
(* second process between them run every action of a non-empty test case, *)
(* in order, and none twice except the documented rerun of the last        *)
(* action of a setup-only test case (ActionRange!SplitPartitionsActions).  *)
SplitPartitionsActions == ar # NoInput => AR!SplitPartitionsActions

(* findTargetNode returns the (OccurancesToSkip+1)-th node of the target  *)
(* name in a sorted pre-order walk, trimmed unless IncludeChildNodes, and  *)
(* its unsigned toSkip never wraps in a way that changes the answer        *)
(* (FindTarget!FindsTheOccurrence).                                        *)
FindsTheOccurrence == ft # NoInput => FT!FindsTheOccurrence

(* The pattern assertion (trimExplainAttributes) and the target assertion  *)
(* (findTargetNode) see the same plan nodes in the same order              *)
(* (FindTarget!PatternKeepsPlanNodes).                                     *)
PatternKeepsPlanNodes == ft # NoInput => FT!PatternKeepsPlanNodes

(* substituteSchemaPatch fails exactly when an operation has no path, sets *)
(* a field to a non-object or a kind to an unknown name, and otherwise     *)
(* replaces every kind name set on one field or one field's Kind by its    *)
(* enum value (SchemaPatch!KindNamesSubstituted).                          *)
KindNamesSubstituted == sp # NoInput => SP!KindNamesSubstituted

=============================================================================
