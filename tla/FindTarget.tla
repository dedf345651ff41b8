----------------------------- MODULE FindTarget -----------------------------
(***************************************************************************)
(* findTargetNode of the explain test helpers                              *)
(* (src/tests/integration/explain.go): the attributes of the               *)
(* (toSkip+1)-th plan node named targetName in an explain graph, checked  *)
(* against a reference definition over every small graph.                  *)
(*                                                                         *)
(* An explain graph value is a map (string keys), a list of maps, or an    *)
(* attribute; they are tagged records because the code switches on the     *)
(* dynamic type.  Keys are "A" and "B", plan node names, and "x", an       *)
(* attribute; KeyOrder is the order sort.Strings puts them in.  The uint   *)
(* counters wrap modulo UintModulus (2^64 in the code).                    *)
(***************************************************************************)
EXTENDS Naturals, Sequences, SequencesExt

CONSTANTS
    UintModulus,  \* 2^w for the width w of uint
    MaxSkip       \* bound on OccurancesToSkip

PlanNodes == {"A", "B"}
KeyOrder == <<"A", "B", "x">>
Leaf == [t |-> "leaf"]
NoValue == [t |-> "nil"]

AsMap(f) == [t |-> "map", m |-> f]
AsList(s) == [t |-> "list", l |-> s]

(* Graphs up to nesting depth 2: maps whose plan-node keys hold maps or    *)
(* lists of maps of the level below, and an optional attribute.           *)
WithAttr(f) == {f, [k \in DOMAIN f \cup {"x"} |-> IF k = "x" THEN Leaf ELSE f[k]]}
MapsOver(vals) ==
    UNION {UNION {WithAttr(f) : f \in [K -> vals]} : K \in SUBSET PlanNodes}
Maps0 == {AsMap(f) : f \in WithAttr(<< >>)}
Vals1 == {AsMap(f) : f \in MapsOver(Maps0)} \cup
         {AsList(s) : s \in {<<m>> : m \in Maps0} \cup (Maps0 \X Maps0)}
Maps1 == {v \in Vals1 : v.t = "map"}
Graphs == {AsMap(f) : f \in MapsOver(Vals1)} \cup {AsList(s) : s \in Maps1 \X Maps1}

VARIABLE input   \* [name, toSkip, include, graph]

Inputs == [name : PlanNodes, toSkip : 0..MaxSkip,
           include : BOOLEAN, graph : Graphs]

Init == input \in Inputs

Next == UNCHANGED input

Spec == Init /\ [][Next]_input

-----------------------------------------------------------------------------
UintSub(a, b) == (a - b) % UintModulus

(* isPlanNode.                                                             *)
IsPlanNode(key) == key \in PlanNodes

(* trimSubNodes: a map without its plan-node keys; anything else as is.    *)
TrimSubNodes(v) ==
    IF v.t = "map"
    THEN AsMap([k \in {k \in DOMAIN v.m : ~IsPlanNode(k)} |-> v.m[k]])
    ELSE v

(* The sorted keys of a map.                                               *)
SortedKeys(f) == SelectSeq(KeyOrder, LAMBDA k : k \in DOMAIN f)

Ret(include, v) == IF include THEN v ELSE TrimSubNodes(v)

Result(v, matches, found) == [val |-> v, matches |-> matches, found |-> found]

RECURSIVE FindTargetNode(_, _, _, _), FindInKeys(_, _, _, _, _, _),
          FindInItems(_, _, _, _, _, _)

(* findTargetNode: the type switch.                                        *)
FindTargetNode(name, toSkip, include, v) ==
    CASE v.t = "map"  -> FindInKeys(name, toSkip, include, v.m, SortedKeys(v.m), 0)
      [] v.t = "list" -> FindInItems(name, toSkip, include, v.l, 1, 0)
      [] OTHER        -> Result(NoValue, 0, FALSE)

(* Mutant: the matches of a subtree are not taken off toSkip.              *)
SkipLeftKeep(toSkip, matches) == toSkip

(* toSkip -= matches.                                                      *)
SkipLeft(toSkip, matches) == UintSub(toSkip, matches)

(* The map case: the loop over sortedKeys, from the first key of ks, with  *)
(* total = totalMatchedSoFar.  A match with toSkip = 0 is the target; any  *)
(* other plan node is searched with what is left to skip.                  *)
FindInKeys(name, toSkip, include, m, ks, total) ==
    IF ks = << >> THEN Result(NoValue, total, FALSE)
    ELSE
    LET key == Head(ks)
        hit == key = name
    IN  IF ~IsPlanNode(key)
        THEN FindInKeys(name, toSkip, include, m, Tail(ks), total)
        ELSE IF hit /\ toSkip = 0
        THEN Result(Ret(include, m[key]), total + 1, TRUE)
        ELSE
        LET skip == IF hit THEN UintSub(toSkip, 1) ELSE toSkip
            r == FindTargetNode(name, skip, include, m[key])
            sum == total + (IF hit THEN 1 ELSE 0) + r.matches
        IN  IF r.found THEN Result(Ret(include, r.val), sum, TRUE)
            ELSE FindInKeys(name, SkipLeft(skip, r.matches), include, m, Tail(ks), sum)

(* The []map case: each item in turn.                                      *)
FindInItems(name, toSkip, include, s, i, total) ==
    IF i > Len(s) THEN Result(NoValue, total, FALSE)
    ELSE
    LET r == FindTargetNode(name, toSkip, include, s[i])
        sum == total + r.matches
    IN  IF r.found THEN Result(Ret(include, r.val), sum, TRUE)
        ELSE FindInItems(name, SkipLeft(toSkip, r.matches), include, s, i + 1, sum)

-----------------------------------------------------------------------------
(* Mutant: only the first level is trimmed; the plan-node values keep     *)
(* their attributes.                                                       *)
TrimExplainAttributesShallow(v) ==
    AsMap([k \in {k \in DOMAIN v.m : IsPlanNode(k)} |-> v.m[k]])

RECURSIVE TrimExplainAttributes(_), TrimItems(_)

(* trimExplainAttributes: the map without its attribute keys, with every   *)
(* plan-node value trimmed in turn, a map directly and a []map item by     *)
(* item; any other value fails the assertion and is kept as it is.         *)
TrimExplainAttributes(v) ==
    LET TrimValue(x) == CASE x.t = "map"  -> TrimExplainAttributes(x)
                          [] x.t = "list" -> AsList(TrimItems(x.l))
                          [] OTHER        -> x
    IN  AsMap([k \in {k \in DOMAIN v.m : IsPlanNode(k)} |-> TrimValue(v.m[k])])

(* The []map case: trimmedArrayElements.                                   *)
TrimItems(l) == [i \in DOMAIN l |-> TrimExplainAttributes(l[i])]

-----------------------------------------------------------------------------
(* Reference: the values of the plan nodes named name, in the order of a   *)
(* pre-order walk that visits the keys of a map in sorted order and only  *)
(* descends through plan-node keys.                                        *)
RECURSIVE Occurrences(_, _)
Occurrences(name, v) ==
    CASE v.t = "map" ->
           FoldLeft(LAMBDA acc, k :
                      acc \o (IF k = name THEN << v.m[k] >> ELSE << >>)
                          \o Occurrences(name, v.m[k]),
                    << >>, SelectSeq(SortedKeys(v.m), IsPlanNode))
      [] v.t = "list" ->
           FoldLeft(LAMBDA acc, item : acc \o Occurrences(name, item), << >>, v.l)
      [] OTHER -> << >>

(* findTargetNode finds the (toSkip+1)-th occurrence of the target in that *)
(* walk, with its sub nodes trimmed unless IncludeChildNodes, and reports  *)
(* not found when there are no more than toSkip occurrences ("0 means     *)
(* first occurance"), so that skips behave the same on every run.         *)
FindsTheOccurrence ==
    LET occ == Occurrences(input.name, input.graph)
        r == FindTargetNode(input.name, input.toSkip, input.include, input.graph)
    IN  IF input.toSkip < Len(occ)
        THEN r.found /\ r.val = Ret(input.include, occ[input.toSkip + 1])
        ELSE ~r.found

(* The pattern assertion's view of a value: every map of a result list    *)
(* trimmed (assertExplainRequestResults), or one map trimmed.              *)
PatternOf(v) == IF v.t = "list"
                THEN AsList([i \in DOMAIN v.l |-> TrimExplainAttributes(v.l[i])])
                ELSE TrimExplainAttributes(v)

(* The pattern assertion (ExpectedPatterns, over trimExplainAttributes of  *)
(* each result) and the target assertion (findTargetNode) see the same     *)
(* plan nodes in the same order: in the trimmed graph the occurrences of   *)
(* every plan node are those of the full graph, trimmed, so an             *)
(* OccurancesToSkip counted on a pattern picks the same node.              *)
PatternKeepsPlanNodes ==
    \A name \in PlanNodes :
        LET occ == Occurrences(name, input.graph)
        IN  Occurrences(name, PatternOf(input.graph))
              = [i \in DOMAIN occ |-> PatternOf(occ[i])]

=============================================================================
