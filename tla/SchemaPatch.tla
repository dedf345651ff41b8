----------------------------- MODULE SchemaPatch -----------------------------
(***************************************************************************)
(* substituteSchemaPatch of patchSchema (src/unnamed/part_003): before a   *)
(* JSON patch is applied to the collection descriptions, every FieldKind   *)
(* given by name is replaced by its enum value, so that PatchSchema takes  *)
(* "Field [FieldKind] values ... in either their raw integer form, or as   *)
(* string as per [FieldKindStringToEnumMapping]" (client.Store).           *)
(*                                                                         *)
(* A JSON pointer is the sequence of its elements (strings.TrimPrefix of  *)
(* the leading "/", then strings.Split).  A JSON value is a string, a      *)
(* number, or a field object whose "Kind" member is a string, a number or *)
(* absent.  A kind number is the enum value of a kind name, or a raw one. *)
(* KnownKinds stands for the keys of FieldKindStringToEnumMapping.         *)
(***************************************************************************)
EXTENDS Naturals, Sequences, SequencesExt

CONSTANTS
    KnownKinds,   \* the names FieldKindStringToEnumMapping maps
    KindNames,    \* the kind names a patch may use, known or not
    MaxOps        \* bound on the operations of a patch

ASSUME KnownKinds \subseteq KindNames

Str(s) == [t |-> "str", s |-> s]
Enum(s) == [t |-> "num", of |-> s]
RawNum == [t |-> "num", of |-> "raw"]
NoKind == [t |-> "absent"]
Obj(k) == [t |-> "obj", kind |-> k]
NoValue == [t |-> "novalue"]
NoPath == << "no path" >>

KindValues == {Str(s) : s \in KindNames} \cup {RawNum}
Values == KindValues \cup {Obj(k) : k \in KindValues \cup {NoKind}}

(* Pointers into the descriptions by collection name: the collection, its *)
(* schema, the fields array, one field (by index or the "-" append        *)
(* position), and a field's Kind or Name.                                  *)
Paths ==
    { <<"Users">>, <<"Users", "Schema">>, <<"Users", "Schema", "Fields">>,
      <<"Users", "Schema", "Fields", "1">>, <<"Users", "Schema", "Fields", "-">>,
      <<"Users", "Schema", "Fields", "1", "Kind">>,
      <<"Users", "Schema", "Fields", "1", "Name">>,
      <<"Fields", "Schema", "Fields", "1">> }

Ops == [path : Paths \cup {NoPath}, value : Values \cup {NoValue}]

VARIABLE input   \* [patch]

Inputs == [patch : BoundedSeq(Ops, MaxOps)]

Init == input \in Inputs

Next == UNCHANGED input

Spec == Init /\ [][Next]_input

-----------------------------------------------------------------------------
(* isField: the path points to a FieldDescription.                         *)
IsField(p) ==
    Len(p) = 4 /\ p[Len(p) - 1] = "Fields" /\ p[Len(p) - 2] = "Schema"

(* Mutant: the Kind and Fields elements are looked up one place off.       *)
IsFieldKindOffByOne(p) ==
    /\ Len(p) = 5 /\ p[Len(p) - 1] = "Kind"
    /\ p[Len(p) - 2] = "Fields" /\ p[Len(p) - 3] = "Schema"

(* isFieldKind: the path points to a FieldDescription.Kind property.       *)
IsFieldKind(p) ==
    /\ Len(p) = 5 /\ p[Len(p)] = "Kind"
    /\ p[Len(p) - 2] = "Fields" /\ p[Len(p) - 3] = "Schema"

(* A kind string: its enum value, or ErrFieldKindNotFound.                 *)
Substitute(k) ==
    IF k.s \in KnownKinds THEN [err |-> FALSE, v |-> Enum(k.s)]
    ELSE [err |-> TRUE, v |-> k]

Keep(v) == [err |-> FALSE, v |-> v]

(* The isField branch: the value unmarshalled into a map (an error when it *)
(* is not an object), its "Kind" substituted when it is a string.          *)
SubstituteField(v) ==
    CASE v.t # "obj"      -> [err |-> TRUE, v |-> v]
      [] v.kind.t = "str" -> LET r == Substitute(v.kind)
                             IN  [err |-> r.err, v |-> Obj(r.v)]
      [] OTHER            -> Keep(v)

(* The isFieldKind branch: the value unmarshalled, substituted when it is  *)
(* a string.                                                               *)
SubstituteKind(v) == IF v.t = "str" THEN Substitute(v) ELSE Keep(v)

(* One operation: Path() fails when it has none; only an operation with a  *)
(* value is looked at.                                                     *)
SubstituteOp(op) ==
    CASE op.path = NoPath       -> [err |-> TRUE, v |-> op.value]
      [] op.value = NoValue     -> Keep(op.value)
      [] IsField(op.path)       -> SubstituteField(op.value)
      [] IsFieldKind(op.path)   -> SubstituteKind(op.value)
      [] OTHER                  -> Keep(op.value)

(* substituteSchemaPatch: the operations in order, stopping at the first   *)
(* error.                                                                  *)
SubstituteSchemaPatch(patch) ==
    LET Step(acc, op) ==
          IF acc.err THEN acc
          ELSE LET r == SubstituteOp(op)
               IN  [err |-> r.err,
                    patch |-> Append(acc.patch, [op EXCEPT !.value = r.v])]
    IN  FoldLeft(Step, [err |-> FALSE, patch |-> << >>], patch)

-----------------------------------------------------------------------------
(* Reference: the pointers that name one field, and one field's Kind.      *)
Elems == UNION {Range(p) : p \in Paths}
NamesField(p) == \E c, i \in Elems : p = <<c, "Schema", "Fields", i>>
NamesFieldKind(p) == \E c, i \in Elems : p = <<c, "Schema", "Fields", i, "Kind">>

Unknown(k) == k.t = "str" /\ k.s \notin KnownKinds

(* What an operation is meant to become: a kind name it sets, as a field's *)
(* Kind or as the Kind itself, replaced by its enum value.                 *)
Intended(op) ==
    LET v == op.value IN
    CASE NamesField(op.path) /\ v.t = "obj" /\ v.kind.t = "str"
           -> [op EXCEPT !.value = Obj(Enum(v.kind.s))]
      [] NamesFieldKind(op.path) /\ v.t = "str"
           -> [op EXCEPT !.value = Enum(v.s)]
      [] OTHER -> op

(* An operation PatchSchema must refuse: no path, a field that is not an   *)
(* object, or a kind name FieldKindStringToEnumMapping does not have.      *)
Refused(op) ==
    \/ op.path = NoPath
    \/ op.value # NoValue /\ NamesField(op.path) /\
         (op.value.t # "obj" \/ Unknown(op.value.kind))
    \/ op.value # NoValue /\ NamesFieldKind(op.path) /\ Unknown(op.value)

(* substituteSchemaPatch accepts kinds by name wherever a patch sets one   *)
(* field or one field's Kind: it fails exactly when some operation must be *)
(* refused, and otherwise every kind name so set becomes its enum value    *)
(* and every other operation is left as it is (substituteSchemaPatch,      *)
(* isField, isFieldKind).                                                  *)
KindNamesSubstituted ==
    LET r == SubstituteSchemaPatch(input.patch) IN
    /\ r.err <=> \E i \in DOMAIN input.patch : Refused(input.patch[i])
    /\ ~r.err => r.patch = [i \in DOMAIN input.patch |-> Intended(input.patch[i])]

=============================================================================
