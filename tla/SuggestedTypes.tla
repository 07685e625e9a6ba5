----------------------------- MODULE SuggestedTypes -----------------------------
(***************************************************************************)
(* The type the server suggests for a variable that declares none: how the *)
(* shapes observed in several places merge                                 *)
(* (tfls-core/src/variable_type.rs, merge_types), and what the code action *)
(* writes into the variable's block (tfls-lsp/src/handlers/code_action.rs).*)
(***************************************************************************)
EXTENDS ModuleInputs

(* Merging observations.  AnyType is both "not known" and "they disagree".     *)
RECURSIVE MergeTypes(_, _)

MergeObservations(types) == FoldLeft(MergeTypes, AnyType, types)

MergeTypesLongest(a, b) ==
    IF a[1] = "tuple" /\ b[1] = "tuple" THEN IF Len(a[2]) >= Len(b[2]) THEN a ELSE b
    ELSE IF a = AnyType THEN b ELSE a

MergeTypes(a, b) ==
    CASE a = AnyType \/ a = b -> b
      [] b = AnyType -> a
      [] a[1] = b[1] /\ a[1] \in Wraps -> <<a[1], MergeTypes(a[2], b[2])>>
      [] a[1] = "tuple" /\ b[1] = "tuple" ->
           IF Len(a[2]) = Len(b[2])
           THEN <<"tuple", [i \in DOMAIN a[2] |-> MergeTypes(a[2][i], b[2][i])]>>
           ELSE <<"list", MergeObservations(a[2] \o b[2])>>
      [] a[1] \in {"list", "set"} /\ b[1] = "tuple" ->
           <<"list", MergeObservations(<<a[2]>> \o b[2])>>
      [] a[1] = "tuple" /\ b[1] \in {"list", "set"} ->
           <<"list", MergeObservations(<<b[2]>> \o a[2])>>
      [] a[1] = "object" /\ b[1] = "object" ->
           <<"object", [k \in DOMAIN a[2] \cup DOMAIN b[2] |->
               CASE k \notin DOMAIN b[2] -> a[2][k]
                 [] k \notin DOMAIN a[2] -> b[2][k]
                 [] OTHER -> MergeTypes(a[2][k], b[2][k])]>>
      [] OTHER -> AnyType

\* merged_assigned_type and the code action: the variable's own default first.
SuggestedFrom ==
    IF Actionable(Shape[variable.default]) THEN <<variable.default>> ELSE sources

Suggestion ==
    IF Actionable(Shape[variable.default]) THEN Shape[variable.default]
    ELSE LET merged == MergeObservations(assigned)
         IN IF Actionable(merged) THEN merged ELSE AnyType

---------------------------------------------------------------------------
RECURSIVE Mentioned(_, _)
\* Whether a form of expression occurs in e, down to the bodies of literals.
Mentioned(e, forms) ==
    \/ e[1] \in forms
    \/ e[1] \in {"array", "object"} /\ \E i \in DOMAIN e[2] : Mentioned(e[2][i], forms)
    \/ e[1] = "cond" /\ (Mentioned(e[2], forms) \/ Mentioned(e[3], forms))
    \/ e[1] = "for" /\ Mentioned(e[4], forms)

\* Values of one shape: those a reader would write the same type for.
RECURSIVE Alike(_, _)
Alike(v, w) ==
    \/ NullValue \in {v, w}
    \/ v[1] \in Primitives /\ v = w
    \/ /\ v[1] \in SequenceKinds /\ w[1] \in SequenceKinds
       /\ IF v[1] = "tuple" /\ w[1] = "tuple" /\ Len(v[2]) = Len(w[2])
          THEN \A i \in DOMAIN v[2] : Alike(v[2][i], w[2][i])
          ELSE \A x, y \in Within(v) \cup Within(w) : Alike(x, y)
    \/ /\ v[1] = "object" /\ w[1] = "object" /\ DOMAIN v[2] = DOMAIN w[2]
       /\ \A k \in DOMAIN v[2] : Alike(v[2][k], w[2][k])
    \/ /\ v[1] = "map" /\ w[1] = "map"
       /\ \A x, y \in Within(v) \cup Within(w) : Alike(x, y)

(* Everything the variable may hold where the suggestion came from.        *)
Observed == UNION {ValuesOf[SuggestedFrom[i]] : i \in DOMAIN SuggestedFrom}

(* The type the code action writes into a variable block accepts every     *)
(* value of the default or of the callers it was inferred from, and drops  *)
(* no attribute of any, whatever order their directories and files were    *)
(* read in, if a reader would give all of these one type (merge_types,     *)
(* merged_assigned_type, code_action.rs:3071-3104).  Excepted are sets and *)
(* lists built from literals, whose shape is an object of their elements,  *)
(* and lookups.                                                            *)
SuggestionFits ==
    /\ variable.type = Untyped
    /\ \A v, w \in Observed : Alike(v, w)
    /\ \A i \in DOMAIN SuggestedFrom :
         ~Mentioned(SuggestedFrom[i], {"toset", "tolist", "lookup"})
    => \A v \in Observed : Accepts(Suggestion, v) /\ ~Drops(Suggestion, v)
=============================================================================
