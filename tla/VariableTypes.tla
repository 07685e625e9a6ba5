----------------------------- MODULE VariableTypes -----------------------------
(***************************************************************************)
(* The types of variables (tfls-core/src/variable_type.rs): what a type    *)
(* constraint is read as, what shape an expression is given without being  *)
(* evaluated, how shapes observed in several places merge, and when a      *)
(* shape satisfies a declared type.                                        *)
(*                                                                         *)
(* A type is <<"any">>, <<"prim", kind>>, <<"list" | "set" | "map", T>>,   *)
(* <<"tuple", sequence of types>> or <<"object", function from keys to     *)
(* types>>.  A declared type may also have <<"optional", T>> fields.       *)
(*                                                                         *)
(* The second half says what Terraform makes of the same expressions and   *)
(* constraints: the values an expression may have and the values a         *)
(* constraint accepts.                                                     *)
(*                                                                         *)
(* What is defined by going down a type, an expression or a value is a     *)
(* function: XBy says what X is of the whole, given the function for the   *)
(* parts, and X is the function that gives itself.                         *)
(***************************************************************************)
EXTENDS Integers, Sequences, FiniteSets, SequencesExt

CONSTANTS
    KeyOrder,  \* the keys of objects, in the order of a BTreeMap
    Depth      \* bound: how deeply types and expressions nest

ASSUME KeysAssumption == DOMAIN KeyOrder = 1..Len(KeyOrder) /\ Len(KeyOrder) \in Nat
ASSUME DepthAssumption == Depth \in Nat

AnyType == <<"any">>
Prim(kind) == <<"prim", kind>>
Wraps == {"list", "set", "map"}
Primitives == {"string", "number", "bool"}
NullValue == <<"null">>
SequenceKinds == {"tuple", "list", "set"}
KeyedKinds == {"object", "map"}

KeyNames == {KeyOrder[i] : i \in DOMAIN KeyOrder}
\* The functions from some of the keys to S: one after another, the keys after
\* the i-th are decided to be in K or not, the first i are still open.
KeyedBy(i, keyed, S) ==
    [K \in SUBSET KeyNames |->
        IF i = 0 THEN [K -> S] ELSE keyed[i - 1][K] \cup keyed[i - 1][K \cup {KeyOrder[i]}]]
Keyed(S) ==
    LET keyed[i \in 0..Len(KeyOrder)] == KeyedBy(i, keyed, S) IN keyed[Len(KeyOrder)][{}]

\* Types whose parts are of inner, and those that nest at most n deep.
TypesWith(inner) ==
    {AnyType} \cup ({"prim"} \X Primitives) \cup ((Wraps \cup {"optional"}) \X inner)
      \cup ({"tuple"} \X Seq(inner)) \cup ({"object"} \X Keyed(inner))
TypesTo[n \in 0..Depth] == TypesWith(IF n = 0 THEN {} ELSE TypesTo[n - 1])
Types == TypesTo[Depth]

ValuesWith(inner) ==
    {NullValue} \cup {<<kind>> : kind \in Primitives}
      \cup (SequenceKinds \X Seq(inner)) \cup (KeyedKinds \X Keyed(inner))
\* Comprehensions and samples go one deeper than their expressions and types.
ValuesTo[n \in 0..Depth + 1] == ValuesWith(IF n = 0 THEN {} ELSE ValuesTo[n - 1])
AllValues == ValuesTo[Depth + 1]

\* Expressions made of literals only: what Terraform allows as a default.
ConstantsWith(parts) ==
    ({"lit"} \X (Primitives \cup {"null"})) \cup ({"array"} \X Seq(parts))
      \cup ({"object"} \X Keyed(parts)) \cup ({"cond"} \X parts \X parts)
ConstantsTo[n \in 0..Depth] == ConstantsWith(IF n = 0 THEN {} ELSE ConstantsTo[n - 1])
Constants == ConstantsTo[Depth]

(* Expressions: literals, arrays and objects of expressions, conditionals, *)
(* comprehensions with or without keys, a literal list of strings given to *)
(* toset or tolist, calls, a declared variable, a local or an output of    *)
(* another module, each.value, and what is read of one of these.           *)
TermsWith(parts) ==
    ConstantsWith(parts)
      \cup ({"for"} \X BOOLEAN \X parts \X parts)
      \cup ({"toset", "tolist"} \X SUBSET KeyNames) \cup ({"var"} \X Types)
      \cup ({"concat", "merge", "first"} \X Seq(parts))
      \cup ({"lookup"} \X parts \X KeyNames \X parts) \cup ({"field"} \X parts \X KeyNames)
      \cup ({"element", "values", "chain", "each", "index"} \X parts)
TermsTo[n \in 0..Depth] == TermsWith(IF n = 0 THEN {} ELSE TermsTo[n - 1])
Terms == TermsTo[Depth]

---------------------------------------------------------------------------
(* What the server infers.                                                 *)

TypeOfBy(declared, typeOf) ==
    CASE declared[1] \in {"any", "optional"} -> AnyType
      [] declared[1] = "prim" -> declared
      [] declared[1] \in Wraps -> <<declared[1], typeOf[declared[2]]>>
      [] OTHER -> <<declared[1], [i \in DOMAIN declared[2] |-> typeOf[declared[2][i]]]>>

TypeOf[declared \in Types] == TypeOfBy(declared, TypeOf)

\* The branches of a conditional: objects take the fields of both.
MergeShapesBy(a, b, merge) ==
    CASE a = AnyType -> b
      [] a[1] = "object" /\ b[1] = "object" ->
           <<"object", [k \in DOMAIN a[2] \cup DOMAIN b[2] |->
               CASE k \notin DOMAIN b[2] -> a[2][k]
                 [] k \notin DOMAIN a[2] -> b[2][k]
                 [] OTHER -> merge[a[2][k]][b[2][k]]]>>
      [] OTHER -> a

MergeShapes[a \in Types] == [b \in Types |-> MergeShapesBy(a, b, MergeShapes)]

TypesIn(T) == {T[2][i] : i \in DOMAIN T[2]}
AllEqual(types) == types # {} /\ \A T, U \in types : T = U
\* The type all of them are, any if they differ or there is none.
Shared(types) == IF AllEqual(types) THEN CHOOSE T \in types : TRUE ELSE AnyType

ElementOf(T) ==
    CASE T[1] = "tuple" -> Shared(TypesIn(T))
      [] T[1] \in {"list", "set"} -> T[2]
      [] OTHER -> AnyType

Concatenated(types) ==
    LET elements == UNION {CASE T[1] = "tuple" -> TypesIn(T)
                             [] T[1] \in {"list", "set"} -> {T[2]}
                             [] OTHER -> {T} : T \in types}
    IN IF AllEqual(elements) THEN <<"list", Shared(elements)>> ELSE AnyType

ValueList(T) ==
    CASE T[1] = "map" -> <<"list", T[2]>>
      [] T[1] = "object" /\ AllEqual(TypesIn(T)) -> <<"list", Shared(TypesIn(T))>>
      [] OTHER -> AnyType

\* Keys of later arguments win.
Combined(types) ==
    LET keys == UNION {DOMAIN types[i][2] : i \in DOMAIN types}
        last(k) == CHOOSE i \in DOMAIN types :
                     /\ k \in DOMAIN types[i][2]
                     /\ \A j \in DOMAIN types : k \in DOMAIN types[j][2] => j <= i
    IN IF (\A i \in DOMAIN types : types[i][1] = "object") /\ keys # {}
       THEN <<"object", [k \in keys |-> types[last(k)][2][k]]>>
       ELSE AnyType

\* The default is asked only where neither the key nor the values tell.
LookedUp(T, key, default) ==
    CASE T[1] = "object" /\ key \in DOMAIN T[2] -> T[2][key]
      [] T[1] = "map" -> T[2]
      [] T[1] = "object" /\ AllEqual(TypesIn(T)) -> Shared(TypesIn(T))
      [] OTHER -> default

FirstConcrete(types) ==
    LET concrete == SelectSeq(types, LAMBDA T : T # AnyType)
    IN IF concrete = <<>> THEN AnyType ELSE Head(concrete)

\* each.value: what the elements of the for_each are.  Of objects, every field
\* any of them has, with the type the first has it at.
EachValue(T) ==
    LET objects == \A U \in TypesIn(T) : U[1] = "object"
        fields == UNION {DOMAIN U[2] : U \in TypesIn(T)}
        first(k) == CHOOSE i \in DOMAIN KeyOrder :
                      /\ KeyOrder[i] \in DOMAIN T[2] /\ k \in DOMAIN T[2][KeyOrder[i]][2]
                      /\ \A j \in 1..i-1 : ~(/\ KeyOrder[j] \in DOMAIN T[2]
                                            /\ k \in DOMAIN T[2][KeyOrder[j]][2])
    IN CASE T[1] \in Wraps -> T[2]
         [] T[1] = "object" /\ objects /\ fields # {} ->
              <<"object", [k \in fields |-> T[2][KeyOrder[first(k)]][2][k]]>>
         [] T[1] = "object" /\ ~objects -> Shared(TypesIn(T))
         [] OTHER -> AnyType

FieldType(T, key) ==
    CASE T[1] = "object" -> IF key \in DOMAIN T[2] THEN T[2][key] ELSE AnyType
      [] T[1] \in Wraps -> T[2]
      [] OTHER -> AnyType

\* The index itself is not looked at.
IndexType(T) ==
    CASE T[1] \in Wraps -> T[2]
      [] T[1] = "tuple" /\ T[2] # <<>> -> T[2][1]
      [] OTHER -> AnyType

ShapeBy(e, shape) ==
    LET shapes(es) == [i \in DOMAIN es |-> shape[es[i]]]
        among(es) == {shape[es[i]] : i \in DOMAIN es}
    IN CASE e[1] = "lit" -> IF e[2] = "null" THEN AnyType ELSE Prim(e[2])
         [] e[1] = "array" -> <<"tuple", shapes(e[2])>>
         [] e[1] = "object" -> <<"object", shapes(e[2])>>
         [] e[1] = "cond" -> MergeShapes[shape[e[2]]][shape[e[3]]]
         [] e[1] = "for" -> <<IF e[2] THEN "map" ELSE "list", shape[e[4]]>>
         [] e[1] \in {"toset", "tolist"} ->
              IF e[2] = {} THEN AnyType ELSE <<"object", [k \in e[2] |-> AnyType]>>
         [] e[1] = "element" -> ElementOf(shape[e[2]])
         [] e[1] = "concat" -> Concatenated(among(e[2]))
         [] e[1] = "values" -> ValueList(shape[e[2]])
         [] e[1] = "merge" -> Combined(shapes(e[2]))
         [] e[1] = "lookup" -> LookedUp(shape[e[2]], e[3], shape[e[4]])
         [] e[1] = "first" -> FirstConcrete(shapes(e[2]))
         [] e[1] = "var" -> TypeOf[e[2]]
         [] e[1] = "chain" -> shape[e[2]]
         [] e[1] = "each" -> EachValue(shape[e[2]])
         [] e[1] = "field" -> FieldType(shape[e[2]], e[3])
         [] e[1] = "index" -> IndexType(shape[e[2]])
         [] OTHER -> AnyType

Shape[e \in Terms] == ShapeBy(e, Shape)

PrimitivesEqual(a, b) == a = b
PrimitivesCompatible(a, b) == a = b \/ "string" \in {a, b}

\* The shapes that satisfy a type.  An optional field is read as any: it may
\* be missing.
SatisfiesBy(declared, actual, satisfying) ==
    LET d == declared[1]  a == actual[1]
    IN \/ AnyType \in {declared, actual}
       \/ d = "prim" /\ a = "prim" /\ PrimitivesCompatible(declared[2], actual[2])
       \/ /\ \/ d \in {"list", "set"} /\ a = "tuple"
             \/ d = "map" /\ a = "object"
          /\ \A T \in TypesIn(actual) : T \in satisfying[declared[2]]
       \/ d \in {"list", "set"} /\ a \in {"list", "set"}
       \/ d = "map" /\ a = "map"
       \/ /\ d = "tuple" /\ a = "tuple" /\ Len(declared[2]) = Len(actual[2])
          /\ \A i \in DOMAIN declared[2] : actual[2][i] \in satisfying[declared[2][i]]
       \/ /\ d = "object" /\ a = "object" /\ DOMAIN actual[2] \subseteq DOMAIN declared[2]
          /\ \A k \in DOMAIN declared[2] :
               IF k \in DOMAIN actual[2] THEN actual[2][k] \in satisfying[declared[2][k]]
                                         ELSE declared[2][k] = AnyType

Satisfying[declared \in Types] ==
    {actual \in Types : SatisfiesBy(declared, actual, Satisfying)}
Satisfies(declared, actual) == actual \in Satisfying[declared]

Actionable(T) == T # AnyType /\ ~(T[1] \in {"tuple", "object"} /\ DOMAIN T[2] = {})

---------------------------------------------------------------------------
(* What Terraform does.  A value is <<"null">>, a primitive <<kind>>, a    *)
(* sequence <<"tuple" | "list" | "set", elements>> or a keyed value        *)
(* <<"object" | "map", function from keys to values>>.                     *)

Within(v) == {v[2][i] : i \in DOMAIN v[2]}

\* One value for each index, out of those it may have.
Picks(f) ==
    {g \in [DOMAIN f -> UNION {f[i] : i \in DOMAIN f}] : \A i \in DOMAIN f : g[i] \in f[i]}

\* Values a variable of this type may be given; none or one element suffice.
SamplesBy(declared, samples) ==
    LET inner == declared[2]
    IN CASE declared[1] = "any" -> {<<"string">>, <<"object", [k \in {"a"} |-> <<"string">>]>>}
         [] declared[1] = "prim" -> {<<inner>>}
         [] declared[1] = "optional" -> samples[inner] \cup {NullValue}
         [] declared[1] \in {"list", "set"} ->
              {<<declared[1], s>> : s \in {<<>>} \cup {<<v>> : v \in samples[inner]}}
         [] declared[1] = "map" -> {<<"map", [k \in {"a"} |-> v]>> : v \in samples[inner]}
         [] OTHER -> {<<declared[1], f>> : f \in Picks([i \in DOMAIN inner |-> samples[inner[i]]])}

Samples[declared \in Types] == SamplesBy(declared, Samples)

ValuesOfBy(e, values) ==
    LET choices == Picks([i \in DOMAIN e[2] |-> values[e[2][i]]])
        overlaid(args, k) == args[CHOOSE i \in DOMAIN args :
                                    /\ k \in DOMAIN args[i][2]
                                    /\ \A j \in DOMAIN args : k \in DOMAIN args[j][2] => j <= i][2][k]
    IN CASE e[1] = "lit" -> {<<e[2]>>}
         [] e[1] = "array" -> {<<"tuple", s>> : s \in choices}
         [] e[1] = "object" -> {<<"object", f>> : f \in choices}
         [] e[1] = "cond" -> values[e[2]] \cup values[e[3]]
         [] e[1] = "for" ->
              UNION {LET count == Cardinality(DOMAIN v[2])
                     IN IF e[2]
                        THEN {<<"object", f>> : f \in [{KeyOrder[i] : i \in 1..count} -> values[e[4]]]}
                        ELSE {<<"tuple", s>> : s \in [1..count -> values[e[4]]]} :
                     v \in values[e[3]]}
         [] e[1] \in {"toset", "tolist"} ->
              {<<IF e[1] = "toset" THEN "set" ELSE "list", [i \in 1..Cardinality(e[2]) |-> <<"string">>]>>}
         [] e[1] \in {"element", "index"} -> UNION {Within(v) : v \in values[e[2]]}
         [] e[1] = "concat" -> {<<"tuple", FlattenSeq([i \in DOMAIN c |-> c[i][2]])>> : c \in choices}
         [] e[1] = "values" ->
              {<<"tuple", [i \in 1..Cardinality(DOMAIN v[2]) |-> v[2][SetToSeq(DOMAIN v[2])[i]]]>> :
                 v \in values[e[2]]}
         [] e[1] = "merge" ->
              {<<"object", [k \in UNION {DOMAIN c[i][2] : i \in DOMAIN c} |-> overlaid(c, k)]>> :
                 c \in choices}
         [] e[1] = "lookup" ->
              UNION {IF e[3] \in DOMAIN v[2] THEN {v[2][e[3]]} ELSE values[e[4]] : v \in values[e[2]]}
         [] e[1] = "first" -> UNION {values[e[2][i]] : i \in DOMAIN e[2]}
         [] e[1] = "var" -> Samples[e[2]]
         [] e[1] = "chain" -> values[e[2]]
         [] e[1] = "each" -> UNION {Within(v) : v \in values[e[2]]}
         [] OTHER -> {v[2][e[3]] : v \in {w \in values[e[2]] : w[1] \in KeyedKinds /\ e[3] \in DOMAIN w[2]}}

ValuesOf[e \in Terms] == ValuesOfBy(e, ValuesOf)

(* The values that convert to a constraint.  Strings stand for those that *)
(* convert; attributes an object type does not name do not matter here.    *)
AcceptsBy(declared, value, accepted) ==
    LET d == declared[1]  v == value[1]
    IN \/ value = NullValue
       \/ d = "any"
       \/ d = "optional" /\ value \in accepted[declared[2]]
       \/ d = "prim" /\ v \in Primitives /\ (v = declared[2] \/ "string" \in {v, declared[2]})
       \/ /\ \/ d \in {"list", "set"} /\ v \in SequenceKinds
             \/ d = "map" /\ v \in KeyedKinds
          /\ \A w \in Within(value) : w \in accepted[declared[2]]
       \/ /\ d = "tuple" /\ v = "tuple" /\ Len(declared[2]) = Len(value[2])
          /\ \A i \in DOMAIN value[2] : value[2][i] \in accepted[declared[2][i]]
       \/ /\ d = "object" /\ v \in KeyedKinds
          /\ \A k \in DOMAIN declared[2] :
               IF k \in DOMAIN value[2] THEN value[2][k] \in accepted[declared[2][k]]
                                        ELSE declared[2][k][1] = "optional"

Accepted[declared \in Types] ==
    {value \in AllValues : AcceptsBy(declared, value, Accepted)}
Accepts(declared, value) == value \in Accepted[declared]

(* The values that lose an attribute in the conversion, at whatever depth, *)
(* since the object type there does not name it.                           *)
DropsBy(declared, value, dropping) ==
    LET d == declared[1]  v == value[1]
    IN \/ d = "optional" /\ value \in dropping[declared[2]]
       \/ /\ \/ d \in {"list", "set"} /\ v \in SequenceKinds
             \/ d = "map" /\ v \in KeyedKinds
          /\ \E w \in Within(value) : w \in dropping[declared[2]]
       \/ /\ d = "tuple" /\ v = "tuple"
          /\ \E i \in DOMAIN declared[2] \cap DOMAIN value[2] :
               value[2][i] \in dropping[declared[2][i]]
       \/ /\ d = "object" /\ v \in KeyedKinds
          /\ \E k \in DOMAIN value[2] :
               k \in DOMAIN declared[2] => value[2][k] \in dropping[declared[2][k]]

Dropping[declared \in Types] ==
    {value \in AllValues : DropsBy(declared, value, Dropping)}
Drops(declared, value) == value \in Dropping[declared]
=============================================================================
