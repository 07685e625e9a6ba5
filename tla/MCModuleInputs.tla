---------------------------- MODULE MCModuleInputs ----------------------------
(***************************************************************************)
(* A module called thrice from one directory and once from another, with a  *)
(* tfvars file of its own.                                                 *)
(***************************************************************************)
EXTENDS ModuleInputs

MCKeyOrder == <<"a", "b">>
MCCalls == {"a1", "a2", "a3", "b1"}
MCVarFiles == {"tfvars"}
MCCallerOf == [c \in MCCalls |-> IF c = "b1" THEN "b" ELSE "a"]

Str == <<"lit", "string">>
Num == <<"lit", "number">>
Arr(es) == <<"array", es>>
\* An object with one key, or two.
ObjA(e) == <<"object", [k \in {"a"} |-> e]>>
ObjAB(e, f) == <<"object", [k \in {"a", "b"} |-> IF k = "a" THEN e ELSE f]>>

Literals == {Str, Arr(<<Str>>), ObjA(Str)}

ListOfStrings == <<"list", Prim("string")>>
Settings ==
    <<"object", [k \in {"a", "b"} |-> IF k = "a" THEN Prim("string")
                                      ELSE <<"optional", ListOfStrings>>]>>
Records == ObjAB(ObjA(Str), ObjAB(Str, Num))

Derived ==
    {Arr(<<Str, Str>>), Arr(<<ObjA(Str), ObjA(NoDefault)>>), ObjA(Num), <<"cond", ObjA(Str), ObjAB(Str, Num)>>,
     <<"toset", {"a", "b"}>>, <<"for", FALSE, <<"var", ListOfStrings>>, ObjA(Str)>>, <<"for", TRUE, Arr(<<Str>>), Str>>,
     <<"element", Arr(<<Str, Str>>)>>, <<"concat", <<Arr(<<Str>>), <<"var", ListOfStrings>> >> >>,
     <<"values", ObjAB(Str, Str)>>, <<"merge", <<ObjA(Num), ObjAB(Str, Num)>> >>,
     <<"lookup", <<"var", <<"map", ListOfStrings>> >>, "a", Arr(<<>>)>>,
     <<"lookup", ObjA(Str), "b", Arr(<<>>)>>,
     <<"first", <<NoDefault, Arr(<<Str>>)>> >>, <<"var", Settings>>, <<"var", AnyType>>,
     <<"var", <<"set", Prim("string")>> >>,
     <<"chain", <<"var", ListOfStrings>> >>, <<"field", <<"each", Records>>, "a">>,
     <<"each", <<"var", <<"map", Prim("string")>> >> >>,
     <<"index", <<"chain", Arr(<<ObjA(Str), ObjA(Str)>>)>> >>}

MCExpressions ==
    [place \in MCCalls \cup MCVarFiles |->
       Literals \cup (IF place = "a1" THEN Derived ELSE {})
                \cup (IF place \in {"a1", "a2"} THEN {ObjA(NoDefault)} ELSE {})]

Defaults ==
    {NoDefault, Str, Num, <<"lit", "bool">>, Arr(<<>>), Arr(<<Str>>), Arr(<<Str, Num>>), ObjA(Str),
     ObjA(Arr(<<Num>>)), ObjAB(Str, NoDefault), <<"cond", ObjA(Str), ObjAB(Str, Num)>>,
     <<"for", FALSE, Arr(<<Str, Str>>), Str>>, <<"for", TRUE, Arr(<<Str>>), Num>>}
Declared ==
    {AnyType, Prim("string"), Prim("number"), Prim("bool"), ListOfStrings,
     <<"set", Prim("bool")>>, <<"list", AnyType>>, <<"map", Prim("number")>>, <<"map", <<"list", Prim("string")>> >>,
     <<"tuple", <<Prim("string"), Prim("number")>> >>, Settings,
     <<"object", [k \in {"a"} |-> Prim("string")]>>, <<"list", Settings>>}

MCVariables ==
    [type : {Untyped}, default : {NoDefault, Arr(<<Str>>)}]
      \cup [type : Declared, default : Defaults]
=============================================================================
