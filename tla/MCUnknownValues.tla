---------------------------- MODULE MCUnknownValues ----------------------------
(***************************************************************************)
(* A root module and the child module it calls, which calls it back.  The  *)
(* definitions are chosen so that a query meets known and unknown values   *)
(* behind every kind of reference, fields of both kinds side by side, and  *)
(* circles of every kind.                                                  *)
(***************************************************************************)
EXTENDS PlanTimeValues, TLC

Literal == <<"known">>
Use(v, field) == <<"use", v, field>>
Res(attr) == <<"res", attr, None>>
For(v, k, over, keys, rest) == <<"for", v, k, over, keys, rest>>
Pair(f, g) == <<"object", << <<"f", f>>, <<"g", g>> >> >>
LocalA == <<"local", "a">>
LocalB == <<"local", "b">>

DefinitionsOfA ==
    {<<"object", << <<"k", Pair(Literal, Res("id"))>> >> >>,
     <<"list", <<Pair(Res("cfg"), <<"list", <<Pair(Res("id"), Literal)>> >>)>> >>,
     LocalB, <<"var", "x">>,
     For("w", None, LocalB, <<Use("w", "f")>>, <<>>),
     Res("listed")}

DefinitionsOfB ==
    {Pair(Literal, Literal), LocalA, <<"module", "m", "o", "f">>, <<"data", "d">>,
     <<"keyed", Res("id"), Literal>>}

\* What the configuration of the resource and of the data source says.
Deferred == [deferred |-> TRUE, exprs |-> <<>>]
ReadsB == [deferred |-> FALSE, exprs |-> <<LocalB>>]
Blocks ==
    {<<Literal, Deferred>>, <<LocalA, ReadsB>>, <<Res("flag"), ReadsB>>}

Passed == {[membership |-> m, value |-> v] : m, v \in BOOLEAN} \ {[membership |-> TRUE, value |-> FALSE]}

RootModule(a, b, blocks, passed) ==
    [locals |-> "a" :> a @@ "b" :> b, config |-> "cfg" :> blocks[1], data |-> "d" :> blocks[2],
     vars |-> "x" :> passed, outputs |-> "q" :> <<"module", "m", "p", None>>,
     calls |-> "m" :> "child"]

ChildModule(passed) ==
    [locals |-> <<>>, config |-> <<>>, data |-> <<>>, vars |-> "y" :> passed,
     outputs |-> "o" :> Pair(Literal, <<"var", "y">>) @@ "p" :> <<"module", "up", "q", None>>,
     calls |-> "up" :> "root"]

Collections ==
    {LocalA, <<"call", "same", <<LocalA>> >>, LocalB, Res("listed"), <<"var", "x">>}

Keyings ==
    {<<"for_each", For("v", "k", over, <<key>>, <<Use("v", None)>>)>> :
       over \in Collections, key \in {Use("k", None), Use("v", "f"), Use("v", "g")}}
Listings ==
    {<<"for_each", For("v", None, over, <<Use("v", field)>>, <<>>)>> :
       over \in Collections, field \in {"f", None}}
Counts == {<<"count", <<"call", "length", <<over>> >> >> : over \in Collections}
Builders == {<<"for_each", <<"call", "build", <<over>> >> >> : over \in Collections}

\* A loop in a loop, its variable called otherwise and called the same.
Nested(inner) ==
    For("v", None, LocalA, <<For(inner, None, Use("v", "g"), <<Use(inner, "f")>>, <<>>)>>, <<>>)

Identifiers ==
    {<<"value", e>> : e \in
       {LocalA, Res("cfg"), Res("id"), Res("flag"), <<"res", "listed", "f">>,
        <<"module", "m", "o", "g">>, <<"module", "m", "p", None>>, <<"data", "d">>,
        Use("v", None), <<"call", "other", <<Literal, LocalB>> >>,
        <<"template", "v", LocalB, <<Use("v", "f")>> >>,
        For("v", None, LocalA, <<Use("v", "f"), <<"call", "other", <<Use("v", "g")>> >> >>, <<>>),
        Nested("w")}}

Workspaces ==
    {"root" :> RootModule(a, b, blocks, passed) @@ "child" :> ChildModule(passed) :
       a \in DefinitionsOfA, b \in DefinitionsOfB, blocks \in Blocks, passed \in Passed}

Asked(queries) ==
    {[dirs |-> dirs, ask |-> query[1], expr |-> query[2]] : dirs \in Workspaces, query \in queries}

Shadowing == {<<"value", Nested("v")>>}
MCShadowing == Asked(Shadowing)
MCPrograms ==
    Asked(Keyings \cup Listings \cup Counts \cup Builders \cup Identifiers \cup Shadowing)

MCPlanKnown == "listed" :> {"f"}
=============================================================================
