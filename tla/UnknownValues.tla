----------------------------- MODULE UnknownValues -----------------------------
(***************************************************************************)
(* Which values are not known before the apply: the analysis behind the    *)
(* rules that hold `for_each`, `count` and an import's `id` against values *)
(* Terraform must know at plan time (tfls-diag's unknown_value,            *)
(* for_each_unknown_keys and import_unknown_id, and the module output      *)
(* resolver of tfls-engine).                                               *)
(*                                                                         *)
(* The code is a set of functions that call one another and join their     *)
(* answers by "or".  A call is a frame of a stack here: a step takes the   *)
(* first, which answers yes and ends the analysis, or is replaced by the   *)
(* calls its answer depends on.                                            *)
(*                                                                         *)
(* Expressions are tuples, the first field telling their form:             *)
(*   known                        a literal, path.x, each.x, ...           *)
(*   res, attribute, field        the resource's attribute, or a field of  *)
(*                                the elements of it                       *)
(*   data | var | local, name                                              *)
(*   module, call, output, field                                           *)
(*   use, variable, field         a loop variable, or a field of it        *)
(*   object, pairs                an object whose keys are names           *)
(*   keyed, key, value            an object whose key is an expression     *)
(*   list, parts                                                           *)
(*   call, function, parts        "other": operators, conditionals and     *)
(*                                templates without loops as well          *)
(*   for, value variable, key variable, collection, keys, rest             *)
(*                                keys: what the membership depends on     *)
(*   template, variable, collection, parts      a `%{ for }` directive     *)
(***************************************************************************)
EXTENDS Naturals, Sequences, FiniteSets, SequencesExt

CONSTANTS
    Programs,    \* what is analysed: [dirs, ask, expr], the root being dirs["root"]
    Optional,    \* the resource's attributes no provider computes
    PlanKnown    \* attribute -> the element fields the provider knows at plan time

\* The three questions the rules ask.
ASSUME ProgramsAssumption == \A p \in Programs : p.ask \in {"value", "for_each", "count"}

VARIABLES
    program,   \* the program under analysis
    frames,    \* the calls left to make, the next one first
    verdict    \* "open", then "yes" or "no"

unknownVars == <<program, frames, verdict>>

None == ""

Dir(name) == program.dirs[name]

----------------------------------------------------------------------------
\* Outcomes of a frame.

Yes == [hit |-> TRUE, then |-> <<>>]
More(calls) == [hit |-> FALSE, then |-> calls]
No == More(<<>>)
Answer(hit) == IF hit THEN Yes ELSE No

\* The same question, or another, about other expressions.
Call(fr, ask, e) == [fr EXCEPT !.ask = ask, !.expr = e, !.field = None]
Each(fr, ask, es) == [i \in DOMAIN es |-> Call(fr, ask, es[i])]
Values(pairs) == [i \in DOMAIN pairs |-> pairs[i][2]]

Loop(fr) ==
    LET value == fr.expr[2]
        key == fr.expr[3]
        bound == [v \in {value} |-> <<"value", fr.expr[4]>>]
        both == IF key = None THEN bound
                ELSE [v \in {value, key} |->
                        IF v = key THEN <<"key", fr.expr[4]>> ELSE bound[value]]
    IN  [fr EXCEPT !.binds = [v \in DOMAIN both \cup DOMAIN fr.binds |->
                                IF v \in DOMAIN both THEN both[v] ELSE fr.binds[v]]]

\* resolve_local_def, and a step of resolve_through_locals: a local already on
\* the way here, or nowhere defined, adds nothing.
Follow(fr, ask, name) ==
    IF name \notin DOMAIN Dir(fr.dir).locals \/ <<"local", name>> \in fr.seen THEN No
    ELSE More(<<[Call(fr, ask, Dir(fr.dir).locals[name])
                   EXCEPT !.seen = @ \cup {<<"local", name>>}, !.field = fr.field]>>)

\* The expressions of a block are seen without the loop variables around the
\* reference.
Enter(fr, key, es) ==
    Each([fr EXCEPT !.seen = @ \cup {key}, !.binds = <<>>], "value", es)

\* An attribute the configuration sets has the value it sets; one the schema
\* calls not computed has none; any other is known after the apply.
Resource(fr, attr, field) ==
    IF field # None /\ attr \in DOMAIN PlanKnown THEN Answer(field \notin PlanKnown[attr])
    ELSE IF <<"res", "r">> \in fr.seen THEN Yes
    ELSE IF attr \in DOMAIN Dir(fr.dir).config
         THEN More(Enter(fr, <<"res", "r">>, <<Dir(fr.dir).config[attr]>>))
    ELSE Answer(attr \notin Optional)

Data(fr, name) ==
    IF <<"data", name>> \in fr.seen \/ name \notin DOMAIN Dir(fr.dir).data THEN No
    ELSE IF Dir(fr.dir).data[name].deferred THEN Yes
    ELSE More(Enter(fr, <<"data", name>>, Dir(fr.dir).data[name].exprs))

\* Faulty: modules that call one another are followed round and round.
OutputAgain(fr, label, output, field) ==
    LET child == Dir(fr.dir).calls[label]
    IN  More(<<[ask |-> "output", expr |-> Dir(child).outputs[output], field |-> field,
                dir |-> child, binds |-> <<>>, seen |-> {}, visiting |-> fr.visiting]>>)

\* ModuleOutputResolver: the output is analysed in its own module, unless that
\* module is being analysed already.
Output(fr, label, output, field) ==
    LET child == Dir(fr.dir).calls[label]
    IN  IF \/ label \notin DOMAIN Dir(fr.dir).calls
           \/ child \in fr.visiting
           \/ output \notin DOMAIN Dir(child).outputs
        THEN No
        ELSE More(<<[ask |-> "output", expr |-> Dir(child).outputs[output], field |-> field,
                     dir |-> child, binds |-> <<>>, seen |-> {},
                     visiting |-> fr.visiting \cup {child}]>>)

\* bind_apply_time.
Bound(fr, v, field) ==
    LET bind == fr.binds[v]
    IN  More(<<[Call(fr, IF bind[1] = "key" THEN "keys" ELSE "elements", bind[2])
                  EXCEPT !.field = field]>>)

\* The pair of an object with that key, first come first served.
Get(fr, e, field) ==
    LET at == SelectInSeq(e[2], LAMBDA pair : pair[1] = field)
    IN  IF at = 0 THEN <<>> ELSE <<Call(fr, "value", e[2][at][2])>>

\* A head that no loop binds is taken for a resource, unseen and so unknown.
Value(fr) ==
    LET e == fr.expr
    IN  CASE e[1] = "known" -> No
          [] e[1] = "list" -> More(Each(fr, "value", e[2]))
          [] e[1] = "object" -> More(Each(fr, "value", Values(e[2])))
          [] e[1] = "keyed" -> More(Each(fr, "value", <<e[2], e[3]>>))
          [] e[1] = "call" -> More(Each(fr, "value", e[3]))
          [] e[1] = "for" -> More(<<Call(fr, "value", e[4])>>
                                    \o Each(Loop(fr), "value", e[6] \o e[5]))
          [] e[1] = "template" -> More(Each(fr, "value", <<e[3]>> \o e[4]))
          [] e[1] = "use" -> IF e[2] \in DOMAIN fr.binds THEN Bound(fr, e[2], e[3])
                             ELSE Answer(e[3] # None)
          [] e[1] = "local" -> Follow([fr EXCEPT !.field = None], "value", e[2])
          [] e[1] = "var" -> Answer(Dir(fr.dir).vars[e[2]].value)
          [] e[1] = "data" -> Data(fr, e[2])
          [] e[1] = "module" -> Output(fr, e[2], e[3], e[4])
          [] e[1] = "res" -> Resource(fr, e[2], e[3])

IsListed(e) == e[1] = "res" /\ e[2] \in DOMAIN PlanKnown /\ e[3] = None

\* membership_apply_time_inner: only the keys of a map matter, so the values
\* of an object and the collection of a comprehension are passed over.
Membership(fr) ==
    LET e == fr.expr
    IN  CASE e[1] = "call" /\ fr.ask = "count" /\ e[2] = "length" ->
               IF IsListed(e[3][1]) THEN No ELSE More(<<Call(fr, "for_each", e[3][1])>>)
          [] e[1] = "call" /\ e[2] \in {"same", "build"} -> More(Each(fr, fr.ask, e[3]))
          [] e[1] = "for" -> More(Each(Loop(fr), "value", e[5]))
          [] e[1] = "list" -> More(Each(fr, "value", e[2]))
          [] e[1] = "object" -> No
          [] e[1] = "keyed" -> More(<<Call(fr, "value", e[2])>>)
          [] e[1] = "local" -> Follow(fr, fr.ask, e[2])
          [] e[1] = "var" -> Answer(Dir(fr.dir).vars[e[2]].membership)
          [] OTHER -> More(<<Call(fr, "value", e)>>)

\* Faulty: a field is looked for in the object alone.
ElementFieldOfObject(fr, e, field) ==
    IF e[1] = "object" /\ field # None THEN Get(fr, e, field) ELSE <<>>

\* element_field_apply_time: a field of an element that is no object literal
\* stands for the element.
ElementField(fr, e, field) ==
    IF field = None \/ e[1] \notin {"object", "keyed"} THEN <<Call(fr, "value", e)>>
    ELSE IF e[1] = "object" THEN Get(fr, e, field) ELSE <<>>

Elements(fr) ==
    LET e == fr.expr
        fields(es) == FlattenSeq([i \in DOMAIN es |-> ElementField(fr, es[i], fr.field)])
    IN  CASE e[1] = "local" -> Follow(fr, "elements", e[2])
          [] e[1] = "call" /\ e[2] = "same" -> More(<<[fr EXCEPT !.expr = e[3][1]]>>)
          [] e[1] = "object" -> More(fields(Values(e[2])))
          [] e[1] = "keyed" -> More(fields(<<e[3]>>))
          [] e[1] = "list" -> More(fields(e[2]))
          [] IsListed(e) -> Answer(fr.field = None \/ fr.field \notin PlanKnown[e[2]])
          [] OTHER -> More(<<Call(fr, "value", e)>>)

\* key_set_apply_time: the keys of an object literal are taken for names.
Keys(fr) ==
    LET e == fr.expr
    IN  CASE e[1] = "local" -> Follow(fr, "keys", e[2])
          [] e[1] = "call" /\ e[2] = "same" -> More(<<[fr EXCEPT !.expr = e[3][1]]>>)
          [] e[1] \in {"object", "keyed"} -> No
          [] e[1] = "list" -> More(Each(fr, "value", e[2]))
          [] e[1] = "var" -> Answer(Dir(fr.dir).vars[e[2]].membership)
          [] OTHER -> More(<<Call(fr, "value", e)>>)

\* output_expr_apply_time.
OutputField(fr) ==
    IF fr.field # None /\ fr.expr[1] = "object" THEN More(Get(fr, fr.expr, fr.field))
    ELSE IF fr.field # None /\ fr.expr[1] = "keyed" THEN No
    ELSE More(<<Call(fr, "value", fr.expr)>>)

Expand(fr) ==
    CASE fr.ask = "value" -> Value(fr)
      [] fr.ask \in {"for_each", "count"} -> Membership(fr)
      [] fr.ask = "elements" -> Elements(fr)
      [] fr.ask = "keys" -> Keys(fr)
      [] fr.ask = "output" -> OutputField(fr)

----------------------------------------------------------------------------
UnknownInit ==
    /\ program \in Programs
    /\ frames = <<[ask |-> program.ask, expr |-> program.expr, field |-> None,
                   dir |-> "root", binds |-> <<>>, seen |-> {}, visiting |-> {}]>>
    /\ verdict = "open"

Analyse ==
    /\ verdict = "open"
    /\ LET outcome == Expand(Head(frames))
           rest == outcome.then \o Tail(frames)
       IN  /\ frames' = IF outcome.hit THEN <<>> ELSE rest
           /\ verdict' = IF outcome.hit THEN "yes" ELSE IF rest = <<>> THEN "no" ELSE "open"
    /\ UNCHANGED program

UnknownNext == Analyse

\* The analysis is one call on one thread: it goes on while it can.
UnknownSpec == UnknownInit /\ [][UnknownNext]_unknownVars /\ WF_unknownVars(UnknownNext)

----------------------------------------------------------------------------
\* The nodes an answer can depend on: an expression, the module it stands in and
\* the loop variables around it; its parts, and what its references are defined
\* by, in the module and outside the loops they are defined in.
Here(n, es) == {<<n[1], es[i], n[3]>> : i \in DOMAIN es}
Defined(dir, es) == {<<dir, es[i], {}>> : i \in DOMAIN es}
LoopVariables(e) == IF e[1] = "for" THEN {e[2], e[3]} \ {None} ELSE {}

Parts(n) ==
    LET dir == n[1]
        e == n[2]
    IN  CASE e[1] = "list" -> Here(n, e[2])
          [] e[1] = "object" -> Here(n, Values(e[2]))
          [] e[1] = "keyed" -> Here(n, <<e[2], e[3]>>)
          [] e[1] = "call" -> Here(n, e[3])
          [] e[1] = "for" -> Here(n, <<e[4]>>)
                               \cup Here(<<dir, e, n[3] \cup LoopVariables(e)>>, e[5])
                               \cup Here(<<dir, e, n[3] \cup LoopVariables(e)>>, e[6])
          [] e[1] = "template" -> Here(n, <<e[3]>>) \cup Here(n, e[4])
          [] e[1] = "local" /\ e[2] \in DOMAIN Dir(dir).locals ->
               Defined(dir, <<Dir(dir).locals[e[2]]>>)
          [] e[1] = "res" /\ e[2] \in DOMAIN Dir(dir).config ->
               Defined(dir, <<Dir(dir).config[e[2]]>>)
          [] e[1] = "data" /\ e[2] \in DOMAIN Dir(dir).data ->
               Defined(dir, Dir(dir).data[e[2]].exprs)
          [] e[1] = "module" /\ e[2] \in DOMAIN Dir(dir).calls ->
               LET child == Dir(dir).calls[e[2]]
               IN  IF e[3] \in DOMAIN Dir(child).outputs
                   THEN Defined(child, <<Dir(child).outputs[e[3]]>>) ELSE {}
          [] OTHER -> {}

Query == <<"root", program.expr, {}>>

\* The forms of expressions, as the head of this module lists them.
Listed(s) == s \in Seq({s[i] : i \in DOMAIN s})
WellFormed(n) ==
    LET e == n[2]
    IN  \/ e[1] \in {"known", "var", "local", "module", "use", "keyed", "res"}
        \/ e[1] \in {"list", "object"} /\ Listed(e[2])
        \/ e[1] = "call" /\ Listed(e[3]) /\ (e[2] \in {"same", "length"} => e[3] # <<>>)
        \/ e[1] = "for" /\ Listed(e[5]) /\ Listed(e[6])
        \/ e[1] = "template" /\ Listed(e[4])
        \/ /\ e[1] = "data"
           /\ e[2] \in DOMAIN Dir(n[1]).data => Listed(Dir(n[1]).data[e[2]].exprs)

\* Sets of nodes that hold whatever an answer about one of them depends on.
Closed(nodes) == \A n \in nodes : WellFormed(n) /\ Parts(n) \subseteq nodes

\* Something no plan can know.
Source(n) ==
    LET e == n[2]
    IN  \/ e[1] = "res" /\ e[2] \notin Optional \cup DOMAIN Dir(n[1]).config
        \/ e[1] = "res" /\ e[2] \in DOMAIN PlanKnown
        \/ e[1] = "var" /\ (Dir(n[1]).vars[e[2]].value \/ Dir(n[1]).vars[e[2]].membership)
        \/ /\ e[1] = "data" /\ e[2] \in DOMAIN Dir(n[1]).data
           /\ Dir(n[1]).data[e[2]].deferred

\* A field of a variable no comprehension around it binds, as those of template
\* directives: it looks like an attribute of a resource.
Stray(n) == n[2][1] = "use" /\ n[2][3] # None /\ n[2][2] \notin n[3]

\* The configuration of a resource sets the attribute n reads, and whatever that
\* depends on includes the resource.
Configured(n) == n[2][1] = "res" /\ n[2][2] \in DOMAIN Dir(n[1]).config
SameResource(n, m) == m[2][1] = "res" /\ m[1] = n[1]
Circular(n) ==
    /\ Configured(n)
    /\ \A nodes : Closed(nodes) /\ Parts(n) \subseteq nodes => \E m \in nodes : SameResource(n, m)

(* No false alarm: a value is reported only if something the plan cannot      *)
(* know is among what it depends on, or a resource refers to itself through   *)
(* its configuration; fields of variables that no comprehension binds are     *)
(* taken for resources (the comment on top of unknown_value.rs: "prefer       *)
(* staying silent").  What a value depends on is in every closed set of nodes *)
(* that holds it.                                                             *)
ReportsHaveCauses ==
    verdict = "yes" =>
      \A nodes : Query \in nodes /\ Closed(nodes) =>
        \E n \in nodes : Source(n) \/ Stray(n) \/ Circular(n)

\* The next call is about a comprehension that takes for its own a variable
\* some loop around it has bound.
Rebinding ==
    /\ frames # <<>>
    /\ Head(frames).expr[1] = "for"
    /\ LoopVariables(Head(frames).expr) \cap DOMAIN Head(frames).binds # {}

\* The analysis comes to an end, whatever circles the locals, resources, data
\* sources and modules form, unless a loop hides the variable of another.
AnalysisEnds == <>(verdict # "open" \/ Rebinding)

\* The comment on `visited` says it breaks cycles: the analysis always ends.
ComprehensionTerminates == <>(verdict # "open")
=============================================================================
