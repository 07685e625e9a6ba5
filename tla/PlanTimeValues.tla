----------------------------- MODULE PlanTimeValues -----------------------------
(***************************************************************************)
(* What Terraform itself knows of the expressions of UnknownValues when it *)
(* plans, by evaluating them, and the verdict of the analysis held against *)
(* it.                                                                     *)
(***************************************************************************)
EXTENDS UnknownValues

RECURSIVE Reach(_)
Reach(nodes) ==
    LET more == nodes \cup UNION {Parts(n) : n \in nodes}
    IN  IF more = nodes THEN nodes ELSE Reach(more)

\* The smallest closed set that holds the query.
Reachable == Reach({Query})

\* The ways a program can be one the analysis does not claim to understand.
Cyclic == \E n \in Reachable : n \in Reach(Parts(n))
Loops == {n \in Reachable : n[2][1] \in {"for", "template"}}
Shadowed ==
    \E n \in Loops : \E m \in Reach(Parts(n)) :
       LoopVariables(m[2]) \cap LoopVariables(n[2]) # {}
Templates == \E n \in Loops : n[2][1] = "template"

----------------------------------------------------------------------------
\* What Terraform makes of an expression: "?" is not known before the apply.

Known == <<"known">>
Unknown == <<"?">>

RECURSIVE HasUnknown(_)
HasUnknown(v) ==
    \/ v = Unknown
    \/ v[1] = "list" /\ \E i \in DOMAIN v[2] : HasUnknown(v[2][i])
    \/ v[1] = "object" /\ \E i \in DOMAIN v[2] : HasUnknown(v[2][i][2])

\* The values a loop goes through, and the part of a value a field selects.
Elems(v) ==
    IF v[1] = "list" THEN v[2] ELSE IF v[1] = "object" THEN Values(v[2]) ELSE <<v>>

FieldOf(v, field) ==
    IF field = None \/ v[1] # "object" THEN v
    ELSE LET at == SelectInSeq(v[2], LAMBDA pair : pair[1] = field)
         IN  IF at = 0 THEN Known ELSE v[2][at][2]

Bind(env, v, value) ==
    [w \in DOMAIN env \cup ({v} \ {None}) |-> IF w = v THEN value ELSE env[w]]

Listing(attr) ==
    <<"list", << <<"object", SetToSeq({<<f, Known>> : f \in PlanKnown[attr]})
                               \o << <<"other", Unknown>> >> >> >> >>

RECURSIVE Eval(_, _, _)
Eval(dir, e, env) ==
    LET all(es) == [i \in DOMAIN es |-> Eval(dir, es[i], env)]
        joint(es) == IF \E i \in DOMAIN es : HasUnknown(Eval(dir, es[i], env)) THEN Unknown ELSE Known
    IN  CASE e[1] \in {"known", "use"} ->
               IF e[1] = "use" /\ e[2] \in DOMAIN env THEN FieldOf(env[e[2]], e[3]) ELSE Known
          [] e[1] = "list" -> <<"list", all(e[2])>>
          [] e[1] = "object" ->
               <<"object", [i \in DOMAIN e[2] |-> <<e[2][i][1], Eval(dir, e[2][i][2], env)>>]>>
          [] e[1] = "keyed" ->
               IF HasUnknown(Eval(dir, e[2], env)) THEN Unknown
               ELSE <<"object", << <<"key", Eval(dir, e[3], env)>> >> >>
          [] e[1] = "call" /\ e[2] \in {"same", "build"} -> Eval(dir, e[3][1], env)
          [] e[1] = "call" /\ e[2] = "length" ->
               IF Eval(dir, e[3][1], env) = Unknown THEN Unknown ELSE Known
          [] e[1] = "call" /\ e[2] \notin {"same", "build", "length"} -> joint(e[3])
          [] e[1] = "local" -> Eval(dir, Dir(dir).locals[e[2]], <<>>)
          [] e[1] = "var" ->
               LET bits == Dir(dir).vars[e[2]]
               IN  IF bits.membership THEN Unknown
                   ELSE <<"object", << <<"f", IF bits.value THEN Unknown ELSE Known>> >> >>
          [] e[1] = "data" ->
               LET config == Dir(dir).data[e[2]]
               IN  IF config.deferred \/ \E i \in DOMAIN config.exprs :
                                            HasUnknown(Eval(dir, config.exprs[i], <<>>))
                   THEN Unknown ELSE Known
          [] e[1] = "module" ->
               LET child == Dir(dir).calls[e[2]]
               IN  FieldOf(Eval(child, Dir(child).outputs[e[3]], <<>>), e[4])
          [] e[1] = "res" ->
               IF e[2] \in DOMAIN Dir(dir).config /\ e[3] = None
               THEN Eval(dir, Dir(dir).config[e[2]], <<>>)
               ELSE IF e[2] \in DOMAIN PlanKnown
                    THEN IF e[3] = None THEN Listing(e[2])
                         ELSE IF e[3] \in PlanKnown[e[2]] THEN Known ELSE Unknown
               ELSE IF e[2] \in Optional THEN Known ELSE Unknown
          [] e[1] = "for" ->
               LET over == Eval(dir, e[4], env)
                   round(elem) == Bind(Bind(env, e[2], elem), e[3],
                                       IF over = Unknown THEN Unknown ELSE Known)
                   keys(elem) == [i \in DOMAIN e[5] |-> Eval(dir, e[5][i], round(elem))]
               IN  IF \/ over = Unknown
                      \/ \E j \in DOMAIN Elems(over) : \E i \in DOMAIN e[5] :
                           (e[6] # <<>> \/ i > 1) /\ HasUnknown(keys(Elems(over)[j])[i])
                   THEN Unknown
                   ELSE IF e[6] = <<>>
                        THEN <<"list", [j \in DOMAIN Elems(over) |-> keys(Elems(over)[j])[1]]>>
                   ELSE <<"object", [j \in DOMAIN Elems(over) |->
                            <<"key", Eval(dir, e[6][1], round(Elems(over)[j]))>>]>>
          [] OTHER -> Known

\* Whether Terraform refuses the value where it stands: an identifier must be
\* known throughout, a number known, and of a collection the keys, which are
\* the elements of a list.
Refused ==
    LET v == Eval("root", program.expr, <<>>)
    IN  CASE program.ask = "value" -> HasUnknown(v)
          [] program.ask = "count" -> v = Unknown
          [] program.ask = "for_each" -> v = Unknown \/ (v[1] = "list" /\ HasUnknown(v))

\* Comprehensions whose keys no loop variable occurs in, and those over objects
\* with computed keys: the analysis may report nothing for them.
Occurs(e, variables) ==
    \/ e[1] = "use" /\ e[2] \in variables
    \/ e[1] = "call" /\ \E i \in DOMAIN e[3] :
         e[3][i][1] = "use" /\ e[3][i][2] \in variables
Overlooked ==
    \/ \E n \in Loops :
         n[2][1] = "for" /\ ~\E i \in DOMAIN n[2][5] : Occurs(n[2][5][i], LoopVariables(n[2]))
    \/ /\ Loops # {}
       /\ \E n \in Reachable : n[2][1] = "keyed"

(* The verdict is right both ways.  No false alarm: ReportsHaveCauses, for the   *)
(* smallest of the sets it speaks of.  And what Terraform would refuse is        *)
(* reported, where no name is defined by itself and loop variables have names of *)
(* their own.                                                                    *)
VerdictRight ==
    /\ verdict = "yes" =>
         /\ Closed(Reachable)
         /\ \E n \in Reachable :
              \/ Source(n) \/ Stray(n)
              \/ Configured(n) /\ \E m \in Reach(Parts(n)) : SameResource(n, m)
    /\ (verdict = "no" /\ ~Cyclic /\ ~Shadowed /\ ~Templates /\ ~Overlooked) => ~Refused
=============================================================================
