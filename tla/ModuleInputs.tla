------------------------------ MODULE ModuleInputs ------------------------------
(***************************************************************************)
(* One variable of a module: its block, the module blocks of other         *)
(* directories and the tfvars files that give it a value, and what the     *)
(* server keeps of these in assigned_variable_types                        *)
(* (tfls-engine/src/index.rs, rebuild_assigned_variable_types_for_dir).    *)
(***************************************************************************)
EXTENDS VariableTypes, TLC

CONSTANTS
    Calls,        \* module blocks that name the module as their source
    VarFiles,     \* tfvars files of the module
    CallerOf,     \* the directory a module block is in
    Module,       \* the module's own directory
    Expressions,  \* what a block or a file may give the variable
    Variables,    \* the variable's block, [type, default]
    MaxEdits      \* bound: edits of blocks and files

Places == Calls \cup VarFiles
DirAt(place) == IF place \in Calls THEN CallerOf[place] ELSE Module
CallerDirs == {CallerOf[c] : c \in Calls}

\* There is no such block or file; the block leaves the variable out.
Missing == <<"missing">>
LeftOut == <<"left out">>
Untyped == <<"untyped">>
NoDefault == <<"lit", "null">>

ASSUME InputsAssumption ==
    /\ Module \notin CallerDirs
    /\ MaxEdits \in Nat
    /\ \A place \in Places : {Missing, LeftOut} \cap Expressions[place] = {}
    /\ \A v \in Variables : v.type \in Types \cup {Untyped}

VARIABLES
    variable,   \* the block that declares the variable
    given,      \* what each block and file gives it
    assigned,   \* the types kept for it, in no particular order
    sources,    \* history: the expressions these types were inferred from
    rebuilt,    \* history: the directories not edited since their rebuild
    edits       \* history: how many edits there were

inputVars == <<variable, given, assigned, sources, rebuilt, edits>>

InputsInit ==
    /\ variable \in Variables
    /\ given = [place \in Places |-> Missing]
    /\ assigned = <<>> /\ sources = <<>>
    /\ rebuilt = {} /\ edits = 0

---------------------------------------------------------------------------
\* Someone edits a module block or a tfvars file.
EditInput(place, e) ==
    /\ e # given[place]
    /\ edits < MaxEdits /\ edits' = edits + 1
    /\ given' = [given EXCEPT ![place] = e]
    /\ rebuilt' = rebuilt \ {DirAt(place)}
    /\ UNCHANGED <<variable, assigned, sources>>

\* Inferred from the files of the module: nothing is kept of what is empty.
FromTfvars(e) == e # Missing /\ Actionable(Shape[e])
FromCall(e) == e \notin {Missing, LeftOut} /\ Shape[e] # AnyType

\* The walk meets the documents in the order of a hash map.
Orders(places) ==
    {s \in [1..Cardinality(places) -> places] : \A i, j \in DOMAIN s : s[i] = s[j] => i = j}

Replace(found) ==
    /\ sources' = [i \in DOMAIN found |-> given[found[i]]]
    /\ assigned' = [i \in DOMAIN found |-> Shape[given[found[i]]]]

(* rebuild_assigned_variable_types_for_dir: a directory that calls the     *)
(* module puts what its own blocks pass in place of all that was known,    *)
(* one that does not call it touches nothing.                              *)
RebuildCaller(dir) ==
    LET calls == {c \in Calls : CallerOf[c] = dir}
    IN /\ \/ /\ \A c \in calls : given[c] = Missing
             /\ UNCHANGED <<assigned, sources>>
          \/ /\ \E c \in calls : given[c] # Missing
             /\ \E found \in Orders({c \in calls : FromCall(given[c])}) : Replace(found)
       /\ rebuilt' = rebuilt \cup {dir}
       /\ UNCHANGED <<variable, given, edits>>

RebuildModule ==
    LET files == {f \in VarFiles : FromTfvars(given[f])}
    IN /\ \/ files = {} /\ UNCHANGED <<assigned, sources>>
          \/ files # {} /\ \E found \in Orders(files) : Replace(found)
       /\ rebuilt' = rebuilt \cup {Module}
       /\ UNCHANGED <<variable, given, edits>>

\* What others give a variable is asked for only where its block says nothing.
InputsNext ==
    \/ \E place \in Places :
         /\ variable.type = Untyped /\ ~Actionable(Shape[variable.default])
         /\ \/ \E e \in Expressions[place] \cup {Missing} : EditInput(place, e)
            \/ place \in Calls /\ EditInput(place, LeftOut)
    \/ \E dir \in CallerDirs : RebuildCaller(dir)
    \/ RebuildModule

InputsSpec == InputsInit /\ [][InputsNext]_inputVars

---------------------------------------------------------------------------
(* What the server says of the variable.                                   *)

\* variable_default_type_diagnostics.
Mismatch ==
    /\ variable.type # Untyped
    /\ ~Satisfies(TypeOf[variable.type], Shape[variable.default])

---------------------------------------------------------------------------
(* A default is flagged only if Terraform may refuse one of its values     *)
(* (variable_type.rs:815-822, "never a false positive on valid config"),   *)
(* or drop an attribute of one that no object type names. The second is    *)
(* valid configuration too, and flagged all the same: satisfies fails      *)
(* extra fields (795-799) and says so (768-769), for all the               *)
(* "intentionally conservative" of its doc (756). Defaults are made of     *)
(* literals: Terraform allows no references in them. Excepted are          *)
(* comprehensions, which satisfies takes for lists and maps where          *)
(* Terraform sees tuples and objects.                                      *)
NoFalseMismatch ==
    Mismatch /\ variable.default \in Constants =>
        \E v \in ValuesOf[variable.default] :
            ~Accepts(variable.type, v) \/ Drops(variable.type, v)

(* Once every directory has been rebuilt since its last edit, every value  *)
(* a caller or a tfvars file gives the variable is accounted for           *)
(* (index.rs:382-384, "Multiple callers / multiple env-specific tfvars     *)
(* accumulate into the inner `Vec`").                                      *)
CallersAccumulate ==
    rebuilt = CallerDirs \cup {Module} =>
        \A place \in Places :
            (IF place \in Calls THEN FromCall(given[place]) ELSE FromTfvars(given[place]))
            => \E i \in DOMAIN assigned : assigned[i] = Shape[given[place]]
=============================================================================
