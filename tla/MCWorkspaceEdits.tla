--------------------------- MODULE MCWorkspaceEdits ---------------------------
(***************************************************************************)
(* A root module of two files and a child module of one, with the same     *)
(* names used in both.                                                     *)
(***************************************************************************)
EXTENDS WorkspaceEdits, TLC

\* "homes" stands for variables.tf, outputs.tf and moved.tf of the root module,
\* and "away" is the one file of another module.
MCSources == {"main", "homes", "away"}
MCDirOf == [f \in MCSources |-> IF f = "away" THEN "child" ELSE "root"]
MCHomeOf ==
    [dir \in {"root", "child"} |->
       [kind \in {"variable", "output", "moved"} |->
          IF dir = "root" THEN "homes" ELSE "away"]]

Null == [from |-> "null_resource", to |-> "terraform_data", moves |-> TRUE, generic |-> FALSE]
Alias == [from |-> "aws_alb", to |-> "aws_lb", moves |-> TRUE, generic |-> TRUE]
MCFamilies == {Null, Alias}

MCItems ==
    {Def("null_resource", "x"), Def("null_resource", "y"), Ref("null_resource", "x", "id"),
     Moved("null_resource", "terraform_data", "x"),
     Def("aws_alb", "x"),
     Def("variable", "x"), Ref("variable", "x", "id"), Ref("variable", "x", "x"),
     Def("local", "x"), Ref("local", "x", "id"), Def("output", "x"),
     Def("module", "m"), Ref("module", "m", "x")}
=============================================================================
