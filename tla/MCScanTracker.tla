--------------------------- MODULE MCScanTracker ---------------------------
(***************************************************************************)
(* A root module of two files that calls a module, which calls another one *)
(* the workspace walk does not reach (below .terraform/modules, say).      *)
(***************************************************************************)
EXTENDS ScanTracker

MCDirs == {"root", "child", "leaf"}
MCFiles == {"main", "vars", "child_main"}
MCDirOf == [f \in MCFiles |-> IF f = "child_main" THEN "child" ELSE "root"]
MCCallsOf == [f \in MCFiles |-> CASE f = "main" -> {"child"}
                                  [] f = "vars" -> {}
                                  [] f = "child_main" -> {"leaf"}]
=============================================================================
