---------------------------- MODULE MCBackground ----------------------------
(***************************************************************************)
(* What the worker, the watcher and the handlers keep up to date beside    *)
(* the documents: the lock file cache and the schemas of one .terraform    *)
(* directory, and the scan states of a workspace of three directories.     *)
(* The three share no state.  In a behaviour one of them moves, while the  *)
(* others have not begun.                                                  *)
(***************************************************************************)
EXTENDS LockFileCache, SchemaInstall, MCScanTracker

backgroundVars == <<lockVars, vars, scanVars>>

BackgroundInit == LockInit /\ Init /\ ScanInit

\* The user has initialised nothing.
SchemasRest == Init /\ providers = 0

LocksOnly(step) == SchemasRest /\ ScanInit /\ step /\ UNCHANGED <<vars, scanVars>>
SchemasOnly(step) == LockInit /\ ScanInit /\ step /\ UNCHANGED <<lockVars, scanVars>>
ScansOnly(step) == LockInit /\ SchemasRest /\ step /\ UNCHANGED <<lockVars, vars>>

BackgroundNext == LocksOnly(LockNext) \/ SchemasOnly(Next) \/ ScansOnly(ScanNext)

(* Once one part moves, the worker and the watcher get to run in it.       *)
BackgroundSpec ==
  /\ BackgroundInit /\ [][BackgroundNext]_backgroundVars
  /\ WF_backgroundVars(SchemasOnly(Worker) \/ ScansOnly(Work))
  /\ WF_backgroundVars(SchemasOnly(Checks("watcher")))
=============================================================================
