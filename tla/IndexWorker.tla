----------------------------- MODULE IndexWorker -----------------------------
(***************************************************************************)
(* The single background worker at its jobs: the queue it takes them from, *)
(* and the progress the longer ones report while they run (dispatch_job    *)
(* and bulk_workspace_scan in crates/tfls-lsp/src/indexer.rs).  A job that *)
(* waits for the client keeps every later job waiting.                     *)
(*                                                                         *)
(* A job that reports progress uses one token; the bulk scan, which uses   *)
(* two one after the other, is two such jobs in a row.                     *)
(***************************************************************************)
EXTENDS JobQueue, ProgressReporting

CONSTANT Reporting   \* the jobs that report: FetchSchemas, FetchFunctions, the scan

ASSUME WorkerAssumption == Tokens \subseteq Nat \ {0}

VARIABLE token       \* the token of the job in hand, 0 without one

workerVars == <<vars, progressVars, token>>

WorkerInit == Init /\ ProgressInit /\ token = 0

\* COUNTER.fetch_add: the tokens are used one after the other.
IsNext(t) == \A u \in Tokens : owner[u] = "idle" <=> u >= t

StartJob ==
  /\ TakeJob
  /\ IF current' \in Reporting
       THEN \E t \in Tokens : IsNext(t) /\ token' = t /\ AskForToken(t)
       ELSE UNCHANGED <<progressVars, token>>

FinishJob ==
  /\ token # 0 => owner[token] \in {"done", "dropped"}
  /\ Complete
  /\ token' = 0
  /\ UNCHANGED progressVars

RunJob == \E t \in Tokens : t = token /\ OwnerStep(t) /\ UNCHANGED <<vars, token>>

Worker ==
  \/ StartJob \/ RunJob \/ FinishJob
  \/ (FindNothing \/ AwaitNotified) /\ UNCHANGED <<progressVars, token>>

Produce ==
  /\ \E p \in Producers :
       \/ \E j \in Jobs : EnqueueDuplicate(p, j)
       \/ \E j \in Jobs, pr \in Priorities : EnqueueNew(p, j, pr)
       \/ NotifyOne(p)
  /\ UNCHANGED <<progressVars, token>>

\* The client, the callbacks and the drain tasks.
Others ==
  /\ \E t \in Tokens : ClientAnswers(t) \/ Report(t) \/ Write(t)
  /\ UNCHANGED <<vars, token>>

WorkerNext == Worker \/ Produce \/ Others

(* The worker, the drain tasks and a producer that owes a notification are *)
(* tasks of a running executor, and a job's own work comes to an end.  The *)
(* client has to answer nothing.                                           *)
WorkerFairness ==
  /\ WF_workerVars(Worker)
  /\ \A p \in Producers : WF_workerVars(NotifyOne(p) /\ UNCHANGED <<progressVars, token>>)
  /\ \A t \in Tokens : WF_workerVars(Write(t) /\ UNCHANGED <<vars, token>>)

WorkerSpec == WorkerInit /\ [][WorkerNext]_workerVars /\ WorkerFairness

-----------------------------------------------------------------------------
(* Whatever the client does with the requests a job sends it, the worker   *)
(* serves the queue as fairly as one whose jobs report nothing, and every  *)
(* job that was asked for is taken: no job waits for an answer for ever    *)
(* (progress.rs: a client that does not answer must not wedge "the single  *)
(* serial background worker").                                             *)
ServesQueue == FairSpec /\ EventuallyTaken
=============================================================================
