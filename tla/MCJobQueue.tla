----------------------------- MODULE MCJobQueue -----------------------------
(* A small instance of the worker at its queue.                            *)
EXTENDS IndexWorker
=============================================================================
