------------------------------- MODULE MCSync -------------------------------
(***************************************************************************)
(* What an editor session rests on: the server's copy of a document, and   *)
(* the positions and formatting edits exchanged about it.  The two share   *)
(* no state.  In a behaviour one of them moves, while the other has not    *)
(* begun.                                                                  *)
(***************************************************************************)
EXTENDS DocumentSync, TextEdits

sessionVars == <<vars, editVars>>

\* Nothing asked of the formatter.
EditsRest == step = "idle" /\ asked = <<>>

SessionInit == Init /\ EditsInit

DocumentOnly(action) == EditsRest /\ action /\ UNCHANGED editVars
EditsOnly(action) == Init /\ action /\ UNCHANGED vars

SessionNext == DocumentOnly(Next) \/ EditsOnly(EditsNext)

(* Once the document is opened, its handlers get to run.                   *)
SessionSpec ==
  /\ SessionInit /\ [][SessionNext]_sessionVars
  /\ WF_sessionVars(DocumentOnly(Handlers))
=============================================================================
