---------------------------- MODULE MCDiagnostics ----------------------------
(***************************************************************************)
(* What diagnostics of a module are computed, and which of them the editor *)
(* ends up showing.  The two share no state.  In a behaviour one of them   *)
(* moves, while the other has not begun.                                   *)
(***************************************************************************)
EXTENDS MCModuleRules, DiagnosticsPublish

DiagnosticsInit == RulesInit /\ Init

DiagnosticsNext ==
  \/ /\ begun = 0 /\ fingerprint = [t \in 1 .. MaxText |-> "x"]
     /\ RulesNext /\ UNCHANGED vars
  \/ docs = [f \in Files |-> [blocks |-> {}, clean |-> TRUE]] /\ Next /\ UNCHANGED rulesVars

DiagnosticsSpec == DiagnosticsInit /\ [][DiagnosticsNext]_<<rulesVars, vars>>
=============================================================================
