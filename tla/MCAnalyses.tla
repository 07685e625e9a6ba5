------------------------------ MODULE MCAnalyses ------------------------------
(***************************************************************************)
(* The edits that reach over files, the unknown-value analysis and the     *)
(* types suggested for a variable.  The three share no state: in a         *)
(* behaviour one of them moves and the others rest.                        *)
(***************************************************************************)
EXTENDS MCWorkspaceEdits, MCUnknownValues, MCModuleInputs, SuggestedTypes

Resting ==
    [dirs |-> "root" :> RootModule(Literal, Literal, <<Literal, Deferred>>,
                                   [membership |-> FALSE, value |-> FALSE]),
     ask |-> "value", expr |-> Literal]
AnalysisRests == program = Resting /\ frames = <<>> /\ verdict = "no"
InputsRest == InputsInit /\ variable = [type |-> Untyped, default |-> NoDefault]

AnalysesInit ==
    /\ EditInit
    /\ \/ UnknownInit /\ InputsRest
       \/ AnalysisRests /\ InputsInit

AnalysesNext ==
    \/ AnalysisRests /\ InputsRest /\ EditNext /\ UNCHANGED <<unknownVars, inputVars>>
    \/ AnalysisRests /\ EditInit /\ InputsNext /\ UNCHANGED <<unknownVars, editVars>>
    \/ InputsRest /\ UnknownNext /\ UNCHANGED <<editVars, inputVars>>

AnalysesSpec ==
    /\ AnalysesInit /\ [][AnalysesNext]_<<editVars, unknownVars, inputVars>>
    /\ WF_unknownVars(UnknownNext)
=============================================================================
