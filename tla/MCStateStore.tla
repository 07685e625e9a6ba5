---------------------------- MODULE MCStateStore ----------------------------
(***************************************************************************)
(* What the diagnostics look up: a small instance of the state store, with *)
(* what the parser makes of each text, and the version catalogues on disk. *)
(* The two share no state.  In a behaviour one of them moves, while the    *)
(* other has not begun.                                                    *)
(***************************************************************************)
EXTENDS StateStore, VersionCatalog, TLC

CONSTANTS x, y, tRefers, tBoth, tBroken

MCOutcome ==
  tRefers :> "clean" @@ tBoth :> "clean" @@ tBroken :> "bodyless"
MCDeclares ==
  tRefers :> {} @@ tBoth :> {x, y} @@ tBroken :> {x}
MCRefers ==
  tRefers :> {x} @@ tBoth :> {x} @@ tBroken :> {}

\* A catalogue nobody has asked for.
CatalogRests == CatalogInit /\ kind = "git"

lookupVars == <<vars, catalogVars>>
LookupInit == Init /\ CatalogInit
LookupNext ==
  \/ CatalogRests /\ Next /\ UNCHANGED catalogVars
  \/ Init /\ CatalogNext /\ UNCHANGED vars
LookupSpec == LookupInit /\ [][LookupNext]_lookupVars

ThreadSymmetry == Permutations(Threads) \cup Permutations(Uris)
=============================================================================
