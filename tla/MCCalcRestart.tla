--------------------------- MODULE MCCalcRestart ---------------------------
(***************************************************************************)
(* A root cell that reads a cell of a mounted directory, whose value is    *)
(* the content of the backend.                                             *)
(***************************************************************************)
EXTENDS CalcRestart, TLC

A  == <<"a">>
DB == <<"d", "b">>
D  == <<"d">>

Lit(x)  == [kind |-> "lit", arg |-> <<x>>]
Ref(p)  == [kind |-> "ref", arg |-> p]
Ext     == [kind |-> "ext", arg |-> <<>>]

MCCells == {A, DB}
MCTexts == {"x", "y", "missing", "entry"}
MCCellOrder == <<A, DB>>
MCBudgets == {1, 9}
MCTrees == {(A :> <<Ref(DB)>>) @@ (DB :> <<Ext, Lit("x")>>)}
MCSources == (DB :> {<<Lit("y")>>})
MCCalcPatches == {<<TreeLevel, ("budget" :> 1)>>}
MCBindings == <<>>
MCRootSets == {{A}}
MCLimits == {9}
MCMounts == {D}
MCStored == {DB}
=============================================================================
