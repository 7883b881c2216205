---------------------------- MODULE MCCalculator ----------------------------
(***************************************************************************)
(* A root cell and a directory with two cells.  The cell a of the root and *)
(* the cell a of the directory have the same name, so a bare name in the   *)
(* directory changes its meaning as they come and go; the second tree is   *)
(* a cycle until a cell a of the directory breaks it.  Backends are in     *)
(* MCCalcRestart.                                                          *)
(***************************************************************************)
EXTENDS Calculator, TLC

A  == <<"a">>
DA == <<"d", "a">>
DB == <<"d", "b">>
D  == <<"d">>

Lit(x)  == [kind |-> "lit", arg |-> <<x>>]
Sym(n)  == [kind |-> "sym", arg |-> <<n>>]
Ref(p)  == [kind |-> "ref", arg |-> p]
Fail    == [kind |-> "fail", arg |-> <<>>]

MCCells == {A, DA, DB}
MCTexts == {"x", "y", "bound", "missing", "entry"}
MCCellOrder == <<A, DA, DB>>
MCCeiling == {"net"}
MCBudgets == {1, 9}
MCTrees == {(A :> <<Lit("x")>>) @@ (DB :> <<Sym("a")>>),
            (A :> <<Ref(DB)>>) @@ (DB :> <<Sym("a")>>)}
MCSources == (DA :> {<<Fail>>, <<Lit("y")>>})
MCBindings == [n \in {"a"} |-> <<"bound">>]
MCCalcPatches ==
  {<<DirLevel(D), ("trigger" :> "manual")>>,
   <<TreeLevel, ("trigger" :> "on-demand") @@ ("error_mode" :> "fail-fast")
                  @@ ("cycle_mode" :> "block") @@ ("budget" :> 1)>>}
MCAuthorityPatches == {<<TreeLevel, [NoAuthorityPatch EXCEPT !.required = {"disk"}]>>}
MCRootSets == {{A}, {DA, DB}}
MCLimits == {9}
MCMounts == {}
MCStored == {}
=============================================================================
