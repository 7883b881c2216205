--------------------------- MODULE MCSessionPages ---------------------------
(* Finite instances of SessionPages and Surface for TLC. *)
EXTENDS Surface

A  == <<"a">>
AB == <<"a", "b">>
Cells(dir, n) == [i \in 1..n |-> Append(dir, <<"x", "y">>[i])]

\* A root larger than a page over a directory larger than a page.
Wide == (Root :> <<A>> \o Cells(Root, 2)) @@ (A :> <<AB>> \o Cells(A, 2))
        @@ (AB :> Cells(AB, 2))

\* The deep directory is gone and the root has shrunk.
Narrow == (Root :> <<A>>) @@ (A :> Cells(A, 2))

MCLayouts == {Wide, Narrow}

\* A cell that is disclosed, after the directory that may hold the tokens up.
MCOpenCells == {<<"x">>}

\* Budgets that run out of nodes, of depth, of bytes and of nothing.
MCRenderBudgets ==
  {[nodes |-> 4, depth |-> 9, bytes |-> 9], [nodes |-> 9, depth |-> 2, bytes |-> 9],
   [nodes |-> 9, depth |-> 9, bytes |-> 5], [nodes |-> 9, depth |-> 9, bytes |-> 99]}
MCSubtreeCaps == [nodes |-> 2, depth |-> 3, bytes |-> 9]
MCLongNames == {<<"a", "y">>}
MCCellDetails == {[source |-> "complete", receipt |-> TRUE],
                  [source |-> "truncated", receipt |-> FALSE]}
=============================================================================
