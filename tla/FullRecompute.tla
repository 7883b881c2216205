--------------------------- MODULE FullRecompute ---------------------------
(***************************************************************************)
(* What the calculator promises: an answer is what a calculation of the    *)
(* whole tree from nothing would give at that moment, however much of it   *)
(* was reused (sim-expr-tree-calc/README.md, "changing and unchanged       *)
(* branches against full recomputation").                                  *)
(***************************************************************************)
EXTENDS CalcPolicy

VARIABLES
  cells,                \* cell -> expression: a sequence of atoms
  bound,                \* name -> value, the lexical bindings
  calc_policies, authority_policies,
  content,              \* what mounted backends hold, and
  settled,              \*   whether the last refresh saw all of it
  answer                \* the roots just answered and their outcomes

inputs == <<cells, bound, calc_policies, authority_policies, content>>
vars == <<inputs, settled, answer>>

----------------------------------------------------------------------------
\* Authority from nothing: allowed at every level, denied at none.
Capable(c) ==
  LET patches == {authority_policies[l] : l \in ToSet(LevelsOf(c))}
      allowed == {cap \in Ceiling : \A p \in patches : cap \in p.allow /\ cap \notin p.deny}
  IN \A p \in patches : p.required \subseteq allowed

Missing == <<"missing">>
Failure == <<"failure">>

\* The cell a name or a reference stands for, without the way there.
Target(c, atom) ==
  IF atom.kind = "ref" THEN atom.arg
  ELSE LET names == {Append(SubSeq(c, 1, k), atom.arg[1]) : k \in 0..Len(c) - 1}
           live == names \cap DOMAIN cells
       IN IF live = {} THEN None
          ELSE CHOOSE p \in live : \A q \in live : Len(q) <= Len(p)

\* The value of a cell, when the cells it refers to have the values below.
ValueBy(below, c) ==
  LET Of(atom) ==
        CASE atom.kind \in {"lit", "opaque"} -> atom.arg
          [] atom.kind = "fail" -> Failure
          [] atom.kind = "ext" -> Entry(content[c])
          [] atom.kind = "sym" /\ atom.arg[1] \in DOMAIN bound -> bound[atom.arg[1]]
          [] OTHER -> LET t == Target(c, atom)
                      IN IF t \in DOMAIN cells THEN below[t] ELSE Missing
      values == [k \in DOMAIN cells[c] |-> Of(cells[c][k])]
  IN IF c \notin DOMAIN cells THEN Missing
     ELSE IF ~ Capable(c) \/ Failure \in ToSet(values) THEN Failure
     ELSE FlattenSeq(values)

\* The values, following at most n references: more of them than there are
\* cells is a cycle.
Value[n \in 0..Cardinality(Cells)] ==
  [c \in Cells |-> IF n = 0 THEN IF c \in DOMAIN cells THEN Failure ELSE Missing
                            ELSE ValueBy(Value[n - 1], c)]

Recomputed(c) == Value[Cardinality(Cells)][c]

----------------------------------------------------------------------------
\* Triggers, budgets and cancellation may refuse an answer at any time.
Allowed(c, outcome) ==
  \/ ~ settled
  \/ outcome.kind = "value" /\ outcome.val = Recomputed(c)
  \/ outcome.kind \in {"failed", "cycle"} /\ Recomputed(c) = Failure
  \/ outcome.kind \in {"blocked", "cancelled", "exhausted", "unknown"}

Init == answer = <<>>

\* The inputs change, and nothing is answered.
Edit == answer' = <<>>

\* A request is answered, for the inputs as they are.
Answer ==
  /\ UNCHANGED inputs
  /\ \A c \in DOMAIN answer' : Allowed(c, answer'[c])

Spec == Init /\ [][Edit \/ Answer]_vars
=============================================================================
