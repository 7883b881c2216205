----------------------------- MODULE CalcPolicy -----------------------------
(***************************************************************************)
(* Paths, name lookup and inherited policy of the calculator               *)
(* (sim-expr-tree-calc/src/calc/policy.rs and calc/eval/namespace.rs).     *)
(*                                                                         *)
(* A path is a sequence of names.  A policy is a patch per level: one for  *)
(* the tree, one per directory and one per cell; a level without a patch   *)
(* has the empty one.  A calculation patch is a function from the fields   *)
(* it overrides; an authority patch has an allow list, denials and         *)
(* requirements.                                                           *)
(***************************************************************************)
EXTENDS Integers, Sequences, FiniteSets, SequencesExt

CONSTANTS
  Cells,            \* the paths a cell can have
  Ceiling,          \* capabilities of the context when the calculator opened
  Budgets           \* positive amounts of work; a budget is one of its fields

ASSUME PathAssumption ==
  /\ \A c \in Cells : c \in Seq(STRING) /\ c # <<>>
  /\ IsFiniteSet(Cells) /\ IsFiniteSet(Ceiling)
  /\ Budgets \subseteq Nat \ {0} /\ Budgets # {}

----------------------------------------------------------------------------
\* parent_path, and the directories between the root and a cell
ParentPath(path) == Front(path)
Dirs == UNION {{SubSeq(c, 1, k) : k \in 0..Len(c) - 1} : c \in Cells}
IsDescendantOrSame(dir, path) == IsPrefix(dir, path)

TreeLevel == <<"tree", <<>>>>
DirLevel(d) == <<"dir", d>>
CellLevel(c) == <<"cell", c>>
Levels == {TreeLevel} \cup {DirLevel(d) : d \in Dirs} \cup {CellLevel(c) : c \in Cells}

\* ancestor_directories between the tree and the cell: the root comes first.
LevelsOf(c) ==
  <<TreeLevel>> \o [k \in 1..Len(c) |-> DirLevel(SubSeq(c, 1, k - 1))]
                \o <<CellLevel(c)>>

\* The cells a patch at a level governs.
Governed(level) ==
  CASE level[1] = "tree" -> Cells
    [] level[1] = "dir"  -> {c \in Cells : IsDescendantOrSame(level[2], c)}
    [] level[1] = "cell" -> {level[2]}

----------------------------------------------------------------------------
Triggers == {"automatic", "on-demand", "manual", "frozen"}
Fields == {"trigger", "error_mode", "cycle_mode", "budget"}
NoPatch == [f \in {} |-> 0]

\* EffectiveCalcPolicy::default
DefaultPolicy ==
  [f \in Fields |-> CASE f = "trigger"    -> "automatic"
                      [] f = "error_mode" -> "continue"
                      [] f = "cycle_mode" -> "fail"
                      [] f = "budget"     -> CHOOSE b \in Budgets :
                                               \A x \in Budgets : x <= b]

\* CalcPolicyPatch::apply_to
ApplyTo(patch, effective) ==
  [f \in Fields |-> IF f \in DOMAIN patch THEN patch[f] ELSE effective[f]]

EffectivePolicy(policies, c) ==
  LET levels == LevelsOf(c)
      upTo[k \in 0..Len(levels)] ==
        IF k = 0 THEN DefaultPolicy ELSE ApplyTo(policies[levels[k]], upTo[k - 1])
  IN upTo[Len(levels)]

----------------------------------------------------------------------------
\* An allow list of None inherits; all capabilities of the ceiling stand for it.
NoAuthorityPatch == [allow |-> Ceiling, deny |-> {}, required |-> {}]

Diminish(authority, patch) ==
  LET denied == authority.denied \cup patch.deny
  IN [capabilities |-> (authority.capabilities \cap patch.allow) \ denied,
      denied       |-> denied,
      required     |-> authority.required \cup patch.required]

\* EffectiveAuthority::derive
EffectiveAuthority(policies, c) ==
  LET levels == LevelsOf(c)
      upTo[k \in 0..Len(levels)] ==
        IF k = 0 THEN [capabilities |-> Ceiling, denied |-> {}, required |-> {}]
        ELSE Diminish(upTo[k - 1], policies[levels[k]])
  IN upTo[Len(levels)]

\* first_missing_requirement
RequirementMissing(policies, c) ==
  LET authority == EffectiveAuthority(policies, c)
  IN ~ authority.required \subseteq authority.capabilities

----------------------------------------------------------------------------
(***************************************************************************)
(* Looking names up.  A lookup yields what it observed and the cell it     *)
(* found, or None.  Queries are pairs of a kind and a path.                *)
(***************************************************************************)
None == <<>>

\* The content of a backend's entry, told apart by its length.
Entry(n) == [k \in 1..n |-> "entry"]

LookupSteps(path) == {<<"step", SubSeq(path, 1, k)>> : k \in 0..Len(path)}

\* resolve_bare_symbol: the candidates, from the caller's directory to the root
Candidates(c, name) ==
  [k \in 1..Len(c) |-> Append(SubSeq(c, 1, Len(c) - k), name)]

ResolveBare(existing, c, name) ==
  LET candidates == Candidates(c, name)
      hits    == {k \in DOMAIN candidates : candidates[k] \in existing}
      last    == IF hits = {} THEN Len(candidates)
                 ELSE CHOOSE k \in hits : \A j \in hits : k <= j
      visited == {candidates[k] : k \in 1..last}
      found   == IF hits = {} THEN None ELSE candidates[last]
  IN [found |-> found,
      obs |-> {<<"list", ParentPath(p)>> : p \in visited}
                \cup (UNION {LookupSteps(p) : p \in visited})
                \cup {<<"slot", p>> : p \in visited \ {found}}]

\* resolve_target; mounted is the set of mounted directories.  A mount of another
\* resource, which only a reference to its own path observes, is not modelled.
ResolveTarget(existing, mounted, target) ==
  LET found == IF target \in existing THEN target ELSE None
  IN [found |-> found,
      obs |-> {<<"list", ParentPath(target)>>}
                \cup LookupSteps(target)
                \cup {<<"mount", m>> : m \in {d \in mounted : IsPrefix(d, target)}}
                \cup IF found = None THEN {<<"slot", target>>} ELSE {}]
=============================================================================
