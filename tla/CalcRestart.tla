---------------------------- MODULE CalcRestart ----------------------------
(***************************************************************************)
(* The calculator across restarts (sim-expr-tree-calc/src/calc/persistence *)
(* and its modules).  A process may end at any time; the next one loads    *)
(* the authored tree and its control state again and opens the derived     *)
(* graph an earlier process wrote, or rebuilds what it cannot use.         *)
(***************************************************************************)
EXTENDS Calculator

CONSTANTS MaxReopens        \* model bound: restarts

ASSUME RestartAssumption == MaxReopens \in Nat

VARIABLES
  derived,      \* the graph record of the derived Table
  fresh,        \* the process has loaded the tree and not calculated yet
  reopens

persistVars == <<derived, fresh, reopens>>
restartVars == <<vars, persistVars>>

Record(kind) == [kind |-> kind]
NoRecord == Record("missing")

----------------------------------------------------------------------------
\* GraphSnapshot from the cells that have a source: what their memos reach.
Reached == RecursiveClosure(DOMAIN cells)

\* decode_optional_memo and restore_value: a memo whose value is not plain data
\* all the way down comes back as dirty.
Reusable(m) == m.out.kind = "value" => "opaque" \notin ToSet(m.out.val)

\* state_identities: what the graph was calculated from.
SourceIdentity == <<cells, bound>>
ControlIdentity == <<calc_policies, authority_policies, mounts>>

Snapshot ==
  [kind |-> "graph",
   generations |-> <<source_generation, control_generation>>,
   identities |-> <<SourceIdentity, ControlIdentity>>,
   memo |-> [c \in Cells |-> IF c \in Reached THEN memo[c] ELSE NoMemo],
   dirty |-> {c \in Reached : c \in dirty \/ ~ Reusable(memo[c])},
   receipts |-> receipts, queue |-> queue, samples |-> refresh_samples,
   ahead |-> ahead]      \* history

\* persist_derived.  Only the last record before a restart matters: model bound.
PersistDerived ==
  /\ derived = NoRecord /\ reopens < MaxReopens
  /\ derived' = Snapshot
  /\ Quiet
  /\ UNCHANGED <<inputVars, backendVars, engineVars, resultVars, queue, cancel_requested,
                 fresh, reopens>>

\* DerivedTableAdapter::delete; and, external, a record that was damaged or
\* written by another version, which decode_persisted refuses.  Nothing looks at
\* the record before it is opened.
SpoilRecord(kind) ==
  /\ fresh /\ derived.kind = "graph"
  /\ derived' = Record(kind)
  /\ Quiet
  /\ UNCHANGED <<inputVars, backendVars, engineVars, resultVars, queue, cancel_requested,
                 fresh, reopens>>

----------------------------------------------------------------------------
NewEngine(tree) ==
  /\ memo' = [c \in Cells |-> NoMemo] /\ tokens' = <<>>
  /\ registered' = DOMAIN tree /\ pending' = DOMAIN tree /\ dirty' = DOMAIN tree

NoResults(tree) ==
  /\ current' = <<>> /\ failed_cells' = {} /\ receipts' = <<>>
  /\ restored_continuations' = {}
  /\ queue' = [c \in {d \in DOMAIN tree :
                        EffectivePolicy(calc_policies, d)["trigger"] = "automatic"} |-> 0]

MountSamples == [m \in DOMAIN mounts |-> EpochOnly(mounts[m])]

\* The process ends and another opens the tree: the one that was authored, or
\* one that was edited in the meantime.  Loading it may take more edits than it
\* took before.
Reopen(tree, edits) ==
  /\ reopens < MaxReopens /\ reopens' = reopens + 1
  /\ fresh' = TRUE
  /\ cells' = tree
  /\ source_generation' = source_generation + edits
  /\ NewEngine(tree) /\ NoResults(tree)
  /\ refresh_sources' = {} /\ refresh_samples' = MountSamples
  /\ cancel_requested' = FALSE
  /\ answer' = <<>> /\ ahead' = {}
  /\ UNCHANGED <<bound, calc_policies, authority_policies, mounts, control_generation,
                 backend, derived>>

----------------------------------------------------------------------------
\* Mutant: equal generations are taken to mean equal sources.
StateMatchesCounts(r) == r.generations = <<source_generation, control_generation>>

StateMatches(r) ==
  /\ r.generations = <<source_generation, control_generation>>
  /\ r.identities = <<SourceIdentity, ControlIdentity>>

\* current_from_graph, restore_snapshot and restore_automatic_queue.  Nobody reads
\* the record again after the last restart: model bound.
Rehydrate(r) ==
  LET known == {c \in Cells : r.memo[c] # NoMemo}
  IN /\ memo' = r.memo /\ tokens' = <<>>
     /\ pending' = (registered \ known) \cup r.dirty
     /\ dirty' = pending' \cup Readers(r.memo, r.dirty)
     /\ current' = [c \in known |-> r.memo[c].out]
     /\ failed_cells' = {c \in known : r.memo[c].out.kind # "value"}
     /\ receipts' = r.receipts
     /\ queue' = r.queue /\ restored_continuations' = Range(r.queue) \ {0}
     /\ refresh_samples' = r.samples /\ ahead' = r.ahead
     /\ derived' = IF reopens < MaxReopens THEN derived ELSE NoRecord
     /\ UNCHANGED registered

\* rebuild_derived_state; the record is deleted.
Rebuild ==
  /\ NewEngine(cells) /\ NoResults(cells)
  /\ refresh_samples' = MountSamples /\ ahead' = {}
  /\ derived' = NoRecord

\* restore_derived
RestoreDerived ==
  /\ fresh /\ fresh' = FALSE
  /\ \/ derived.kind = "graph" /\ StateMatches(derived) /\ Rehydrate(derived)
     \/ derived.kind = "graph" /\ ~ StateMatches(derived) /\ Rebuild
     \/ derived.kind # "graph" /\ Rebuild
  /\ answer' = <<>>
  /\ UNCHANGED <<inputVars, refresh_sources, backend, cancel_requested, reopens>>

----------------------------------------------------------------------------
RestartInit == Init /\ derived = NoRecord /\ fresh = FALSE /\ reopens = 0

\* A host opens the derived state before it calculates.  What a process calculates
\* after its last record is lost with it: model bound.  Cancellation is left to
\* Calculator.
RestartNext ==
  \/ (Edit \/ Backends) /\ UNCHANGED persistVars
  \/ Request /\ ~ fresh /\ (derived = NoRecord \/ reopens = MaxReopens)
             /\ UNCHANGED persistVars
  \/ PersistDerived
  \/ \E kind \in {"missing", "corrupt", "incompatible"} : SpoilRecord(kind)
  \/ \E edits \in {0, 1} : Reopen(cells, edits)
  \/ \E c \in DOMAIN Sources : \E e \in Sources[c] : Reopen(With(cells, c, e), 0)
  \/ RestoreDerived

RestartSpec == RestartInit /\ [][RestartNext]_restartVars
=============================================================================
