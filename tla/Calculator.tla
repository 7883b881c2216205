----------------------------- MODULE Calculator -----------------------------
(***************************************************************************)
(* The incremental calculator (sim-expr-tree-calc/src/calc.rs and          *)
(* calc/engine.rs, session.rs, attempt.rs, eval.rs, refresh.rs): sources,  *)
(* bindings, policies and mounts are edited; a request verifies its roots, *)
(* reusing what is still valid and evaluating the rest depth first.        *)
(*                                                                         *)
(* An expression is the sequence of its atoms: literals, bare symbols,     *)
(* explicit references, reads of a mounted backend, a value without        *)
(* canonical form and an error.  Its value is the concatenation of their   *)
(* values.                                                                 *)
(*                                                                         *)
(* The incremental engine is external.  It keeps a memo per cell with what *)
(* the evaluation observed, the cells that must be evaluated again         *)
(* (pending) and the cells that must be looked at before they are reused   *)
(* (dirty: its dirty_keys).                                                *)
(***************************************************************************)
EXTENDS CalcPolicy, Functions

CONSTANTS
  CellOrder,        \* the cells in the order of their paths
  Texts,            \* what values are made of
  Trees,            \* cell -> expression, the trees a host may load at the start
  Sources,          \* cell -> the expressions it may be given later
  Bindings,         \* name -> the value it may be bound to
  CalcPatches, AuthorityPatches,    \* sets of <<level, patch>>
  Mounts,           \* directories that may be mounted
  Stored,           \* the cells below them that read a backend's entry
  RootSets, Limits, \* the roots and the limits a request may have
  MaxSource, MaxControl,    \* model bounds: edits after the load,
  MaxStamp,                 \*   stamps of a backend's entry,
  MaxCalls                  \*   and steps of one verification

\* An atom's text, the one name of a bare symbol, or the path of a reference.
Atoms ==
  [kind : {"lit", "opaque"}, arg : Seq(Texts)]
    \cup [kind : {"sym"}, arg : [1..1 -> STRING]]
    \cup [kind : {"ref", "ext", "fail"}, arg : Seq(STRING)]

\* "failure" marks a failed calculation in FullRecompute.
ASSUME CalculatorAssumption ==
  /\ CellOrder \in Seq(Cells) /\ ToSet(CellOrder) = Cells
  /\ \A roots \in RootSets : roots \subseteq Cells /\ roots # {}
  /\ Limits \subseteq Nat
  /\ Mounts \subseteq Dirs /\ Stored \subseteq Cells
  /\ \A c \in Stored : \E m \in Mounts : IsPrefix(m, c)
  /\ \A x \in CalcPatches \cup AuthorityPatches : x[1] \in Levels
  /\ {MaxSource, MaxControl, MaxStamp, MaxCalls} \subseteq Nat

ASSUME ExpressionAssumption ==
  /\ {"missing", "entry"} \subseteq Texts /\ "failure" \notin Texts
  /\ \A t \in Trees : DOMAIN t \subseteq Cells /\ t \in [DOMAIN t -> Seq(Atoms)]
  /\ DOMAIN Sources \subseteq Cells
  /\ \A c \in DOMAIN Sources : Sources[c] \subseteq Seq(Atoms)
  /\ \A n \in DOMAIN Bindings : Bindings[n] \in Seq(Texts)

VARIABLES
  cells, bound, calc_policies, authority_policies,      \* CalcState
  mounts,               \* mounted directory -> observed epoch
  source_generation, control_generation,
  refresh_sources, refresh_samples,
  backend,              \* external: mount -> [epoch, listing and entry stamps]
  registered,           \* the cells the engine has a query for
  memo, pending, dirty, \* external: the engine
  tokens,               \* external: the roots of the continuations it issued
  current, failed_cells, receipts,
  queue,                \* automatic_queue: cell -> continuation, 0 for none
  restored_continuations,   \* the ones an earlier process left in the queue
  cancel_requested,
  answer,               \* history: the roots the engine verified in the last step
  ahead                 \* history: the entries that may have been read past
                        \*   what the last refresh compared

inputVars  == <<cells, bound, calc_policies, authority_policies, mounts,
                source_generation, control_generation>>
backendVars == <<refresh_sources, refresh_samples, backend>>
engineVars == <<registered, memo, pending, dirty, tokens>>
resultVars == <<current, failed_cells, receipts, restored_continuations>>
vars == <<inputVars, backendVars, engineVars, resultVars, queue,
          cancel_requested, answer, ahead>>

----------------------------------------------------------------------------
\* Outcomes of a memo, of a root and of an attempt.
Outcome(kind, val) == [kind |-> kind, val |-> val]
Unknown == Outcome("unknown", <<>>)
Failures == {"failed", "cycle", "blocked"}
Stops == {"cancelled", "exhausted", "unknown"}

NoMemo == [out |-> Unknown, obs |-> {}, reads |-> <<>>]

\* Nothing is answered by an edit, and nothing read.
Quiet == answer' = <<>> /\ UNCHANGED ahead

Without(f, S) == [x \in DOMAIN f \ S |-> f[x]]
With(f, x, y) == [z \in DOMAIN f \cup {x} |-> IF z = x THEN y ELSE f[z]]
Joined(f, g) == [x \in DOMAIN f \cup DOMAIN g |-> IF x \in DOMAIN f THEN f[x] ELSE g[x]]

\* observe_runtime_context: what every evaluation of a cell observes.
RuntimeContext(c) == {<<"policy", c>>, <<"authority", c>>, <<"force", c>>,
                      <<"codec", None>>, <<"cell", c>>}

----------------------------------------------------------------------------
\* IncrementalEngine::invalidate: what observed a query is pending, and what
\* reads that, at any distance, is dirty.
Observers(m, Q) ==
  {c \in Cells : \/ <<"cell", c>> \in Q
                 \/ m[c] # NoMemo /\ (m[c].obs \cup RuntimeContext(c)) \cap Q # {}}

ReadersOf(m, S) == {c \in Cells : ToSet(m[c].reads) \cap S # {}}
Readers(m, S) ==
  {c \in Cells : \A T \in SUBSET Cells : S \cup ReadersOf(m, T) \subseteq T => c \in T}

Invalidate(Q) ==
  /\ pending' = pending \cup Observers(memo, Q)
  /\ dirty' = dirty \cup Readers(memo, Observers(memo, Q))

\* schedule_dirty_automatic and prune_satisfied_automatic; AutomaticQueue has
\* the order, the readiness and the priorities of the entries.
Scheduled(D, policies) ==
  [c \in {d \in D : EffectivePolicy(policies, d)["trigger"] = "automatic"} |->
     IF c \in DOMAIN queue THEN queue[c] ELSE 0]
Pruned(q, D) == Restrict(q, DOMAIN q \cap D)

----------------------------------------------------------------------------
Backend0 == [m \in Mounts |->
  [epoch |-> 1, listing |-> 1, stamps |-> [c \in {d \in Stored : IsPrefix(m, d)} |-> 1]]]
\* BackendRefreshSample::new
EpochOnly(epoch) == [epoch |-> epoch, listing |-> 0, stamps |-> [c \in {} |-> 0]]

\* with_context_factory, set_cell for the cells of the tree and mount.
Init ==
  /\ cells \in Trees /\ bound = <<>> /\ mounts = [m \in Mounts |-> 1]
  /\ calc_policies = [l \in Levels |-> NoPatch]
  /\ authority_policies = [l \in Levels |-> NoAuthorityPatch]
  /\ source_generation = 0 /\ control_generation = 0
  /\ refresh_sources = {} /\ refresh_samples = [m \in Mounts |-> EpochOnly(1)]
  /\ backend = Backend0
  /\ registered = DOMAIN cells /\ memo = [c \in Cells |-> NoMemo]
  /\ pending = DOMAIN cells /\ dirty = DOMAIN cells /\ tokens = <<>>
  /\ current = <<>> /\ failed_cells = {} /\ receipts = <<>>
  /\ queue = [c \in DOMAIN cells |-> 0] /\ restored_continuations = {}
  /\ cancel_requested = FALSE
  /\ answer = <<>> /\ ahead = {}

----------------------------------------------------------------------------
(***************************************************************************)
(* Editing sources and bindings.                                           *)
(***************************************************************************)
\* Mutant: the slot a lookup found empty is not invalidated.
SourceQueriesListed(c, namespace_changed) == {<<"cell", c>>}

\* invalidate_cell_source; a name that appears or disappears changes the
\* listing of its directory and its own slot.
SourceQueries(c, namespace_changed) ==
  {<<"cell", c>>} \cup
    IF namespace_changed THEN {<<"slot", c>>, <<"list", ParentPath(c)>>} ELSE {}

FailedQueries == {<<"cell", c>> : c \in failed_cells}

SourceEdited(Q, gone) ==
  /\ Quiet
  /\ source_generation < MaxSource
  /\ source_generation' = source_generation + 1
  /\ current' = Without(current, gone)
  /\ Invalidate(Q \cup FailedQueries)
  /\ queue' = Scheduled(dirty', calc_policies)
  /\ UNCHANGED <<bound, calc_policies, authority_policies, mounts, control_generation,
                 backendVars, memo, tokens, failed_cells, receipts,
                 restored_continuations, cancel_requested>>

SetCell(c, e) ==
  /\ SourceEdited(SourceQueries(c, c \notin DOMAIN cells), {c})
  /\ cells' = With(cells, c, e)
  /\ registered' = registered \cup {c}

RemoveCell(c) ==
  /\ SourceEdited(SourceQueries(c, TRUE), {c})
  /\ cells' = Without(cells, {c})
  /\ registered' = registered \cup {c}

\* A source at the target is replaced; without a source at the origin both
\* places are invalidated all the same.
MoveCell(from, to) ==
  /\ from # to
  /\ SourceEdited(SourceQueries(from, TRUE) \cup SourceQueries(to, TRUE), {from, to})
  /\ cells' = IF from \in DOMAIN cells
                THEN Without(With(cells, to, cells[from]), {from}) ELSE cells
  /\ registered' = registered \cup {from} \cup ({to} \cap DOMAIN cells')

\* bind_name and bind_value; neither schedules.
BindValue(name) ==
  /\ Quiet
  /\ source_generation < MaxSource
  /\ source_generation' = source_generation + 1
  /\ bound' = With(bound, name, Bindings[name])
  /\ Invalidate({<<"lexical", <<name>>>>})
  /\ UNCHANGED <<cells, calc_policies, authority_policies, mounts, control_generation,
                 backendVars, registered, memo, tokens, resultVars, queue, cancel_requested>>

----------------------------------------------------------------------------
(***************************************************************************)
(* Editing policies.                                                       *)
(***************************************************************************)
\* Mutant: only the cells of the directory itself, not of the ones below it.
PolicyQueriesNearby(kind, level) ==
  {<<kind, c>> : c \in IF level[1] = "cell" THEN {level[2]}
                       ELSE {d \in DOMAIN cells : ParentPath(d) = level[2]}}

\* A tree or directory patch reaches the cells that have a source.
PolicyQueries(kind, level) ==
  {<<kind, c>> : c \in IF level[1] = "cell" THEN {level[2]}
                                            ELSE Governed(level) \cap DOMAIN cells}

PolicyEdited(Q) ==
  /\ Quiet
  /\ control_generation < MaxControl
  /\ control_generation' = control_generation + 1
  /\ Invalidate(Q)
  /\ queue' = Scheduled(dirty', calc_policies')
  /\ UNCHANGED <<cells, bound, mounts, source_generation, backendVars, registered, memo, tokens,
                 resultVars, cancel_requested>>

\* set_tree_calc_policy, set_dir_calc_policy, set_cell_calc_policy
SetCalcPolicy(level, patch) ==
  /\ calc_policies' = [calc_policies EXCEPT ![level] = patch]
  /\ PolicyEdited(PolicyQueries("policy", level))
  /\ UNCHANGED authority_policies

\* set_tree_authority_policy, set_dir_authority_policy, set_cell_authority_policy
SetAuthorityPolicy(level, patch) ==
  /\ authority_policies' = [authority_policies EXCEPT ![level] = patch]
  /\ UNCHANGED calc_policies
  /\ PolicyEdited(PolicyQueries("authority", level))

----------------------------------------------------------------------------
(***************************************************************************)
(* Mounted backends.                                                       *)
(***************************************************************************)
ControlEdited ==
  /\ Quiet
  /\ control_generation < MaxControl
  /\ control_generation' = control_generation + 1
  /\ UNCHANGED <<cells, bound, calc_policies, authority_policies, source_generation,
                 registered, memo, tokens, resultVars, cancel_requested, backend>>

\* set_codec_registry_revision
SetCodecRegistryRevision ==
  /\ ControlEdited
  /\ Invalidate({<<"codec", None>>})
  /\ UNCHANGED <<mounts, refresh_sources, refresh_samples, queue>>

Mount(m, epoch) ==
  /\ ControlEdited
  /\ mounts' = With(mounts, m, epoch)
  /\ refresh_samples' = With(refresh_samples, m, EpochOnly(epoch))
  /\ Invalidate({<<"mount", m>>})
  /\ UNCHANGED <<refresh_sources, queue>>

Unmount(m) ==
  /\ m \in DOMAIN mounts
  /\ ControlEdited
  /\ mounts' = Without(mounts, {m})
  /\ refresh_sources' = refresh_sources \ {m}
  /\ refresh_samples' = Without(refresh_samples, {m})
  /\ Invalidate({<<"mount", m>>})
  /\ UNCHANGED queue

\* observe_mount_epoch: without a mount only the sample is kept.
ObserveMountEpoch(m, epoch) ==
  /\ Quiet
  /\ \/ /\ m \in DOMAIN mounts /\ control_generation < MaxControl
        /\ mounts' = [mounts EXCEPT ![m] = epoch]
        /\ control_generation' = control_generation + 1
     \/ m \notin DOMAIN mounts /\ UNCHANGED <<mounts, control_generation>>
  /\ refresh_samples' = With(refresh_samples, m,
       [(IF m \in DOMAIN refresh_samples THEN refresh_samples[m] ELSE EpochOnly(epoch))
          EXCEPT !.epoch = epoch])
  /\ Invalidate({<<"mount", m>>})
  /\ UNCHANGED <<cells, bound, calc_policies, authority_policies, source_generation,
                 refresh_sources, backend, registered, memo, tokens, resultVars, queue,
                 cancel_requested>>

\* attach_refresh_source and detach_refresh_source.  A source with a watch
\* contract is skipped by refresh: it is as if it were not attached.
AttachRefreshSource(m) ==
  /\ Quiet /\ m \in DOMAIN mounts
  /\ refresh_sources' = refresh_sources \cup {m}
  /\ UNCHANGED <<inputVars, refresh_samples, backend, engineVars, resultVars, queue,
                 cancel_requested>>

DetachRefreshSource(m) ==
  /\ Quiet
  /\ refresh_sources' = refresh_sources \ {m}
  /\ UNCHANGED <<inputVars, refresh_samples, backend, engineVars, resultVars, queue,
                 cancel_requested>>

\* External: a backend's entry is written behind the calculator's back.  Stamps
\* are monotone or derived from the content, so an entry may have an earlier one
\* again; the backend-wide epoch and the listing stamp may move too.
BackendWrite(m, c) ==
  /\ Quiet
  /\ \E stamp \in (1..MaxStamp) \ {backend[m].stamps[c]}, wide \in {backend[m].epoch, 2} :
       backend' = [backend EXCEPT ![m].epoch = wide, ![m].listing = wide,
                                  ![m].stamps[c] = stamp]
  /\ UNCHANGED <<inputVars, refresh_sources, refresh_samples, engineVars, resultVars,
                 queue, cancel_requested>>

\* Mutant: an unchanged epoch is taken to mean an unchanged backend.
RefreshQueriesByEpoch(m) ==
  IF refresh_samples[m].epoch # backend[m].epoch
    THEN {<<"mount", m>>} \cup {<<"cell", c>> : c \in DOMAIN backend[m].stamps} ELSE {}

StampOf(sample, c) == IF c \in DOMAIN sample.stamps THEN sample.stamps[c] ELSE 0
ChangedStamps(before, after) ==
  {c \in Cells : StampOf(before, c) # StampOf(after, c)}
RefreshQueries(m) ==
  LET before == refresh_samples[m]  after == backend[m]
  IN (IF before.epoch # after.epoch THEN {<<"mount", m>>} ELSE {})
       \cup (IF before.listing # after.listing THEN {<<"list", m>>} ELSE {})
       \cup {<<kind, c>> : kind \in {"step", "slot", "cell"},
                           c \in ChangedStamps(before, after)}

\* refresh: every attached backend is sampled before anything is changed; a
\* sample that fails or lies outside its mount leaves everything as it was.
Refresh(changed) ==
  LET queries == UNION {RefreshQueries(m) : m \in changed}
      compared == UNION {ChangedStamps(refresh_samples[m], backend[m]) : m \in changed}
  IN /\ changed = {m \in refresh_sources : refresh_samples[m] # backend[m]}
     /\ answer' = <<>> /\ ahead' = ahead \ compared
     /\ control_generation < MaxControl
     /\ control_generation' = control_generation + 1
     /\ mounts' = [m \in DOMAIN mounts |->
                     IF m \in changed THEN backend[m].epoch ELSE mounts[m]]
     /\ refresh_samples' = [m \in DOMAIN refresh_samples |->
                     IF m \in changed THEN backend[m] ELSE refresh_samples[m]]
     /\ Invalidate(queries)
     /\ queue' = IF queries = {} THEN queue ELSE Scheduled(dirty', calc_policies)
     /\ UNCHANGED <<cells, bound, calc_policies, authority_policies, source_generation,
                    refresh_sources, backend, registered, memo, tokens, resultVars,
                    cancel_requested>>

----------------------------------------------------------------------------
(***************************************************************************)
(* Evaluation.  A request runs without interruption; what it may change is *)
(* threaded through the evaluation as one record.                          *)
(***************************************************************************)
\* External: what the backend above a cell holds for it, by its stamp.
MountOf(c) == CHOOSE m \in Mounts : IsPrefix(m, c)
Content == [c \in Cells |-> IF c \in Stored THEN backend[MountOf(c)].stamps[c] ELSE 0]

\* The stamp the last refresh saw there, 0 for none.
Since(c) ==
  IF c \in Stored /\ MountOf(c) \in DOMAIN refresh_samples
    THEN StampOf(refresh_samples[MountOf(c)], c) ELSE 0

Start ==
  [memo |-> memo, pending |-> pending, dirty |-> dirty, tokens |-> tokens,
   current |-> current, failed |-> failed_cells, receipts |-> receipts, queue |-> queue,
   restored |-> restored_continuations, cancel |-> cancel_requested, answer |-> <<>>,
   fuel |-> 0, attempts |-> <<>>, calls |-> <<>>, out |-> Unknown, halted |-> FALSE]

Commit(w) ==
  /\ memo' = w.memo /\ pending' = w.pending /\ dirty' = w.dirty /\ tokens' = w.tokens
  /\ current' = w.current /\ failed_cells' = w.failed /\ receipts' = w.receipts
  /\ queue' = w.queue /\ restored_continuations' = w.restored
  /\ cancel_requested' = w.cancel /\ answer' = w.answer
  /\ ahead' = ahead \cup {c \in Stored : Since(c) # Content[c]}
  /\ UNCHANGED <<inputVars, backendVars, registered>>

Invalidated(w, Q) ==
  [w EXCEPT !.pending = @ \cup Observers(w.memo, Q),
            !.dirty = @ \cup Readers(w.memo, Observers(w.memo, Q))]

\* blocked_by_trigger; a request is [directed, automatic]
BlockedByTrigger(c, request) ==
  LET trigger == EffectivePolicy(calc_policies, c)["trigger"]
  IN \/ trigger = "on-demand" /\ request.automatic
     \/ trigger = "manual" /\ (request.automatic \/ c \notin request.directed)
     \/ trigger = "frozen"

\* apply_cycle_policy
CycleApplied(c, kind) ==
  IF kind = "cycle" /\ EffectivePolicy(calc_policies, c)["cycle_mode"] = "block"
    THEN "blocked" ELSE kind

\* canonicalize_value: a value that is itself opaque gets an identity of its own.
Volatile(out) == out.val = <<"opaque">>

Attempted(w, c, kind) ==
  [w EXCEPT !.attempts = Append(@, [cell |-> c, outcome |-> kind])]

\* The attempt is finished and the memo replaced.  A value that differs, or
\* cannot be compared, makes the cells that read it pending.  frame is what the
\* evaluation produced and observed.
Finished(w, c, kind, frame) ==
  LET out == IF kind = "value" THEN Outcome(kind, frame.val)
                               ELSE Outcome(CycleApplied(c, kind), <<>>)
      stale == IF out = w.memo[c].out /\ ~ Volatile(out) THEN {} ELSE ReadersOf(w.memo, {c})
  IN [Attempted(w, c, out.kind) EXCEPT
        !.memo[c] = [out |-> out, obs |-> frame.obs, reads |-> frame.reads],
        !.pending = (@ \cup stale) \ {c},
        !.dirty = (@ \cup stale) \ {c},
        !.out = out]

\* What the lookups of an atom observe and find.
Resolved(c, atom) ==
  CASE atom.kind = "ref" -> ResolveTarget(DOMAIN cells, DOMAIN mounts, atom.arg)
    [] atom.kind = "sym" ->
         LET bare == IF atom.arg[1] \in DOMAIN bound THEN [found |-> None, obs |-> {}]
                     ELSE ResolveBare(DOMAIN cells, c, atom.arg[1])
         IN [bare EXCEPT !.obs = @ \cup {<<"lexical", atom.arg>>}]
    [] OTHER -> [found |-> None, obs |-> {}]

\* A literal, the content of a backend, a bound name or a missing one.
ImmediateValue(c, atom) ==
  CASE atom.kind \in {"lit", "opaque"} -> atom.arg
    [] atom.kind = "ext" -> Entry(Content[c])
    [] atom.kind = "sym" /\ atom.arg[1] \in DOMAIN bound -> bound[atom.arg[1]]
    [] OTHER -> <<"missing">>

MustRun(w, c) == w.memo[c] = NoMemo \/ c \in w.pending

\* The calls of one request that have not returned, the innermost first.  A call
\* verifies the cells its memo read, or evaluates the atoms of its expression;
\* left is what it has still to look at.
Active(w) == {call.cell : call \in ToSet(w.calls)}

Verification(w, c) ==
  [cell |-> c, running |-> FALSE,
   left |-> IF MustRun(w, c) \/ c \notin w.dirty THEN <<>> ELSE w.memo[c].reads,
   val |-> <<>>, fail |-> "", obs |-> {}, reads |-> <<>>]

\* evaluate_cell: a cell without a source has the missing value.
Evaluation(c) ==
  [cell |-> c, running |-> TRUE,
   left |-> IF c \in DOMAIN cells THEN cells[c] ELSE <<>>,
   val |-> IF c \in DOMAIN cells THEN <<>> ELSE <<"missing">>,
   fail |-> "", obs |-> {}, reads |-> <<>>]

\* IncrementalEngine::verify
Verify(w, c) ==
  [w EXCEPT !.calls = <<Verification(w, c)>> \o @, !.out = w.memo[c].out]

\* bind_dependency: what a read of a cell gives to the evaluation that asked for it.
Taken(call, out) ==
  [call EXCEPT !.val = @ \o out.val, !.fail = IF out.kind = "value" THEN "" ELSE out.kind]

\* The innermost call returns w.out.
Returned(w) ==
  LET rest == Tail(w.calls)
  IN [w EXCEPT !.calls =
        IF rest # <<>> /\ Head(rest).running
          THEN <<Taken(Head(rest), w.out)>> \o Tail(rest) ELSE rest]

\* prepare_expr on one atom: a query for a cell being evaluated is a cycle.
EvaluateAtom(w, call) ==
  LET atom == Head(call.left)
      at   == Resolved(call.cell, atom)
      seen == [call EXCEPT !.left = Tail(@), !.obs = @ \cup at.obs,
                 !.reads = IF at.found = None THEN @ ELSE Append(@, at.found)]
      Goes(next) == [w EXCEPT !.fuel = @ - 1, !.calls = <<next>> \o Tail(@)]
  IN IF w.fuel = 0 THEN [w EXCEPT !.calls = <<[call EXCEPT !.fail = "exhausted"]>> \o Tail(@)]
     ELSE IF atom.kind = "fail" THEN Goes([seen EXCEPT !.fail = "failed"])
     ELSE IF at.found = None
       THEN Goes([seen EXCEPT !.val = @ \o ImmediateValue(call.cell, atom)])
     ELSE IF at.found \in Active(w) THEN Goes([seen EXCEPT !.fail = "cycle"])
     ELSE Verify(Goes(seen), at.found)

\* A value or a failure replaces the memo; an incremental error is recorded and
\* passed on.
Evaluated(w, call) ==
  Returned(IF call.fail \in Stops
             THEN [Attempted(w, call.cell, call.fail) EXCEPT !.out = Outcome(call.fail, <<>>)]
             ELSE Finished(w, call.cell, IF call.fail = "" THEN "value" ELSE call.fail, call))

\* The query function of a cell: the cancellation flag is taken by the first
\* work that really runs.
Run(w, c, request) ==
  IF w.cancel
    THEN Returned([w EXCEPT !.cancel = FALSE, !.out = Outcome("cancelled", <<>>)])
  ELSE IF BlockedByTrigger(c, request) \/ RequirementMissing(authority_policies, c)
    THEN Returned(Finished(w, c, "blocked", [obs |-> {}, reads |-> <<>>]))
  ELSE [w EXCEPT !.calls = <<Evaluation(c)>> \o Tail(@)]

\* A memo is reused as it is, or once every cell it read turned out to have its
\* value still.
CheckReads(w, call, request) ==
  LET c == call.cell
      d == Head(call.left)
  IN IF MustRun(w, c) THEN Run(w, c, request)
     ELSE IF w.out.kind \in Stops THEN Returned(w)
     ELSE IF call.left = <<>>
       THEN Returned([w EXCEPT !.dirty = @ \ {c}, !.out = w.memo[c].out])
     ELSE IF d \in Active(w) THEN [w EXCEPT !.pending = @ \cup {c}]
     ELSE Verify([w EXCEPT !.calls = <<[call EXCEPT !.left = Tail(@)]>> \o Tail(@)], d)

\* The innermost call goes on.
GoOn(w, request) ==
  LET call == Head(w.calls)
  IN IF ~ call.running THEN CheckReads(w, call, request)
     ELSE IF call.left = <<>> \/ call.fail # "" THEN Evaluated(w, call)
     ELSE EvaluateAtom(w, call)

Continued(w, request) == IF w.calls = <<>> THEN w ELSE GoOn(w, request)

\* What the verification of a root comes to after k steps.
Steps(w, root, request) ==
  LET step[k \in 0..MaxCalls] ==
        IF k = 0 THEN Verify([w EXCEPT !.calls = <<>>], root)
                 ELSE Continued(step[k - 1], request)
  IN step

\* It ends within MaxCalls steps, or has an outcome that no request allows.
Verified(w, root, request) ==
  LET done == Steps(w, root, request)[MaxCalls]
  IN IF done.calls = <<>> THEN done ELSE [done EXCEPT !.out = Outcome("unfinished", <<>>)]

----------------------------------------------------------------------------
(***************************************************************************)
(* Requests.                                                               *)
(***************************************************************************)
\* intersect_limits with the root's own budget
Fuel(c, limit) ==
  LET own == EffectivePolicy(calc_policies, c)["budget"]
  IN IF limit < own THEN limit ELSE own

\* ensure_stopped_root_attempt
StoppedRootAttempt(w, c) ==
  IF w.out.kind \in Stops /\ c \notin {x.cell : x \in ToSet(w.attempts)}
    THEN Attempted(w, c, w.out.kind) ELSE w

\* Mutant: only the root's own blocked attempt is forgotten.
BlockedQueriesRoot(w, key) ==
  {<<"force", x.cell>> : x \in {y \in ToSet(w.attempts) :
                                  y.outcome = "blocked" /\ y.cell = key}}

\* A blocked attempt depends on the request, so its memo is invalidated.
BlockedQueries(w, key) ==
  {<<"force", x.cell>> : x \in {y \in ToSet(w.attempts) : y.outcome = "blocked"}}

\* commit_receipts: the newest attempt of each cell.
CommitReceipts(w, key) ==
  LET Newest(c) == Last(SelectSeq(w.attempts, LAMBDA x : x.cell = c)).outcome
      tried == {x.cell : x \in ToSet(w.attempts)}
  IN Invalidated([w EXCEPT !.receipts = Joined([c \in tried |-> Newest(c)], @)],
                 BlockedQueries(w, key))

\* commit_current_result.  The result is the key's, whatever the engine verified.
CommitCurrent(w, key, root, out) ==
  [w EXCEPT !.current = With(@, key, out),
            !.answer = With(@, root, out),
            !.failed = IF out.kind = "value" THEN @ \ {key} ELSE @ \cup {key}]

\* What execute_root does with what the engine returned.
Concluded(w, key, root) ==
  LET done == CommitReceipts(StoppedRootAttempt(w, key), key)
  IN CommitCurrent([done EXCEPT !.queue = Pruned(@, done.dirty)], key, root, w.out)

\* execute_root.  root is the query the engine verifies: the key itself, or what
\* a continuation stands for.  It does not know a cell that never had a source.
ExecuteRoot(w, key, root, request, limit) ==
  LET begun == [w EXCEPT !.fuel = Fuel(key, limit), !.attempts = <<>>, !.out = Unknown]
  IN Concluded(IF root \in registered THEN Verified(begun, root, request) ELSE begun,
               key, root)

\* force_recursive_closure: what the memos of the roots read, at any distance.
RecursiveClosure(roots) ==
  {c \in Cells : \A T \in SUBSET Cells :
     roots \subseteq T /\ (\A d \in T : ToSet(memo[d].reads) \subseteq T) => c \in T}

Forced(roots, mode) ==
  CASE mode = "verify"          -> {}
    [] mode = "force-roots"     -> roots
    [] mode = "force-recursive" -> RecursiveClosure(roots)

FailingFast(w, c) ==
  [w EXCEPT !.halted = /\ w.out.kind # "value"
                       /\ EffectivePolicy(calc_policies, c)["error_mode"] = "fail-fast"]

\* calculate_cells: the roots in the order of their paths, up to one that fails fast
RootsUpTo(roots, request, limit, start) ==
  LET Directed(w, c) ==
        IF c \notin roots \/ w.halted THEN w
        ELSE FailingFast(ExecuteRoot(w, c, c, request, limit), c)
      done[k \in 0..Len(CellOrder)] ==
        IF k = 0 THEN start ELSE Directed(done[k - 1], CellOrder[k])
  IN done

\* External: the engine numbers its continuations, each process from the start.
\* Nobody keeps the ones of a directed request, but their numbers may be those of
\* restored entries.
Numbered(w) ==
  LET exhausted == {c \in DOMAIN w.answer : w.answer[c].kind = "exhausted"}
      known == restored_continuations \ DOMAIN tokens
  IN {[w EXCEPT !.tokens = Joined(issued, @)] :
        issued \in UNION {Injection(S, exhausted) : S \in SUBSET known}}

Calculate(roots, mode, limit) ==
  LET request == [automatic |-> FALSE,
                  directed |-> roots \cup Forced(roots, mode)]
      start == Invalidated(Start, {<<"force", c>> : c \in Forced(roots, mode)})
  IN \E w \in Numbered(RootsUpTo(roots, request, limit, start)[Len(CellOrder)]) : Commit(w)

\* The query a queued entry verifies: the root of its continuation; its own, when
\* it has none or the engine does not know the one an earlier process left.
QueuedRoot(c) ==
  CASE queue[c] \in DOMAIN tokens -> tokens[queue[c]]
    [] queue[c] \in {0} \cup restored_continuations -> c
    [] OTHER -> None

\* External: the engine gives out a number that none of its continuations has, of
\* those that an entry may still resume.
Held(w) == Restrict(w.tokens, DOMAIN w.tokens \cap Range(w.queue))
Numbers == 1..Cardinality(Cells)

\* An entry whose budget is exhausted is queued again, to resume there.
Requeued(w, c, root) ==
  IF w.out.kind # "exhausted" THEN {w}
  ELSE {[w EXCEPT !.queue = With(@, c, number), !.tokens = With(Held(w), number, root)] :
          number \in Numbers \ DOMAIN Held(w)}

\* One turn of run_automatic_inner: the entry leaves the queue, and the engine
\* takes its continuation.
RunAutomatic(c, limit) ==
  LET begun == [Start EXCEPT
        !.queue = Without(@, {c}), !.tokens = Without(@, {queue[c]}),
        !.restored = IF queue[c] \in DOMAIN tokens THEN @ ELSE @ \ {queue[c]}]
      root == QueuedRoot(c)
      done == ExecuteRoot(begun, c, root, [automatic |-> TRUE, directed |-> {}], limit)
  IN c \in DOMAIN queue /\ \E w \in Requeued(done, c, root) : Commit(w)

\* request_cancellation
RequestCancellation ==
  /\ Quiet
  /\ cancel_requested' = TRUE
  /\ UNCHANGED <<inputVars, backendVars, engineVars, resultVars, queue>>

\* cancel_request
CancelRequest(c) ==
  /\ Quiet
  /\ c \in DOMAIN queue
  /\ queue' = Without(queue, {c})
  /\ UNCHANGED <<inputVars, backendVars, engineVars, resultVars, cancel_requested>>

----------------------------------------------------------------------------
Edit ==
  \/ \E c \in DOMAIN Sources : \E e \in Sources[c] : SetCell(c, e)
  \/ \E c \in Cells : RemoveCell(c)
  \/ \E c, d \in Cells : MoveCell(c, d)
  \/ \E n \in DOMAIN Bindings : BindValue(n)
  \/ \E x \in CalcPatches : SetCalcPolicy(x[1], x[2])
  \/ \E x \in AuthorityPatches : SetAuthorityPolicy(x[1], x[2])
  \/ SetCodecRegistryRevision

Backends ==
  \/ \E m \in Mounts : Mount(m, 1) \/ ObserveMountEpoch(m, 2)
  \/ \E m \in Mounts : Unmount(m) \/ AttachRefreshSource(m) \/ DetachRefreshSource(m)
  \/ \E m \in Mounts : \E c \in DOMAIN backend[m].stamps : BackendWrite(m, c)
  \/ \E changed \in (SUBSET Mounts) \ {{}} : Refresh(changed)

Request ==
  \/ \E roots \in RootSets, mode \in {"verify", "force-roots", "force-recursive"},
        limit \in Limits : Calculate(roots, mode, limit)
  \/ \E c \in Cells, limit \in Limits : RunAutomatic(c, limit)

Cancellation ==
  \/ \E c \in Cells : CancelRequest(c)
  \/ RequestCancellation

Next == Edit \/ Backends \/ Request \/ Cancellation

Spec == Init /\ [][Next]_vars

----------------------------------------------------------------------------
\* explain: the status of a cell, without evaluating.
Explain(c) ==
  LET receipt == IF c \in DOMAIN receipts THEN receipts[c] ELSE "none"
  IN IF EffectivePolicy(calc_policies, c)["trigger"] = "frozen" THEN "frozen"
     ELSE IF c \in DOMAIN queue THEN "pending"
     ELSE IF receipt = "blocked" THEN "blocked"
     ELSE IF receipt \in {"failed", "cycle", "unknown"} THEN "failed"
     ELSE IF c \notin DOMAIN current THEN "never-calculated"
     ELSE IF c \in dirty THEN "maybe-stale"
     ELSE "fresh"

\* The last refresh saw everything the backends hold.
Refreshed == \A m \in Mounts : m \in refresh_sources /\ refresh_samples[m] = backend[m]

\* It also compared what has been read of them: an entry that was read between two
\* refreshes and is as before again looks unchanged.
Settled == Refreshed /\ ahead = {}

Full == INSTANCE FullRecompute
          WITH content <- Content, settled <- Settled

\* Every answer is what a recalculation of the whole tree would give: reuse and
\* cutoff never show, whatever was edited, blocked, cancelled or exhausted in
\* between.
MatchesFullRecomputation == Full!Spec

\* A cell that explain calls fresh has the memo a recalculation would give it,
\* not only when it is asked for: nothing it observed has changed unseen.
FreshIsSound ==
  \A c \in DOMAIN cells :
    Settled /\ Explain(c) = "fresh" /\ memo[c] # NoMemo /\ memo[c].out.kind = "value"
      => memo[c].out.val = Full!Recomputed(c)

\* "The committed memo is current" (receipt.rs:153), whenever the last refresh saw
\* everything the backends hold.
FreshIsCurrent ==
  \A c \in DOMAIN cells :
    Refreshed /\ Explain(c) = "fresh" /\ memo[c] # NoMemo /\ memo[c].out.kind = "value"
      => memo[c].out.val = Full!Recomputed(c)

\* A blocked outcome belongs to the request that met it: between requests no
\* memo that says so can be reused.
BlockedNeverReused ==
  \A c \in Cells : memo[c].out.kind = "blocked" => c \in pending
=============================================================================
