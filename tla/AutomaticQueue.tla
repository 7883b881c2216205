--------------------------- MODULE AutomaticQueue ---------------------------
(***************************************************************************)
(* The automatic scheduler of the calculator                               *)
(* (sim-expr-tree-calc/src/calc/scheduling.rs, scheduler.rs and the        *)
(* callers in calc.rs, calc/session.rs and calc/engine.rs): which dirty    *)
(* cells are queued, when they are ready, and which one a turn runs.       *)
(*                                                                         *)
(* The incremental engine is external: dirty is the set of cell queries    *)
(* its dirty_keys reports, and every action that invalidates or verifies   *)
(* picks the cells the engine may add or remove.  Cells are numbered in    *)
(* the order of their paths.  Request ids only name queue entries and are  *)
(* left out.                                                               *)
(***************************************************************************)
EXTENDS Integers, FiniteSets

CONSTANTS
  Cells,          \* a finite set of naturals
  Policies,       \* effective policies: [trigger, priority, debounce]
  FirstPolicy,    \* cell -> its policy in the initial state
  Groups,         \* sets of cells one change can reach: the readers of one query
  Times,          \* the instants a clock may show; 0 when there is no clock
  Forever,        \* u64::MAX: every entry is ready by then
  BypassCap,      \* where the bypass counter saturates (u8::MAX)
  MaxSequence     \* model bound on insertions

MAX_READY_BYPASSES == 3

ASSUME QueueAssumption ==
  /\ Cells \subseteq Nat /\ IsFiniteSet(Cells)
  /\ Policies \subseteq [trigger : {"automatic", "on-demand", "manual", "frozen"},
                         priority : Int, debounce : Nat]
  /\ FirstPolicy \in [Cells -> Policies]
  /\ Groups \subseteq SUBSET Cells
  /\ Times \subseteq Nat /\ Forever \in Nat
  /\ \A t \in Times, p \in Policies : t + p.debounce <= Forever
  /\ BypassCap \in Nat /\ BypassCap > MAX_READY_BYPASSES
  /\ MaxSequence \in Nat

VARIABLES
  dirty,          \* cells the engine reports dirty (external)
  policy,         \* cell -> effective policy
  queue,          \* cell -> queued entry
  next_sequence,
  continuation,   \* the queue for which the newest AutomaticContinuation was
                  \* issued, while its generation is current; else NoQueue
  last            \* history: the cell the scheduler ran last

vars == <<dirty, policy, queue, next_sequence, continuation, last>>

----------------------------------------------------------------------------
NoQueue == [c \in {} |-> 0]
Reach == Groups \cup {{}}

\* A queue change moves the generation, so no older continuation is accepted.
BumpGeneration == continuation' = NoQueue
\* Mutant: an entry updated in place leaves the generation as it was.
BumpIfResized ==
  continuation' = IF DOMAIN queue' = DOMAIN queue THEN continuation ELSE NoQueue

BumpIfChanged == continuation' = IF queue' = queue THEN continuation ELSE NoQueue

Eligible(D, P) == {c \in D : P[c].trigger = "automatic"}

\* Mutant: a policy change moves the readiness and forgets the priority.
RescheduledReadyOnly(entry, ready, priority) ==
  [entry EXCEPT !.ready = ready, !.resumes = @ /\ entry.ready = ready]

\* A queued cell whose readiness or priority differs is updated in place and
\* forgets its incremental continuation; it keeps its sequence and bypasses.
Rescheduled(entry, ready, priority) ==
  [entry EXCEPT !.ready = ready, !.priority = priority,
                !.resumes = @ /\ entry.ready = ready /\ entry.priority = priority]

NewEntry(ready, priority, sequence) ==
  [ready |-> ready, priority |-> priority, sequence |-> sequence,
   bypasses |-> 0, resumes |-> FALSE]

\* Mutant: the counter moves once for the whole batch.
ScheduleDirtyOnce(D, P, now) ==
  LET cells == Eligible(D, P)
      added == cells \ DOMAIN queue
  IN /\ next_sequence < MaxSequence
     /\ queue' = [c \in cells |->
                    IF c \in added
                      THEN NewEntry(now + P[c].debounce, P[c].priority, next_sequence)
                      ELSE Rescheduled(queue[c], now + P[c].debounce,
                                       P[c].priority)]
     /\ next_sequence' = next_sequence + 1
     /\ BumpIfChanged

\* schedule_dirty_automatic, with the dirty set and the policies it finds.
ScheduleDirty(D, P, now) ==
  LET cells == Eligible(D, P)
      added == cells \ DOMAIN queue
      Rank(c) == Cardinality({d \in added : d < c})
  IN /\ next_sequence + Cardinality(added) <= MaxSequence
     /\ queue' = [c \in cells |->
                    IF c \in added
                      THEN NewEntry(now + P[c].debounce, P[c].priority,
                                    next_sequence + Rank(c))
                      ELSE Rescheduled(queue[c], now + P[c].debounce,
                                       P[c].priority)]
     /\ next_sequence' = next_sequence + Cardinality(added)
     /\ BumpIfChanged

\* prune_satisfied_automatic
Pruned(q, D) == [c \in DOMAIN q \cap D |-> q[c]]

----------------------------------------------------------------------------
\* select_ready_cell
Ready(now) == {c \in DOMAIN queue : queue[c].ready <= now}

Overdue(now) == {c \in Ready(now) : queue[c].bypasses >= MAX_READY_BYPASSES}
Oldest(S, c) == c \in S /\ \A d \in S : queue[c].sequence <= queue[d].sequence
Urgent(S) == {c \in S : \A d \in S : queue[d].priority <= queue[c].priority}

Selected(c, now) == IF Overdue(now) # {} THEN Oldest(Overdue(now), c)
                                         ELSE Oldest(Urgent(Ready(now)), c)

\* Every other ready entry has been bypassed once more.
Bypassed(c, now) ==
  [d \in DOMAIN queue |->
     IF d \notin Ready(now) THEN queue[d]
     ELSE [queue[d] EXCEPT !.bypasses =
             IF d = c THEN 0
             ELSE IF @ < BypassCap THEN @ + 1 ELSE @]]

----------------------------------------------------------------------------
\* A calculator whose cells are all verified.
Init ==
  /\ dirty = {}
  /\ policy = FirstPolicy
  /\ queue = NoQueue
  /\ next_sequence = 1
  /\ continuation = NoQueue
  /\ last = 0

\* set_cell, remove_cell, move_cell: the cell, the cells that read it and the
\* cells that had failed become dirty.
SetCell(D, now) ==
  /\ dirty' = dirty \cup D
  /\ ScheduleDirty(dirty', policy, now)
  /\ UNCHANGED <<policy, last>>

\* set_*_calc_policy and set_*_authority_policy: the cells it governs, of which
\* the engine reports those that had been calculated.
SetPolicy(S, p, D, now) ==
  /\ policy' = [c \in Cells |-> IF c \in S THEN p ELSE policy[c]]
  /\ dirty' = dirty \cup D
  /\ ScheduleDirty(dirty', policy', now)
  /\ UNCHANGED last

\* mount, unmount, observe_mount_epoch, bind_name, bind_value and
\* set_codec_registry_revision invalidate and do not schedule.
Invalidate(D) ==
  /\ dirty' = dirty \cup D
  /\ UNCHANGED <<policy, queue, next_sequence, continuation, last>>

\* One iteration of run_automatic_inner: the entry leaves the queue, the root
\* is executed, and satisfied entries are pruned.
\* - finished: the root and what it verified on the way are clean;
\* - stopped: cancelled, or blocked, which dirties its readers again, perhaps
\*   after some of what the root reads was verified;
\* - exhausted: the incremental budget ran out, perhaps after some of what the
\*   root reads was verified, and the entry is queued again.
Finished(c, now, V) ==
  /\ dirty' = dirty \ V
  /\ queue' = [d \in (DOMAIN queue \ {c}) \cap dirty' |-> Bypassed(c, now)[d]]

Stopped(c, now, V, D) ==
  /\ c \notin V /\ dirty' = (dirty \ V) \cup D
  /\ queue' = [d \in (DOMAIN queue \ {c}) \cap dirty' |-> Bypassed(c, now)[d]]

Exhausted(c, now, V) ==
  /\ c \notin V /\ dirty' = dirty \ V
  /\ queue' = [d \in DOMAIN queue \cap ({c} \cup dirty') |->
                 IF d = c THEN [Bypassed(c, now)[c] EXCEPT !.ready = now, !.resumes = TRUE]
                          ELSE Bypassed(c, now)[d]]

\* The turn answers with a continuation while work remains.
RunAutomatic(c, now) ==
  /\ Selected(c, now)
  /\ \E G \in Reach : \/ Finished(c, now, G \cup {c})
                      \/ \E D \in Reach : Stopped(c, now, G, D)
                      \/ Exhausted(c, now, G)
  /\ continuation' = queue'
  /\ last' = c
  /\ UNCHANGED <<policy, next_sequence>>

\* A turn that finds nothing ready.
RunNothing(now) ==
  /\ Ready(now) = {}
  /\ continuation' = queue
  /\ UNCHANGED <<dirty, policy, queue, next_sequence, last>>

\* calculate_cells: directed work also satisfies queued entries.
Calculate(V, D) ==
  /\ dirty' = (dirty \ V) \cup D
  /\ queue' = Pruned(queue, dirty')
  /\ BumpIfChanged
  /\ UNCHANGED <<policy, next_sequence, last>>

CancelRequest(c) ==
  /\ c \in DOMAIN queue
  /\ queue' = [d \in DOMAIN queue \ {c} |-> queue[d]]
  /\ BumpGeneration
  /\ UNCHANGED <<dirty, policy, next_sequence, last>>

Turn == \E c \in Cells, now \in Times \cup {Forever} : RunAutomatic(c, now)

Mutate ==
  \E D \in Reach :
    \/ \E now \in Times : SetCell(D, now)
    \/ \E S \in Groups, p \in Policies, now \in Times : SetPolicy(S, p, D, now)
    \/ Invalidate(D)

Next ==
  \/ Mutate
  \/ \E D, V \in Reach : Calculate(V, D)
  \/ Turn
  \/ \E now \in Times : RunNothing(now)
  \/ \E c \in Cells : CancelRequest(c)

Spec == Init /\ [][Next]_vars

----------------------------------------------------------------------------
\* Only work that is still wanted is queued: every entry belongs to a cell that
\* is dirty and whose policy is automatic now, with that policy's priority -
\* also after directed work, policy changes and turns that overlapped with it.
QueueWanted ==
  \A c \in DOMAIN queue : /\ c \in Eligible(dirty, policy)
                          /\ queue[c].priority = policy[c].priority

\* A continuation that continue_automatic accepts describes the queue as it was
\* when the continuation was issued: every change in between is detected.
ContinuationCurrent == continuation # NoQueue => continuation = queue

\* Whatever the clock shows, a turn never has two cells to choose from: no two
\* queued entries share an insertion sequence, also when cells leave the queue
\* and come back (scheduler.rs "Stable insertion order.", "One deterministic
\* automatic queue entry").
TurnDetermined ==
  \A now \in Times \cup {Forever}, c, d \in DOMAIN queue :
    Selected(c, now) /\ Selected(d, now) => c = d

\* The calculator's README.md:34 promises "bounded-bypass fairness": here, that
\* no ready entry is passed over so often in a row that its counter is full.
\* The code refutes it from MAX_READY_BYPASSES + 2 cells on: an entry that runs
\* out of budget keeps its sequence, is overdue again after three turns, and
\* overtakes a younger overdue entry without end (select_ready_cell).
BypassBounded ==
  \A c \in DOMAIN queue :
    queue[c].bypasses < BypassCap
=============================================================================
