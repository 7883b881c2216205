# A verification of sim-expr-tree in TLA+

sim-expr-tree keeps finite trees of named expression cells, calculates them
incrementally, and serves them to interactive sessions.  This directory models
the parts of it that carry its correctness, checks them with TLC on small
instances and proves the most important invariants with TLAPS for every value
of the parameters.  `PROJECT.json` is the index: components, runs, mutants,
findings, hazards, theorems, and for each definition the source lines it models.

## The system

| part | crate | state it keeps | operations |
|---|---|---|---|
| namespace | `sim-expr-tree-core/namespace.rs` | directory and cell records, child index, reservations, generated-name counters, writer lane | acquire and release the lane, reserve, create, move, set policy, delete |
| stores | `sim-expr-tree-core/store.rs` | source, control and derived entries, mount descriptors, the pending commit | mount, unmount, observe an epoch, two-phase source/control commit, recover, reopen |
| calculator | `sim-expr-tree-calc` | sources, bindings, results (current, last good, failed, volatile), receipts, policies, mounts, refresh samples, automatic queue | set, remove and move a cell, bind, calculation and authority policies, mounts, refresh, directed calculation, automatic turns, cancellation, explanation, save and restore |
| tree runtime | `sim-lib-expr-tree/runtime.rs` | path-keyed entries and cells over namespace, stores and calculator | new-cell, new-dir, mount, unmount, move, rename, delete, set-expr, policies, calculate |
| handles and dispatch | `sim-lib-expr-tree` | storage name to shared tree | open, one function per operation |
| session server | `sim-lib-expr-tree-server` | sessions, in-flight set, logical clock; per session: revision, disclosure, pages, continuation tokens, change feed, watches | create, close, snapshot, intents, direct operations, subscribe, poll, cancel, drain, maintenance |
| view | `sim-lib-view-expr-tree` | none | render a snapshot as a scene within a budget, decode an intent into an operation |
| expedition book | `sim-lib-expedition-book` | a revision, branches, a choice; an archive of exports and projections | fork, cite, object, choose, play, seal, reopen, retain, export, replay |
| serve, binary, xtask | `sim-lib-expr-tree-serve`, `sim-expr-tree`, `xtask` | process set-up, tooling | |

A server request takes the registry mutex, finds its session, and for a runtime
operation releases the mutex, calls the runtime library through the kernel, and
takes the mutex again to record the change.  The runtime library locks the tree
of the handle for one whole operation, which writes the namespace, then its own
maps, then the stores, then the calculator, and finally gives the automatic
queue a turn.  The calculator drives an external incremental engine
(`sim_incremental_core`), whose dirty set decides what is queued.

What is hard here: the two critical sections of a server request with anything
in between; expiry measured in ticks of other requests; one tree kept in five
places that a failure may leave in different states; tokens that name a snapshot
that is gone; bounded queues at their limits; a scheduler whose entries come back
to it; results reused on the strength of what an evaluation observed, also across
a restart; a commit to two backends with a crash in between.  `PROJECT.json` lists these under `hazards`, at the line where they bite.

## Modules

`Namespace` is the finite namespace.  Each public mutating method is an action;
the writer lane is a copied token, so a writer may use one it has released.  The
descendant walk of `move_dir` is the set of directories closed under parents
(`UpClosed`), not a recursion, which keeps the module provable.
Bounds name the ids, reservations, counters, revisions and lane epochs.

`SessionRegistry` is the server's registry.  Every action is one critical section;
`op[c]` holds what client `c` remembers between two of them.  `Trees` are the
trees behind the handles, reduced to a change counter.  An evaluation changes the
tree, reads it, fails, or fails after a change ("partial").

`SessionFeed` is the change log and the watches of one session: an event is its
revision, `since` and `delivered` are history variables that count what a watch
was owed and given.

`SessionPages` is the rendering of one session under the page, depth and node
budgets: a recursive walk that issues continuation tokens, with disclosure and
continuation around it.  A request holds the registry while it renders, so no other
request sees its session half way; but the walk asks the runtime for each listing, the
lock of the tree is taken anew each time, and another session may change the tree in
between.  A step therefore takes the tree as it was at each of its inspections
(`Glimpses`, `Sight`), and the walk may end at any inspection with an error (`Fail`): the
request's own changes stay, the earlier tokens are gone, and those issued so far remain
redeemable though no reply carried them.  `IntentSnapshot` is the snapshot that the intent
decoder takes and nobody is sent.  `rendered` and `sent` are history: what the last
snapshot that reached a client showed and which tokens it carried.  The mutual recursion of node and
directory_page is a stack of calls: `DirectoryPage` puts the entries it admits and its
own return in front, `WalkOn` makes the next call, and `Snapshot` is the walk after
`Steps` calls, by which it has returned.

`AutomaticQueue` is the automatic scheduler: which dirty cells are queued, when
they are ready, which one a turn takes, and when a continuation is current.  The
engine is external: an action picks the set of cells that an invalidation reaches
or that a calculation verifies from `Groups`.  A root that stops on its way may have
verified any of the cells below it, and these leave the queue with it.  Turns come when
the host gives them: TreeState gives one bounded turn after a source change and owes none
otherwise (runtime.rs:105, runtime/calculation.rs:194), so nothing is assumed of them.
Request ids and emitted progress are left out.

`TreeRuntime` is the live tree that composes namespace, stores and calculator.  An
operation is atomic because the handle's mutex is held throughout, but its failures
are not: `NewCellOversized`, `NewDirTaken`, `MountRefused` and `Unmount` keep the
writes made before the failure.  The namespace appears as its live records only;
`Namespace` justifies that (its index is exactly the records, and with_writer
leaves no reservation behind).

`Stores` is the store bundle with the fault it exists for.  Source and control are
written in two phases; the host saves the pending record before the first and
forgets it after the last, the process may end between any two steps, and a reopen
mounts the persisted descriptors one at a time in any order.  `AtomicStores` is what
this promises: a commit writes both stores in one step.  `Atomic` is the refinement
mapping: a saved record counts as applied.  commit_source and commit_control check no
phase; that the source side comes first is the caller's doing (runtime.rs:307) and a
guard of the model.

`CalcPolicy` holds paths, levels, the inheritance of calculation and authority
patches and the two name lookups with everything they observe.  `Calculator` is the
calculator over the external engine, which keeps a memo, a pending and a dirty mark
per cell.  A request is one step (the code holds `&mut self`) that threads a record
through a depth-first evaluation: `Run` is the registered query function,
`EvaluateAtom` the preparation of an expression, `Verify` and `CheckReads` the engine's
verification, `Concluded` the receipts, the pruning and the current result.
Expressions are sequences of atoms: literals, bare names, references, reads of a
mounted backend, a value without canonical form, an error.  `FullRecompute` is the
abstract specification: every answer is the value a calculation from nothing would
give, by a reference definition that follows names and references and knows neither
memos nor observations.  An answer is kept for the root the engine verified, the current
result for the entry it was asked for: the two differ when a restored continuation has the
number of a new one (`QueuedRoot`, `Numbered`, `Requeued`; the engine is taken to number its
continuations from the start in each process).  Stamps are any numbers, as a backend may
derive them from content; `ahead` is history, the entries a request has read past the last
refresh and no refresh has compared since.  A refresh source that is managed by a watch is
one that is not attached: refresh skips it (refresh.rs:167).  Mounts are of directories; a
mount of another resource is observed by references to its own path only
(eval/namespace.rs:136).  `CalcRestart` adds the persisted derived record and a process
that ends: a new one loads the tree and its control state, opens the record, and
rehydrates or rebuilds.

`Surface` is the view over the snapshots of `SessionPages`: what a scene shows under a
display budget, where it marks an omission, which intents its controls submit, what
the decoder makes of an intent and whether the operation it names exists, takes
these arguments and needs a capability the session has.  Encode calls itself for the
body of each open directory; here `Render` keeps the bodies that are not finished, the
innermost first, and `RenderDirectoryBody` goes on with that one by an entry or ends it.
It has no state of its own, so its properties are invariants of `SessionPages`.

`ExpeditionBook` is the book: several editors edit with the revision they last saw,
and exports are written and replayed through the text format, modelled field by
field.  Branch ids and next plays may be blank, which the editing accepts and the format
cannot tell from absent.

`MC*` modules and the `.cfg` files instantiate these.  Operators marked "Mutant" are
plausible faults; none of them is used by the specifications.

## Runs

| run | instance | states | what it shows |
|---|---|---|---|
| `namespace` | 2 writers, 1 cell, 2 directories below the root, 1 pending reservation, 2 spelled names of which one looks generated | 413,000 | index, reservations, acyclicity, exclusive lane, no record loses its parent, identity |
| `session` | 3 clients, 2 sessions, idle allowance 2, 7 ticks; a feed of capacity 2, 2 watches, 6 changes | 167,000 | in-flight sessions survive, the checked revision still holds at the commit, the capacity holds, sessions only advance, reservations end; queues are unbroken runs, evidence adds up, a cancelled watch has nothing queued |
| `session_pages` | page 2, depth 2, a wide and a narrow tree, either at each inspection, any inspection failing, 4 revisions, 9 tokens; scenes under four budgets, a name too long, complete and truncated sources, with and without a receipt | 23,000 | node budget, the tokens a client was sent resume where the page ends, only what is reachable is rendered, omissions are marked, offered controls run |
| `automatic_queue` | 2 cells, 3 policies (plain, urgent and debounced, manual), clock 0..1 | 15,000 | only wanted work is queued, continuations are current, a turn never has two cells to choose from |
| `automatic_bypass` | 5 cells of one priority, no debounce | violation | bypasses of a ready entry are not bounded |
| `tree_runtime` | 2 cells, 3 directories, 4 nodes, an oversized source, read-only and writable mounts | 430,000 | the copies of the tree agree, mounts are sound, read-only mounts stay untouched |
| `tree_runtime_ceiling` | the same tree | violation | records of refused creations are not counted |
| `stores` | 1 cell, 1 key, 2 values each, mounts at 3 nested paths, 2 epochs, any number of crashes | 241,000 | commits are atomic and finish, the mount table reopens in any order, epochs belong to the present mount |
| `calculator` | 3 cells, two of one name at two depths; a plain tree and a cycle; one source edit, one policy edit, any number of requests and cancellations | 256,000 | answers equal full recalculation, fresh is sound, a blocked outcome is never reused |
| `calc_restart` | 2 cells, one on a backend written behind the calculator with two stamps to and fro, two control edits, one record, one restart, colliding continuations | 209,000 | the same answers after a refresh and after a restore, whatever became of the record |
| `fresh_status` | the same | violation | fresh is said of a stale memo |
| `expedition_book` | 2 editors, 2 branches beside the root, one with a blank id, a blank and another next play, 4 edits, 1 export | 437,000 | the revision identifies the book, root and choice are kept, replay gives the book back but for blank optional fields, sealed branches stay |

Two refinements are among them: `MatchesFullRecomputation` says that `Calculator`
(and `CalcRestart`) implements `FullRecompute`, and `CommitsAreAtomic` that `Stores`
implements `AtomicStores`.

Bounds.  Two clients, writers or editors are the least that can interfere, and the
registry has a third that creates or closes a session while two operate.  Queues
are one element over their capacity several times.  The namespace needs two
directories for a cycle, `tree_runtime` a third level for a rekeyed subtree; a
second cell adds a listed cell beside a lost one.  Five queue entries are the fewest with
which one is passed over for ever; the counter is cut off where the code's saturates.
The registry and the feed of a session share no variable: `session` lets each move while
the other is as at the start.  A scene counts one unit for every size estimate,
so its budgets run out of nodes, of depth and of bytes in separate instances.
A verification makes at most `MaxCalls` steps; one that needed more would have the
outcome "unfinished", which no request allows, so the refinement says that 20 are enough.
A source edit and a policy edit between any number of requests reach every way a memo
becomes stale; one name at two depths makes a bare name change its meaning when the
nearer cell comes or goes.  `CalcRestart` writes one record, and after it only edits
happen until the process ends, because what is calculated later is lost with the
process; cancellation is left to `calculator`.  Two stamps suffice for one to return.  A book of four edits reaches
fork, choose, seal and retain in every order.  Counters (ticks, revisions, ids,
epochs, sequences) only grow and are cut off in the guards; the runs that stop at a
bound say `CHECK_DEADLOCK FALSE`.

Each property has a mutant: the same run with one definition replaced by a
plausible fault, in which TLC finds the property violated.

## Disagreements

Three runs expect a violation.

- `tree_runtime_ceiling`: a source that is too large leaves its cell in the namespace and
  in no listing; such cells are not counted against the node ceiling (runtime.rs:20), keep
  their names taken and their directories undeletable.
- `automatic_bypass`: with five entries of one priority that keep running out of budget
  the youngest is passed over for ever (scheduling.rs:142), where the calculator's README
  line 34 promises "bounded-bypass fairness" of any number of cells.  Up to four cells the
  bound holds; that is no property of the program and no run of this project.
- `fresh_status`: a request may read an entry of a backend whose stamp has moved on since
  the last refresh.  If the stamp returns to its earlier value, which content-derived stamps
  do (refresh.rs:16), the next refresh compares two equal samples, and explain calls the
  result of the content in between fresh (receipt.rs:153, "The committed memo is current.").
  TLC needs six states.  `FreshIsSound` and the answers are therefore stated, checked and
  proved of what a refresh has compared (`Settled`: every mount as the last refresh saw it,
  and `ahead` empty), for stamps of every kind.

Met while modelling, without a run of their own:

- An operation longer than the idle allowance costs its session, because completion
  does not renew the activity tick (server route.rs:144; model.rs:34 "Logical request
  ticks a session may remain idle.").
- A calculation that changes results and then reports an error leaves the revision as
  it was (route.rs:145).
- apply_intent renders a snapshot of its own, which clears the continuation tokens, so a
  continuation sent as an intent is always refused (server.rs:202; the server's README
  line 17, "one-time bounded continuation tokens").
- A restored continuation may have the number of one that the new engine issued.  The
  comment at calc engine.rs:128 says that it "still owns the same root"; the engine resumes
  whatever root the number stands for now, and the result becomes the current one of the
  restored entry.  Of two entries restored with one number the second is answered "unknown
  continuation".  The model has both outcomes; what the properties say of such an answer is
  that it is right for the root that was verified.
- A snapshot that fails half way, of a reply or of the intent decoder, leaves the tokens it
  had issued redeemable although no client was sent them, and none of the earlier ones
  (session.rs:61, :207).
- A dependency calculated on the way is explained as fresh while `current_cell` still
  answers an older value or none (calc session.rs:475).  `FreshIsSound` therefore
  speaks of the memo.
- Mount epochs, bindings and codec registry changes dirty automatic cells without
  queueing them (calc session.rs:209).
- A blank next play, a blank choice and a blank parent are read back from an export as
  absent (codec.rs:43, :50, :92, :102), where edit.rs:83 accepts a branch with the blank id
  and archive.rs:22 and :55 speak of the "Exact semantic state".  `ReplayGivesBack` says
  what a replay gives back instead (`BlankAsAbsent`).
- A retention may drop the parent of a branch it keeps, and a fork may take the dropped id
  again; a replayed book starts to reuse revision numbers (expedition book edit.rs).
- last_activity may go back when operations complete in another order than they began
  (route.rs:147).
- Calculation policies are kept by path and namespace policies by node, so a move
  takes one along and not the other (runtime/calculation.rs:83).
- A cancelled watch keeps its slot until the session ends (server session.rs:333).
- A directory may be moved below a table mount, where new-dir refuses one
  (runtime.rs:190).
- A name reserved under a directory outlives the directory in the core API; a spelled
  `cell-1` makes a generated name report counter corruption.
- A session stamped with the tick of the start of its creation may expire before its
  first request; two sessions on one tree have independent revisions; a page grows
  by a page with each continuation; a continuation at the depth limit shows
  nothing new.

## Fairness

`SessionRegistry`: weak fairness of `SystemStep(c)`, the evaluation and the second
critical section.  The thread that reserved a session keeps running, and an
evaluation ends because the calculator runs it under a budget.  Requests are never
owed.  A panic inside an evaluation would break this assumption; the code does not
catch it.

`Stores`: weak fairness of recovery, of forgetting a finished record, of reopening and
of mounting the next descriptor, all of them what a host does as soon as it runs.
Crashes are never owed and never excluded, so `CommitsFinish` speaks of behaviours in
which the process eventually stays up.

The other specifications state safety only.

## Proofs

`Namespace_proofs`: with `RecordsInv` (`TypeOK`, `IdsIssued`, `IndexMatchesRecords`
and `ReservationsStayFree`), `LanesIssued` (a token held by a writer is at most the
current epoch, tokens differ, and an active writer implies an epoch above 0) and
`NoParentCycle`.  The index property is not
inductive alone: a move is sound only if the target was available, which needs
reservations and index together.  Acyclicity is stated as "every non-empty set of
directories has a member whose parent is outside the set" (the root, whose parent is
none, is such a member); `move_dir` preserves it because its guard refuses a new parent
below the moved directory.  No induction over paths is needed.  From the same invariant the two action properties follow.

`Session_proofs`, of the registry: `IInv` adds to the types that ids and ticks were issued
(`IdsIssued`, `TicksIssued`, `ClockStarted`).  `RevisionHeld` needs
`ReservationsBacked`: no other operation can reach a session in flight, and expiry
skips it.  `SessionLimit` needs the finiteness of the registry (`Bounded`).

Of the feed: `FeedInv` is the conjunction of the properties; that a cancelled watch
delivers nothing any more (`CancelledSilent`) follows from it and has no run of its own;
contiguity of a queue after a drop is a lemma about `Append` and `Tail`.

`Stores_proofs`: `StoresInv` is `StoresTypeOK`, `MountInv` and `CommitInv`.
`ReopenNeverRefused` is not inductive: that the descriptors left over are accepted now
(`ReopeningAccepted`) survives the next mount only because they also stand apart from
each other (`ReopeningApart`), which in turn comes from the mounts having stood apart
when the process ended (`MountsApart`).  The refinement of `AtomicStores` rests on
`CommitInv`: what the phase of a record says was written is in the stores (`Written`),
and the record in memory is of the saved commit (`SameCommit`).  Saving the record is the
abstract commit; every other step of the protocol, a replay and a crash included, is a
stutter.

`AutomaticQueue_proofs`: `QueueWanted` and `ContinuationCurrent` are inductive with the
types.  `TurnDetermined` needs `SequencesIssued`: sequences are below the counter and no
two entries share one.  The code numbers the new cells in the order of their paths; the
model gives each its rank among them, and `RanksDistinct` says that ranks in a finite set
differ.  `EntriesReadyInTheEnd` says that at the instant TreeState gives its turns every
entry is ready: no debounce keeps a turn of the host from finding work.  Nothing is proved
of bypasses, which are not bounded.

`ExpeditionBook_proofs`: `RevisionIdentifiesBook` needs `HistoryBehind`, no book seen or
kept has a revision beyond the live one, and `ReplayGivesBack` needs `ArchiveExact`, an
archived text decodes to the book it was taken of with its blank optional fields absent.  `RootAndChoiceKept` and the action
property `SealedUntouched` go through one lemma per edit.

`TreeRuntime_proofs`: `TreeInv` has three parts.  `ListingInv` says of the listing that
ids were issued (`IdsIssued`), that a listed path has its prefixes listed
(`PrefixesListed`) and that each entry is spelled by its node's record (`EntriesNamed`);
`PrefixesListed` is what replaces an induction along the path, and `RekeyedApart` says
that a moved subtree collides with nothing that stays.  `DataTypeOK` types stores and
calculator, and `RootNotMounted` excludes the one mount that could not be undone.
`MountsSound` and `ReadOnlyUntouched` follow with it.  `SourcesAgree` is proved by
`SourcesInv`, path by path: the cell listed at a path, its entry in the source store and
its source in the calculator are the same (`CopiesAgree`), also across a rekeyed subtree.

`SessionPages_proofs`: a snapshot is the last value of a recursive function over the
calls of the walk, so what it shows is proved by induction over those calls.  The
library's induction theorems take an operator, which the provers cannot instantiate;
`SetInduction` takes a set instead and rests on the well-foundedness of the finite
subsets of the numbers.  `WalkInv` is what holds between two calls: what is rendered is
paid for out of the budget (`WalkPaid`), every token resumes where its directory's page
ends (`WalkTokens`), whatever is rendered or still to be visited is listed on a rendered
page (`WalkReachable`), and the calls that are left are about parts of the tree that are
apart and untouched (`WalkApart`).  The last is why two tokens of a snapshot never
compete for a page: no directory is visited twice, because a layout names each entry
once and below its directory (`LayoutAssumption`).  `SnapshotEnds` shows that the bound
on the calls cuts nothing off: what is left of the walk (`Left`, in which an admitted
entry counts twice) shrinks with every call and starts at most at `Steps`.  The tree of a
walk is the one glimpsed (`SightIsGood`: it is well listed whatever was seen when), and
`WalkInv` holds after any number of calls, so it also holds where a walk is interrupted.
Over the requests of a session there is one lemma per outcome: a reply that is sent
(`RenderedKeeps`), one that is not (`UnsentKeeps`) and one that fails (`InterruptedKeeps`).
Tokens are numbered upwards (`Newer`), so those of a failed or unsent snapshot are not among
the sent ones; and a token names a revision the session has reached, so a change that does
not answer with a snapshot leaves none redeemable.

The same module proves the two properties of `Surface`, in three stages.  The snapshot:
`WalkCovers`, kept by every call of the walk, says that whatever a rendered page lists is
rendered to the end, has a token or is still to be called; once nothing is left to call,
`FaithfulSnapshot` follows, that a directory without a token carries all its entries and
one with a token carries a token that resumes it.  The rendering: `RenderOK` holds between two steps of
it (each unfinished body has its page shown or still left, every shown open directory has
such a body or is settled, every offered intent works), and `Rank`, the number of bodies
plus twice the budget that is left, shrinks with every step, so that `Renderings` cuts
nothing off (`RenderEnds`).  The controls: one lemma per kind of intent follows it through
`Decode` and `Compile` to the arguments and the capability of the operation table.  The
budgets are any numbers, zero included (`SurfaceAssumption`).

`Calculator_proofs`: three inductive invariants.  `TypedAndBlocked` has the types and that
a memo that says blocked is pending, which is `BlockedNeverReused`.  In the middle of a
request it is false: the memo of a refused cell stays reusable until `Concluded`
invalidates what the attempts of the request name.  So the invariant of a request in
progress says that a blocked memo is pending or has an attempt that says blocked
(`BlockedMarked`).

`AllSound` is behind `FreshIsSound`.  A memo that the engine need not run again was
computed by the rules from the sources, bindings and policies of now, from the memos it
read, and from a stamp that the next refresh will miss if it is not the content's: the one
the last refresh saw, or any at all for an entry of `ahead` (`Supported`, `MayBe`,
`ValuesSupported`); a memo it need not even verify has read only such memos (`CleanClosed`);
and they are grounded (`CleanGrounded`): every non-empty set of clean cells has one that
reads none of the others, which replaces an induction along the references.

- An edit keeps `AllSound` because it invalidates whatever it changes.  `Announced` says
  so of the queries an edit names, and there is one proof of it per edit; a lookup
  depends on the queries it observes and on nothing else (`BareLookupDependsOnListings`),
  which is why a memo without an invalidated observation is still right.
- A request is proved step by step.  `StepOf` says what one step of a verification may
  do, `DoStep` is shown to be such a step, and the calls that have not returned are part
  of the invariant (`Sound`, `StackOK`): a verification that goes on has found the reads
  it has finished unchanged, an evaluation has the value of the atoms it has read, and no
  cell is called twice.
- A refresh may skip what has the stamp the last one saw.  A request that runs reads what
  the backend holds, which is the stamp of the last sample unless the entry is put into
  `ahead` (`Read`, `ReadNow`).  Stamps need not grow; while `ahead` is empty and the samples
  are what the backends hold, the stamp a memo was computed from is the content
  (`CleanSupported`).
- Lastly the reference definition.  `FullRecompute` follows at most as many references as
  there are cells; the clean cells it still gets wrong after `k` of them (`Wrong(k)`)
  lose one with every further reference, because they are grounded.  `Value` is a
  recursive function over these numbers, and `ValueBy` the part of it that a step of the
  argument unfolds.

`RestartedFreshSound` says the same of `CalcRestart`, for any number of processes.  A
record was calculated from sources, policies and samples that the state need not have any
more: the tree was edited, or edited and edited back, the samples were taken before the
backends were written again.  So what it may be trusted for (`RecordRight`) is a predicate
of the record alone, of the identities, samples and `ahead` it carries in place of the
variables, and nothing that happens outside makes it wrong (`RecordKept`).

- Writing a record gives it `RecordRight` (`SnapshotRight`): the memos it keeps are closed
  under reading, and what is not reusable is dirty in it.
- If the identities match, `RecordRight` is `AllSound` of the rehydrated engine
  (`RehydratedSound`); an engine without memos is sound anyhow (`NewEngineSound`), which
  is the rebuild after a mismatch or a record that does not decode.

That samples are restored together with the memos carries the argument: with samples of
the present under memos of the past the first refresh would find nothing to invalidate.

`Answering` adds what was answered, and `AnsweredValuesRight` follows: every value in an
answer is the one of a recalculation, while nothing was read past the last refresh.
`AllSound` gives that for the cells that are clean when a verification ends; what has to be
added is that an answer is about such a cell, and stays so until the request ends.

- The outermost call of a verification is its root (`RootIs`), so the value it ends with
  belongs to the root that was verified (`VerifiedRight`).
- A request of several roots carries its earlier answers through the verifications and
  conclusions of the later ones (`Carried`); these change no source and no content.

An answer stands until the next action, and an action that changes a source, a policy or
a content takes it back.  `RestartedValuesRight` says the same of `CalcRestart`; as an
answer is of the root that was verified it needs nothing of the numbers of continuations.

That the root is the one of the entry is `OwnRootResumed`, for one process: `OwnTokens`
says that a queued number is one of the engine's and stands for the entry's cell.  An entry
that is queued again gets a number no entry holds, cancellations, pruning and scheduling
only drop entries or start them without a number.  Across a restart it is false (see the
disagreements), and not claimed.

`AuthorityAtOnce` relates the ceiling that is handed down level by level to the one read
off all patches at once, and `UnrelatedPatch` says that a patch of another branch of the
tree leaves what a cell may do.

The type invariant of each of these modules is a theorem and not a run; every invariant
that a passing run checks is a theorem as well.

The proofs assume of the constants only what the `ASSUME`s of the modules say; no theorem
has a further hypothesis.  Each
strengthened state invariant was also checked by TLC on an instance.

Model-checked only:

- Liveness (`ReservationsEnd`, `CommitsFinish`): TLAPS does not reach
  ENABLED and fairness.
- Of the refinement of `FullRecompute`, by `Calculator` and by `CalcRestart`: that a
  failure or a cycle is answered only where a recalculation has one, and that `MaxCalls`
  steps end every verification.  The values it asks for are `AnsweredValuesRight` and
  `RestartedValuesRight`.  The bound on the steps is one of the instance and no theorem
  for all constants.

## Not modelled

Of the calculator: the last good value, which is a copy kept at success; ticks, wall
times and effects of receipts; digests; the progress stream, a buffer of an external
crate that nothing reads back; the byte codecs of a derived record (a record that
does not decode is an action).  The kernel's evaluator and the incremental engine are
external and modelled from their use.  Codec policies are inherited field by field
like calculation policies; the codecs they select, and faces, format values.  Of the
runtime: policy and calculation requests, which it passes on to the calculator.  Of
the server: protocol, site and web edge, which translate requests and keep no state.
Of the view: labels, texts and layout.  Of the book: theses and statements.  Argument
parsing, shapes, cards, process start-up, recipes and repository tooling.
Saturation of 64-bit counters is out of reach of any run of the program and is left
out.

## Plan

What is left to prove: the failures of an answer, that one is given only where a
recalculation fails too.  `AllSound` is about clean values; it needs a counterpart for the
cells that failed in the request, whose memos stay dirty.
