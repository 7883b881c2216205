---------------------------- MODULE SessionFeed ----------------------------
(***************************************************************************)
(* The change feed and the watches of one server session                   *)
(* (sim-lib-expr-tree-server/src/session.rs, model.rs): every change       *)
(* advances the revision and is queued on the session's own feed and on    *)
(* each watch; a full queue drops its oldest event and counts the drop.    *)
(*                                                                         *)
(* An event is represented by its revision.  since and delivered are       *)
(* history variables: the revision at which a watch was subscribed and how *)
(* many events polls have handed out.                                      *)
(***************************************************************************)
EXTENDS Naturals, Sequences

CONSTANTS
  WatchCapacity, MaxWatches,   \* ExpressionTreeServerLimits
  MaxRevision                  \* model bound

ASSUME FeedAssumption ==
  WatchCapacity \in Nat \ {0} /\ MaxWatches \in Nat \ {0} /\ MaxRevision \in Nat

VARIABLES
  revision,
  changes, dropped_changes,    \* the session's own feed
  drained,                     \* history: events handed out by drain_changes
  watches,                     \* watch id -> [events, dropped, cancelled]
  next_watch,
  since, delivered             \* history, by watch id

feed == <<changes, dropped_changes, drained>>
feedVars == <<revision, feed, watches, next_watch, since, delivered>>

----------------------------------------------------------------------------
\* Mutant: a full queue refuses the newest event.
PushNewestLost(queue, event) ==
  IF Len(queue) = WatchCapacity THEN queue ELSE Append(queue, event)

\* push_bounded, and the body of WatchState::push.
PushBounded(queue, event) ==
  Append(IF Len(queue) = WatchCapacity THEN Tail(queue) ELSE queue, event)

\* Mutant: the drop is counted one event late.
DroppedLate(queue, dropped) ==
  IF Len(queue) > WatchCapacity THEN dropped + 1 ELSE dropped

Dropped(queue, dropped) ==
  IF Len(queue) = WatchCapacity THEN dropped + 1 ELSE dropped

\* WatchState::push: a cancelled watch takes nothing.
Push(w, event) ==
  IF w.cancelled THEN w
  ELSE [events |-> PushBounded(w.events, event),
        dropped |-> Dropped(w.events, w.dropped),
        cancelled |-> FALSE]

WatchIds == 1..(next_watch - 1)

----------------------------------------------------------------------------
FeedInit ==
  /\ revision = 1
  /\ changes = <<>> /\ dropped_changes = 0 /\ drained = 0
  /\ watches = [w \in {} |-> 0]
  /\ next_watch = 1
  /\ since = [w \in {} |-> 0] /\ delivered = [w \in {} |-> 0]

\* SessionRecord::changed
Change ==
  /\ revision < MaxRevision
  /\ revision' = revision + 1
  /\ changes' = PushBounded(changes, revision + 1)
  /\ dropped_changes' = Dropped(changes, dropped_changes)
  /\ watches' = [w \in WatchIds |-> Push(watches[w], revision + 1)]
  /\ UNCHANGED <<drained, next_watch, since, delivered>>

DrainChanges ==
  /\ drained' = drained + Len(changes)
  /\ changes' = <<>>
  /\ UNCHANGED <<revision, dropped_changes, watches, next_watch, since, delivered>>

\* A cancelled watch keeps its slot.
Subscribe ==
  /\ next_watch <= MaxWatches
  /\ next_watch' = next_watch + 1
  /\ watches' = [w \in 1..next_watch |->
                   IF w = next_watch
                     THEN [events |-> <<>>, dropped |-> 0, cancelled |-> FALSE]
                     ELSE watches[w]]
  /\ since' = [w \in 1..next_watch |->
                 IF w = next_watch THEN revision ELSE since[w]]
  /\ delivered' = [w \in 1..next_watch |->
                     IF w = next_watch THEN 0 ELSE delivered[w]]
  /\ UNCHANGED <<revision, feed>>

\* A poll hands out the oldest events, at most `limit` and at most all.
PollWatch(w, limit) ==
  LET events == watches[w].events
      count == IF limit < Len(events) THEN limit ELSE Len(events)
  IN /\ watches' = [watches EXCEPT ![w] =
                      [events |-> SubSeq(events, count + 1, Len(events)),
                       dropped |-> @.dropped, cancelled |-> @.cancelled]]
     /\ delivered' = [delivered EXCEPT ![w] = @ + count]
     /\ UNCHANGED <<revision, feed, next_watch, since>>

CancelWatch(w) ==
  /\ watches' = [watches EXCEPT ![w] =
                   [events |-> <<>>, dropped |-> @.dropped, cancelled |-> TRUE]]
  /\ UNCHANGED <<revision, feed, next_watch, since, delivered>>

FeedNext ==
  \/ Change \/ DrainChanges \/ Subscribe
  \/ \E w \in WatchIds :
       \/ \E limit \in 0..WatchCapacity : PollWatch(w, limit)
       \/ CancelWatch(w)

FeedSpec == FeedInit /\ [][FeedNext]_feedVars

----------------------------------------------------------------------------
\* The shape of every variable.
WatchState == [events : Seq(Nat), dropped : Nat, cancelled : BOOLEAN]
FeedTypeOK ==
  /\ revision \in Nat \ {0}
  /\ changes \in Seq(Nat) /\ dropped_changes \in Nat /\ drained \in Nat
  /\ next_watch \in Nat \ {0}
  /\ watches \in [WatchIds -> WatchState]
  /\ since \in [WatchIds -> Nat] /\ delivered \in [WatchIds -> Nat]

\* The newest events, without a gap: queue holds revisions
\* revision - Len(queue) + 1 .. revision.
Newest(queue) ==
  /\ Len(queue) <= WatchCapacity
  /\ \A i \in 1..Len(queue) : queue[i] + Len(queue) = revision + i

LiveContiguous ==
  /\ Newest(changes)
  /\ \A w \in WatchIds : ~watches[w].cancelled => Newest(watches[w].events)

CancelledEmpty ==
  \A w \in WatchIds : watches[w].cancelled => watches[w].events = <<>>

\* Every queue holds the newest changes in order and without a gap, within its
\* capacity: overflow drops the oldest events only, partial polls leave no hole,
\* and one slow consumer costs the others nothing (README.md:19, "independent
\* bounded watches").  The queue of a cancelled watch stays empty, whatever
\* changes afterwards.
QueuesContiguous == LiveContiguous /\ CancelledEmpty

\* The overflow evidence is exact: what a live watch has been handed, what is
\* queued for it and what it is told was dropped add up to the changes since
\* it subscribed; likewise for the feed (README.md:19, "lifetime overflow
\* evidence").
EvidenceExact ==
  /\ drained + Len(changes) + dropped_changes + 1 = revision
  /\ \A w \in WatchIds : ~watches[w].cancelled =>
       delivered[w] + Len(watches[w].events) + watches[w].dropped + since[w]
         = revision

\* A cancelled watch stays cancelled and delivers nothing any more, whatever
\* changes afterwards ("idempotently with respect to future event delivery",
\* server.rs:250).
CancelledSilent ==
  [][\A w \in WatchIds : watches[w].cancelled =>
       watches'[w].cancelled /\ watches'[w].events = <<>>
       /\ delivered'[w] = delivered[w]]_feedVars
=============================================================================
