-------------------------- MODULE SessionRegistry --------------------------
(***************************************************************************)
(* The session registry of the expression-tree server                      *)
(* (sim-lib-expr-tree-server/src/server.rs and server/route.rs): live      *)
(* sessions, the in-flight set that reserves a session for one runtime     *)
(* operation, the logical clock and idle expiry.                           *)
(*                                                                         *)
(* Every action is one critical section under the registry mutex.  An      *)
(* operation that releases the mutex while the runtime evaluates is        *)
(* several actions, with its local variables in op[c]; any other client's  *)
(* request may run in between.                                             *)
(*                                                                         *)
(* A session record is reduced to its tree, its revision, its last         *)
(* activity and the logical tick of its newest change event; its watches   *)
(* and continuation tokens are in SessionFeed and SessionPages.  The       *)
(* runtime behind a TreeHandle is external: trees[t] counts its changes.   *)
(***************************************************************************)
EXTENDS Naturals, FiniteSets

CONSTANTS
  Clients,      \* threads that call the server
  Trees,        \* storage names; opening one yields the one tree it names
  Outcomes,     \* what an evaluation may do: "changed", "read", "failed",
                \* or "partial" (an error after the tree has changed)
  None,         \* a client's tree before it has one
  MaxSessions, MaxIdle,   \* ExpressionTreeServerLimits
  MaxTick                 \* model bound on the logical clock

ASSUME OutcomesAssumption ==
  Outcomes \subseteq {"changed", "read", "failed", "partial"}
ASSUME LimitsAssumption ==
  MaxSessions \in Nat \ {0} /\ MaxIdle \in Nat \ {0} /\ MaxTick \in Nat

VARIABLES
  sessions,     \* session id -> record
  in_flight,    \* ids reserved by a running operation
  next_session, next_tick,
  trees,        \* tree -> how often it has changed (external)
  op            \* client -> the operation it is in the middle of

vars == <<sessions, in_flight, next_session, next_tick, trees, op>>

----------------------------------------------------------------------------
Idle == [phase |-> "idle", session |-> 0, tick |-> 0, tree |-> None,
         revision |-> 0]

\* The phases between reserve_runtime and the end of the operation.
Done    == {"changed", "read", "failed"}
Flying  == {"running"} \cup Done
Phases  == {"idle", "holding", "opening"} \cup Flying

\* Mutant: a busy session expires like any other.
SurvivesByActivity(s, now) == now - sessions[s].last_activity <= MaxIdle

Survives(s, now) ==
  s \in in_flight \/ now - sessions[s].last_activity <= MaxIdle
ExpireIdle(now) == {s \in DOMAIN sessions : Survives(s, now)}
Kept(now) == [s \in ExpireIdle(now) |-> sessions[s]]

\* Every request takes a tick and expires idle sessions, also when it is then
\* refused.
BeginRequest == /\ next_tick < MaxTick
                /\ next_tick' = next_tick + 1

\* Mutant: a busy session is not refused.
AddressableWhenBusy(s) == s \in ExpireIdle(next_tick + 1)

\* session_mut: the session is live after expiry and not in flight.
Addressable(s) == s \in ExpireIdle(next_tick + 1) /\ s \notin in_flight

Touched(s) == [Kept(next_tick + 1) EXCEPT ![s].last_activity = next_tick]

\* in_flight.remove and the record lookup that ends an operation succeed.
HoldsReservation(c) ==
  op[c].session \in in_flight /\ op[c].session \in DOMAIN sessions

\* SessionRecord::changed for an operation that began at `tick`.
Revised(rec, tick) ==
  [tree |-> rec.tree, revision |-> rec.revision + 1,
   last_activity |-> rec.last_activity, event |-> tick]
Changed(S, s, tick) == [S EXCEPT ![s] = Revised(@, tick)]

----------------------------------------------------------------------------
Init ==
  /\ sessions = [s \in {} |-> 0]
  /\ in_flight = {}
  /\ next_session = 1 /\ next_tick = 1
  /\ trees = [t \in Trees |-> 0]
  /\ op = [c \in Clients |-> Idle]

\* A request that names an absent or busy session, or finds the registry full.
Refused(c) ==
  /\ \/ op[c].phase = "idle"
     \/ op[c].phase = "holding" /\ ~Addressable(op[c].session)
  /\ BeginRequest
  /\ sessions' = Kept(next_tick')
  /\ op' = [op EXCEPT ![c] = Idle]
  /\ UNCHANGED <<in_flight, next_session, trees>>

\* snapshot, revision, subscribe, poll_watch, cancel_watch, drain_changes, and
\* every request that fails after it has found its session.
Touch(s) ==
  /\ BeginRequest
  /\ Addressable(s)
  /\ sessions' = Touched(s)
  /\ UNCHANGED <<in_flight, next_session, trees, op>>

\* Mutant: the id is taken only when the session is inserted.
CreateBeginSameId(c) ==
  /\ op[c].phase = "idle"
  /\ BeginRequest
  /\ sessions' = Kept(next_tick')
  /\ Cardinality(DOMAIN sessions') < MaxSessions
  /\ op' = [op EXCEPT ![c] = [Idle EXCEPT !.phase = "opening",
                              !.session = next_session, !.tick = next_tick]]
  /\ UNCHANGED <<in_flight, next_session, trees>>

\* create_session up to the unlock: the id is taken, the session not inserted.
CreateBegin(c) ==
  /\ op[c].phase = "idle"
  /\ BeginRequest
  /\ sessions' = Kept(next_tick')
  /\ Cardinality(DOMAIN sessions') < MaxSessions
  /\ next_session' = next_session + 1
  /\ op' = [op EXCEPT ![c] = [Idle EXCEPT !.phase = "opening",
                              !.session = next_session, !.tick = next_tick]]
  /\ UNCHANGED <<in_flight, trees>>

NewSession(t, tick) ==
  [tree |-> t, revision |-> 1, last_activity |-> tick, event |-> 0]

\* Mutant: capacity is checked on admission only.
CreateCommitUnchecked(c, t) ==
  /\ op[c].phase = "opening"
  /\ sessions' = [s \in ExpireIdle(next_tick) \cup {op[c].session} |->
                    IF s = op[c].session THEN NewSession(t, op[c].tick)
                                         ELSE sessions[s]]
  /\ op' = [op EXCEPT ![c] = Idle]
  /\ UNCHANGED <<in_flight, next_session, next_tick, trees>>

\* The rest of it, after expr-tree/open: no new tick, capacity checked again.
CreateCommit(c, t) ==
  /\ op[c].phase = "opening"
  /\ Cardinality(ExpireIdle(next_tick)) < MaxSessions
  /\ sessions' = [s \in ExpireIdle(next_tick) \cup {op[c].session} |->
                    IF s = op[c].session THEN NewSession(t, op[c].tick)
                                         ELSE sessions[s]]
  /\ op' = [op EXCEPT ![c] = Idle]
  /\ UNCHANGED <<in_flight, next_session, next_tick, trees>>

\* The registry filled up while the tree was being opened.
CreateOverLimit(c) ==
  /\ op[c].phase = "opening"
  /\ Cardinality(ExpireIdle(next_tick)) >= MaxSessions
  /\ sessions' = Kept(next_tick)
  /\ op' = [op EXCEPT ![c] = Idle]
  /\ UNCHANGED <<in_flight, next_session, next_tick, trees>>

\* expr-tree/open failed; or a decode or capability check of apply_intent did.
GiveUp(c) ==
  /\ op[c].phase \in {"opening", "holding"}
  /\ op' = [op EXCEPT ![c] = Idle]
  /\ UNCHANGED <<sessions, in_flight, next_session, next_tick, trees>>

\* A snapshot to decode against: the first half of apply_intent, or the read
\* whose result a later web-session/commit carries as expected-current.
ReadSnapshot(c, s) ==
  /\ op[c].phase = "idle"
  /\ BeginRequest
  /\ Addressable(s)
  /\ sessions' = Touched(s)
  /\ op' = [op EXCEPT ![c] = [Idle EXCEPT !.phase = "holding", !.session = s,
                              !.revision = sessions[s].revision]]
  /\ UNCHANGED <<in_flight, next_session, trees>>

\* A commit whose expected revision is not the session's.
Stale(c) ==
  /\ op[c].phase = "holding"
  /\ BeginRequest
  /\ Addressable(op[c].session)
  /\ sessions[op[c].session].revision # op[c].revision
  /\ sessions' = Touched(op[c].session)
  /\ op' = [op EXCEPT ![c] = Idle]
  /\ UNCHANGED <<in_flight, next_session, trees>>

\* commit_surface_operation for disclose and continue: one critical section.
CommitLocal(c) ==
  /\ op[c].phase = "holding"
  /\ BeginRequest
  /\ Addressable(op[c].session)
  /\ sessions[op[c].session].revision = op[c].revision
  /\ sessions' = Changed(Touched(op[c].session), op[c].session, next_tick)
  /\ op' = [op EXCEPT ![c] = Idle]
  /\ UNCHANGED <<in_flight, next_session, trees>>

\* reserve_runtime: from here until Complete the session is busy to all others.
ReserveRuntime(c, s) ==
  /\ BeginRequest
  /\ Addressable(s)
  /\ sessions' = Touched(s)
  /\ in_flight' = in_flight \cup {s}
  /\ op' = [op EXCEPT ![c] =
              [Idle EXCEPT !.phase = "running", !.session = s,
               !.tick = next_tick, !.tree = sessions[s].tree,
               !.revision = sessions[s].revision]]
  /\ UNCHANGED <<next_session, trees>>

\* A web-session/commit or an Intent, with an expected revision.
CommitRuntime(c) ==
  /\ op[c].phase = "holding"
  /\ op[c].session \in DOMAIN sessions
  /\ sessions[op[c].session].revision = op[c].revision
  /\ ReserveRuntime(c, op[c].session)

\* web-session/realize or a direct expr-tree call: no expected revision.
DirectRuntime(c, s) ==
  /\ op[c].phase = "idle"
  /\ ReserveRuntime(c, s)

\* execute_runtime: the mutex is free while the runtime evaluates.
ExecuteRuntime(c, outcome) ==
  /\ op[c].phase = "running"
  /\ trees' = IF outcome \in {"changed", "partial"}
                THEN [trees EXCEPT ![op[c].tree] = @ + 1]
                ELSE trees
  /\ op' = [op EXCEPT ![c].phase = IF outcome = "partial" THEN "failed"
                                                         ELSE outcome]
  /\ UNCHANGED <<sessions, in_flight, next_session, next_tick>>

\* Mutant: the error returns before the reservation is given back.
CompleteErrorFirst(c) ==
  LET s == op[c].session IN
  /\ op[c].phase \in Done
  /\ in_flight' = IF op[c].phase = "failed" THEN in_flight ELSE in_flight \ {s}
  /\ sessions' = IF HoldsReservation(c) /\ op[c].phase = "changed"
                   THEN Changed(sessions, s, op[c].tick)
                   ELSE sessions
  /\ op' = [op EXCEPT ![c] = Idle]
  /\ UNCHANGED <<next_session, next_tick, trees>>

\* The second critical section: the reservation is given back first (an error,
\* if it is gone), then an error of the evaluation returns, and only a revision-
\* changing operation that succeeded is recorded - with the tick of its start.
Complete(c) ==
  LET s == op[c].session IN
  /\ op[c].phase \in Done
  /\ in_flight' = in_flight \ {s}
  /\ sessions' = IF HoldsReservation(c) /\ op[c].phase = "changed"
                   THEN Changed(sessions, s, op[c].tick)
                   ELSE sessions
  /\ op' = [op EXCEPT ![c] = Idle]
  /\ UNCHANGED <<next_session, next_tick, trees>>

CloseSession(s) ==
  /\ BeginRequest
  /\ Addressable(s)
  /\ sessions' = [x \in ExpireIdle(next_tick') \ {s} |-> sessions[x]]
  /\ UNCHANGED <<in_flight, next_session, trees, op>>

MaintenanceTick(steps) ==
  /\ next_tick + steps <= MaxTick
  /\ next_tick' = next_tick + steps
  /\ sessions' = Kept(next_tick')
  /\ UNCHANGED <<in_flight, next_session, trees, op>>

SystemStep(c) == \/ \E outcome \in Outcomes : ExecuteRuntime(c, outcome)
                 \/ Complete(c)

Next ==
  \/ \E c \in Clients :
       \/ Refused(c)
       \/ CreateBegin(c) \/ CreateOverLimit(c) \/ GiveUp(c)
       \/ \E t \in Trees : CreateCommit(c, t)
       \/ \E s \in DOMAIN sessions : ReadSnapshot(c, s) \/ DirectRuntime(c, s)
       \/ Stale(c) \/ CommitLocal(c) \/ CommitRuntime(c)
       \/ SystemStep(c)
  \/ \E s \in DOMAIN sessions : Touch(s) \/ CloseSession(s)
  \/ \E steps \in 0..MaxTick : MaintenanceTick(steps)

\* The thread that holds a reservation keeps running and an evaluation ends
\* (the calculator enforces a budget); requests themselves are never owed.
Fairness == \A c \in Clients : WF_vars(SystemStep(c))

Spec == Init /\ [][Next]_vars /\ Fairness

----------------------------------------------------------------------------
\* The shape of every variable.
TypeOK ==
  /\ DOMAIN sessions \subseteq Nat
  /\ \A s \in DOMAIN sessions : sessions[s] \in
       [tree : Trees, revision : Nat, last_activity : Nat, event : Nat]
  /\ in_flight \subseteq Nat
  /\ next_session \in Nat /\ next_tick \in Nat
  /\ trees \in [Trees -> Nat]
  /\ op \in [Clients -> [phase : Phases, session : Nat, tick : Nat,
                         tree : Trees \cup {None}, revision : Nat]]

\* A running operation owns its session until it completes: the session is in
\* flight and still registered, no other operation runs on it, and nothing
\* else is marked in flight.  So neither error of the second critical section
\* ("runtime operation lost its session reservation", "unknown-session") can
\* happen, whatever expires, closes or is created meanwhile, and no session
\* stays busy without an operation.
ReservationsBacked ==
  /\ \A c \in Clients : op[c].phase \in Flying => HoldsReservation(c)
  /\ \A b, c \in Clients : /\ op[b].phase \in Flying /\ op[c].phase \in Flying
                           /\ op[b].session = op[c].session
                           => b = c
  /\ \A s \in in_flight :
       \E c \in Clients : op[c].phase \in Flying /\ op[c].session = s

\* Optimistic concurrency: the revision an operation was admitted at is still
\* the session's when it completes, although the registry was unlocked while
\* it ran; an accepted commit at revision r produces r + 1 and loses no update.
RevisionHeld ==
  \A c \in Clients :
    op[c].phase \in Flying /\ op[c].session \in DOMAIN sessions =>
      sessions[op[c].session].revision = op[c].revision

\* The configured capacity is never exceeded, although create_session inserts
\* in a later critical section than the one that admitted it.
SessionLimit == Cardinality(DOMAIN sessions) <= MaxSessions

\* A live session is never replaced by another creation, and its revision moves
\* only together with its newest event's logical tick, both strictly upwards
\* (README.md:22, "mandatory monotone logical ticks on changes") - also when an
\* operation that began early completes late.
SessionAdvances ==
  [][\A s \in DOMAIN sessions \cap DOMAIN sessions' :
       /\ sessions'[s].tree = sessions[s].tree
       /\ \/ /\ sessions'[s].revision = sessions[s].revision
             /\ sessions'[s].event = sessions[s].event
          \/ /\ sessions'[s].revision = sessions[s].revision + 1
             /\ sessions'[s].event > sessions[s].event]_vars

\* A busy session becomes free again, also when the evaluation fails, its
\* client never asks again or other requests keep arriving.  (Each creation
\* takes a tick, so MaxTick bounds the session ids.)
ReservationsEnd ==
  \A s \in 1..MaxTick : s \in in_flight ~> s \notin in_flight
=============================================================================
