--------------------------- MODULE Session_proofs ---------------------------
(***************************************************************************)
(* Proofs about the server's sessions: the registry that keeps them, for   *)
(* every number of clients, trees and sessions and every value of the      *)
(* limits; and the change feed of one of them, for every capacity, number  *)
(* of watches and length of run.  The two share no variable.               *)
(***************************************************************************)
EXTENDS SessionRegistry, SessionFeed, FiniteSetTheorems, SequenceTheorems, TLAPS

----------------------------------------------------------------------------
(***************************************************************************)
(* SessionRegistry.                                                        *)
(***************************************************************************)
\* Session ids come from one counter: the id a creation carries across the
\* unlock is in use nowhere else.
IdsIssued ==
  /\ \A s \in DOMAIN sessions : s < next_session
  /\ \A c \in Clients : op[c].phase = "opening" =>
       op[c].session < next_session /\ op[c].session \notin DOMAIN sessions
  /\ \A b, c \in Clients : /\ op[b].phase = "opening" /\ op[c].phase = "opening"
                           /\ op[b].session = op[c].session
                           => b = c

ClockStarted == next_tick > 0

\* A running operation began after its session's newest event.
TicksIssued ==
  /\ \A s \in DOMAIN sessions : sessions[s].event < next_tick
  /\ \A c \in Clients : op[c].phase \in Flying =>
       /\ op[c].tick < next_tick
       /\ sessions[op[c].session].event < op[c].tick

Bounded == IsFiniteSet(DOMAIN sessions) /\ SessionLimit

\* The inductive invariant.
IInv == /\ TypeOK /\ IdsIssued /\ ClockStarted /\ TicksIssued
        /\ ReservationsBacked /\ RevisionHeld /\ Bounded

----------------------------------------------------------------------------
\* A step that at most drops sessions that are not in flight and refreshes
\* last_activity.
Quiet ==
  /\ DOMAIN sessions' \subseteq DOMAIN sessions
  /\ DOMAIN sessions \cap in_flight \subseteq DOMAIN sessions'
  /\ \A s \in DOMAIN sessions' :
       /\ sessions'[s] \in [tree : Trees, revision : Nat,
                            last_activity : Nat, event : Nat]
       /\ sessions'[s].tree = sessions[s].tree
       /\ sessions'[s].revision = sessions[s].revision
       /\ sessions'[s].event = sessions[s].event

\* A step in which only a client outside an operation changes its local state,
\* and not to one inside an operation.
OutsideOnly ==
  /\ op' \in [Clients -> [phase : Phases, session : Nat, tick : Nat,
                          tree : Trees \cup {None}, revision : Nat]]
  /\ \A c \in Clients : \/ op'[c] = op[c]
                        \/ /\ op[c].phase \notin Flying
                           /\ op'[c].phase \in {"idle", "holding"}

ClocksForward ==
  /\ next_tick' \in Nat /\ next_tick <= next_tick'
  /\ next_session' \in Nat /\ next_session <= next_session'

\* expire_idle drops only sessions outside an operation and changes none.
LEMMA KeptQuiet ==
  ASSUME TypeOK, NEW now, sessions' = Kept(now)
  PROVE  Quiet
BY DEF Kept, ExpireIdle, Survives, Quiet, TypeOK

LEMMA TouchedQuiet ==
  ASSUME TypeOK, NEW s, Addressable(s), sessions' = Touched(s)
  PROVE  Quiet
BY DEF Touched, Addressable, Kept, ExpireIdle, Survives, Quiet, TypeOK

\* What a touch and a recorded change leave of the session table.
LEMMA TouchedFacts ==
  ASSUME TypeOK, NEW s, Addressable(s)
  PROVE  /\ DOMAIN Touched(s) = ExpireIdle(next_tick + 1)
         /\ Touched(s)[s] \in [tree : Trees, revision : Nat,
                               last_activity : Nat, event : Nat]
         /\ Touched(s)[s].tree = sessions[s].tree
         /\ Touched(s)[s].revision = sessions[s].revision
         /\ \A x \in ExpireIdle(next_tick + 1) :
              x # s => Touched(s)[x] = sessions[x]
BY DEF Touched, Addressable, Kept, ExpireIdle, Survives, TypeOK

LEMMA ChangedFacts ==
  ASSUME NEW S, NEW s \in DOMAIN S, NEW tick \in Nat,
         S[s] \in [tree : Trees, revision : Nat, last_activity : Nat, event : Nat]
  PROVE  /\ DOMAIN Changed(S, s, tick) = DOMAIN S
         /\ Changed(S, s, tick)[s] \in
              [tree : Trees, revision : Nat, last_activity : Nat, event : Nat]
         /\ Changed(S, s, tick)[s].event = tick
         /\ Changed(S, s, tick)[s].revision = S[s].revision + 1
         /\ Changed(S, s, tick)[s].tree = S[s].tree
         /\ \A x \in DOMAIN S : x # s => Changed(S, s, tick)[x] = S[x]
<1> DEFINE new == Revised(S[s], tick)
<1>1. /\ new \in [tree : Trees, revision : Nat, last_activity : Nat, event : Nat]
      /\ new.event = tick
      /\ new.revision = S[s].revision + 1
      /\ new.tree = S[s].tree
  BY DEF Revised
<1>2. Changed(S, s, tick) = [S EXCEPT ![s] = new]
  BY DEF Changed
<1> HIDE DEF new
<1>3. /\ DOMAIN Changed(S, s, tick) = DOMAIN S
      /\ Changed(S, s, tick)[s] = new
      /\ \A x \in DOMAIN S : x # s => Changed(S, s, tick)[x] = S[x]
  BY <1>2
<1> QED
  BY <1>1, <1>3

\* The session table after a disclose or continue.
LEMMA LocalFacts ==
  ASSUME TypeOK, NEW s, Addressable(s),
         sessions' = Changed(Touched(s), s, next_tick)
  PROVE  /\ DOMAIN sessions' = ExpireIdle(next_tick + 1)
         /\ s \in DOMAIN sessions' /\ s \in DOMAIN sessions
         /\ DOMAIN sessions' \subseteq DOMAIN sessions
         /\ DOMAIN sessions \cap in_flight \subseteq DOMAIN sessions'
         /\ sessions'[s] \in
              [tree : Trees, revision : Nat, last_activity : Nat, event : Nat]
         /\ sessions'[s].event = next_tick
         /\ sessions'[s].revision = sessions[s].revision + 1
         /\ sessions'[s].tree = sessions[s].tree
         /\ \A x \in DOMAIN sessions' : x # s => sessions'[x] = sessions[x]
<1> DEFINE T == Touched(s)
<1>1. /\ DOMAIN T = ExpireIdle(next_tick + 1)
      /\ T[s] \in [tree : Trees, revision : Nat, last_activity : Nat, event : Nat]
      /\ T[s].tree = sessions[s].tree
      /\ T[s].revision = sessions[s].revision
      /\ \A x \in ExpireIdle(next_tick + 1) : x # s => T[x] = sessions[x]
  BY TouchedFacts
<1>2. /\ s \in ExpireIdle(next_tick + 1) /\ next_tick \in Nat
      /\ ExpireIdle(next_tick + 1) \subseteq DOMAIN sessions
      /\ DOMAIN sessions \cap in_flight \subseteq ExpireIdle(next_tick + 1)
  BY DEF Addressable, ExpireIdle, Survives, TypeOK
<1>3. sessions' = Changed(T, s, next_tick)
  OBVIOUS
<1> HIDE DEF T
<1>4. /\ DOMAIN Changed(T, s, next_tick) = DOMAIN T
      /\ Changed(T, s, next_tick)[s] \in
           [tree : Trees, revision : Nat, last_activity : Nat, event : Nat]
      /\ Changed(T, s, next_tick)[s].event = next_tick
      /\ Changed(T, s, next_tick)[s].revision = T[s].revision + 1
      /\ Changed(T, s, next_tick)[s].tree = T[s].tree
      /\ \A x \in DOMAIN T : x # s => Changed(T, s, next_tick)[x] = T[x]
  <2>1. s \in DOMAIN T
    BY <1>1, <1>2
  <2> QED
    BY <1>1, <1>2, <2>1, ChangedFacts, ZenonT(60)
<1> QED
  BY <1>1, <1>2, <1>3, <1>4

LEMMA IdleTyped ==
  Idle \in [phase : Phases, session : Nat, tick : Nat,
            tree : Trees \cup {None}, revision : Nat]
BY DEF Idle, Phases

\* The phases of an operation and the others do not overlap.
LEMMA PhaseFacts ==
  /\ "idle" \notin Flying /\ "holding" \notin Flying /\ "opening" \notin Flying
  /\ "running" \in Flying /\ Done \subseteq Flying
  /\ Flying \subseteq Phases
BY DEF Flying, Done, Phases

\* Dropping sessions keeps the registry within its capacity.
LEMMA SmallerBounded ==
  ASSUME Bounded, DOMAIN sessions' \subseteq DOMAIN sessions
  PROVE  Bounded'
<1>1. IsFiniteSet(DOMAIN sessions')
      /\ Cardinality(DOMAIN sessions') <= Cardinality(DOMAIN sessions)
  BY FS_Subset DEF Bounded
<1>2. Cardinality(DOMAIN sessions) \in Nat /\ Cardinality(DOMAIN sessions') \in Nat
  BY <1>1, FS_CardinalityType DEF Bounded
<1> QED
  BY <1>1, <1>2, LimitsAssumption DEF Bounded, SessionLimit

\* Every action of that kind keeps the invariant.
LEMMA QuietStep ==
  ASSUME IInv, Quiet, OutsideOnly, ClocksForward, UNCHANGED <<in_flight, trees>>
  PROVE  IInv'
<1> USE DEF IInv, Quiet, OutsideOnly, ClocksForward
<1>1. TypeOK'
  BY DEF TypeOK
<1>2. IdsIssued'
  BY DEF TypeOK, IdsIssued
<1>3. ReservationsBacked'
  BY PhaseFacts DEF ReservationsBacked, HoldsReservation
<1>4. TicksIssued'
  BY PhaseFacts DEF TypeOK, TicksIssued, ReservationsBacked, HoldsReservation
<1>5. RevisionHeld'
  BY PhaseFacts DEF RevisionHeld, ReservationsBacked, HoldsReservation
<1>6. Bounded'
  BY SmallerBounded
<1>7. ClockStarted'
  BY DEF ClockStarted, TypeOK
<1> QED
  BY <1>1, <1>2, <1>3, <1>4, <1>5, <1>6, <1>7

----------------------------------------------------------------------------
\* A request's clock step.
LEMMA RequestClocks ==
  ASSUME TypeOK, BeginRequest, UNCHANGED next_session
  PROVE  ClocksForward
BY DEF BeginRequest, ClocksForward, TypeOK

LEMMA InitInv == Init => IInv
<1> SUFFICES ASSUME Init PROVE IInv
  OBVIOUS
<1>1. DOMAIN sessions = {} /\ Cardinality(DOMAIN sessions) = 0
      /\ IsFiniteSet(DOMAIN sessions)
  BY FS_EmptySet DEF Init
<1>2. TypeOK
  BY IdleTyped DEF Init, TypeOK
<1>3. IdsIssued /\ TicksIssued /\ ReservationsBacked /\ RevisionHeld
  BY <1>1, PhaseFacts DEF Init, Idle, IdsIssued, TicksIssued,
     ReservationsBacked, RevisionHeld
<1> QED
  BY <1>1, <1>2, <1>3, LimitsAssumption
     DEF Init, IInv, ClockStarted, Bounded, SessionLimit

\* The requests of no particular client that leave every revision alone.
LEMMA QuietRequests ==
  ASSUME IInv
  PROVE  /\ \A s : Touch(s) \/ CloseSession(s) => IInv'
         /\ \A steps \in Nat : MaintenanceTick(steps) => IInv'
<1> TypeOK
  BY DEF IInv
<1>1. ASSUME UNCHANGED op PROVE OutsideOnly
  BY <1>1 DEF OutsideOnly, TypeOK
<1>2. ASSUME NEW s, Touch(s) PROVE IInv'
  BY <1>1, <1>2, QuietStep, TouchedQuiet, RequestClocks DEF Touch
<1>3. ASSUME NEW s, CloseSession(s) PROVE IInv'
  <2>1. Quiet
    BY <1>3 DEF CloseSession, Addressable, ExpireIdle, Survives, Quiet, TypeOK
  <2> QED
    BY <1>1, <1>3, <2>1, QuietStep, RequestClocks DEF CloseSession
<1>4. ASSUME NEW steps \in Nat, MaintenanceTick(steps) PROVE IInv'
  <2>1. ClocksForward
    BY <1>4 DEF MaintenanceTick, ClocksForward, TypeOK
  <2> QED
    BY <1>1, <1>4, <2>1, QuietStep, KeptQuiet DEF MaintenanceTick
<1> QED
  BY <1>2, <1>3, <1>4

\* The requests of a client that leave every revision alone and start no
\* operation.
LEMMA QuietActions ==
  ASSUME IInv, NEW c \in Clients
  PROVE  /\ Refused(c) \/ CreateOverLimit(c) \/ GiveUp(c) \/ Stale(c) => IInv'
         /\ \A s : ReadSnapshot(c, s) => IInv'
<1> TypeOK
  BY DEF IInv
<1> DEFINE Locals == [phase : Phases, session : Nat, tick : Nat,
                      tree : Trees \cup {None}, revision : Nat]
<1>1. ASSUME NEW x \in Locals, x.phase \in {"idle", "holding"},
             op[c].phase \notin Flying, op' = [op EXCEPT ![c] = x]
      PROVE  OutsideOnly
  BY <1>1 DEF OutsideOnly, TypeOK
<1>2. op[c].phase \in {"idle", "holding", "opening"} => op[c].phase \notin Flying
  BY PhaseFacts
<1>3. Idle.phase = "idle"
  BY DEF Idle
<1>4. ASSUME Refused(c) PROVE IInv'
  <2>1. OutsideOnly
    BY <1>1, <1>2, <1>3, <1>4, IdleTyped DEF Refused
  <2> QED
    BY <1>4, <2>1, QuietStep, KeptQuiet, RequestClocks DEF Refused
<1>5. ASSUME CreateOverLimit(c) PROVE IInv'
  <2>1. OutsideOnly
    BY <1>1, <1>2, <1>3, <1>5, IdleTyped DEF CreateOverLimit
  <2>2. ClocksForward
    BY <1>5 DEF CreateOverLimit, ClocksForward, TypeOK
  <2> QED
    BY <1>5, <2>1, <2>2, QuietStep, KeptQuiet DEF CreateOverLimit
<1>6. ASSUME GiveUp(c) PROVE IInv'
  <2>1. OutsideOnly
    BY <1>1, <1>2, <1>3, <1>6, IdleTyped DEF GiveUp
  <2>2. ClocksForward /\ Quiet
    BY <1>6 DEF GiveUp, ClocksForward, Quiet, TypeOK
  <2> QED
    BY <1>6, <2>1, <2>2, QuietStep DEF GiveUp
<1>7. ASSUME NEW s, ReadSnapshot(c, s) PROVE IInv'
  <2> DEFINE x == [Idle EXCEPT !.phase = "holding", !.session = s,
                   !.revision = sessions[s].revision]
  <2>1. s \in DOMAIN sessions
    BY <1>7 DEF ReadSnapshot, Addressable, ExpireIdle
  <2>2. x \in Locals /\ x.phase = "holding"
    BY <2>1 DEF Idle, Phases, TypeOK
  <2>3. OutsideOnly
    BY <1>1, <1>2, <1>7, <2>2 DEF ReadSnapshot
  <2> QED
    BY <1>7, <2>3, QuietStep, TouchedQuiet, RequestClocks DEF ReadSnapshot
<1>8. ASSUME Stale(c) PROVE IInv'
  <2>1. OutsideOnly
    BY <1>1, <1>2, <1>3, <1>8, IdleTyped DEF Stale
  <2> QED
    BY <1>8, <2>1, QuietStep, TouchedQuiet, RequestClocks DEF Stale
<1> QED
  BY <1>4, <1>5, <1>6, <1>7, <1>8

\* The first half of a creation: a new id, in use nowhere.
LEMMA CreateBeginStep ==
  ASSUME IInv, NEW c \in Clients, CreateBegin(c)
  PROVE  IInv'
<1> TypeOK /\ IdsIssued
  BY DEF IInv
<1> DEFINE x == [Idle EXCEPT !.phase = "opening", !.session = next_session,
                             !.tick = next_tick]
<1>1. Quiet
  BY KeptQuiet DEF CreateBegin
<1>2. /\ op[c].phase \notin Flying /\ op' = [op EXCEPT ![c] = x]
      /\ x.phase = "opening" /\ x.session = next_session
      /\ x \in [phase : Phases, session : Nat, tick : Nat,
                tree : Trees \cup {None}, revision : Nat]
      /\ next_session' = next_session + 1 /\ next_tick' = next_tick + 1
      /\ UNCHANGED <<in_flight, trees>>
  BY PhaseFacts DEF CreateBegin, BeginRequest, Idle, Phases, TypeOK
<1> HIDE DEF x
<1>3. /\ op' \in [Clients -> [phase : Phases, session : Nat, tick : Nat,
                              tree : Trees \cup {None}, revision : Nat]]
      /\ op'[c] = x
      /\ \A b \in Clients : b # c => op'[b] = op[b]
  BY <1>2 DEF TypeOK
<1>4. TypeOK'
  BY <1>1, <1>2, <1>3 DEF TypeOK, Quiet
<1>5. IdsIssued'
  BY <1>1, <1>2, <1>3 DEF TypeOK, IdsIssued, Quiet
<1>6. ReservationsBacked'
  BY <1>1, <1>2, <1>3, PhaseFacts DEF IInv, ReservationsBacked,
     HoldsReservation, Quiet
<1>7. TicksIssued' /\ RevisionHeld'
  BY <1>1, <1>2, <1>3, PhaseFacts DEF IInv, ReservationsBacked,
     HoldsReservation, TicksIssued, RevisionHeld, Quiet, TypeOK
<1>8. Bounded'
  BY <1>1, SmallerBounded DEF Quiet, IInv
<1>9. ClockStarted'
  BY <1>2 DEF ClockStarted, TypeOK, IInv
<1> QED
  BY <1>4, <1>5, <1>6, <1>7, <1>8, <1>9 DEF IInv

\* The second half: the id is new, so no session is replaced; capacity is
\* checked in the same critical section as the insertion.
LEMMA CreateCommitStep ==
  ASSUME IInv, NEW c \in Clients, NEW t \in Trees, CreateCommit(c, t)
  PROVE  IInv'
<1> TypeOK /\ IdsIssued
  BY DEF IInv
<1> DEFINE id == op[c].session
           E == ExpireIdle(next_tick)
<1>1. /\ id \in Nat /\ id < next_session /\ id \notin DOMAIN sessions
      /\ op[c].phase \notin Flying
      /\ E \subseteq DOMAIN sessions /\ DOMAIN sessions \cap in_flight \subseteq E
  BY PhaseFacts DEF CreateCommit, TypeOK, IdsIssued, ExpireIdle, Survives
<1>2. /\ DOMAIN sessions' = E \cup {id}
      /\ sessions'[id] = NewSession(t, op[c].tick)
      /\ \A s \in E : sessions'[s] = sessions[s]
  BY <1>1 DEF CreateCommit
<1>3. NewSession(t, op[c].tick) \in
        [tree : Trees, revision : Nat, last_activity : Nat, event : Nat]
      /\ NewSession(t, op[c].tick).event = 0
  BY DEF NewSession, TypeOK
<1>4. /\ op' = [op EXCEPT ![c] = Idle] /\ Idle.phase = "idle"
      /\ UNCHANGED <<in_flight, next_session, next_tick, trees>>
  BY DEF CreateCommit, Idle
<1>5. id \notin in_flight
  BY <1>1 DEF IInv, ReservationsBacked, HoldsReservation
<1>6. TypeOK'
  BY <1>1, <1>2, <1>3, <1>4, IdleTyped DEF TypeOK
<1>7. IdsIssued'
  <2>1. \A b \in Clients : b # c /\ op[b].phase = "opening" => op[b].session # id
    BY DEF IdsIssued, CreateCommit
  <2> QED
    BY <1>1, <1>2, <1>4, <2>1 DEF IdsIssued, TypeOK
<1>8. ReservationsBacked'
  BY <1>1, <1>2, <1>4, PhaseFacts
     DEF IInv, ReservationsBacked, HoldsReservation, TypeOK
<1>9. TicksIssued' /\ RevisionHeld'
  <2>1. ASSUME NEW b \in Clients, op'[b].phase \in Flying
        PROVE /\ op'[b] = op[b] /\ op[b].session \in E
              /\ sessions'[op[b].session] = sessions[op[b].session]
    BY <1>1, <1>2, <1>4, <2>1, PhaseFacts
       DEF IInv, ReservationsBacked, HoldsReservation, TypeOK
  <2>2. next_tick > 0
    BY <1>1, <1>4 DEF IInv, TypeOK, ClockStarted
  <2> QED
    BY <1>1, <1>2, <1>3, <1>4, <2>1, <2>2
       DEF IInv, TicksIssued, RevisionHeld, TypeOK
<1>10. Bounded'
  <2>1. IsFiniteSet(E) /\ Cardinality(E) \in Nat
    BY <1>1, FS_Subset, FS_CardinalityType DEF IInv, Bounded
  <2>2. id \notin E
    BY <1>1
  <2>3. IsFiniteSet(E \cup {id}) /\ Cardinality(E \cup {id}) = Cardinality(E) + 1
    BY <2>1, <2>2, FS_AddElement
  <2> QED
    BY <1>2, <2>1, <2>3, LimitsAssumption DEF CreateCommit, Bounded, SessionLimit
<1> QED
  BY <1>4, <1>6, <1>7, <1>8, <1>9, <1>10 DEF IInv, ClockStarted

\* A disclose or continue: the session is not in flight, so no operation is
\* looking at the revision that moves.
LEMMA CommitLocalStep ==
  ASSUME IInv, NEW c \in Clients, CommitLocal(c)
  PROVE  IInv'
<1> TypeOK
  BY DEF IInv
<1> DEFINE s == op[c].session
<1>1. /\ s \in DOMAIN sessions /\ s \notin in_flight
      /\ op[c].phase = "holding" /\ op[c].phase \notin Flying
  BY PhaseFacts DEF CommitLocal, Addressable, ExpireIdle
<1>2. /\ DOMAIN sessions' = ExpireIdle(next_tick + 1)
      /\ s \in DOMAIN sessions'
      /\ DOMAIN sessions' \subseteq DOMAIN sessions
      /\ DOMAIN sessions \cap in_flight \subseteq DOMAIN sessions'
      /\ \A x \in DOMAIN sessions' : x # s => sessions'[x] = sessions[x]
      /\ sessions'[s] \in
           [tree : Trees, revision : Nat, last_activity : Nat, event : Nat]
      /\ sessions'[s].event = next_tick
  <2>1. sessions' = Changed(Touched(s), s, next_tick) /\ Addressable(s)
    BY DEF CommitLocal
  <2> HIDE DEF s
  <2> QED
    BY <2>1, LocalFacts
<1>3. /\ op' = [op EXCEPT ![c] = Idle] /\ Idle.phase = "idle"
      /\ next_tick' = next_tick + 1
      /\ UNCHANGED <<in_flight, next_session, trees>>
  BY DEF CommitLocal, BeginRequest, Idle
<1>4. \A b \in Clients : op[b].phase \in Flying => op[b].session # s
  BY <1>1 DEF IInv, ReservationsBacked, HoldsReservation
<1> HIDE DEF s
<1>5. TypeOK'
  BY <1>1, <1>2, <1>3, IdleTyped DEF TypeOK
<1>6. IdsIssued'
  BY <1>1, <1>2, <1>3 DEF IInv, IdsIssued, TypeOK
<1>7. ReservationsBacked'
  BY <1>1, <1>2, <1>3, PhaseFacts
     DEF IInv, ReservationsBacked, HoldsReservation, TypeOK
<1>8. TicksIssued' /\ RevisionHeld'
  <2>1. ASSUME NEW b \in Clients, op'[b].phase \in Flying
        PROVE /\ op'[b] = op[b] /\ op[b].session \in DOMAIN sessions'
              /\ op[b].session \in DOMAIN sessions
              /\ sessions'[op[b].session] = sessions[op[b].session]
    BY <1>1, <1>2, <1>3, <1>4, <2>1, PhaseFacts
       DEF IInv, ReservationsBacked, HoldsReservation, TypeOK
  <2>2. TicksIssued'
    BY <1>2, <1>3, <2>1 DEF IInv, TicksIssued, TypeOK
  <2>3. RevisionHeld'
    BY <2>1 DEF IInv, RevisionHeld
  <2> QED
    BY <2>2, <2>3
<1>9. Bounded'
  BY <1>2, SmallerBounded DEF IInv
<1>10. ClockStarted'
  BY <1>3 DEF ClockStarted, TypeOK, IInv
<1> QED
  BY <1>5, <1>6, <1>7, <1>8, <1>9, <1>10 DEF IInv

\* A reservation: the session was not in flight, so it has no other operation.
LEMMA ReserveStep ==
  ASSUME IInv, NEW c \in Clients, NEW s \in Nat, ReserveRuntime(c, s),
         op[c].phase \in {"idle", "holding"}
  PROVE  IInv'
<1> TypeOK
  BY DEF IInv
<1> DEFINE x == [Idle EXCEPT !.phase = "running", !.session = s,
                 !.tick = next_tick, !.tree = sessions[s].tree,
                 !.revision = sessions[s].revision]
<1>1. /\ s \in DOMAIN sessions /\ s \notin in_flight
      /\ op[c].phase \notin Flying
  BY PhaseFacts DEF ReserveRuntime, Addressable, ExpireIdle
<1>2. Quiet /\ s \in DOMAIN sessions'
  <2>1. sessions' = Touched(s) /\ Addressable(s)
    BY DEF ReserveRuntime
  <2>2. DOMAIN sessions' = ExpireIdle(next_tick + 1)
    BY <2>1 DEF Touched, Kept
  <2> QED
    BY <2>1, <2>2, TouchedQuiet DEF Addressable
<1>3. /\ op' = [op EXCEPT ![c] = x]
      /\ x \in [phase : Phases, session : Nat, tick : Nat,
                tree : Trees \cup {None}, revision : Nat]
      /\ x.phase = "running" /\ x.session = s /\ x.tick = next_tick
      /\ x.revision = sessions[s].revision
      /\ in_flight' = in_flight \cup {s}
      /\ next_tick' = next_tick + 1
      /\ UNCHANGED <<next_session, trees>>
  BY <1>1 DEF ReserveRuntime, BeginRequest, Idle, Phases, Flying, TypeOK
<1> HIDE DEF x
<1>4. /\ op'[c] = x
      /\ \A b \in Clients : b # c => op'[b] = op[b]
      /\ op' \in [Clients -> [phase : Phases, session : Nat, tick : Nat,
                              tree : Trees \cup {None}, revision : Nat]]
  BY <1>3 DEF TypeOK
<1>5. \A b \in Clients : op[b].phase \in Flying => op[b].session # s /\ b # c
  BY <1>1 DEF IInv, ReservationsBacked, HoldsReservation
<1>6. TypeOK'
  BY <1>1, <1>2, <1>3, <1>4 DEF TypeOK, Quiet
<1>7. IdsIssued'
  BY <1>2, <1>3, <1>4 DEF IInv, IdsIssued, Quiet
<1>8. ReservationsBacked'
  BY <1>2, <1>3, <1>4, <1>5, PhaseFacts
     DEF IInv, ReservationsBacked, HoldsReservation, Quiet
<1>9. ASSUME NEW b \in Clients, b # c, op'[b].phase \in Flying
      PROVE /\ op'[b] = op[b] /\ op[b].session \in DOMAIN sessions'
            /\ op[b].session \in DOMAIN sessions
  BY <1>2, <1>4, <1>9 DEF IInv, ReservationsBacked, HoldsReservation, Quiet
<1>10. TicksIssued'
  BY <1>1, <1>2, <1>3, <1>4, <1>9 DEF IInv, TicksIssued, Quiet, TypeOK
<1>11. RevisionHeld'
  BY <1>1, <1>2, <1>3, <1>4, <1>9 DEF IInv, RevisionHeld, Quiet
<1>12. Bounded'
  BY <1>2, SmallerBounded DEF IInv, Quiet
<1>13. ClockStarted'
  BY <1>3 DEF ClockStarted, TypeOK, IInv
<1> QED
  BY <1>6, <1>7, <1>8, <1>10, <1>11, <1>12, <1>13 DEF IInv

\* The evaluation touches neither the registry nor another client.
LEMMA ExecuteStep ==
  ASSUME IInv, NEW c \in Clients, NEW outcome \in Outcomes,
         ExecuteRuntime(c, outcome)
  PROVE  IInv'
<1> TypeOK
  BY DEF IInv
<1>1. /\ op[c].phase \in Flying
      /\ UNCHANGED <<sessions, in_flight, next_session, next_tick>>
      /\ trees' \in [Trees -> Nat]
  <2>1. \/ trees' = trees
        \/ trees' = [trees EXCEPT ![op[c].tree] = @ + 1]
    BY DEF ExecuteRuntime
  <2>2. trees' \in [Trees -> Nat]
    BY <2>1 DEF TypeOK
  <2> QED
    BY <2>2, PhaseFacts DEF ExecuteRuntime
<1>2. PICK ph \in Done : op' = [op EXCEPT ![c].phase = ph]
  BY OutcomesAssumption DEF ExecuteRuntime, Done
<1>3. /\ op' \in [Clients -> [phase : Phases, session : Nat, tick : Nat,
                              tree : Trees \cup {None}, revision : Nat]]
      /\ \A b \in Clients : b # c => op'[b] = op[b]
      /\ op'[c].phase \in Flying /\ op'[c].phase # "opening"
      /\ op'[c].session = op[c].session /\ op'[c].tick = op[c].tick
      /\ op'[c].revision = op[c].revision
  BY <1>2, PhaseFacts DEF TypeOK
<1>4. TypeOK'
  BY <1>1, <1>3 DEF TypeOK
<1>5. IdsIssued'
  BY <1>1, <1>3 DEF IInv, IdsIssued
<1>6. ReservationsBacked'
  BY <1>1, <1>3 DEF IInv, ReservationsBacked, HoldsReservation
<1>7. TicksIssued'
  BY <1>1, <1>3 DEF IInv, TicksIssued
<1>8. RevisionHeld'
  BY <1>1, <1>3 DEF IInv, RevisionHeld
<1> QED
  BY <1>1, <1>4, <1>5, <1>6, <1>7, <1>8
     DEF IInv, Bounded, SessionLimit, ClockStarted

\* What the second critical section does to the session table: it finds its
\* reservation, and records at most one change, with a newer tick.
LEMMA CompleteFacts ==
  ASSUME IInv, NEW c \in Clients, Complete(c)
  PROVE  LET s == op[c].session IN
         /\ s \in DOMAIN sessions /\ s \in in_flight
         /\ DOMAIN sessions' = DOMAIN sessions
         /\ \A x \in DOMAIN sessions : x # s => sessions'[x] = sessions[x]
         /\ \/ sessions'[s] = sessions[s]
            \/ /\ sessions'[s] \in [tree : Trees, revision : Nat,
                                    last_activity : Nat, event : Nat]
               /\ sessions'[s].tree = sessions[s].tree
               /\ sessions'[s].revision = sessions[s].revision + 1
               /\ sessions'[s].event = op[c].tick
<1> DEFINE s == op[c].session
<1>1. s \in DOMAIN sessions /\ s \in in_flight /\ op[c].tick \in Nat
      /\ sessions[s] \in [tree : Trees, revision : Nat,
                          last_activity : Nat, event : Nat]
  BY PhaseFacts DEF IInv, Complete, ReservationsBacked, HoldsReservation, TypeOK
<1>2. sessions' = sessions \/ sessions' = Changed(sessions, s, op[c].tick)
  BY DEF Complete
<1> QED
  BY <1>1, <1>2, ChangedFacts

\* Completion: the only operation on the session ends, so nobody else relies on
\* the revision that moves.
LEMMA CompleteStep ==
  ASSUME IInv, NEW c \in Clients, Complete(c)
  PROVE  IInv'
<1> TypeOK
  BY DEF IInv
<1> DEFINE s == op[c].session
<1>1. /\ op[c].phase \in Flying
      /\ op' = [op EXCEPT ![c] = Idle] /\ Idle.phase = "idle"
      /\ in_flight' = in_flight \ {s}
      /\ UNCHANGED <<next_session, next_tick, trees>>
  BY PhaseFacts DEF Complete, Idle
<1>2. \A b \in Clients : b # c /\ op[b].phase \in Flying => op[b].session # s
  BY <1>1 DEF IInv, ReservationsBacked
<1>3. op[c].tick < next_tick
  BY <1>1 DEF IInv, TicksIssued
<1>4. TypeOK'
  BY <1>1, CompleteFacts, IdleTyped DEF TypeOK
<1>5. IdsIssued'
  BY <1>1, CompleteFacts DEF IInv, IdsIssued, TypeOK
<1>6. ReservationsBacked'
  BY <1>1, <1>2, CompleteFacts, PhaseFacts
     DEF IInv, ReservationsBacked, HoldsReservation, TypeOK
<1>7. ASSUME NEW b \in Clients, op'[b].phase \in Flying
      PROVE  /\ op'[b] = op[b] /\ op[b].session \in DOMAIN sessions
             /\ sessions'[op[b].session] = sessions[op[b].session]
  BY <1>1, <1>2, <1>7, CompleteFacts, PhaseFacts
     DEF IInv, ReservationsBacked, HoldsReservation, TypeOK
<1>8. TicksIssued'
  BY <1>1, <1>3, <1>7, CompleteFacts DEF IInv, TicksIssued, TypeOK
<1>9. RevisionHeld'
  BY <1>7 DEF IInv, RevisionHeld
<1>10. Bounded'
  BY CompleteFacts, SmallerBounded DEF IInv
<1> QED
  BY <1>1, <1>4, <1>5, <1>6, <1>8, <1>9, <1>10 DEF IInv, ClockStarted

----------------------------------------------------------------------------
\* Every step keeps the invariant.
LEMMA InvStep ==
  ASSUME IInv, [Next]_vars
  PROVE  IInv'
<1>1. CASE UNCHANGED vars
  BY <1>1 DEF vars, IInv, TypeOK, IdsIssued, ClockStarted, TicksIssued,
     ReservationsBacked, HoldsReservation, RevisionHeld, Bounded, SessionLimit
<1>2. ASSUME NEW c \in Clients, CommitRuntime(c) PROVE IInv'
  <2>1. op[c].session \in Nat /\ op[c].phase = "holding"
        /\ ReserveRuntime(c, op[c].session)
    BY <1>2 DEF CommitRuntime, IInv, TypeOK
  <2> QED
    BY <2>1, ReserveStep
<1>3. ASSUME NEW c \in Clients, NEW s \in DOMAIN sessions, DirectRuntime(c, s)
      PROVE IInv'
  <2>1. s \in Nat /\ op[c].phase = "idle" /\ ReserveRuntime(c, s)
    BY <1>3 DEF DirectRuntime, IInv, TypeOK
  <2> QED
    BY <2>1, ReserveStep
<1>4. ASSUME NEW c \in Clients, SystemStep(c) PROVE IInv'
  BY <1>4, ExecuteStep, CompleteStep DEF SystemStep
<1>5. ASSUME NEW c \in Clients,
             Refused(c) \/ CreateOverLimit(c) \/ GiveUp(c) \/ Stale(c)
      PROVE IInv'
  BY <1>5, QuietActions
<1>6. ASSUME NEW c \in Clients, NEW s \in DOMAIN sessions, ReadSnapshot(c, s)
      PROVE IInv'
  BY <1>6, QuietActions
<1>7. ASSUME NEW s \in DOMAIN sessions, Touch(s) \/ CloseSession(s) PROVE IInv'
  BY <1>7, QuietRequests
<1>8. ASSUME NEW steps \in 0..MaxTick, MaintenanceTick(steps) PROVE IInv'
  BY <1>8, QuietRequests, LimitsAssumption
<1> QED
  BY <1>1, <1>2, <1>3, <1>4, <1>5, <1>6, <1>7, <1>8, CreateBeginStep,
     CreateCommitStep, CommitLocalStep DEF Next

\* The invariant holds in every reachable state.
THEOREM Inductive == Spec => []IInv
<1>1. IInv /\ [Next]_vars => IInv'
  BY InvStep
<1> QED
  BY InitInv, <1>1, PTL DEF Spec

\* The registry is type correct in every reachable state.
THEOREM RegistryTypeOK == Spec => []TypeOK
BY Inductive, PTL DEF IInv

\* A running operation never loses its reservation or its session, whatever
\* other clients create, close, expire or commit meanwhile.
THEOREM ReservationsAreBacked == Spec => []ReservationsBacked
BY Inductive, PTL DEF IInv

\* No update is lost: an operation completes at the revision it was admitted at.
THEOREM NoLostUpdate == Spec => []RevisionHeld
BY Inductive, PTL DEF IInv

\* The registry never holds more sessions than configured.
THEOREM CapacityRespected == Spec => []SessionLimit
BY Inductive, PTL DEF IInv, Bounded

----------------------------------------------------------------------------
\* What one step does to a session that lives through it.
Advances ==
  \A s \in DOMAIN sessions \cap DOMAIN sessions' :
    /\ sessions'[s].tree = sessions[s].tree
    /\ \/ /\ sessions'[s].revision = sessions[s].revision
          /\ sessions'[s].event = sessions[s].event
       \/ /\ sessions'[s].revision = sessions[s].revision + 1
          /\ sessions'[s].event > sessions[s].event

LEMMA AdvanceStep ==
  ASSUME IInv, Next
  PROVE  Advances
<1> TypeOK
  BY DEF IInv
<1>1. CASE Quiet
  BY <1>1 DEF Quiet, Advances
<1>2. CASE UNCHANGED sessions
  BY <1>2 DEF Advances
<1>3. ASSUME NEW c \in Clients
      PROVE  /\ Refused(c) => Quiet
             /\ CreateBegin(c) => Quiet
             /\ CreateOverLimit(c) => Quiet
             /\ GiveUp(c) => UNCHANGED sessions
             /\ Stale(c) => Quiet
             /\ \A s : ReadSnapshot(c, s) => Quiet
             /\ \A s : ReserveRuntime(c, s) => Quiet
             /\ \A outcome : ExecuteRuntime(c, outcome) => UNCHANGED sessions
  BY KeptQuiet, TouchedQuiet DEF Refused, CreateBegin, CreateOverLimit, GiveUp,
     Stale, ReadSnapshot, ReserveRuntime, ExecuteRuntime
<1>4. ASSUME NEW s PROVE (Touch(s) => Quiet) /\ (CloseSession(s) => Quiet)
  <2>1. CloseSession(s) => Quiet
    BY DEF CloseSession, Addressable, ExpireIdle, Survives, Quiet, TypeOK
  <2> QED
    BY <2>1, TouchedQuiet DEF Touch
<1>5. ASSUME NEW steps PROVE MaintenanceTick(steps) => Quiet
  BY KeptQuiet DEF MaintenanceTick
<1>6. ASSUME NEW c \in Clients, NEW t \in Trees, CreateCommit(c, t)
      PROVE  Advances
  <2>1. op[c].session \notin DOMAIN sessions
    BY <1>6 DEF CreateCommit, IInv, IdsIssued
  <2> QED
    BY <1>6, <2>1 DEF CreateCommit, Advances
<1>7. ASSUME NEW c \in Clients, CommitLocal(c) PROVE Advances
  <2> DEFINE s == op[c].session
  <2>1. /\ sessions' = Changed(Touched(s), s, next_tick) /\ Addressable(s)
        /\ s \in DOMAIN sessions /\ next_tick \in Nat
        /\ sessions[s].event < next_tick
    BY <1>7 DEF CommitLocal, Addressable, ExpireIdle, IInv, TypeOK, TicksIssued
  <2> HIDE DEF s
  <2> QED
    BY <2>1, LocalFacts DEF Advances, TypeOK
<1>8. ASSUME NEW c \in Clients, Complete(c) PROVE Advances
  <2>1. sessions[op[c].session].event < op[c].tick
    BY <1>8, PhaseFacts DEF Complete, IInv, TicksIssued
  <2> QED
    BY <1>8, <2>1, CompleteFacts DEF Advances, TypeOK
<1> QED
  BY <1>1, <1>2, <1>3, <1>4, <1>5, <1>6, <1>7, <1>8
     DEF Next, SystemStep, CommitRuntime, DirectRuntime

\* A live session keeps its tree, and its revision and event tick only advance,
\* together, also when operations complete long after they began.
THEOREM SessionsAdvance == Spec => SessionAdvances
<1>1. IInv /\ [Next]_vars => [Advances]_vars
  BY AdvanceStep
<1> QED
  BY Inductive, <1>1, PTL DEF Spec, SessionAdvances, Advances

----------------------------------------------------------------------------
(***************************************************************************)
(* SessionFeed.                                                            *)
(***************************************************************************)
\* The inductive invariant.
FeedInv == FeedTypeOK /\ LiveContiguous /\ EvidenceExact /\ CancelledEmpty

----------------------------------------------------------------------------
\* A sum.
LEMMA SumShift ==
  ASSUME NEW x \in Nat, NEW y \in Nat
  PROVE  x + (y + 1) = x + y + 1
OBVIOUS

\* Appending the next revision to the newest ones gives the newest ones.
LEMMA NewestAt ==
  ASSUME NEW x \in Nat, NEW n \in Nat, NEW r \in Nat, NEW i \in 1..(n + 1),
         i \in 1..n => x + n + 1 = r + i,
         i = n + 1 => x = r
  PROVE  x + (n + 1) = r + i
<1>1. CASE i \in 1..n
  BY <1>1
<1>2. CASE i \notin 1..n
  <2>1. i = n + 1
    BY <1>2
  <2> QED
    BY <2>1
<1> QED
  BY <1>1, <1>2

LEMMA AppendNewest ==
  ASSUME NEW q \in Seq(Nat), NEW r \in Nat,
         \A i \in 1..Len(q) : q[i] + Len(q) + 1 = r + i
  PROVE  /\ Append(q, r) \in Seq(Nat)
         /\ Len(Append(q, r)) = Len(q) + 1
         /\ \A i \in 1..Len(Append(q, r)) :
              Append(q, r)[i] + Len(Append(q, r)) = r + i
<1>1. /\ Append(q, r) \in Seq(Nat) /\ Len(Append(q, r)) = Len(q) + 1
      /\ Len(q) \in Nat
      /\ \A i \in 1..Len(q) : Append(q, r)[i] = q[i] /\ q[i] \in Nat
      /\ Append(q, r)[Len(q) + 1] = r
  BY AppendProperties
<1>2. ASSUME NEW i \in 1..Len(Append(q, r))
      PROVE  Append(q, r)[i] + Len(Append(q, r)) = r + i
  <2>1. i \in 1..Len(q) => Append(q, r)[i] + Len(q) + 1 = r + i
    BY <1>1, Zenon
  <2>2. i = Len(q) + 1 => Append(q, r)[i] = r
    BY <1>1, Zenon
  <2>3. i \in 1..(Len(q) + 1) /\ Len(q) \in Nat
    BY <1>1, Zenon
  <2>4. Append(q, r)[i] \in Nat
    BY <1>1
  <2>5. Append(q, r)[i] + (Len(q) + 1) = r + i
    BY <2>1, <2>2, <2>3, <2>4, NewestAt, Zenon
  <2> QED
    BY <1>1, <2>5, Zenon
<1> QED
  BY <1>1, <1>2, Zenon

\* What one push does to a queue and its drop count: the queue still holds the
\* newest events, and its length and the drop count together grow by one.
LEMMA PushFacts ==
  ASSUME NEW queue \in Seq(Nat), NEW dropped \in Nat, revision \in Nat,
         Newest(queue)
  PROVE  LET q == PushBounded(queue, revision + 1) IN
         /\ q \in Seq(Nat)
         /\ Dropped(queue, dropped) \in Nat
         /\ Len(q) + Dropped(queue, dropped) = Len(queue) + dropped + 1
         /\ Len(q) <= WatchCapacity
         /\ \A i \in 1..Len(q) : q[i] + Len(q) = revision + 1 + i
<1>1. CASE Len(queue) = WatchCapacity
  <2>1. queue # <<>> /\ Len(queue) \in Nat
    BY <1>1, FeedAssumption
  <2>2. /\ Tail(queue) \in Seq(Nat)
        /\ Len(Tail(queue)) = Len(queue) - 1
        /\ \A i \in 1..Len(Tail(queue)) : Tail(queue)[i] = queue[i + 1]
    BY <2>1, HeadTailProperties
  <2> DEFINE t == Tail(queue)
  <2>3. \A i \in 1..Len(t) : t[i] \in Nat /\ t[i] + Len(queue) = revision + i + 1
    BY <2>1, <2>2 DEF Newest
  <2>4. PushBounded(queue, revision + 1) = Append(t, revision + 1)
        /\ Dropped(queue, dropped) = dropped + 1
    BY <1>1 DEF PushBounded, Dropped
  <2> HIDE DEF t
  <2>5. t \in Seq(Nat) /\ Len(t) = Len(queue) - 1
    BY <2>2 DEF t
  <2>6. \A i \in 1..Len(t) : t[i] + Len(t) + 1 = revision + 1 + i
    <3>1. TAKE i \in 1..Len(t)
    <3>2. t[i] \in Nat /\ t[i] + Len(queue) = revision + i + 1
      BY <2>3, Zenon
    <3>3. Len(t) \in Nat /\ i \in Nat /\ Len(t) = Len(queue) - 1
      BY <2>1, <2>5
    <3> QED
      BY <2>1, <3>2, <3>3
  <2>7. revision + 1 \in Nat
    OBVIOUS
  <2>8. /\ Append(t, revision + 1) \in Seq(Nat)
        /\ Len(Append(t, revision + 1)) = Len(t) + 1
        /\ \A i \in 1..Len(Append(t, revision + 1)) :
             Append(t, revision + 1)[i] + Len(Append(t, revision + 1))
               = revision + 1 + i
    BY <2>5, <2>6, <2>7, AppendNewest, Zenon
  <2> QED
    <3> DEFINE q == Append(t, revision + 1)
    <3>1. /\ PushBounded(queue, revision + 1) = q
          /\ Dropped(queue, dropped) = dropped + 1
      BY <2>4
    <3>2. /\ q \in Seq(Nat) /\ Len(q) = Len(t) + 1
          /\ \A i \in 1..Len(q) : q[i] + Len(q) = revision + 1 + i
      BY <2>8
    <3> HIDE DEF q
    <3>3. Len(q) = Len(queue) /\ Len(queue) \in Nat /\ Len(queue) <= WatchCapacity
      BY <1>1, <2>1, <2>5, <3>2, FeedAssumption
    <3>4. Len(q) + (dropped + 1) = Len(queue) + dropped + 1 /\ Len(q) <= WatchCapacity
      BY <3>3, SumShift, Zenon
    <3>5. dropped + 1 \in Nat
      OBVIOUS
    <3> QED
      BY <3>1, <3>2, <3>4, <3>5, Zenon
<1>2. CASE Len(queue) # WatchCapacity
  <2>1. PushBounded(queue, revision + 1) = Append(queue, revision + 1)
        /\ Dropped(queue, dropped) = dropped
    BY <1>2 DEF PushBounded, Dropped
  <2>2. /\ Len(queue) \in Nat /\ Len(queue) < WatchCapacity
        /\ \A i \in 1..Len(queue) :
             queue[i] \in Nat /\ queue[i] + Len(queue) = revision + i
    BY <1>2, FeedAssumption DEF Newest
  <2>3. \A i \in 1..Len(queue) : queue[i] + Len(queue) + 1 = revision + 1 + i
    BY <2>2
  <2>4. revision + 1 \in Nat
    OBVIOUS
  <2>5. /\ Append(queue, revision + 1) \in Seq(Nat)
        /\ Len(Append(queue, revision + 1)) = Len(queue) + 1
        /\ \A i \in 1..Len(Append(queue, revision + 1)) :
             Append(queue, revision + 1)[i] + Len(Append(queue, revision + 1))
               = revision + 1 + i
    BY <2>3, <2>4, AppendNewest, Zenon
  <2> QED
    <3> DEFINE q == Append(queue, revision + 1)
    <3>1. /\ PushBounded(queue, revision + 1) = q
          /\ Dropped(queue, dropped) = dropped
      BY <2>1
    <3>2. /\ q \in Seq(Nat) /\ Len(q) = Len(queue) + 1
          /\ \A i \in 1..Len(q) : q[i] + Len(q) = revision + 1 + i
      BY <2>5
    <3> HIDE DEF q
    <3>3. Len(q) + dropped = Len(queue) + dropped + 1 /\ Len(q) <= WatchCapacity
      BY <2>2, <3>2, FeedAssumption
    <3> QED
      BY <3>1, <3>2, <3>3
<1> QED
  BY <1>1, <1>2

LEMMA FeedInitInv == FeedInit => FeedInv
<1> SUFFICES ASSUME FeedInit PROVE FeedInv
  OBVIOUS
<1>1. WatchIds = {}
  BY DEF FeedInit, WatchIds
<1> QED
  BY <1>1, FeedAssumption DEF FeedInit, FeedInv, FeedTypeOK, LiveContiguous, Newest,
     EvidenceExact, CancelledEmpty

\* A change: every live queue and its evidence move together.
LEMMA ChangeStep ==
  ASSUME FeedInv, Change
  PROVE  FeedInv'
<1> FeedTypeOK /\ LiveContiguous /\ EvidenceExact /\ CancelledEmpty
  BY DEF FeedInv
<1>1. /\ revision' = revision + 1 /\ revision \in Nat
      /\ WatchIds' = WatchIds
      /\ UNCHANGED <<drained, next_watch, since, delivered>>
  BY DEF Change, WatchIds, FeedTypeOK
<1>2. /\ changes' \in Seq(Nat) /\ dropped_changes' \in Nat
      /\ Len(changes') + dropped_changes' = Len(changes) + dropped_changes + 1
      /\ Len(changes') <= WatchCapacity
      /\ \A i \in 1..Len(changes') : changes'[i] + Len(changes') = revision' + i
  BY <1>1, PushFacts DEF Change, FeedTypeOK, LiveContiguous
<1>3. ASSUME NEW w \in WatchIds
      PROVE  /\ watches'[w] \in WatchState
             /\ watches'[w].cancelled = watches[w].cancelled
             /\ watches[w].cancelled => watches'[w] = watches[w]
             /\ ~watches[w].cancelled =>
                  /\ Len(watches'[w].events) + watches'[w].dropped
                       = Len(watches[w].events) + watches[w].dropped + 1
                  /\ Len(watches'[w].events) <= WatchCapacity
                  /\ \A i \in 1..Len(watches'[w].events) :
                       watches'[w].events[i] + Len(watches'[w].events)
                         = revision' + i
  <2>1. /\ watches'[w] = Push(watches[w], revision + 1)
        /\ watches[w] \in WatchState
    BY DEF Change, FeedTypeOK
  <2>2. CASE watches[w].cancelled
    BY <2>1, <2>2 DEF Push
  <2>3. CASE ~watches[w].cancelled
    <3>1. Newest(watches[w].events)
      BY <2>3 DEF LiveContiguous
    <3>2. watches[w].events \in Seq(Nat) /\ watches[w].dropped \in Nat
      BY <2>1 DEF WatchState
    <3>3. /\ watches'[w].events = PushBounded(watches[w].events, revision + 1)
          /\ watches'[w].dropped = Dropped(watches[w].events, watches[w].dropped)
          /\ watches'[w] =
               [events |-> PushBounded(watches[w].events, revision + 1),
                dropped |-> Dropped(watches[w].events, watches[w].dropped),
                cancelled |-> FALSE]
      BY <2>1, <2>3 DEF Push
    <3>4. watches[w].cancelled = FALSE
      BY <2>1, <2>3 DEF WatchState
    <3>5. watches'[w].cancelled = FALSE
      BY <3>3
    <3>6. /\ watches'[w].events \in Seq(Nat) /\ watches'[w].dropped \in Nat
          /\ Len(watches'[w].events) + watches'[w].dropped
               = Len(watches[w].events) + watches[w].dropped + 1
          /\ Len(watches'[w].events) <= WatchCapacity
          /\ \A i \in 1..Len(watches'[w].events) :
               watches'[w].events[i] + Len(watches'[w].events) = revision' + i
      BY <1>1, <3>1, <3>2, <3>3, PushFacts
    <3>7. watches'[w] \in WatchState
      BY <3>3, <3>6 DEF WatchState
    <3> QED
      BY <2>3, <3>4, <3>5, <3>6, <3>7
  <2> QED
    BY <2>2, <2>3
<1>4. FeedTypeOK'
  <2>1. watches' \in [WatchIds -> WatchState]
    BY <1>3 DEF Change
  <2> QED
    BY <1>1, <1>2, <2>1 DEF FeedTypeOK
<1>5. LiveContiguous'
  BY <1>1, <1>2, <1>3 DEF LiveContiguous, Newest
<1>6. EvidenceExact'
  <2>1. drained' + Len(changes') + dropped_changes' + 1 = revision'
    <3>1. /\ Len(changes) \in Nat /\ Len(changes') \in Nat /\ drained \in Nat
          /\ dropped_changes \in Nat
          /\ drained + Len(changes) + dropped_changes + 1 = revision
      BY <1>2 DEF EvidenceExact, FeedTypeOK
    <3>2. /\ Len(changes') + dropped_changes' = Len(changes) + dropped_changes + 1
          /\ dropped_changes' \in Nat
      BY <1>2
    <3>3. drained' = drained /\ revision' = revision + 1
      BY <1>1
    <3> QED
      BY <3>1, <3>2, <3>3
  <2>2. ASSUME NEW w \in WatchIds, ~watches'[w].cancelled
        PROVE delivered'[w] + Len(watches'[w].events) + watches'[w].dropped
                + since'[w] = revision'
    <3>1. /\ watches'[w].events \in Seq(Nat) /\ watches'[w].dropped \in Nat
          /\ watches[w].events \in Seq(Nat) /\ watches[w].dropped \in Nat
          /\ delivered[w] \in Nat /\ since[w] \in Nat
      BY <1>3 DEF FeedTypeOK, WatchState
    <3>2. delivered[w] + Len(watches[w].events) + watches[w].dropped + since[w]
            = revision
      BY <1>3, <2>2 DEF EvidenceExact
    <3>3. Len(watches'[w].events) + watches'[w].dropped
            = Len(watches[w].events) + watches[w].dropped + 1
      BY <1>3, <2>2
    <3>4. Len(watches'[w].events) \in Nat /\ Len(watches[w].events) \in Nat
      BY <3>1
    <3>5. /\ delivered'[w] = delivered[w] /\ since'[w] = since[w]
          /\ revision' = revision + 1
      BY <1>1
    <3>6. revision \in Nat
      BY <1>1
    <3> DEFINE d == delivered[w]
               s == since[w]
               l == Len(watches[w].events)
               n == watches[w].dropped
               l2 == Len(watches'[w].events)
               n2 == watches'[w].dropped
    <3>7. /\ d \in Nat /\ s \in Nat /\ l \in Nat /\ n \in Nat
          /\ l2 \in Nat /\ n2 \in Nat /\ revision \in Nat
          /\ d + l + n + s = revision /\ l2 + n2 = l + n + 1
      BY <3>1, <3>2, <3>3, <3>4, <3>6
    <3> HIDE DEF d, s, l, n, l2, n2
    <3>8. d + l2 + n2 + s = revision + 1
      BY <3>7
    <3> QED
      BY <3>5, <3>8 DEF d, s, l2, n2
  <2> QED
    BY <1>1, <2>1, <2>2 DEF EvidenceExact
<1>7. CancelledEmpty'
  BY <1>1, <1>3 DEF CancelledEmpty
<1> QED
  BY <1>4, <1>5, <1>6, <1>7 DEF FeedInv

LEMMA DrainStep ==
  ASSUME FeedInv, DrainChanges
  PROVE  FeedInv'
<1> FeedTypeOK /\ LiveContiguous /\ EvidenceExact /\ CancelledEmpty
  BY DEF FeedInv
<1>1. /\ drained' = drained + Len(changes) /\ changes' = <<>>
      /\ UNCHANGED <<revision, dropped_changes, watches, next_watch, since, delivered>>
      /\ WatchIds' = WatchIds
      /\ Len(changes) \in Nat
  BY DEF DrainChanges, WatchIds, FeedTypeOK
<1>2. FeedTypeOK'
  BY <1>1 DEF FeedTypeOK
<1>3. LiveContiguous'
  BY <1>1, FeedAssumption DEF LiveContiguous, Newest
<1>4. EvidenceExact'
  BY <1>1 DEF EvidenceExact, FeedTypeOK
<1>5. CancelledEmpty'
  BY <1>1 DEF CancelledEmpty
<1> QED
  BY <1>2, <1>3, <1>4, <1>5 DEF FeedInv

LEMMA SubscribeStep ==
  ASSUME FeedInv, Subscribe
  PROVE  FeedInv'
<1> FeedTypeOK /\ LiveContiguous /\ EvidenceExact /\ CancelledEmpty
  BY DEF FeedInv
<1> DEFINE new == [events |-> <<>>, dropped |-> 0, cancelled |-> FALSE]
<1>1. /\ next_watch \in Nat /\ next_watch' = next_watch + 1
      /\ WatchIds' = 1..next_watch
      /\ \A w \in WatchIds' : w # next_watch => w \in WatchIds
      /\ UNCHANGED <<revision, feed>>
  BY DEF Subscribe, WatchIds, FeedTypeOK
<1>2. /\ watches' = [w \in WatchIds' |-> IF w = next_watch THEN new ELSE watches[w]]
      /\ since' = [w \in WatchIds' |-> IF w = next_watch THEN revision ELSE since[w]]
      /\ delivered' = [w \in WatchIds' |->
                         IF w = next_watch THEN 0 ELSE delivered[w]]
  BY <1>1 DEF Subscribe
<1>3. new \in WatchState /\ new.events = <<>> /\ new.dropped = 0
      /\ new.cancelled = FALSE /\ Len(new.events) = 0
  BY DEF WatchState
<1> HIDE DEF new
<1>4. FeedTypeOK'
  <2>1. watches' \in [WatchIds' -> WatchState]
    BY <1>1, <1>2, <1>3 DEF FeedTypeOK
  <2>2. since' \in [WatchIds' -> Nat] /\ delivered' \in [WatchIds' -> Nat]
    BY <1>1, <1>2 DEF FeedTypeOK
  <2> QED
    BY <1>1, <2>1, <2>2 DEF FeedTypeOK, feed
<1>5. LiveContiguous'
  <2>1. Newest(changes)'
    BY <1>1 DEF LiveContiguous, Newest, feed
  <2>2. ASSUME NEW w \in WatchIds', ~watches'[w].cancelled
        PROVE  Newest(watches[w].events)'
    <3>1. CASE w = next_watch
      BY <1>2, <1>3, <3>1, FeedAssumption DEF Newest
    <3>2. CASE w # next_watch
      <4>1. w \in WatchIds /\ watches'[w] = watches[w]
        BY <1>1, <1>2, <3>2
      <4>2. Newest(watches[w].events)
        BY <2>2, <4>1 DEF LiveContiguous
      <4> QED
        BY <1>1, <4>1, <4>2 DEF Newest
    <3> QED
      BY <3>1, <3>2
  <2> QED
    BY <2>1, <2>2 DEF LiveContiguous
<1>6. EvidenceExact'
  <2>1. (drained + Len(changes) + dropped_changes + 1 = revision)'
    BY <1>1 DEF EvidenceExact, feed
  <2>2. ASSUME NEW w \in WatchIds', ~watches'[w].cancelled
        PROVE  (delivered[w] + Len(watches[w].events) + watches[w].dropped
                  + since[w] = revision)'
    <3>1. CASE w = next_watch
      <4>1. /\ watches'[w] = new /\ delivered'[w] = 0 /\ since'[w] = revision
            /\ revision' = revision /\ revision \in Nat
        BY <1>1, <1>2, <3>1 DEF FeedTypeOK
      <4> QED
        BY <1>3, <4>1
    <3>2. CASE w # next_watch
      BY <1>1, <1>2, <2>2, <3>2 DEF EvidenceExact
    <3> QED
      BY <3>1, <3>2
  <2> QED
    BY <2>1, <2>2 DEF EvidenceExact
<1>7. CancelledEmpty'
  BY <1>1, <1>2, <1>3 DEF CancelledEmpty
<1> QED
  BY <1>4, <1>5, <1>6, <1>7 DEF FeedInv

LEMMA CancelStep ==
  ASSUME FeedInv, NEW w \in WatchIds, CancelWatch(w)
  PROVE  FeedInv'
<1> FeedTypeOK /\ LiveContiguous /\ EvidenceExact /\ CancelledEmpty
  BY DEF FeedInv
<1> DEFINE new == [events |-> <<>>, dropped |-> watches[w].dropped,
                   cancelled |-> TRUE]
<1>1. /\ watches' = [watches EXCEPT ![w] = new]
      /\ WatchIds' = WatchIds
      /\ UNCHANGED <<revision, feed, next_watch, since, delivered>>
  BY DEF CancelWatch, WatchIds
<1>2. new \in WatchState /\ new.events = <<>> /\ new.cancelled = TRUE
  BY DEF WatchState, FeedTypeOK
<1> HIDE DEF new
<1>3. watches'[w] = new /\ \A v \in WatchIds : v # w => watches'[v] = watches[v]
  BY <1>1 DEF FeedTypeOK
<1>4. FeedTypeOK'
  <2>1. watches' \in [WatchIds' -> WatchState]
    BY <1>1, <1>2 DEF FeedTypeOK
  <2> QED
    BY <1>1, <2>1 DEF FeedTypeOK, feed
<1>5. LiveContiguous'
  BY <1>1, <1>2, <1>3 DEF LiveContiguous, Newest, feed
<1>6. EvidenceExact'
  BY <1>1, <1>2, <1>3 DEF EvidenceExact, feed
<1>7. CancelledEmpty'
  BY <1>1, <1>2, <1>3 DEF CancelledEmpty
<1> QED
  BY <1>4, <1>5, <1>6, <1>7 DEF FeedInv

\* What a poll leaves in a queue: the newest events still, count of them fewer.
LEMMA DropFront ==
  ASSUME NEW q \in Seq(Nat), NEW count \in Nat, count <= Len(q), Newest(q),
         revision \in Nat
  PROVE  LET t == SubSeq(q, count + 1, Len(q)) IN
         /\ t \in Seq(Nat)
         /\ Len(t) \in Nat /\ Len(t) + count = Len(q)
         /\ Newest(t)
<1> DEFINE t == SubSeq(q, count + 1, Len(q))
<1>1. Len(q) \in Nat /\ \A i \in 1..Len(q) : q[i] \in Nat
  OBVIOUS
<1>2. /\ t \in Seq(Nat)
      /\ Len(t) = IF count + 1 <= Len(q) THEN Len(q) - (count + 1) + 1 ELSE 0
      /\ \A i \in 1..(Len(q) - (count + 1) + 1) : t[i] = q[(count + 1) + i - 1]
  BY <1>1, SubSeqProperties
<1> HIDE DEF t
<1>3. Len(t) \in Nat /\ Len(t) + count = Len(q)
  BY <1>1, <1>2
<1>4. ASSUME NEW i \in 1..Len(t) PROVE t[i] + Len(t) = revision + i
  <2>1. /\ i \in 1..(Len(q) - (count + 1) + 1) /\ (count + 1) + i - 1 = count + i
        /\ count + i \in 1..Len(q) /\ i \in Nat
    BY <1>1, <1>3
  <2>2. t[i] = q[count + i]
    BY <1>2, <2>1
  <2>3. q[count + i] + Len(q) = revision + (count + i) /\ q[count + i] \in Nat
    BY <1>1, <2>1 DEF Newest
  <2> DEFINE x == q[count + i]
             m == Len(t)
             n == Len(q)
  <2>4. /\ x \in Nat /\ m \in Nat /\ n \in Nat /\ i \in Nat
        /\ x + n = revision + (count + i) /\ m + count = n /\ t[i] = x
    BY <1>1, <1>3, <2>1, <2>2, <2>3
  <2> HIDE DEF x, m, n
  <2>5. x + m = revision + i
    BY <2>4
  <2> QED
    BY <2>4, <2>5 DEF m
<1>5. Len(t) <= WatchCapacity
  BY <1>1, <1>3, FeedAssumption DEF Newest
<1> QED
  BY <1>2, <1>3, <1>4, <1>5 DEF t, Newest

LEMMA PollStep ==
  ASSUME FeedInv, NEW w \in WatchIds, NEW limit \in Nat, PollWatch(w, limit)
  PROVE  FeedInv'
<1> FeedTypeOK /\ LiveContiguous /\ EvidenceExact /\ CancelledEmpty
  BY DEF FeedInv
<1> DEFINE q == watches[w].events
           count == IF limit < Len(q) THEN limit ELSE Len(q)
           t == SubSeq(q, count + 1, Len(q))
           new == [events |-> t, dropped |-> watches[w].dropped,
                   cancelled |-> watches[w].cancelled]
<1>1. /\ watches' = [watches EXCEPT ![w] = new]
      /\ delivered' = [delivered EXCEPT ![w] = @ + count]
      /\ WatchIds' = WatchIds
      /\ UNCHANGED <<revision, feed, next_watch, since>>
  BY DEF PollWatch, WatchIds
<1>2. /\ q \in Seq(Nat) /\ Len(q) \in Nat /\ watches[w].dropped \in Nat
      /\ watches[w].cancelled \in BOOLEAN /\ revision \in Nat
      /\ delivered[w] \in Nat /\ since[w] \in Nat
  BY DEF FeedTypeOK, WatchState
<1>3. count \in Nat /\ count <= Len(q)
  BY <1>2
<1>4. ~watches[w].cancelled => Newest(q)
  BY DEF LiveContiguous
<1>5. watches[w].cancelled => q = <<>>
  BY DEF CancelledEmpty
<1> HIDE DEF q, count
<1>6. /\ t \in Seq(Nat) /\ Len(t) \in Nat
      /\ ~watches[w].cancelled => Len(t) + count = Len(q) /\ Newest(t)
      /\ watches[w].cancelled => t = <<>>
  <2>1. CASE ~watches[w].cancelled
    BY <1>2, <1>3, <1>4, <2>1, DropFront
  <2>2. CASE watches[w].cancelled
    <3>1. q = <<>> /\ Len(q) = 0 /\ count = 0
      BY <1>2, <1>3, <1>5, <2>2
    <3>2. t = <<>>
      BY <3>1, SubSeqEmpty
    <3> HIDE DEF t
    <3>3. t \in Seq(Nat) /\ Len(t) \in Nat
      BY <3>2
    <3> QED
      BY <2>2, <3>2, <3>3
  <2> QED
    BY <2>1, <2>2
<1> HIDE DEF t
<1>7. /\ new \in WatchState /\ new.events = t
      /\ new.dropped = watches[w].dropped
      /\ new.cancelled = watches[w].cancelled
  BY <1>2, <1>6 DEF WatchState
<1> HIDE DEF new
<1>8. /\ watches'[w] = new /\ delivered'[w] = delivered[w] + count
      /\ \A v \in WatchIds : v # w =>
           watches'[v] = watches[v] /\ delivered'[v] = delivered[v]
  BY <1>1 DEF FeedTypeOK
<1>9. FeedTypeOK'
  <2>1. watches' \in [WatchIds' -> WatchState]
    BY <1>1, <1>7 DEF FeedTypeOK
  <2>2. delivered' \in [WatchIds' -> Nat]
    BY <1>1, <1>2, <1>3 DEF FeedTypeOK
  <2> QED
    BY <1>1, <2>1, <2>2 DEF FeedTypeOK, feed
<1>10. LiveContiguous'
  <2>1. ASSUME NEW v \in WatchIds, ~watches'[v].cancelled
        PROVE  Newest(watches'[v].events)
    BY <1>6, <1>7, <1>8, <2>1 DEF LiveContiguous
  <2> QED
    BY <1>1, <2>1 DEF LiveContiguous, Newest, feed
<1>11. EvidenceExact'
  <2>1. ASSUME NEW v \in WatchIds, ~watches'[v].cancelled
        PROVE  delivered'[v] + Len(watches'[v].events) + watches'[v].dropped
                 + since[v] = revision
    <3>1. CASE v # w
      BY <1>8, <2>1, <3>1 DEF EvidenceExact
    <3>2. CASE v = w
      <4> DEFINE d == delivered[w]
                 n == watches[w].dropped
                 l == Len(q)
                 m == Len(t)
                 s == since[w]
      <4>1. ~watches[w].cancelled
        BY <1>7, <1>8, <2>1, <3>2
      <4>2. /\ d \in Nat /\ n \in Nat /\ l \in Nat /\ m \in Nat /\ s \in Nat
            /\ d + l + n + s = revision /\ m + count = l
        BY <1>2, <1>6, <4>1 DEF EvidenceExact, q
      <4> HIDE DEF d, n, l, m, s
      <4>3. (d + count) + m + n + s = revision
        BY <1>2, <1>3, <4>2
      <4> QED
        BY <1>7, <1>8, <3>2, <4>3 DEF d, n, m, s
    <3> QED
      BY <3>1, <3>2
  <2>2. (drained + Len(changes) + dropped_changes + 1 = revision)'
    BY <1>1 DEF EvidenceExact, feed
  <2> QED
    BY <1>1, <2>1, <2>2 DEF EvidenceExact
<1>12. CancelledEmpty'
  BY <1>1, <1>6, <1>7, <1>8 DEF CancelledEmpty
<1> QED
  BY <1>9, <1>10, <1>11, <1>12 DEF FeedInv

----------------------------------------------------------------------------
\* The invariant holds in every reachable state.
THEOREM FeedInductive == FeedSpec => []FeedInv
<1>1. FeedInv /\ [FeedNext]_feedVars => FeedInv'
  <2> SUFFICES ASSUME FeedInv, [FeedNext]_feedVars PROVE FeedInv'
    OBVIOUS
  <2>1. CASE UNCHANGED feedVars
    BY <2>1 DEF feedVars, feed, FeedInv, FeedTypeOK, WatchIds, LiveContiguous, Newest,
       EvidenceExact, CancelledEmpty
  <2>2. ASSUME NEW w \in WatchIds, NEW limit \in 0..WatchCapacity,
               PollWatch(w, limit)
        PROVE FeedInv'
    BY <2>2, PollStep, FeedAssumption
  <2> QED
    BY <2>1, <2>2, ChangeStep, DrainStep, SubscribeStep, CancelStep DEF FeedNext
<1> QED
  BY FeedInitInv, <1>1, PTL DEF FeedSpec

\* The feed is type correct in every reachable state.
THEOREM FeedTyped == FeedSpec => []FeedTypeOK
BY FeedInductive, PTL DEF FeedInv

\* Every queue holds exactly the newest changes it has room for, and none once its
\* watch is cancelled.
THEOREM QueuesAreContiguous == FeedSpec => []QueuesContiguous
BY FeedInductive, PTL DEF FeedInv, QueuesContiguous

\* Delivered, queued and dropped events add up to the changes since subscription,
\* for every capacity and any pattern of polls.
THEOREM EvidenceIsExact == FeedSpec => []EvidenceExact
BY FeedInductive, PTL DEF FeedInv

----------------------------------------------------------------------------
\* What one step does to the cancelled watches.
StaysSilent ==
  \A w \in WatchIds : watches[w].cancelled =>
    watches'[w].cancelled /\ watches'[w].events = <<>>
    /\ delivered'[w] = delivered[w]

LEMMA SilentStep ==
  ASSUME FeedInv, FeedNext
  PROVE  StaysSilent
<1> FeedTypeOK /\ CancelledEmpty
  BY DEF FeedInv
<1>1. ASSUME Change PROVE StaysSilent
  BY <1>1 DEF Change, Push, StaysSilent, CancelledEmpty
<1>2. ASSUME DrainChanges PROVE StaysSilent
  BY <1>2 DEF DrainChanges, StaysSilent, CancelledEmpty
<1>3. ASSUME Subscribe PROVE StaysSilent
  <2>1. \A w \in WatchIds : w \in 1..next_watch /\ w # next_watch
    BY DEF WatchIds, FeedTypeOK
  <2> QED
    BY <1>3, <2>1 DEF Subscribe, StaysSilent, CancelledEmpty
<1>4. ASSUME NEW w \in WatchIds, CancelWatch(w) PROVE StaysSilent
  BY <1>4 DEF CancelWatch, StaysSilent, CancelledEmpty, FeedTypeOK
<1>5. ASSUME NEW w \in WatchIds, NEW limit \in 0..WatchCapacity,
             PollWatch(w, limit)
      PROVE  StaysSilent
  <2>1. CASE watches[w].cancelled
    <3>1. watches[w].events = <<>> /\ Len(watches[w].events) = 0
      BY <2>1 DEF CancelledEmpty
    <3>2. ~(limit < 0) /\ delivered[w] \in Nat
      BY FeedAssumption DEF FeedTypeOK
    <3>3. SubSeq(watches[w].events, 0 + 1, 0) = <<>> /\ delivered[w] + 0 = delivered[w]
      BY <3>2, SubSeqEmpty
    <3>4. /\ watches' = [watches EXCEPT ![w] =
                           [events |-> SubSeq(watches[w].events, 0 + 1, 0),
                            dropped |-> watches[w].dropped,
                            cancelled |-> watches[w].cancelled]]
          /\ delivered' = [delivered EXCEPT ![w] = delivered[w] + 0]
      BY <1>5, <3>1, <3>2 DEF PollWatch
    <3> QED
      BY <2>1, <3>3, <3>4 DEF StaysSilent, CancelledEmpty, FeedTypeOK
  <2>2. CASE ~watches[w].cancelled
    BY <1>5, <2>2 DEF PollWatch, StaysSilent, CancelledEmpty, FeedTypeOK
  <2> QED
    BY <2>1, <2>2
<1> QED
  BY <1>1, <1>2, <1>3, <1>4, <1>5 DEF FeedNext

\* Nothing is delivered on a watch after it was cancelled.
THEOREM CancelledIsSilent == FeedSpec => CancelledSilent
<1>1. FeedInv /\ [FeedNext]_feedVars => [StaysSilent]_feedVars
  BY SilentStep
<1> QED
  BY FeedInductive, <1>1, PTL DEF FeedSpec, CancelledSilent, StaysSilent
=============================================================================
