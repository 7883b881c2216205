----------------------- MODULE AutomaticQueue_proofs -----------------------
(***************************************************************************)
(* What the automatic queue keeps, for every set of cells, every policy    *)
(* and every clock: only wanted work is queued, an accepted continuation   *)
(* describes the queue, and a turn never has to choose between two cells.  *)
(***************************************************************************)
EXTENDS AutomaticQueue, FiniteSetTheorems, TLAPS

Entry == [ready : Nat, priority : Int, sequence : Nat, bypasses : Nat,
          resumes : BOOLEAN]

\* The types of the scheduler's state.
QueueTypeOK ==
  /\ dirty \in SUBSET Cells
  /\ policy \in [Cells -> Policies]
  /\ DOMAIN queue \in SUBSET Cells
  /\ queue \in [DOMAIN queue -> Entry]
  /\ next_sequence \in Nat

----------------------------------------------------------------------------
\* The instants at which a turn may run.
LEMMA Instants ==
  /\ Times \subseteq Nat
  /\ Times \cup {Forever} \subseteq Nat
  BY QueueAssumption

LEMMA PolicyFields ==
  ASSUME NEW p \in Policies
  PROVE  p.priority \in Int /\ p.debounce \in Nat
  BY QueueAssumption

\* A set of cells that one change reaches is a set of cells.
LEMMA ReachIsCells ==
  ASSUME NEW G \in Reach
  PROVE  G \subseteq Cells
  BY QueueAssumption DEF Reach

\* Counting the bypasses keeps the entries, and everything in them but that count.
LEMMA BypassedEntries ==
  ASSUME QueueTypeOK, NEW c \in DOMAIN queue, NEW now \in Nat
  PROVE  /\ Bypassed(c, now) \in [DOMAIN queue -> Entry]
         /\ \A d \in DOMAIN queue :
              /\ Bypassed(c, now)[d].priority = queue[d].priority
              /\ Bypassed(c, now)[d].sequence = queue[d].sequence
              /\ Bypassed(c, now)[d].ready = queue[d].ready
<1> DEFINE B == Bypassed(c, now)
<1>1. B = [d \in DOMAIN queue |-> B[d]]
  BY DEF Bypassed
<1>2. ASSUME NEW d \in DOMAIN queue
      PROVE  /\ B[d] \in Entry
             /\ B[d].priority = queue[d].priority
             /\ B[d].sequence = queue[d].sequence
             /\ B[d].ready = queue[d].ready
  <2>1. queue[d] \in Entry
    BY DEF QueueTypeOK
  <2>2. CASE d \notin Ready(now)
    <3>1. B[d] = queue[d]
      BY <2>2 DEF Bypassed
    <3> QED
      BY <2>1, <3>1
  <2>3. CASE d \in Ready(now)
    <3>1. PICK n \in Nat : B[d] = [queue[d] EXCEPT !.bypasses = n]
      <4> DEFINE n == IF d = c THEN 0
                      ELSE IF queue[d].bypasses < BypassCap
                             THEN queue[d].bypasses + 1 ELSE queue[d].bypasses
      <4>1. n \in Nat
        BY <2>1 DEF Entry
      <4>2. B[d] = [queue[d] EXCEPT !.bypasses = n]
        BY <2>3 DEF Bypassed
      <4> QED
        BY <4>1, <4>2
    <3> QED
      BY <2>1, <3>1 DEF Entry
  <2> QED
    BY <2>2, <2>3
<1> QED
  BY <1>1, <1>2

\* Only a queued entry that is ready is selected.
LEMMA SelectedIsQueued ==
  ASSUME NEW c, NEW now, Selected(c, now)
  PROVE  c \in Ready(now) /\ c \in DOMAIN queue
  BY DEF Selected, Oldest, Overdue, Urgent, Ready

----------------------------------------------------------------------------
\* schedule_dirty_automatic leaves typed entries for exactly the eligible cells.
LEMMA ScheduleTyped ==
  ASSUME QueueTypeOK, NEW D \in SUBSET Cells, NEW P \in [Cells -> Policies],
         NEW now \in Times, ScheduleDirty(D, P, now)
  PROVE  /\ DOMAIN queue' = Eligible(D, P)
         /\ DOMAIN queue' \in SUBSET Cells
         /\ queue' \in [DOMAIN queue' -> Entry]
         /\ next_sequence' \in Nat
         /\ \A c \in DOMAIN queue' : /\ queue'[c].priority = P[c].priority
                                     /\ queue'[c].ready = now + P[c].debounce
<1> DEFINE cells == Eligible(D, P)
           added == cells \ DOMAIN queue
           Rank(c) == Cardinality({d \in added : d < c})
<1>1. cells \in SUBSET Cells
  BY DEF Eligible
<1>2. IsFiniteSet(added)
  BY <1>1, QueueAssumption, FS_Subset
<1>3. Cardinality(added) \in Nat
  BY <1>2, FS_CardinalityType
<1>4. ASSUME NEW c
      PROVE  Rank(c) \in Nat
  <2>1. {d \in added : d < c} \subseteq added
    OBVIOUS
  <2> QED
    BY <1>2, <2>1, FS_Subset, FS_CardinalityType
<1>5. DOMAIN queue' = cells /\ next_sequence' \in Nat
  BY <1>3 DEF ScheduleDirty, QueueTypeOK
<1>6. ASSUME NEW c \in cells
      PROVE  /\ queue'[c] \in Entry /\ queue'[c].priority = P[c].priority
             /\ queue'[c].ready = now + P[c].debounce
  <2>1. /\ now + P[c].debounce \in Nat
        /\ P[c].priority \in Int
    BY <1>1, PolicyFields, Instants
  <2>2. CASE c \in added
    <3>1. queue'[c] = NewEntry(now + P[c].debounce, P[c].priority,
                               next_sequence + Rank(c))
      BY <2>2 DEF ScheduleDirty
    <3>2. next_sequence + Rank(c) \in Nat
      BY <1>4 DEF QueueTypeOK
    <3> HIDE DEF Rank
    <3> QED
      BY <2>1, <3>1, <3>2 DEF NewEntry, Entry
  <2>3. CASE c \notin added
    <3>1. queue'[c] = Rescheduled(queue[c], now + P[c].debounce, P[c].priority)
      BY <2>3 DEF ScheduleDirty
    <3>2. queue[c] \in Entry
      BY <2>3 DEF QueueTypeOK
    <3> QED
      BY <2>1, <3>1, <3>2 DEF Rescheduled, Entry
  <2> QED
    BY <2>2, <2>3
<1>7. queue' = [c \in cells |-> queue'[c]]
  BY DEF ScheduleDirty
<1> QED
  BY <1>1, <1>5, <1>6, <1>7

\* Everything a turn may do to the queue: it runs one ready entry, keeps some
\* of the entries with their priorities and sequences, and loses no dirty cell
\* that is still queued.
LEMMA TurnKeeps ==
  ASSUME QueueTypeOK, NEW c, NEW now \in Nat, RunAutomatic(c, now)
  PROVE  /\ c \in DOMAIN queue
         /\ DOMAIN queue' \in SUBSET DOMAIN queue
         /\ queue' \in [DOMAIN queue' -> Entry]
         /\ dirty' \in SUBSET Cells
         /\ \A d \in DOMAIN queue' : /\ queue'[d].priority = queue[d].priority
                                     /\ queue'[d].sequence = queue[d].sequence
                                     /\ queue'[d].ready \in {queue[d].ready, now}
                                     /\ d \in dirty => d \in dirty'
<1>1. c \in DOMAIN queue /\ c \in Cells
  BY SelectedIsQueued DEF RunAutomatic, QueueTypeOK
<1> DEFINE B == Bypassed(c, now)
<1>2. /\ B \in [DOMAIN queue -> Entry]
      /\ \A d \in DOMAIN queue : /\ B[d].priority = queue[d].priority
                                 /\ B[d].sequence = queue[d].sequence
                                 /\ B[d].ready = queue[d].ready
  BY <1>1, BypassedEntries
<1>3. PICK G \in Reach : \/ Finished(c, now, G \cup {c})
                         \/ \E D \in Reach : Stopped(c, now, G, D)
                         \/ Exhausted(c, now, G)
  BY DEF RunAutomatic
<1>4. G \subseteq Cells
  BY ReachIsCells
<1> HIDE DEF B
<1>5. CASE Finished(c, now, G \cup {c}) \/ \E D \in Reach : Stopped(c, now, G, D)
  <2>1. queue' = [d \in (DOMAIN queue \ {c}) \cap dirty' |-> B[d]]
    BY <1>5 DEF Finished, Stopped, B
  <2>2. dirty' \in SUBSET Cells
    BY <1>5, <1>4, <1>1, ReachIsCells DEF Finished, Stopped, QueueTypeOK
  <2> QED
    BY <1>1, <1>2, <2>1, <2>2
<1>6. CASE Exhausted(c, now, G)
  <2>1. /\ dirty' = dirty \ G /\ c \notin G
        /\ queue' = [d \in DOMAIN queue \cap ({c} \cup dirty') |->
                       IF d = c THEN [B[c] EXCEPT !.ready = now, !.resumes = TRUE]
                                ELSE B[d]]
    BY <1>6 DEF Exhausted, B
  <2>2. dirty' \in SUBSET Cells
    BY <2>1 DEF QueueTypeOK
  <2>3. DOMAIN queue' = DOMAIN queue \cap ({c} \cup dirty')
    BY <2>1
  <2>4. ASSUME NEW d \in DOMAIN queue'
        PROVE  /\ queue'[d] \in Entry
               /\ queue'[d].priority = queue[d].priority
               /\ queue'[d].sequence = queue[d].sequence
               /\ queue'[d].ready \in {queue[d].ready, now}
               /\ d \in dirty => d \in dirty'
    <3>1. CASE d = c
      <4>1. queue'[c] = [B[c] EXCEPT !.ready = now, !.resumes = TRUE]
        BY <3>1, <2>1, <2>3
      <4>2. B[c] \in Entry
        BY <1>1, <1>2
      <4>3. /\ queue'[c] \in Entry /\ queue'[c].ready = now
            /\ queue'[c].priority = B[c].priority
            /\ queue'[c].sequence = B[c].sequence
        BY <4>1, <4>2 DEF Entry
      <4> QED
        BY <1>1, <1>2, <2>1, <3>1, <4>3
    <3>2. CASE d # c
      <4>1. queue'[d] = B[d]
        BY <3>2, <2>1, <2>3
      <4> QED
        BY <1>2, <2>3, <3>2, <4>1
    <3> QED
      BY <3>1, <3>2
  <2>5. queue' = [d \in DOMAIN queue' |-> queue'[d]]
    BY <2>1
  <2> QED
    BY <1>1, <2>2, <2>3, <2>4, <2>5
<1> QED
  BY <1>3, <1>5, <1>6

----------------------------------------------------------------------------
\* The types of the scheduler's state are an inductive invariant.
LEMMA QueueNextTyped ==
  ASSUME QueueTypeOK, [Next]_vars
  PROVE  QueueTypeOK'
<1>1. ASSUME NEW D \in Reach, NEW now \in Times, SetCell(D, now)
      PROVE  QueueTypeOK'
  <2>1. dirty' \in SUBSET Cells /\ policy' = policy
    BY <1>1, ReachIsCells DEF SetCell, QueueTypeOK
  <2>2. ScheduleDirty(dirty', policy, now)
    BY <1>1 DEF SetCell
  <2> QED
    BY <2>1, <2>2, ScheduleTyped DEF QueueTypeOK
<1>2. ASSUME NEW D \in Reach, NEW S \in Groups, NEW p \in Policies,
             NEW now \in Times, SetPolicy(S, p, D, now)
      PROVE  QueueTypeOK'
  <2>1. dirty' \in SUBSET Cells /\ policy' \in [Cells -> Policies]
    BY <1>2, ReachIsCells DEF SetPolicy, QueueTypeOK
  <2>2. ScheduleDirty(dirty', policy', now)
    BY <1>2 DEF SetPolicy
  <2> QED
    BY <2>1, <2>2, ScheduleTyped DEF QueueTypeOK
<1>3. ASSUME NEW D \in Reach, Invalidate(D)
      PROVE  QueueTypeOK'
  BY <1>3, ReachIsCells DEF Invalidate, QueueTypeOK
<1>4. ASSUME NEW D \in Reach, NEW V \in Reach, Calculate(V, D)
      PROVE  QueueTypeOK'
  BY <1>4, ReachIsCells DEF Calculate, Pruned, QueueTypeOK
<1>5. ASSUME NEW c \in Cells, NEW now \in Times \cup {Forever}, RunAutomatic(c, now)
      PROVE  QueueTypeOK'
  <2>1. UNCHANGED <<policy, next_sequence>>
    BY <1>5 DEF RunAutomatic
  <2> QED
    BY <1>5, <2>1, Instants, TurnKeeps DEF QueueTypeOK
<1>6. ASSUME NEW now \in Times, RunNothing(now)
      PROVE  QueueTypeOK'
  BY <1>6 DEF RunNothing, QueueTypeOK
<1>7. ASSUME NEW c \in Cells, CancelRequest(c)
      PROVE  QueueTypeOK'
  BY <1>7 DEF CancelRequest, QueueTypeOK
<1>8. CASE UNCHANGED vars
  BY <1>8 DEF vars, QueueTypeOK
<1> QED
  BY <1>1, <1>2, <1>3, <1>4, <1>5, <1>6, <1>7, <1>8 DEF Next, Mutate, Turn

\* The state of the scheduler keeps its types: entries are kept for cells only,
\* and each is a whole record (scheduler.rs QueuedCalculation).
THEOREM QueueTyped == Spec => []QueueTypeOK
<1>1. Init => QueueTypeOK
  BY QueueAssumption DEF Init, QueueTypeOK, NoQueue
<1> QED
  BY <1>1, QueueNextTyped, PTL DEF Spec

----------------------------------------------------------------------------
\* A turn, directed work and a cancellation only take entries away, or queue
\* again the one that ran out of budget, which is still dirty.
LEMMA NextWanted ==
  ASSUME QueueTypeOK, QueueWanted, [Next]_vars
  PROVE  QueueWanted'
<1>1. ASSUME NEW D \in Reach, NEW now \in Times, SetCell(D, now)
      PROVE  QueueWanted'
  <2>1. /\ dirty' \in SUBSET Cells /\ policy' = policy
        /\ ScheduleDirty(dirty', policy, now)
    BY <1>1, ReachIsCells DEF SetCell, QueueTypeOK
  <2> QED
    BY <2>1, ScheduleTyped DEF QueueTypeOK, QueueWanted
<1>2. ASSUME NEW D \in Reach, NEW S \in Groups, NEW p \in Policies,
             NEW now \in Times, SetPolicy(S, p, D, now)
      PROVE  QueueWanted'
  <2>1. /\ dirty' \in SUBSET Cells /\ policy' \in [Cells -> Policies]
        /\ ScheduleDirty(dirty', policy', now)
    BY <1>2, ReachIsCells DEF SetPolicy, QueueTypeOK
  <2> QED
    BY <2>1, ScheduleTyped DEF QueueWanted
<1>3. ASSUME NEW D \in Reach, Invalidate(D)
      PROVE  QueueWanted'
  BY <1>3 DEF Invalidate, QueueWanted, Eligible
<1>4. ASSUME NEW D \in Reach, NEW V \in Reach, Calculate(V, D)
      PROVE  QueueWanted'
  BY <1>4 DEF Calculate, Pruned, QueueWanted, Eligible
<1>5. ASSUME NEW c \in Cells, NEW now \in Times \cup {Forever}, RunAutomatic(c, now)
      PROVE  QueueWanted'
  <2>1. /\ DOMAIN queue' \in SUBSET DOMAIN queue
        /\ \A d \in DOMAIN queue' : /\ queue'[d].priority = queue[d].priority
                                    /\ d \in dirty => d \in dirty'
    BY <1>5, Instants, TurnKeeps
  <2>2. policy' = policy
    BY <1>5 DEF RunAutomatic
  <2> QED
    BY <2>1, <2>2 DEF QueueWanted, Eligible
<1>6. ASSUME NEW now \in Times, RunNothing(now)
      PROVE  QueueWanted'
  BY <1>6 DEF RunNothing, QueueWanted, Eligible
<1>7. ASSUME NEW c \in Cells, CancelRequest(c)
      PROVE  QueueWanted'
  BY <1>7 DEF CancelRequest, QueueWanted, Eligible
<1>8. CASE UNCHANGED vars
  BY <1>8 DEF vars, QueueWanted, Eligible
<1> QED
  BY <1>1, <1>2, <1>3, <1>4, <1>5, <1>6, <1>7, <1>8 DEF Next, Mutate, Turn

\* The scheduler queues only cells that are dirty and automatic now, each with
\* the priority of its present policy: schedule_dirty_automatic drops and
\* updates, prune_satisfied_automatic drops, and a turn that runs out of budget
\* puts back an entry that is still wanted.
THEOREM OnlyWantedQueued == Spec => []QueueWanted
<1>1. Init => QueueWanted
  BY DEF Init, QueueWanted, NoQueue
<1> QED
  BY <1>1, QueueTyped, NextWanted, PTL DEF Spec

\* A continuation that continue_automatic accepts was issued for the queue as it
\* is: every operation that changes the queue moves its generation.
THEOREM ContinuationsCurrent == Spec => []ContinuationCurrent
<1>1. Init => ContinuationCurrent
  BY DEF Init, ContinuationCurrent
<1>2. ContinuationCurrent /\ [Next]_vars => ContinuationCurrent'
  BY DEF ContinuationCurrent, Next, Mutate, Turn, SetCell, SetPolicy, Invalidate,
         ScheduleDirty, BumpIfChanged, BumpGeneration, Calculate, RunAutomatic,
         RunNothing, CancelRequest, vars
<1> QED
  BY <1>1, <1>2, PTL DEF Spec

----------------------------------------------------------------------------
\* The inductive invariant behind TurnDetermined: sequences were issued, once.
SequencesIssued ==
  \A c \in DOMAIN queue :
    /\ queue[c].sequence < next_sequence
    /\ \A d \in DOMAIN queue : queue[c].sequence = queue[d].sequence => c = d

\* The rank of a number in a finite set of numbers is below the set's size, and
\* no two members have the same rank.
LEMMA RanksDistinct ==
  ASSUME NEW S, S \subseteq Nat, IsFiniteSet(S), NEW c \in S
  PROVE  /\ Cardinality({x \in S : x < c}) \in Nat
         /\ Cardinality({x \in S : x < c}) < Cardinality(S)
         /\ \A d \in S : c < d => Cardinality({x \in S : x < c})
                                    < Cardinality({x \in S : x < d})
<1> DEFINE Below(d) == {x \in S : x < d}
<1>1. ASSUME NEW d
      PROVE  IsFiniteSet(Below(d)) /\ Cardinality(Below(d)) \in Nat
  <2>1. Below(d) \subseteq S
    OBVIOUS
  <2> QED
    BY <2>1, FS_Subset, FS_CardinalityType
<1>2. Cardinality(Below(c)) < Cardinality(S)
  <2>1. Below(c) \subseteq S /\ Below(c) # S
    OBVIOUS
  <2>2. /\ Cardinality(Below(c)) <= Cardinality(S)
        /\ Cardinality(Below(c)) # Cardinality(S)
    BY <2>1, FS_Subset
  <2>3. Cardinality(S) \in Nat
    BY FS_CardinalityType
  <2> HIDE DEF Below
  <2> QED
    BY <1>1, <2>2, <2>3
<1>3. ASSUME NEW d \in S, c < d
      PROVE  Cardinality(Below(c)) < Cardinality(Below(d))
  <2>1. Below(c) \subseteq Below(d) /\ Below(c) # Below(d)
    <3>1. \A x \in S : x < c => x < d
      BY <1>3
    <3>2. c \in Below(d) /\ c \notin Below(c)
      BY <1>3
    <3> QED
      BY <3>1, <3>2
  <2>2. /\ Cardinality(Below(c)) <= Cardinality(Below(d))
        /\ Cardinality(Below(c)) # Cardinality(Below(d))
    BY <1>1, <2>1, FS_Subset
  <2> HIDE DEF Below
  <2> QED
    BY <1>1, <2>2
<1> QED
  BY <1>1, <1>2, <1>3

\* Cells that enter the queue get fresh sequences in the order of their paths;
\* cells that stay keep theirs.
LEMMA ScheduleIssues ==
  ASSUME QueueTypeOK, SequencesIssued, NEW D \in SUBSET Cells,
         NEW P \in [Cells -> Policies], NEW now \in Times, ScheduleDirty(D, P, now)
  PROVE  SequencesIssued'
<1> DEFINE cells == Eligible(D, P)
           added == cells \ DOMAIN queue
           Rank(c) == Cardinality({d \in added : d < c})
           Seq(c) == queue'[c].sequence
<1>1. cells \in SUBSET Cells /\ added \subseteq Nat
  BY QueueAssumption DEF Eligible
<1>2. IsFiniteSet(added)
  BY <1>1, QueueAssumption, FS_Subset
<1>3. Cardinality(added) \in Nat /\ next_sequence \in Nat
  BY <1>2, FS_CardinalityType DEF QueueTypeOK
<1>4. next_sequence' = next_sequence + Cardinality(added) /\ DOMAIN queue' = cells
  BY DEF ScheduleDirty
<1>5. ASSUME NEW c \in added
      PROVE  /\ Seq(c) = next_sequence + Rank(c)
             /\ Rank(c) \in Nat /\ Rank(c) < Cardinality(added)
             /\ \A d \in added : c < d => Rank(c) < Rank(d)
  <2>1. queue'[c] = NewEntry(now + P[c].debounce, P[c].priority,
                             next_sequence + Rank(c))
    BY DEF ScheduleDirty
  <2>2. Seq(c) = next_sequence + Rank(c)
    BY <2>1 DEF NewEntry
  <2> QED
    BY <1>1, <1>2, <2>2, RanksDistinct
<1>6. ASSUME NEW c \in cells \ added
      PROVE  c \in DOMAIN queue /\ Seq(c) = queue[c].sequence
                               /\ Seq(c) \in Nat /\ Seq(c) < next_sequence
  <2>1. queue'[c] = Rescheduled(queue[c], now + P[c].debounce, P[c].priority)
    BY DEF ScheduleDirty
  <2>2. c \in DOMAIN queue /\ queue[c] \in Entry
    BY DEF QueueTypeOK
  <2>3. Seq(c) = queue[c].sequence
    BY <2>1, <2>2 DEF Rescheduled, Entry
  <2> QED
    BY <2>2, <2>3 DEF SequencesIssued, Entry
<1>7. ASSUME NEW c \in cells
      PROVE  Seq(c) < next_sequence'
  <2> HIDE DEF added, Seq, Rank
  <2> QED
    BY <1>3, <1>4, <1>5, <1>6
<1>8. ASSUME NEW c \in cells, NEW d \in cells, Seq(c) = Seq(d)
      PROVE  c = d
  <2>1. CASE c \in added /\ d \in added
    <3>1. Rank(c) = Rank(d) /\ Rank(c) \in Nat
      <4> HIDE DEF added, Seq, Rank
      <4> QED
        BY <1>3, <1>5, <1>8, <2>1
    <3>2. ~(c < d) /\ ~(d < c)
      <4> HIDE DEF added, Seq, Rank
      <4> QED
        BY <1>5, <2>1, <3>1
    <3>3. c \in Nat /\ d \in Nat
      BY <1>1, <2>1
    <3> QED
      BY <3>2, <3>3
  <2>2. CASE c \notin added /\ d \notin added
    BY <1>6, <1>8, <2>2 DEF SequencesIssued
  <2>3. CASE c \in added /\ d \notin added
    <3> HIDE DEF added, Seq, Rank
    <3> QED
      BY <1>3, <1>5, <1>6, <1>8, <2>3
  <2>4. CASE c \notin added /\ d \in added
    <3> HIDE DEF added, Seq, Rank
    <3> QED
      BY <1>3, <1>5, <1>6, <1>8, <2>4
  <2> QED
    BY <2>1, <2>2, <2>3, <2>4
<1> QED
  BY <1>4, <1>7, <1>8 DEF SequencesIssued

\* Entries that stay keep their sequences, so fewer entries stay distinct.
LEMMA FewerIssued ==
  ASSUME SequencesIssued, DOMAIN queue' \in SUBSET DOMAIN queue,
         \A d \in DOMAIN queue' : queue'[d].sequence = queue[d].sequence,
         next_sequence' = next_sequence
  PROVE  SequencesIssued'
  BY DEF SequencesIssued

LEMMA NextIssued ==
  ASSUME QueueTypeOK, SequencesIssued, [Next]_vars
  PROVE  SequencesIssued'
<1>1. ASSUME NEW D \in Reach, NEW now \in Times, SetCell(D, now)
      PROVE  SequencesIssued'
  <2>1. dirty' \in SUBSET Cells /\ ScheduleDirty(dirty', policy, now)
    BY <1>1, ReachIsCells DEF SetCell, QueueTypeOK
  <2> QED
    BY <2>1, ScheduleIssues DEF QueueTypeOK
<1>2. ASSUME NEW D \in Reach, NEW S \in Groups, NEW p \in Policies,
             NEW now \in Times, SetPolicy(S, p, D, now)
      PROVE  SequencesIssued'
  <2>1. /\ dirty' \in SUBSET Cells /\ policy' \in [Cells -> Policies]
        /\ ScheduleDirty(dirty', policy', now)
    BY <1>2, ReachIsCells DEF SetPolicy, QueueTypeOK
  <2> QED
    BY <2>1, ScheduleIssues
<1>3. ASSUME NEW D \in Reach, NEW V \in Reach, Calculate(V, D)
      PROVE  SequencesIssued'
  BY <1>3, FewerIssued DEF Calculate, Pruned
<1>4. ASSUME NEW c \in Cells, NEW now \in Times \cup {Forever}, RunAutomatic(c, now)
      PROVE  SequencesIssued'
  <2>1. next_sequence' = next_sequence
    BY <1>4 DEF RunAutomatic
  <2> QED
    BY <1>4, <2>1, Instants, TurnKeeps, FewerIssued
<1>5. ASSUME NEW c \in Cells, CancelRequest(c)
      PROVE  SequencesIssued'
  BY <1>5, FewerIssued DEF CancelRequest
<1>6. CASE UNCHANGED <<queue, next_sequence>>
  BY <1>6, FewerIssued
<1> QED
  BY <1>1, <1>2, <1>3, <1>4, <1>5, <1>6
  DEF Next, Mutate, Turn, Invalidate, RunNothing, vars

\* Whatever the clock shows, at most one cell is selected, so a turn is
\* determined by the queue: select_ready_cell never falls back on the order of
\* the paths, its last tie-breaker.
THEOREM TurnsDetermined == Spec => []TurnDetermined
<1>1. Init => SequencesIssued
  BY DEF Init, SequencesIssued, NoQueue
<1>2. Spec => []SequencesIssued
  BY <1>1, QueueTyped, NextIssued, PTL DEF Spec
<1>3. QueueTypeOK /\ SequencesIssued => TurnDetermined
  <2> SUFFICES ASSUME QueueTypeOK, SequencesIssued, NEW now,
                      NEW c \in DOMAIN queue, NEW d \in DOMAIN queue,
                      Selected(c, now), Selected(d, now)
               PROVE  c = d
    BY DEF TurnDetermined
  <2>1. /\ queue[c].sequence <= queue[d].sequence
        /\ queue[d].sequence <= queue[c].sequence
    BY DEF Selected, Oldest
  <2>2. queue[c].sequence \in Nat /\ queue[d].sequence \in Nat
    BY DEF QueueTypeOK, Entry
  <2>3. queue[c].sequence = queue[d].sequence
    BY <2>1, <2>2
  <2> QED
    BY <2>3 DEF SequencesIssued
<1> QED
  BY <1>2, <1>3, QueueTyped, PTL

----------------------------------------------------------------------------
\* Every entry is ready when the clock shows the last instant.
ReadyInTheEnd == Ready(Forever) = DOMAIN queue

\* The same, entry by entry.
EntriesTimely == \A c \in DOMAIN queue : queue[c].ready <= Forever

\* A turn that finds a cell to run happens at or before the last instant.
LEMMA TurnsTimely ==
  ASSUME QueueTypeOK, NEW c \in Cells, NEW now \in Times \cup {Forever}
  PROVE  now <= Forever
<1>1. policy[c] \in Policies /\ policy[c].debounce \in Nat
  BY PolicyFields DEF QueueTypeOK
<1> QED
  BY <1>1, QueueAssumption

LEMMA NextTimely ==
  ASSUME QueueTypeOK, EntriesTimely, [Next]_vars
  PROVE  EntriesTimely'
<1>1. ASSUME NEW D \in Reach, NEW now \in Times, SetCell(D, now)
      PROVE  EntriesTimely'
  <2>1. dirty' \in SUBSET Cells /\ ScheduleDirty(dirty', policy, now)
    BY <1>1, ReachIsCells DEF SetCell, QueueTypeOK
  <2>2. \A c \in DOMAIN queue' : c \in Cells /\ queue'[c].ready = now + policy[c].debounce
    BY <2>1, ScheduleTyped DEF QueueTypeOK
  <2> QED
    BY <2>2, QueueAssumption DEF QueueTypeOK, EntriesTimely
<1>2. ASSUME NEW D \in Reach, NEW S \in Groups, NEW p \in Policies,
             NEW now \in Times, SetPolicy(S, p, D, now)
      PROVE  EntriesTimely'
  <2>1. /\ dirty' \in SUBSET Cells /\ policy' \in [Cells -> Policies]
        /\ ScheduleDirty(dirty', policy', now)
    BY <1>2, ReachIsCells DEF SetPolicy, QueueTypeOK
  <2>2. \A c \in DOMAIN queue' : c \in Cells /\ queue'[c].ready = now + policy'[c].debounce
    BY <2>1, ScheduleTyped
  <2> QED
    BY <2>1, <2>2, QueueAssumption DEF EntriesTimely
<1>3. ASSUME NEW D \in Reach, NEW V \in Reach, Calculate(V, D)
      PROVE  EntriesTimely'
  BY <1>3 DEF Calculate, Pruned, EntriesTimely
<1>4. ASSUME NEW c \in Cells, NEW now \in Times \cup {Forever}, RunAutomatic(c, now)
      PROVE  EntriesTimely'
  <2>1. now <= Forever
    BY TurnsTimely
  <2>2. /\ DOMAIN queue' \in SUBSET DOMAIN queue
        /\ \A d \in DOMAIN queue' : queue'[d].ready \in {queue[d].ready, now}
    BY <1>4, Instants, TurnKeeps
  <2> QED
    BY <2>1, <2>2 DEF EntriesTimely
<1>5. ASSUME NEW c \in Cells, CancelRequest(c)
      PROVE  EntriesTimely'
  BY <1>5 DEF CancelRequest, EntriesTimely
<1>6. CASE UNCHANGED queue
  BY <1>6 DEF EntriesTimely
<1> QED
  BY <1>1, <1>2, <1>3, <1>4, <1>5, <1>6
  DEF Next, Mutate, Turn, Invalidate, RunNothing, vars

\* No debounce, no rescheduling and no entry put back at the instant of its turn
\* takes an entry beyond the last instant: the turn TreeState gives at u64::MAX
\* finds every queued entry ready.  This is what the fairness of Spec rests on.
THEOREM EntriesReadyInTheEnd == Spec => []ReadyInTheEnd
<1>1. Init => EntriesTimely
  BY DEF Init, EntriesTimely, NoQueue
<1>2. EntriesTimely => ReadyInTheEnd
  BY DEF EntriesTimely, ReadyInTheEnd, Ready
<1> QED
  BY <1>1, <1>2, QueueTyped, NextTimely, PTL DEF Spec
=============================================================================
