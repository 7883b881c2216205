----------------------------- MODULE Namespace -----------------------------
(***************************************************************************)
(* The durable finite namespace of one expression tree                     *)
(* (sim-expr-tree-core/src/namespace.rs): directory and cell records, the  *)
(* child index over (directory, name), name reservations, generated-name   *)
(* counters and the serialized writer lane.                                *)
(*                                                                         *)
(* An operation that returns an error before it has written anything       *)
(* leaves no trace and is not a step here; the one error that does write   *)
(* (a generated name that is already taken) is an action of its own.       *)
(*                                                                         *)
(* Record contents that no decision reads (source text, node kind) are     *)
(* left out.  Cell and directory ids come from the counters of the only    *)
(* caller, TreeState.                                                      *)
(***************************************************************************)
EXTENDS Naturals, FiniteSets

CONSTANTS
  Writers,        \* holders of writer-lane tokens
  PlainNames,     \* child names outside the generated families
  ExplicitNames,  \* the names callers spell; "cell-1" may be one of them
  Patches,        \* local codec-policy patches
  NoPatch,        \* the empty patch a record is created with
  None,           \* the root's parent and name
  MaxCells, MaxDirs, MaxCounter, MaxRevision, MaxEpoch, \* model bounds
  MaxReservations

ASSUME PatchAssumption == NoPatch \in Patches
ASSUME NoneAssumption  == None \notin Nat
ASSUME BoundAssumption == 
  /\ MaxCells \in Nat /\ MaxDirs \in Nat /\ MaxCounter \in Nat
  /\ MaxRevision \in Nat /\ MaxEpoch \in Nat /\ MaxReservations \in Nat

VARIABLES
  dirs,           \* directory id -> record
  cells,          \* cell id -> record
  children,       \* <<directory id, name>> -> entry
  reservations,   \* set of <<directory id, name>>
  counters,       \* <<directory id, kind>> -> last generated index
  current,        \* the latest revision tick
  writer_epoch, writer_active,
  lane,           \* the lane token each writer last received (a copy)
  next_cell_id, next_dir_id   \* TreeState's id counters

lanes == <<writer_epoch, writer_active, lane>>
vars  == <<dirs, cells, children, reservations, counters, current, lanes,
           next_cell_id, next_dir_id>>

----------------------------------------------------------------------------
Root == 0
Kinds == {"cell", "dir"}

\* "{prefix}-{n}": the text is injective in the prefix and the index.
GeneratedName(kind, n) == <<kind, n>>

GeneratedNames == Kinds \X (Nat \ {0})
Names == PlainNames \cup GeneratedNames

ASSUME NamesAssumption == ExplicitNames \subseteq Names

DirEntry(d)  == [type |-> "dir",  id |-> d]
CellEntry(c) == [type |-> "cell", id |-> c]

\* The key under which the child index holds a record.
Place(rec) == <<rec.parent, rec.name>>

\* A map with one more, or one fewer, key.
Put(f, k, v) == [x \in DOMAIN f \cup {k} |-> IF x = k THEN v ELSE f[x]]
Drop(f, k)   == [x \in DOMAIN f \ {k} |-> f[x]]

----------------------------------------------------------------------------
RequireWriter(w) == writer_active /\ lane[w] = writer_epoch

EnsureParent(p) == p \in DOMAIN dirs

\* Mutant: reservations are not consulted.
IsAvailableUnreserved(p, n) == <<p, n>> \notin DOMAIN children

IsAvailable(p, n) == /\ <<p, n>> \notin DOMAIN children
                     /\ <<p, n>> \notin reservations

\* The ids a walk along the parent links from `candidate` visits are the
\* least set that holds `candidate` and the recorded parent of its members.
UpClosed(S) ==
  \A d \in S : dirs[d].parent \in DOMAIN dirs => dirs[d].parent \in S
\* Mutant: only the immediate case is recognised.
IsDescendantSelfOnly(candidate, ancestor) == candidate = ancestor

IsDescendant(candidate, ancestor) ==
  \A S \in SUBSET DOMAIN dirs :
    candidate \in S /\ UpClosed(S) => ancestor \in S

NextStamp == /\ current < MaxRevision
             /\ current' = current + 1

CounterOf(p, kind) ==
  IF <<p, kind>> \in DOMAIN counters THEN counters[<<p, kind>>] ELSE 0

----------------------------------------------------------------------------
Init ==
  /\ dirs = [d \in {Root} |-> [parent |-> None, name |-> None,
                               policy |-> NoPatch, stamp |-> 0]]
  /\ cells = [c \in {} |-> 0]
  /\ children = [k \in {} |-> 0]
  /\ reservations = {}
  /\ counters = [k \in {} |-> 0]
  /\ current = 0
  /\ writer_epoch = 0 /\ writer_active = FALSE
  /\ lane = [w \in Writers |-> 0]
  /\ next_cell_id = 0 /\ next_dir_id = 0

\* Mutant: the epoch does not move.
AcquireWriterSameEpoch(w) ==
  /\ ~writer_active
  /\ writer_active' = TRUE
  /\ lane' = [lane EXCEPT ![w] = writer_epoch]
  /\ UNCHANGED <<dirs, cells, children, reservations, counters, current,
                 writer_epoch, next_cell_id, next_dir_id>>

AcquireWriter(w) ==
  /\ ~writer_active
  /\ writer_epoch < MaxEpoch
  /\ writer_active' = TRUE
  /\ writer_epoch' = writer_epoch + 1
  /\ lane' = [lane EXCEPT ![w] = writer_epoch']
  /\ UNCHANGED <<dirs, cells, children, reservations, counters, current,
                 next_cell_id, next_dir_id>>

\* The token is Copy: the writer keeps it after the release.
ReleaseWriter(w) ==
  /\ RequireWriter(w)
  /\ writer_active' = FALSE
  /\ UNCHANGED <<dirs, cells, children, reservations, counters, current,
                 writer_epoch, lane, next_cell_id, next_dir_id>>

AddReservation(p, n) ==
  /\ Cardinality(reservations) < MaxReservations
  /\ IsAvailable(p, n)
  /\ reservations' = reservations \cup {<<p, n>>}

ReserveName(w, p, n) ==
  /\ RequireWriter(w)
  /\ EnsureParent(p)
  /\ AddReservation(p, n)
  /\ UNCHANGED <<dirs, cells, children, counters, current, lanes,
                 next_cell_id, next_dir_id>>

\* The counter has advanced before availability is tested.
AdvanceCounter(w, p, kind) ==
  /\ RequireWriter(w)
  /\ EnsureParent(p)
  /\ CounterOf(p, kind) < MaxCounter
  /\ counters' = Put(counters, <<p, kind>>, CounterOf(p, kind) + 1)
  /\ UNCHANGED <<dirs, cells, children, current, lanes,
                 next_cell_id, next_dir_id>>

ReserveGeneratedName(w, p, kind) ==
  /\ AdvanceCounter(w, p, kind)
  /\ AddReservation(p, GeneratedName(kind, CounterOf(p, kind) + 1))

\* NamespaceError::CounterCorruption: the candidate is taken.
GeneratedNameTaken(w, p, kind) ==
  /\ AdvanceCounter(w, p, kind)
  /\ ~IsAvailable(p, GeneratedName(kind, CounterOf(p, kind) + 1))
  /\ UNCHANGED reservations

\* The reservation is consumed before availability is tested, so only the
\* child index can still refuse the name.  The parent is not tested again.
ConsumeReservation(p, n) ==
  /\ <<p, n>> \in reservations
  /\ <<p, n>> \notin DOMAIN children
  /\ reservations' = reservations \ {<<p, n>>}

CreateCell(w, p, n) ==
  LET id == next_cell_id + 1 IN
  /\ RequireWriter(w)
  /\ next_cell_id < MaxCells
  /\ ConsumeReservation(p, n)
  /\ NextStamp
  /\ children' = Put(children, <<p, n>>, CellEntry(id))
  /\ cells' = Put(cells, id, [parent |-> p, name |-> n,
                              policy |-> NoPatch, stamp |-> current'])
  /\ next_cell_id' = id
  /\ UNCHANGED <<dirs, counters, lanes, next_dir_id>>

CreateDir(w, p, n) ==
  LET id == next_dir_id + 1 IN
  /\ RequireWriter(w)
  /\ next_dir_id < MaxDirs
  /\ ConsumeReservation(p, n)
  /\ NextStamp
  /\ children' = Put(children, <<p, n>>, DirEntry(id))
  /\ dirs' = Put(dirs, id, [parent |-> p, name |-> n,
                            policy |-> NoPatch, stamp |-> current'])
  /\ next_dir_id' = id
  /\ UNCHANGED <<cells, counters, lanes, next_cell_id>>

\* Mutant: a move stamps the record anew.
RenamedRestamped(rec, p, n) ==
  [parent |-> p, name |-> n, policy |-> rec.policy, stamp |-> current + 1]

\* A record at a new place; its identity, policy and stamp stay.
Renamed(rec, p, n) ==
  [parent |-> p, name |-> n, policy |-> rec.policy, stamp |-> rec.stamp]

\* Mutant: the old key stays.
ReindexedKeepingOld(from, to, entry) == Put(children, to, entry)

\* The child index after an entry moved from key `from` to key `to`.
Reindexed(from, to, entry) == Put(Drop(children, from), to, entry)

MoveCell(w, c, p, n) ==
  /\ RequireWriter(w)
  /\ EnsureParent(p)
  /\ c \in DOMAIN cells
  /\ Place(cells[c]) # <<p, n>> => IsAvailable(p, n)
  /\ children' = Reindexed(Place(cells[c]), <<p, n>>, CellEntry(c))
  /\ cells' = [cells EXCEPT ![c] = Renamed(@, p, n)]
  /\ NextStamp
  /\ UNCHANGED <<dirs, reservations, counters, lanes,
                 next_cell_id, next_dir_id>>

MoveDir(w, d, p, n) ==
  /\ RequireWriter(w)
  /\ d # Root
  /\ EnsureParent(p)
  /\ ~IsDescendant(p, d)
  /\ d \in DOMAIN dirs
  /\ Place(dirs[d]) # <<p, n>> => IsAvailable(p, n)
  /\ children' = Reindexed(Place(dirs[d]), <<p, n>>, DirEntry(d))
  /\ dirs' = [dirs EXCEPT ![d] = Renamed(@, p, n)]
  /\ NextStamp
  /\ UNCHANGED <<cells, reservations, counters, lanes,
                 next_cell_id, next_dir_id>>

SetCellPolicy(w, c, patch) ==
  /\ RequireWriter(w)
  /\ c \in DOMAIN cells
  /\ cells' = [cells EXCEPT ![c].policy = patch]
  /\ NextStamp
  /\ UNCHANGED <<dirs, children, reservations, counters, lanes,
                 next_cell_id, next_dir_id>>

SetDirPolicy(w, d, patch) ==
  /\ RequireWriter(w)
  /\ d \in DOMAIN dirs
  /\ dirs' = [dirs EXCEPT ![d].policy = patch]
  /\ NextStamp
  /\ UNCHANGED <<cells, children, reservations, counters, lanes,
                 next_cell_id, next_dir_id>>

DeleteCell(w, c) ==
  /\ RequireWriter(w)
  /\ c \in DOMAIN cells
  /\ cells' = Drop(cells, c)
  /\ children' = Drop(children, Place(cells[c]))
  /\ NextStamp
  /\ UNCHANGED <<dirs, reservations, counters, lanes,
                 next_cell_id, next_dir_id>>

\* Mutant: emptiness is not tested.
DeleteDirAnyway(w, d) ==
  /\ RequireWriter(w)
  /\ d # Root
  /\ d \in DOMAIN dirs
  /\ dirs' = Drop(dirs, d)
  /\ children' = Drop(children, Place(dirs[d]))
  /\ NextStamp
  /\ UNCHANGED <<cells, reservations, counters, lanes,
                 next_cell_id, next_dir_id>>

\* Emptiness is judged by the child index alone: a pending reservation
\* below the directory does not keep it.
DeleteDir(w, d) ==
  /\ RequireWriter(w)
  /\ d # Root
  /\ \A k \in DOMAIN children : k[1] # d
  /\ d \in DOMAIN dirs
  /\ dirs' = Drop(dirs, d)
  /\ children' = Drop(children, Place(dirs[d]))
  /\ NextStamp
  /\ UNCHANGED <<cells, reservations, counters, lanes,
                 next_cell_id, next_dir_id>>

Next ==
  \E w \in Writers :
    \/ AcquireWriter(w)
    \/ ReleaseWriter(w)
    \/ \E p \in DOMAIN dirs, n \in ExplicitNames : ReserveName(w, p, n)
    \/ \E p \in DOMAIN dirs, kind \in Kinds :
         ReserveGeneratedName(w, p, kind) \/ GeneratedNameTaken(w, p, kind)
    \/ \E r \in reservations :
         CreateCell(w, r[1], r[2]) \/ CreateDir(w, r[1], r[2])
    \/ \E c \in DOMAIN cells :
         \/ \E p \in DOMAIN dirs, n \in ExplicitNames : MoveCell(w, c, p, n)
         \/ \E patch \in Patches : SetCellPolicy(w, c, patch)
         \/ DeleteCell(w, c)
    \/ \E d \in DOMAIN dirs :
         \/ \E p \in DOMAIN dirs, n \in ExplicitNames : MoveDir(w, d, p, n)
         \/ \E patch \in Patches : SetDirPolicy(w, d, patch)
         \/ DeleteDir(w, d)

Spec == Init /\ [][Next]_vars

----------------------------------------------------------------------------
\* The shape of every variable.
TypeOK ==
  /\ DOMAIN dirs \subseteq Nat /\ Root \in DOMAIN dirs
  /\ \A d \in DOMAIN dirs : dirs[d] \in
       [parent : Nat \cup {None}, name : Names \cup {None},
        policy : Patches, stamp : Nat]
  /\ DOMAIN cells \subseteq Nat
  /\ \A c \in DOMAIN cells : cells[c] \in
       [parent : Nat, name : Names, policy : Patches, stamp : Nat]
  /\ DOMAIN children \subseteq Nat \X Names
  /\ \A k \in DOMAIN children : children[k] \in [type : Kinds, id : Nat]
  /\ reservations \subseteq Nat \X Names
  /\ DOMAIN counters \subseteq Nat \X Kinds
  /\ \A k \in DOMAIN counters : counters[k] \in Nat
  /\ current \in Nat
  /\ writer_epoch \in Nat /\ writer_active \in BOOLEAN
  /\ lane \in [Writers -> Nat]
  /\ next_cell_id \in Nat /\ next_dir_id \in Nat

\* No two writers ever hold a lane token that require_writer accepts, although
\* every token stays with its writer after release (namespace.rs acquire_writer,
\* release_writer, require_writer).
LaneExclusive ==
  \A v, w \in Writers : RequireWriter(v) /\ RequireWriter(w) => v = w

\* The child index and the records agree: every indexed name leads to a live
\* record that claims exactly that place, and every live record other than the
\* root is indexed at the place it claims - whatever the order of creates,
\* moves and deletes (create_cell, create_dir, move_cell, move_dir, delete_*).
IndexSound ==
  \A k \in DOMAIN children :
    \/ \E c \in DOMAIN cells : children[k] = CellEntry(c) /\ Place(cells[c]) = k
    \/ \E d \in DOMAIN dirs  : children[k] = DirEntry(d) /\ Place(dirs[d]) = k
CellsIndexed ==
  \A c \in DOMAIN cells : /\ Place(cells[c]) \in DOMAIN children
                          /\ children[Place(cells[c])] = CellEntry(c)
DirsIndexed ==
  \A d \in DOMAIN dirs \ {Root} : /\ Place(dirs[d]) \in DOMAIN children
                                   /\ children[Place(dirs[d])] = DirEntry(d)
IndexMatchesRecords == IndexSound /\ CellsIndexed /\ DirsIndexed

\* A reserved name is never occupied while it is reserved, so the availability
\* test that create_cell and create_dir make after they have consumed the
\* reservation cannot fail and no reservation is lost to an error.
ReservationsStayFree == reservations \cap DOMAIN children = {}

\* No set of directories consists of each other's children: the parent walks of
\* is_descendant and effective_dir_policy terminate.
NoParentCycle ==
  \A S \in SUBSET DOMAIN dirs : S # {} => \E d \in S : dirs[d].parent \notin S

\* A record whose parent directory is live keeps a live parent for as long as
\* it exists: no operation deletes a directory that still holds a record
\* (delete_dir's emptiness test reads the child index only).
NoRecordLosesParent ==
  [][/\ \A c \in DOMAIN cells \cap DOMAIN cells' :
          cells[c].parent \in DOMAIN dirs => cells'[c].parent \in DOMAIN dirs'
     /\ \A d \in DOMAIN dirs \cap DOMAIN dirs' :
          dirs[d].parent \in DOMAIN dirs => dirs'[d].parent \in DOMAIN dirs']_vars

\* A live record keeps its creation stamp: no create reuses a live id and no
\* move or policy change replaces the record ("preserving immutable cell
\* identity", namespace.rs:261).
IdentityStable ==
  [][/\ \A c \in DOMAIN cells \cap DOMAIN cells' : cells'[c].stamp = cells[c].stamp
     /\ \A d \in DOMAIN dirs \cap DOMAIN dirs' : dirs'[d].stamp = dirs[d].stamp]_vars
=============================================================================
