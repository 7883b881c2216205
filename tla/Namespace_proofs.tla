-------------------------- MODULE Namespace_proofs --------------------------
(***************************************************************************)
(* Proofs about Namespace, for every number of writers, names, records and *)
(* every value of the bounds.                                              *)
(***************************************************************************)
EXTENDS Namespace, TLAPS

\* What the code relies on about ids: every id in use was handed out by
\* TreeState's counters, so the next one is new.
IdsIssued ==
  /\ \A d \in DOMAIN dirs : d <= next_dir_id
  /\ \A d \in DOMAIN dirs \ {Root} :
       dirs[d].parent \in Nat /\ dirs[d].parent <= next_dir_id
  /\ dirs[Root].parent = None
  /\ \A c \in DOMAIN cells : c <= next_cell_id
  /\ \A r \in reservations : r[1] <= next_dir_id

\* Every lane token was issued, and no live token was issued twice.
LanesIssued ==
  /\ \A w \in Writers : lane[w] <= writer_epoch
  /\ \A v, w \in Writers : lane[v] = lane[w] => v = w \/ lane[v] = 0
  /\ writer_active => writer_epoch # 0

\* The inductive invariant of the records.
RecordsInv == TypeOK /\ IdsIssued /\ IndexMatchesRecords /\ ReservationsStayFree

----------------------------------------------------------------------------
\* The writer lane on its own: the lane invariant does not depend on the
\* records (acquire_writer, release_writer, require_writer).
LEMMA LaneStep ==
  ASSUME TypeOK, LanesIssued, [Next]_vars
  PROVE  LanesIssued'
<1>1. CASE \E w \in Writers : AcquireWriter(w)
  <2>1. PICK w \in Writers : AcquireWriter(w)
    BY <1>1
  <2>2. writer_epoch' = writer_epoch + 1 /\ writer_active'
        /\ lane' = [lane EXCEPT ![w] = writer_epoch + 1]
    BY <2>1 DEF AcquireWriter
  <2>3. \A v \in Writers : lane[v] \in Nat /\ lane[v] <= writer_epoch /\ lane[v] # writer_epoch + 1
    BY DEF TypeOK, LanesIssued
  <2> QED
    BY <2>2, <2>3 DEF TypeOK, LanesIssued
<1>2. CASE \E w \in Writers : ReleaseWriter(w)
  BY <1>2 DEF ReleaseWriter, LanesIssued
<1>3. CASE UNCHANGED lanes
  BY <1>3 DEF lanes, LanesIssued
<1>4. ASSUME NEW w \in Writers,
             NEW p, NEW n, NEW kind, NEW c, NEW d, NEW patch
      PROVE  /\ ReserveName(w, p, n) => UNCHANGED lanes
             /\ ReserveGeneratedName(w, p, kind) => UNCHANGED lanes
             /\ GeneratedNameTaken(w, p, kind) => UNCHANGED lanes
             /\ CreateCell(w, p, n) => UNCHANGED lanes
             /\ CreateDir(w, p, n) => UNCHANGED lanes
             /\ MoveCell(w, c, p, n) => UNCHANGED lanes
             /\ MoveDir(w, d, p, n) => UNCHANGED lanes
             /\ SetCellPolicy(w, c, patch) => UNCHANGED lanes
             /\ SetDirPolicy(w, d, patch) => UNCHANGED lanes
             /\ DeleteCell(w, c) => UNCHANGED lanes
             /\ DeleteDir(w, d) => UNCHANGED lanes
  BY DEF ReserveName, ReserveGeneratedName, GeneratedNameTaken,
     AdvanceCounter, CreateCell, CreateDir, MoveCell, MoveDir, SetCellPolicy,
     SetDirPolicy, DeleteCell, DeleteDir
<1>5. CASE UNCHANGED vars
  BY <1>3, <1>5 DEF vars
<1> QED
  BY <1>1, <1>2, <1>3, <1>4, <1>5 DEF Next

----------------------------------------------------------------------------
\* What the two map updates do.
LEMMA PutFacts ==
  ASSUME NEW f, NEW k, NEW v
  PROVE  /\ DOMAIN Put(f, k, v) = DOMAIN f \cup {k}
         /\ Put(f, k, v)[k] = v
         /\ \A x \in DOMAIN f : x # k => Put(f, k, v)[x] = f[x]
BY DEF Put

LEMMA DropFacts ==
  ASSUME NEW f, NEW k
  PROVE  /\ DOMAIN Drop(f, k) = DOMAIN f \ {k}
         /\ \A x \in DOMAIN f : x # k => Drop(f, k)[x] = f[x]
BY DEF Drop

\* An index entry names one record.
LEMMA EntryFacts ==
  ASSUME NEW x, NEW y
  PROVE  /\ CellEntry(x) = CellEntry(y) => x = y
         /\ DirEntry(x) = DirEntry(y) => x = y
         /\ CellEntry(x) # DirEntry(y)
BY DEF CellEntry, DirEntry

----------------------------------------------------------------------------
\* Every action keeps the shape of the variables.
LEMMA TypeStep ==
  ASSUME TypeOK, [Next]_vars
  PROVE  TypeOK'
<1> USE PatchAssumption, NoneAssumption, BoundAssumption, NamesAssumption
<1>1. ASSUME NEW w \in Writers, AcquireWriter(w) PROVE TypeOK'
  BY <1>1 DEF AcquireWriter, TypeOK
<1>2. ASSUME NEW w \in Writers, ReleaseWriter(w) PROVE TypeOK'
  BY <1>2 DEF ReleaseWriter, TypeOK
<1>3. ASSUME NEW w \in Writers, NEW p \in DOMAIN dirs, NEW n \in ExplicitNames,
             ReserveName(w, p, n)
      PROVE TypeOK'
  BY <1>3 DEF ReserveName, AddReservation, TypeOK, lanes
<1>4. ASSUME NEW w \in Writers, NEW p \in DOMAIN dirs, NEW kind \in Kinds,
             AdvanceCounter(w, p, kind)
      PROVE /\ DOMAIN counters' \subseteq Nat \X Kinds
            /\ \A k \in DOMAIN counters' : counters'[k] \in Nat
            /\ GeneratedName(kind, CounterOf(p, kind) + 1) \in Names
  BY <1>4 DEF AdvanceCounter, CounterOf, Put, TypeOK, GeneratedName, Names,
     GeneratedNames
<1>5. ASSUME NEW w \in Writers, NEW p \in DOMAIN dirs, NEW kind \in Kinds,
             ReserveGeneratedName(w, p, kind)
      PROVE TypeOK'
  <2>1. AdvanceCounter(w, p, kind)
    BY <1>5 DEF ReserveGeneratedName
  <2>2. reservations' \subseteq Nat \X Names
    BY <1>4, <1>5, <2>1 DEF ReserveGeneratedName, AddReservation, TypeOK
  <2> QED
    BY <1>4, <2>1, <2>2 DEF AdvanceCounter, TypeOK, lanes
<1>6. ASSUME NEW w \in Writers, NEW p \in DOMAIN dirs, NEW kind \in Kinds,
             GeneratedNameTaken(w, p, kind)
      PROVE TypeOK'
  <2>1. AdvanceCounter(w, p, kind) /\ reservations' = reservations
    BY <1>6 DEF GeneratedNameTaken
  <2> QED
    BY <1>4, <2>1 DEF AdvanceCounter, TypeOK, lanes
<1>7. ASSUME NEW w \in Writers, NEW r \in reservations, CreateCell(w, r[1], r[2])
      PROVE TypeOK'
  BY <1>7 DEF CreateCell, ConsumeReservation, NextStamp, CellEntry, Put,
     TypeOK, lanes, Kinds
<1>8. ASSUME NEW w \in Writers, NEW r \in reservations, CreateDir(w, r[1], r[2])
      PROVE TypeOK'
  BY <1>8 DEF CreateDir, ConsumeReservation, NextStamp, DirEntry, Put,
     TypeOK, lanes, Kinds
<1>9. ASSUME NEW w \in Writers, NEW c \in DOMAIN cells, NEW p \in DOMAIN dirs,
             NEW n \in ExplicitNames, MoveCell(w, c, p, n)
      PROVE TypeOK'
  <2>1. /\ DOMAIN cells' = DOMAIN cells
        /\ cells'[c] = Renamed(cells[c], p, n)
        /\ \A x \in DOMAIN cells : x # c => cells'[x] = cells[x]
    BY <1>9 DEF MoveCell
  <2>2. p \in Nat /\ n \in Names
    BY DEF TypeOK
  <2>3. \A x \in DOMAIN cells' : cells'[x] \in
                   [parent : Nat, name : Names, policy : Patches, stamp : Nat]
    BY <2>1, <2>2 DEF TypeOK, Renamed
  <2>4. /\ DOMAIN children' \subseteq Nat \X Names
        /\ \A k \in DOMAIN children' : children'[k] \in [type : Kinds, id : Nat]
    <3>1. /\ DOMAIN children' = (DOMAIN children \ {Place(cells[c])}) \cup {<<p, n>>}
          /\ children'[<<p, n>>] = CellEntry(c)
          /\ \A k \in DOMAIN children :
               k # Place(cells[c]) /\ k # <<p, n>> => children'[k] = children[k]
      BY <1>9 DEF MoveCell, Reindexed, Put, Drop
    <3>2. CellEntry(c) \in [type : Kinds, id : Nat] /\ <<p, n>> \in Nat \X Names
      BY <2>2 DEF CellEntry, Kinds, TypeOK
    <3> QED
      BY <3>1, <3>2 DEF TypeOK
  <2> QED
    BY <1>9, <2>1, <2>3, <2>4, SMTT(30) DEF MoveCell, NextStamp, lanes, TypeOK
<1>10. ASSUME NEW w \in Writers, NEW d \in DOMAIN dirs, NEW p \in DOMAIN dirs,
              NEW n \in ExplicitNames, MoveDir(w, d, p, n)
       PROVE TypeOK'
  <2>1. /\ DOMAIN dirs' = DOMAIN dirs
        /\ dirs'[d] = Renamed(dirs[d], p, n)
        /\ \A x \in DOMAIN dirs : x # d => dirs'[x] = dirs[x]
    BY <1>10 DEF MoveDir
  <2>2. p \in Nat /\ n \in Names
    BY DEF TypeOK
  <2>3. \A x \in DOMAIN dirs' : dirs'[x] \in
                   [parent : Nat \cup {None}, name : Names \cup {None},
                    policy : Patches, stamp : Nat]
    BY <2>1, <2>2 DEF TypeOK, Renamed
  <2>4. /\ DOMAIN children' \subseteq Nat \X Names
        /\ \A k \in DOMAIN children' : children'[k] \in [type : Kinds, id : Nat]
    <3>1. /\ DOMAIN children' = (DOMAIN children \ {Place(dirs[d])}) \cup {<<p, n>>}
          /\ children'[<<p, n>>] = DirEntry(d)
          /\ \A k \in DOMAIN children :
               k # Place(dirs[d]) /\ k # <<p, n>> => children'[k] = children[k]
      BY <1>10 DEF MoveDir, Reindexed, Put, Drop
    <3>2. DirEntry(d) \in [type : Kinds, id : Nat] /\ <<p, n>> \in Nat \X Names
      BY <2>2 DEF DirEntry, Kinds, TypeOK
    <3> QED
      BY <3>1, <3>2 DEF TypeOK
  <2> QED
    BY <1>10, <2>1, <2>3, <2>4 DEF MoveDir, NextStamp, lanes, TypeOK
<1>11. ASSUME NEW w \in Writers, NEW c \in DOMAIN cells, NEW patch \in Patches,
              SetCellPolicy(w, c, patch)
       PROVE TypeOK'
  BY <1>11 DEF SetCellPolicy, NextStamp, TypeOK, lanes
<1>12. ASSUME NEW w \in Writers, NEW d \in DOMAIN dirs, NEW patch \in Patches,
              SetDirPolicy(w, d, patch)
       PROVE TypeOK'
  BY <1>12 DEF SetDirPolicy, NextStamp, TypeOK, lanes
<1>13. ASSUME NEW w \in Writers, NEW c \in DOMAIN cells, DeleteCell(w, c)
       PROVE TypeOK'
  BY <1>13 DEF DeleteCell, NextStamp, Drop, TypeOK, lanes
<1>14. ASSUME NEW w \in Writers, NEW d \in DOMAIN dirs, DeleteDir(w, d)
       PROVE TypeOK'
  BY <1>14 DEF DeleteDir, NextStamp, Drop, TypeOK, lanes
<1>15. CASE UNCHANGED vars
  BY <1>15 DEF vars, lanes, TypeOK
<1> QED
  BY <1>1, <1>2, <1>3, <1>5, <1>6, <1>7, <1>8, <1>9, <1>10, <1>11, <1>12,
     <1>13, <1>14, <1>15 DEF Next
----------------------------------------------------------------------------
\* Ids in use stay below the counters.
LEMMA IdsStep ==
  ASSUME RecordsInv, TypeOK', [Next]_vars
  PROVE  IdsIssued'
<1> USE DEF RecordsInv
<1>1. ASSUME NEW w \in Writers, AcquireWriter(w) PROVE IdsIssued'
  BY <1>1 DEF AcquireWriter, IdsIssued
<1>2. ASSUME NEW w \in Writers, ReleaseWriter(w) PROVE IdsIssued'
  BY <1>2 DEF ReleaseWriter, IdsIssued
<1>3. ASSUME NEW w \in Writers, NEW p \in DOMAIN dirs, NEW n \in ExplicitNames,
             ReserveName(w, p, n)
      PROVE IdsIssued'
  BY <1>3 DEF ReserveName, AddReservation, IsAvailable, EnsureParent, IdsIssued, TypeOK, IndexMatchesRecords, Root
<1>4. ASSUME NEW w \in Writers, NEW p \in DOMAIN dirs, NEW kind \in Kinds,
             ReserveGeneratedName(w, p, kind)
      PROVE IdsIssued'
  BY <1>4 DEF ReserveGeneratedName, AdvanceCounter, AddReservation, IsAvailable, EnsureParent, IdsIssued, TypeOK, IndexMatchesRecords, Root
<1>5. ASSUME NEW w \in Writers, NEW p \in DOMAIN dirs, NEW kind \in Kinds,
             GeneratedNameTaken(w, p, kind)
      PROVE IdsIssued'
  BY <1>5 DEF GeneratedNameTaken, AdvanceCounter, IdsIssued, TypeOK, IndexMatchesRecords, Root
<1>6. ASSUME NEW w \in Writers, NEW r \in reservations,
             CreateCell(w, r[1], r[2])
      PROVE IdsIssued'
  BY <1>6 DEF CreateCell, ConsumeReservation, CellEntry, DirEntry, Put, IdsIssued, TypeOK, IndexMatchesRecords, Root
<1>7. ASSUME NEW w \in Writers, NEW r \in reservations,
             CreateDir(w, r[1], r[2])
      PROVE IdsIssued'
  BY <1>7 DEF CreateDir, ConsumeReservation, CellEntry, DirEntry, Put, IdsIssued, TypeOK, IndexMatchesRecords, Root
<1>8. ASSUME NEW w \in Writers, NEW c \in DOMAIN cells, NEW p \in DOMAIN dirs,
             NEW n \in ExplicitNames,
             MoveCell(w, c, p, n)
      PROVE IdsIssued'
  BY <1>8 DEF MoveCell, Renamed, IdsIssued, TypeOK, IndexMatchesRecords, Root
<1>9. ASSUME NEW w \in Writers, NEW d \in DOMAIN dirs, NEW p \in DOMAIN dirs,
             NEW n \in ExplicitNames,
             MoveDir(w, d, p, n)
      PROVE IdsIssued'
  BY <1>9 DEF MoveDir, Renamed, EnsureParent, IdsIssued, TypeOK, IndexMatchesRecords, Root
<1>10. ASSUME NEW w \in Writers, NEW c \in DOMAIN cells, NEW patch \in Patches,
             SetCellPolicy(w, c, patch)
      PROVE IdsIssued'
  BY <1>10 DEF SetCellPolicy, IdsIssued, TypeOK, IndexMatchesRecords, Root
<1>11. ASSUME NEW w \in Writers, NEW d \in DOMAIN dirs, NEW patch \in Patches,
             SetDirPolicy(w, d, patch)
      PROVE IdsIssued'
  BY <1>11 DEF SetDirPolicy, IdsIssued, TypeOK, IndexMatchesRecords, Root
<1>12. ASSUME NEW w \in Writers, NEW c \in DOMAIN cells,
             DeleteCell(w, c)
      PROVE IdsIssued'
  BY <1>12 DEF DeleteCell, CellEntry, DirEntry, Drop, IdsIssued, TypeOK, IndexMatchesRecords, Root
<1>13. ASSUME NEW w \in Writers, NEW d \in DOMAIN dirs,
             DeleteDir(w, d)
      PROVE IdsIssued'
  BY <1>13 DEF DeleteDir, CellEntry, DirEntry, Drop, IdsIssued, TypeOK, IndexMatchesRecords, Root
<1>14. CASE UNCHANGED vars
  BY <1>14 DEF vars, IdsIssued
<1> QED
  BY <1>1, <1>2, <1>3, <1>4, <1>5, <1>6, <1>7, <1>8, <1>9, <1>10, <1>11,
     <1>12, <1>13, <1>14 DEF Next

\* No operation occupies a reserved name.
LEMMA ReservationsStep ==
  ASSUME RecordsInv, TypeOK', [Next]_vars
  PROVE  ReservationsStayFree'
<1> USE DEF RecordsInv
<1>1. ASSUME NEW w \in Writers, AcquireWriter(w) PROVE ReservationsStayFree'
  BY <1>1 DEF AcquireWriter, ReservationsStayFree
<1>2. ASSUME NEW w \in Writers, ReleaseWriter(w) PROVE ReservationsStayFree'
  BY <1>2 DEF ReleaseWriter, ReservationsStayFree
<1>3. ASSUME NEW w \in Writers, NEW p \in DOMAIN dirs, NEW n \in ExplicitNames,
             ReserveName(w, p, n)
      PROVE ReservationsStayFree'
  BY <1>3 DEF ReserveName, AddReservation, IsAvailable, EnsureParent, ReservationsStayFree, TypeOK, Root
<1>4. ASSUME NEW w \in Writers, NEW p \in DOMAIN dirs, NEW kind \in Kinds,
             ReserveGeneratedName(w, p, kind)
      PROVE ReservationsStayFree'
  BY <1>4 DEF ReserveGeneratedName, AdvanceCounter, AddReservation, IsAvailable, EnsureParent, ReservationsStayFree, TypeOK, Root
<1>5. ASSUME NEW w \in Writers, NEW p \in DOMAIN dirs, NEW kind \in Kinds,
             GeneratedNameTaken(w, p, kind)
      PROVE ReservationsStayFree'
  BY <1>5 DEF GeneratedNameTaken, AdvanceCounter, ReservationsStayFree, TypeOK, Root
<1>6. ASSUME NEW w \in Writers, NEW r \in reservations,
             CreateCell(w, r[1], r[2])
      PROVE ReservationsStayFree'
  BY <1>6 DEF CreateCell, ConsumeReservation, CellEntry, DirEntry, Put, ReservationsStayFree, TypeOK, Root
<1>7. ASSUME NEW w \in Writers, NEW r \in reservations,
             CreateDir(w, r[1], r[2])
      PROVE ReservationsStayFree'
  BY <1>7 DEF CreateDir, ConsumeReservation, CellEntry, DirEntry, Put, ReservationsStayFree, TypeOK, Root
<1>8. ASSUME NEW w \in Writers, NEW c \in DOMAIN cells, NEW p \in DOMAIN dirs,
             NEW n \in ExplicitNames,
             MoveCell(w, c, p, n)
      PROVE ReservationsStayFree'
  <2>1. DOMAIN children' = (DOMAIN children \ {Place(cells[c])}) \cup {<<p, n>>}
    BY <1>8 DEF MoveCell, Reindexed, Put, Drop
  <2>2. <<p, n>> = Place(cells[c]) \/ <<p, n>> \notin reservations
    BY <1>8 DEF MoveCell, IsAvailable
  <2>3. Place(cells[c]) \in DOMAIN children /\ reservations' = reservations
    BY <1>8 DEF MoveCell, IndexMatchesRecords, CellsIndexed
  <2> QED
    BY <2>1, <2>2, <2>3 DEF ReservationsStayFree
<1>9. ASSUME NEW w \in Writers, NEW d \in DOMAIN dirs, NEW p \in DOMAIN dirs,
             NEW n \in ExplicitNames,
             MoveDir(w, d, p, n)
      PROVE ReservationsStayFree'
  <2>1. DOMAIN children' = (DOMAIN children \ {Place(dirs[d])}) \cup {<<p, n>>}
    BY <1>9 DEF MoveDir, Reindexed, Put, Drop
  <2>2. <<p, n>> = Place(dirs[d]) \/ <<p, n>> \notin reservations
    BY <1>9 DEF MoveDir, IsAvailable
  <2>3. Place(dirs[d]) \in DOMAIN children /\ reservations' = reservations
    BY <1>9 DEF MoveDir, IndexMatchesRecords, DirsIndexed
  <2> QED
    BY <2>1, <2>2, <2>3 DEF ReservationsStayFree
<1>10. ASSUME NEW w \in Writers, NEW c \in DOMAIN cells, NEW patch \in Patches,
             SetCellPolicy(w, c, patch)
      PROVE ReservationsStayFree'
  BY <1>10 DEF SetCellPolicy, ReservationsStayFree, TypeOK, Root
<1>11. ASSUME NEW w \in Writers, NEW d \in DOMAIN dirs, NEW patch \in Patches,
             SetDirPolicy(w, d, patch)
      PROVE ReservationsStayFree'
  BY <1>11 DEF SetDirPolicy, ReservationsStayFree, TypeOK, Root
<1>12. ASSUME NEW w \in Writers, NEW c \in DOMAIN cells,
             DeleteCell(w, c)
      PROVE ReservationsStayFree'
  BY <1>12 DEF DeleteCell, CellEntry, DirEntry, Drop, ReservationsStayFree, TypeOK, Root
<1>13. ASSUME NEW w \in Writers, NEW d \in DOMAIN dirs,
             DeleteDir(w, d)
      PROVE ReservationsStayFree'
  BY <1>13 DEF DeleteDir, CellEntry, DirEntry, Drop, ReservationsStayFree, TypeOK, Root
<1>14. CASE UNCHANGED vars
  BY <1>14 DEF vars, ReservationsStayFree
<1> QED
  BY <1>1, <1>2, <1>3, <1>4, <1>5, <1>6, <1>7, <1>8, <1>9, <1>10, <1>11,
     <1>12, <1>13, <1>14 DEF Next

\* Every operation keeps the child index and the records in step.
LEMMA IndexStep ==
  ASSUME RecordsInv, TypeOK', [Next]_vars
  PROVE  IndexMatchesRecords'
<1> USE DEF RecordsInv
<1>1. ASSUME NEW w \in Writers, AcquireWriter(w) PROVE IndexMatchesRecords'
  BY <1>1 DEF AcquireWriter, IndexMatchesRecords, IndexSound, CellsIndexed, DirsIndexed, Place
<1>2. ASSUME NEW w \in Writers, ReleaseWriter(w) PROVE IndexMatchesRecords'
  BY <1>2 DEF ReleaseWriter, IndexMatchesRecords, IndexSound, CellsIndexed, DirsIndexed, Place
<1>3. ASSUME NEW w \in Writers, NEW p \in DOMAIN dirs, NEW n \in ExplicitNames,
             ReserveName(w, p, n)
      PROVE IndexMatchesRecords'
  BY <1>3 DEF ReserveName, AddReservation, IsAvailable, EnsureParent, IndexMatchesRecords, IndexSound, CellsIndexed, DirsIndexed, Place
<1>4. ASSUME NEW w \in Writers, NEW p \in DOMAIN dirs, NEW kind \in Kinds,
             ReserveGeneratedName(w, p, kind)
      PROVE IndexMatchesRecords'
  BY <1>4 DEF ReserveGeneratedName, AdvanceCounter, AddReservation, IsAvailable, EnsureParent, IndexMatchesRecords, IndexSound, CellsIndexed, DirsIndexed, Place
<1>5. ASSUME NEW w \in Writers, NEW p \in DOMAIN dirs, NEW kind \in Kinds,
             GeneratedNameTaken(w, p, kind)
      PROVE IndexMatchesRecords'
  BY <1>5 DEF GeneratedNameTaken, AdvanceCounter, IndexMatchesRecords, IndexSound, CellsIndexed, DirsIndexed, Place
<1>6. ASSUME NEW w \in Writers, NEW r \in reservations,
             CreateCell(w, r[1], r[2])
      PROVE IndexMatchesRecords'
  <2> DEFINE id == next_cell_id + 1
             k0 == <<r[1], r[2]>>
  <2>1. /\ DOMAIN children' = DOMAIN children \cup {k0}
        /\ children'[k0] = CellEntry(id)
        /\ \A k \in DOMAIN children : k # k0 => children'[k] = children[k]
        /\ DOMAIN cells' = DOMAIN cells \cup {id}
        /\ Place(cells'[id]) = k0
        /\ \A c \in DOMAIN cells : c # id => cells'[c] = cells[c]
        /\ dirs' = dirs
    BY <1>6 DEF CreateCell, Place, Put
  <2>2. id \notin DOMAIN cells
    BY DEF IdsIssued, TypeOK
  <2>3. k0 \notin DOMAIN children
    BY <1>6 DEF CreateCell, ConsumeReservation
  <2>10. IndexSound'
    BY <2>1, <2>2, <2>3 DEF IndexMatchesRecords, IndexSound
  <2>11. CellsIndexed'
    BY <2>1, <2>2, <2>3 DEF IndexMatchesRecords, CellsIndexed
  <2>12. DirsIndexed'
    BY <2>1, <2>3 DEF IndexMatchesRecords, DirsIndexed
  <2> QED
    BY <2>10, <2>11, <2>12 DEF IndexMatchesRecords
<1>7. ASSUME NEW w \in Writers, NEW r \in reservations,
             CreateDir(w, r[1], r[2])
      PROVE IndexMatchesRecords'
  <2> DEFINE id == next_dir_id + 1
             k0 == <<r[1], r[2]>>
  <2>1. /\ DOMAIN children' = DOMAIN children \cup {k0}
        /\ children'[k0] = DirEntry(id)
        /\ \A k \in DOMAIN children : k # k0 => children'[k] = children[k]
        /\ DOMAIN dirs' = DOMAIN dirs \cup {id}
        /\ Place(dirs'[id]) = k0
        /\ \A d \in DOMAIN dirs : d # id => dirs'[d] = dirs[d]
        /\ cells' = cells
    BY <1>7 DEF CreateDir, Place, Put
  <2>2. id \notin DOMAIN dirs
    BY DEF IdsIssued, TypeOK
  <2>3. k0 \notin DOMAIN children
    BY <1>7 DEF CreateDir, ConsumeReservation
  <2>10. IndexSound'
    BY <2>1, <2>2, <2>3 DEF IndexMatchesRecords, IndexSound
  <2>11. CellsIndexed'
    BY <2>1, <2>3 DEF IndexMatchesRecords, CellsIndexed
  <2>12. DirsIndexed'
    BY <2>1, <2>2, <2>3 DEF IndexMatchesRecords, DirsIndexed
  <2> QED
    BY <2>10, <2>11, <2>12 DEF IndexMatchesRecords
<1>8. ASSUME NEW w \in Writers, NEW c \in DOMAIN cells, NEW p \in DOMAIN dirs,
             NEW n \in ExplicitNames,
             MoveCell(w, c, p, n)
      PROVE IndexMatchesRecords'
  <2> DEFINE k0 == Place(cells[c])
             k1 == <<p, n>>
  <2>1. /\ DOMAIN children' = (DOMAIN children \ {k0}) \cup {k1}
        /\ children'[k1] = CellEntry(c)
        /\ \A k \in DOMAIN children : k # k0 /\ k # k1 => children'[k] = children[k]
    BY <1>8 DEF MoveCell, Reindexed, Put, Drop
  <2>2. /\ DOMAIN cells' = DOMAIN cells
        /\ Place(cells'[c]) = k1
        /\ \A x \in DOMAIN cells : x # c => cells'[x] = cells[x]
        /\ dirs' = dirs
    BY <1>8 DEF MoveCell, Place, Renamed, TypeOK
  <2>3. k1 = k0 \/ k1 \notin DOMAIN children
    BY <1>8 DEF MoveCell, IsAvailable
  <2>4. \A x \in DOMAIN cells : x # c => Place(cells[x]) # k0
    BY EntryFacts DEF IndexMatchesRecords, CellsIndexed
  <2>5. \A x \in DOMAIN dirs \ {Root} : Place(dirs[x]) # k0
    BY EntryFacts DEF IndexMatchesRecords, CellsIndexed, DirsIndexed
  <2>10. IndexSound'
    BY <2>1, <2>2, <2>3 DEF IndexMatchesRecords, IndexSound
  <2>11. CellsIndexed'
    BY <2>1, <2>2, <2>3, <2>4 DEF IndexMatchesRecords, CellsIndexed
  <2>12. DirsIndexed'
    BY <2>1, <2>2, <2>3, <2>5 DEF IndexMatchesRecords, DirsIndexed
  <2> QED
    BY <2>10, <2>11, <2>12 DEF IndexMatchesRecords
<1>9. ASSUME NEW w \in Writers, NEW d \in DOMAIN dirs, NEW p \in DOMAIN dirs,
             NEW n \in ExplicitNames,
             MoveDir(w, d, p, n)
      PROVE IndexMatchesRecords'
  <2> DEFINE k0 == Place(dirs[d])
             k1 == <<p, n>>
  <2>0. d \in DOMAIN dirs \ {Root}
    BY <1>9 DEF MoveDir
  <2>1. /\ DOMAIN children' = (DOMAIN children \ {k0}) \cup {k1}
        /\ children'[k1] = DirEntry(d)
        /\ \A k \in DOMAIN children : k # k0 /\ k # k1 => children'[k] = children[k]
    BY <1>9 DEF MoveDir, Reindexed, Put, Drop
  <2>2. /\ DOMAIN dirs' = DOMAIN dirs
        /\ Place(dirs'[d]) = k1
        /\ \A x \in DOMAIN dirs : x # d => dirs'[x] = dirs[x]
        /\ cells' = cells
    BY <1>9 DEF MoveDir, Place, Renamed, TypeOK
  <2>3. k1 = k0 \/ k1 \notin DOMAIN children
    BY <1>9 DEF MoveDir, IsAvailable
  <2>4. \A x \in DOMAIN cells : Place(cells[x]) # k0
    BY <2>0, EntryFacts DEF IndexMatchesRecords, CellsIndexed, DirsIndexed
  <2>5. \A x \in DOMAIN dirs \ {Root} : x # d => Place(dirs[x]) # k0
    BY <2>0, EntryFacts DEF IndexMatchesRecords, DirsIndexed
  <2>10. IndexSound'
    BY <2>1, <2>2, <2>3 DEF IndexMatchesRecords, IndexSound
  <2>11. CellsIndexed'
    BY <2>1, <2>2, <2>3, <2>4 DEF IndexMatchesRecords, CellsIndexed
  <2>12. DirsIndexed'
    BY <2>0, <2>1, <2>2, <2>3, <2>5 DEF IndexMatchesRecords, DirsIndexed
  <2> QED
    BY <2>10, <2>11, <2>12 DEF IndexMatchesRecords
<1>10. ASSUME NEW w \in Writers, NEW c \in DOMAIN cells, NEW patch \in Patches,
             SetCellPolicy(w, c, patch)
      PROVE IndexMatchesRecords'
  BY <1>10 DEF SetCellPolicy, IndexMatchesRecords, IndexSound, CellsIndexed, DirsIndexed, Place
<1>11. ASSUME NEW w \in Writers, NEW d \in DOMAIN dirs, NEW patch \in Patches,
             SetDirPolicy(w, d, patch)
      PROVE IndexMatchesRecords'
  BY <1>11 DEF SetDirPolicy, IndexMatchesRecords, IndexSound, CellsIndexed, DirsIndexed, Place
<1>12. ASSUME NEW w \in Writers, NEW c \in DOMAIN cells,
             DeleteCell(w, c)
      PROVE IndexMatchesRecords'
  <2> DEFINE k0 == Place(cells[c])
  <2>1. /\ DOMAIN children' = DOMAIN children \ {k0}
        /\ \A k \in DOMAIN children : k # k0 => children'[k] = children[k]
        /\ DOMAIN cells' = DOMAIN cells \ {c}
        /\ \A x \in DOMAIN cells : x # c => cells'[x] = cells[x]
        /\ dirs' = dirs
    BY <1>12, DropFacts DEF DeleteCell
  <2>4. \A x \in DOMAIN cells : x # c => Place(cells[x]) # k0
    BY EntryFacts DEF IndexMatchesRecords, CellsIndexed
  <2>5. \A x \in DOMAIN dirs \ {Root} : Place(dirs[x]) # k0
    BY EntryFacts DEF IndexMatchesRecords, CellsIndexed, DirsIndexed
  <2>10. IndexSound'
    BY <2>1 DEF IndexMatchesRecords, IndexSound
  <2>11. CellsIndexed'
    BY <2>1, <2>4 DEF IndexMatchesRecords, CellsIndexed
  <2>12. DirsIndexed'
    BY <2>1, <2>5 DEF IndexMatchesRecords, DirsIndexed
  <2> QED
    BY <2>10, <2>11, <2>12 DEF IndexMatchesRecords
<1>13. ASSUME NEW w \in Writers, NEW d \in DOMAIN dirs,
             DeleteDir(w, d)
      PROVE IndexMatchesRecords'
  <2> DEFINE k0 == Place(dirs[d])
  <2>0. d \in DOMAIN dirs \ {Root}
    BY <1>13 DEF DeleteDir
  <2>1. /\ DOMAIN children' = DOMAIN children \ {k0}
        /\ \A k \in DOMAIN children : k # k0 => children'[k] = children[k]
        /\ DOMAIN dirs' = DOMAIN dirs \ {d}
        /\ \A x \in DOMAIN dirs : x # d => dirs'[x] = dirs[x]
        /\ cells' = cells
    BY <1>13, DropFacts DEF DeleteDir
  <2>4. \A x \in DOMAIN cells : Place(cells[x]) # k0
    BY <2>0, EntryFacts DEF IndexMatchesRecords, CellsIndexed, DirsIndexed
  <2>5. \A x \in DOMAIN dirs \ {Root} : x # d => Place(dirs[x]) # k0
    BY <2>0, EntryFacts DEF IndexMatchesRecords, DirsIndexed
  <2>10. IndexSound'
    BY <2>1 DEF IndexMatchesRecords, IndexSound
  <2>11. CellsIndexed'
    BY <2>1, <2>4 DEF IndexMatchesRecords, CellsIndexed
  <2>12. DirsIndexed'
    BY <2>0, <2>1, <2>5 DEF IndexMatchesRecords, DirsIndexed
  <2> QED
    BY <2>10, <2>11, <2>12 DEF IndexMatchesRecords
<1>14. CASE UNCHANGED vars
  BY <1>14 DEF vars, IndexMatchesRecords, IndexSound, CellsIndexed, DirsIndexed, Place
<1> QED
  BY <1>1, <1>2, <1>3, <1>4, <1>5, <1>6, <1>7, <1>8, <1>9, <1>10, <1>11,
     <1>12, <1>13, <1>14 DEF Next

----------------------------------------------------------------------------
\* The records' inductive invariant survives every step.
LEMMA RecordsStep ==
  ASSUME RecordsInv, [Next]_vars
  PROVE  RecordsInv'
<1>1. TypeOK'
  BY TypeStep DEF RecordsInv
<1> QED
  BY <1>1, IdsStep, ReservationsStep, IndexStep DEF RecordsInv

\* A step that keeps, or removes, directory records and changes no parent link
\* closes no cycle.
LEMMA FewerDirsNoCycle ==
  ASSUME NoParentCycle, DOMAIN dirs' \subseteq DOMAIN dirs,
         \A d \in DOMAIN dirs' : dirs'[d].parent = dirs[d].parent
  PROVE  NoParentCycle'
BY DEF NoParentCycle

\* The argument for move_dir: a cycle after the move would have to run through
\* the moved directory, hence through its new parent; the part of it that the
\* walk from the new parent visits never met the moved directory, so it was a
\* cycle before the move.
LEMMA CycleStep ==
  ASSUME RecordsInv, NoParentCycle, [Next]_vars
  PROVE  NoParentCycle'
<1> USE DEF RecordsInv
<1>1. ASSUME NEW w \in Writers, NEW r \in reservations,
             CreateDir(w, r[1], r[2])
      PROVE  NoParentCycle'
  <2> DEFINE id == next_dir_id + 1
  <2>1. /\ DOMAIN dirs' = DOMAIN dirs \cup {id}
        /\ dirs'[id].parent = r[1]
        /\ \A d \in DOMAIN dirs : d # id => dirs'[d] = dirs[d]
    BY <1>1 DEF CreateDir, Put
  <2>2. id \notin DOMAIN dirs /\ id # r[1]
    BY DEF IdsIssued, TypeOK
  <2>3. \A d \in DOMAIN dirs : dirs[d].parent # id
    BY NoneAssumption DEF IdsIssued, TypeOK
  <2>4. ASSUME NEW S \in SUBSET DOMAIN dirs', S # {},
               \A d \in S : dirs'[d].parent \in S
        PROVE  FALSE
    <3> DEFINE T == S \ {id}
    <3>1. T \in SUBSET DOMAIN dirs
      BY <2>1
    <3>2. \A d \in T : dirs[d].parent \in T
      BY <2>1, <2>3, <2>4
    <3>3. T # {}
      BY <2>1, <2>2, <2>4
    <3> HIDE DEF T
    <3> QED
      BY <3>1, <3>2, <3>3 DEF NoParentCycle
  <2> HIDE DEF id
  <2> QED
    BY <2>4 DEF NoParentCycle
<1>2. ASSUME NEW w \in Writers, NEW d \in DOMAIN dirs, NEW p \in DOMAIN dirs,
             NEW n \in ExplicitNames, MoveDir(w, d, p, n)
      PROVE  NoParentCycle'
  <2>1. /\ DOMAIN dirs' = DOMAIN dirs
        /\ dirs'[d].parent = p
        /\ \A x \in DOMAIN dirs : x # d => dirs'[x] = dirs[x]
    BY <1>2 DEF MoveDir, Renamed
  <2>2. PICK T \in SUBSET DOMAIN dirs : p \in T /\ UpClosed(T) /\ d \notin T
    BY <1>2 DEF MoveDir, IsDescendant
  <2>3. ASSUME NEW S \in SUBSET DOMAIN dirs, S # {},
               \A x \in S : dirs'[x].parent \in S
        PROVE  FALSE
    <3>1. CASE d \notin S
      BY <2>1, <2>3, <3>1 DEF NoParentCycle
    <3>2. CASE d \in S
      <4> DEFINE U == S \cap T
      <4>1. p \in U
        BY <2>1, <2>2, <2>3, <3>2
      <4>2. \A x \in U : dirs[x].parent \in U
        BY <2>1, <2>2, <2>3 DEF UpClosed
      <4>3. U \in SUBSET DOMAIN dirs /\ U # {}
        BY <4>1
      <4> HIDE DEF U
      <4> QED
        BY <4>2, <4>3 DEF NoParentCycle
    <3> QED
      BY <3>1, <3>2
  <2> QED
    BY <2>1, <2>3 DEF NoParentCycle
<1>3. ASSUME NEW w \in Writers, NEW d \in DOMAIN dirs, NEW patch \in Patches,
             SetDirPolicy(w, d, patch)
      PROVE  NoParentCycle'
  <2>1. DOMAIN dirs' = DOMAIN dirs
        /\ \A x \in DOMAIN dirs : dirs'[x].parent = dirs[x].parent
    BY <1>3 DEF SetDirPolicy, TypeOK
  <2> QED
    BY <2>1, FewerDirsNoCycle
<1>4. ASSUME NEW w \in Writers, NEW d \in DOMAIN dirs, DeleteDir(w, d)
      PROVE  NoParentCycle'
  <2>1. DOMAIN dirs' = DOMAIN dirs \ {d}
        /\ \A x \in DOMAIN dirs : x # d => dirs'[x] = dirs[x]
    BY <1>4 DEF DeleteDir, Drop
  <2> QED
    BY <2>1, FewerDirsNoCycle
<1>5. CASE dirs' = dirs
  BY <1>5 DEF NoParentCycle
<1>6. ASSUME NEW w \in Writers, NEW p, NEW n, NEW kind, NEW c, NEW patch
      PROVE  /\ AcquireWriter(w) => dirs' = dirs
             /\ ReleaseWriter(w) => dirs' = dirs
             /\ ReserveName(w, p, n) => dirs' = dirs
             /\ ReserveGeneratedName(w, p, kind) => dirs' = dirs
             /\ GeneratedNameTaken(w, p, kind) => dirs' = dirs
             /\ CreateCell(w, p, n) => dirs' = dirs
             /\ MoveCell(w, c, p, n) => dirs' = dirs
             /\ SetCellPolicy(w, c, patch) => dirs' = dirs
             /\ DeleteCell(w, c) => dirs' = dirs
  BY DEF AcquireWriter, ReleaseWriter, ReserveName, ReserveGeneratedName,
     GeneratedNameTaken, AdvanceCounter, CreateCell, MoveCell, SetCellPolicy,
     DeleteCell
<1>7. CASE UNCHANGED vars
  BY <1>5, <1>7 DEF vars
<1> QED
  BY <1>1, <1>2, <1>3, <1>4, <1>5, <1>6, <1>7 DEF Next

----------------------------------------------------------------------------
\* The initial namespace holds the root alone and satisfies every invariant.
LEMMA InitInv == Init => RecordsInv /\ LanesIssued /\ NoParentCycle
<1> SUFFICES ASSUME Init PROVE RecordsInv /\ LanesIssued /\ NoParentCycle
  OBVIOUS
<1> USE PatchAssumption, NoneAssumption DEF Init, Root
<1>1. TypeOK
  <2>1. dirs[Root] = [parent |-> None, name |-> None, policy |-> NoPatch, stamp |-> 0]
        /\ DOMAIN dirs = {Root}
    OBVIOUS
  <2>2. \A d \in DOMAIN dirs : dirs[d] \in
          [parent : Nat \cup {None}, name : Names \cup {None},
           policy : Patches, stamp : Nat]
    BY <2>1
  <2> QED
    BY <2>1, <2>2 DEF TypeOK
<1>2. IdsIssued
  BY DEF IdsIssued
<1>3. IndexMatchesRecords /\ ReservationsStayFree
  BY DEF IndexMatchesRecords, IndexSound, CellsIndexed, DirsIndexed,
     ReservationsStayFree
<1>4. LanesIssued
  BY DEF LanesIssued
<1>5. NoParentCycle
  <2>1. DOMAIN dirs = {0} /\ dirs[0].parent = None
    OBVIOUS
  <2>2. ASSUME NEW S \in SUBSET DOMAIN dirs, S # {}
        PROVE  \E d \in S : dirs[d].parent \notin S
    <3>1. 0 \in S
      <4>1. PICK d \in S : TRUE
        BY <2>2
      <4> QED
        BY <2>1, <4>1
    <3>2. None \notin S
      <4>1. None # 0
        <5>1. 0 \in Nat
          OBVIOUS
        <5> QED
          BY <5>1, NoneAssumption, Zenon
      <4>2. \A x \in S : x = 0
        BY <2>1
      <4> QED
        BY <4>1, <4>2, Zenon
    <3> QED
      BY <2>1, <3>1, <3>2
  <2> QED
    BY <2>2 DEF NoParentCycle
<1> QED
  BY <1>1, <1>2, <1>3, <1>4, <1>5 DEF RecordsInv

\* Every reachable namespace satisfies the inductive invariant.
LEMMA Inductive == Spec => [](RecordsInv /\ LanesIssued /\ NoParentCycle)
<1>1. RecordsInv /\ LanesIssued /\ NoParentCycle /\ [Next]_vars
        => (RecordsInv /\ LanesIssued /\ NoParentCycle)'
  BY RecordsStep, LaneStep, CycleStep DEF RecordsInv
<1> QED
  BY InitInv, <1>1, PTL DEF Spec

\* The namespace is type correct in every reachable state.
THEOREM NamespaceTypeOK == Spec => []TypeOK
BY Inductive, PTL DEF RecordsInv

\* The child index and the records agree after any sequence of namespace
\* operations, for any number of writers, names and records.
THEOREM IndexCorrect == Spec => []IndexMatchesRecords
BY Inductive, PTL DEF RecordsInv

\* A reserved name stays free until it is consumed: create_cell and create_dir
\* never fail after they have dropped the reservation.
THEOREM ReservationSafety == Spec => []ReservationsStayFree
BY Inductive, PTL DEF RecordsInv

\* Directory moves never close a cycle, so the parent walks of the namespace
\* terminate.
THEOREM DirectoriesAcyclic == Spec => []NoParentCycle
BY Inductive, PTL

\* At most one writer holds a usable lane token.
THEOREM WriterExclusion == Spec => []LaneExclusive
<1>1. LanesIssued /\ TypeOK => LaneExclusive
  BY DEF LanesIssued, LaneExclusive, RequireWriter, TypeOK
<1> QED
  BY Inductive, <1>1, PTL DEF RecordsInv

----------------------------------------------------------------------------
\* What one step does to the parents and the stamps of the records that live
\* through it.
ParentsKept ==
  /\ \A c \in DOMAIN cells \cap DOMAIN cells' :
       cells[c].parent \in DOMAIN dirs => cells'[c].parent \in DOMAIN dirs'
  /\ \A d \in DOMAIN dirs \cap DOMAIN dirs' :
       dirs[d].parent \in DOMAIN dirs => dirs'[d].parent \in DOMAIN dirs'
StampsKept ==
  /\ \A c \in DOMAIN cells \cap DOMAIN cells' : cells'[c].stamp = cells[c].stamp
  /\ \A d \in DOMAIN dirs \cap DOMAIN dirs' : dirs'[d].stamp = dirs[d].stamp

\* One step keeps every live record's parent alive and its stamp as it was.
LEMMA KeptStep ==
  ASSUME RecordsInv, Next
  PROVE  ParentsKept /\ StampsKept
<1> USE DEF RecordsInv, ParentsKept, StampsKept
<1>1. ASSUME NEW w \in Writers, NEW p, NEW n, NEW kind
      PROVE  /\ AcquireWriter(w) => UNCHANGED <<dirs, cells>>
             /\ ReleaseWriter(w) => UNCHANGED <<dirs, cells>>
             /\ ReserveName(w, p, n) => UNCHANGED <<dirs, cells>>
             /\ ReserveGeneratedName(w, p, kind) => UNCHANGED <<dirs, cells>>
             /\ GeneratedNameTaken(w, p, kind) => UNCHANGED <<dirs, cells>>
  BY DEF AcquireWriter, ReleaseWriter, ReserveName, ReserveGeneratedName,
     GeneratedNameTaken, AdvanceCounter
<1>2. CASE UNCHANGED <<dirs, cells>>
  BY <1>2
<1>3. ASSUME NEW w \in Writers, NEW r \in reservations, CreateCell(w, r[1], r[2])
      PROVE  ParentsKept /\ StampsKept
  <2>1. next_cell_id + 1 \notin DOMAIN cells
    BY DEF IdsIssued, TypeOK
  <2> QED
    BY <1>3, <2>1 DEF CreateCell, Put
<1>4. ASSUME NEW w \in Writers, NEW r \in reservations, CreateDir(w, r[1], r[2])
      PROVE  ParentsKept /\ StampsKept
  <2>1. next_dir_id + 1 \notin DOMAIN dirs
    BY DEF IdsIssued, TypeOK
  <2> QED
    BY <1>4, <2>1 DEF CreateDir, Put
<1>5. ASSUME NEW w \in Writers, NEW c \in DOMAIN cells, NEW p \in DOMAIN dirs,
             NEW n \in ExplicitNames, MoveCell(w, c, p, n)
      PROVE  ParentsKept /\ StampsKept
  BY <1>5 DEF MoveCell, Renamed
<1>6. ASSUME NEW w \in Writers, NEW d \in DOMAIN dirs, NEW p \in DOMAIN dirs,
             NEW n \in ExplicitNames, MoveDir(w, d, p, n)
      PROVE  ParentsKept /\ StampsKept
  BY <1>6 DEF MoveDir, Renamed
<1>7. ASSUME NEW w \in Writers, NEW c \in DOMAIN cells, NEW patch \in Patches,
             SetCellPolicy(w, c, patch)
      PROVE  ParentsKept /\ StampsKept
  BY <1>7 DEF SetCellPolicy, TypeOK
<1>8. ASSUME NEW w \in Writers, NEW d \in DOMAIN dirs, NEW patch \in Patches,
             SetDirPolicy(w, d, patch)
      PROVE  ParentsKept /\ StampsKept
  BY <1>8 DEF SetDirPolicy, TypeOK
<1>9. ASSUME NEW w \in Writers, NEW c \in DOMAIN cells, DeleteCell(w, c)
      PROVE  ParentsKept /\ StampsKept
  BY <1>9 DEF DeleteCell, Drop
<1>10. ASSUME NEW w \in Writers, NEW d \in DOMAIN dirs, DeleteDir(w, d)
       PROVE  ParentsKept /\ StampsKept
  <2>1. /\ DOMAIN dirs' = DOMAIN dirs \ {d}
        /\ \A x \in DOMAIN dirs : x # d => dirs'[x] = dirs[x]
        /\ cells' = cells
    BY <1>10 DEF DeleteDir, Drop
  <2>2. \A c \in DOMAIN cells : cells[c].parent # d
    BY <1>10 DEF DeleteDir, IndexMatchesRecords, CellsIndexed, Place
  <2>3. \A x \in DOMAIN dirs \ {Root} : dirs[x].parent # d
    BY <1>10 DEF DeleteDir, IndexMatchesRecords, DirsIndexed, Place
  <2>4. dirs[Root].parent \notin DOMAIN dirs
    BY NoneAssumption DEF IdsIssued, TypeOK
  <2> QED
    BY <2>1, <2>2, <2>3, <2>4
<1> QED
  BY <1>1, <1>2, <1>3, <1>4, <1>5, <1>6, <1>7, <1>8, <1>9, <1>10 DEF Next

\* No operation takes the parent directory away from a live record.
THEOREM ParentsAreKept == Spec => NoRecordLosesParent
<1>1. RecordsInv /\ [Next]_vars => [ParentsKept]_vars
  BY KeptStep
<1> QED
  BY Inductive, <1>1, PTL DEF Spec, NoRecordLosesParent, ParentsKept

\* Identity survives every move, policy change and creation.
THEOREM IdentityIsStable == Spec => IdentityStable
<1>1. RecordsInv /\ [Next]_vars => [StampsKept]_vars
  BY KeptStep
<1> QED
  BY Inductive, <1>1, PTL DEF Spec, IdentityStable, StampsKept
=============================================================================
