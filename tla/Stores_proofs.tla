--------------------------- MODULE Stores_proofs ---------------------------
(***************************************************************************)
(* Proofs about Stores, for every set of cells, keys, entries, paths and   *)
(* epochs and any number of crashes: the mount table reopens, epochs       *)
(* belong to the present mount, and commits are atomic.                    *)
(***************************************************************************)
EXTENDS Stores, TLAPS

\* Mounts that hold at the same time: none at the root, and no table above
\* another one.
MountsApart ==
  /\ <<>> \notin Mounted
  /\ \A p, q \in Mounted : p # q /\ IsPrefix(p, q) => mounts[p].resource # "table"

\* The same of the descriptors that are still to be mounted again, each of which
\* has a path of its own.
ReopeningApart ==
  \A m, n \in reopening : m # n =>
    /\ m.path # n.path
    /\ IsPrefix(m.path, n.path) => m.descriptor.resource # "table"

\* And of a descriptor against the mounts: it would be accepted now.
ReopeningAccepted ==
  \A m \in reopening : ~ Refused(m.path, m.descriptor.resource)

MountInv == MountsApart /\ ReopeningApart /\ ReopeningAccepted /\ EpochsAgree

\* What the phase of a record says was written is in the stores.
Written(record) ==
  record # NoCommit =>
    /\ record.phase # "prepared" => Extend(source, record.source_writes) = source
    /\ record.phase = "control-committed" =>
         Extend(control, record.control_writes) = control

\* The record in memory and the saved one are of the same commit, and nothing is
\* written before a record is saved.
SameCommit ==
  pending # NoCommit =>
    IF saved = NoCommit THEN pending.phase = "prepared"
    ELSE /\ pending.source_writes = saved.source_writes
         /\ pending.control_writes = saved.control_writes

CommitInv == Written(pending) /\ Written(saved) /\ SameCommit

\* The inductive invariant.
StoresInv == StoresTypeOK /\ MountInv /\ CommitInv

----------------------------------------------------------------------------
(***************************************************************************)
(* Lemmas about the operators.                                             *)
(***************************************************************************)
\* The absent commit and the absent mount are told apart from real ones.
LEMMA AbsentIsDistinct == NoCommit \notin Commits /\ NoMount \notin Descriptors
BY DEF NoCommit, Commits, Phases, NoMount, Descriptors, Resources

\* Writing a set of entries keeps the store's type, and writing them again
\* changes nothing: a replay of a side that was already written is harmless.
LEMMA ExtendSource ==
  ASSUME NEW store \in SourceMaps, NEW writes \in SourceMaps
  PROVE  /\ Extend(store, writes) \in SourceMaps
         /\ Extend(Extend(store, writes), writes) = Extend(store, writes)
BY DEF Extend, SourceMaps

LEMMA ExtendControl ==
  ASSUME NEW store \in ControlMaps, NEW writes \in ControlMaps
  PROVE  /\ Extend(store, writes) \in ControlMaps
         /\ Extend(Extend(store, writes), writes) = Extend(store, writes)
BY DEF Extend, ControlMaps

----------------------------------------------------------------------------
(***************************************************************************)
(* Types.                                                                  *)
(***************************************************************************)
LEMMA InitTyped == StoresInit => StoresTypeOK
BY DEF StoresInit, Init, StoresTypeOK, SourceMaps, ControlMaps

LEMMA CommittingTyped == StoresTypeOK /\ Committing => StoresTypeOK'
<1> SUFFICES ASSUME StoresTypeOK, Committing PROVE StoresTypeOK'
  OBVIOUS
<1> USE DEF StoresTypeOK, storeVars, mountVars
<1>1. ASSUME NEW s \in SourceMaps, NEW c \in ControlMaps, Prepare(s, c)
      PROVE  StoresTypeOK'
  BY <1>1 DEF Prepare, Commits, Phases
<1>2. CASE SavePending
  BY <1>2 DEF SavePending
<1>3. CASE CommitSource
  <2>1. pending \in Commits
    BY <1>3 DEF CommitSource
  <2>2. source' \in SourceMaps
    BY <1>3, <2>1, ExtendSource DEF CommitSource, Commits
  <2>3. pending' \in Commits
    BY <1>3, <2>1 DEF CommitSource, Commits, Phases
  <2> QED
    BY <1>3, <2>2, <2>3 DEF CommitSource
<1>4. ASSUME pending \in Commits, ControlCommitted, source' \in SourceMaps
      PROVE  StoresTypeOK'
  <2>1. control' \in ControlMaps
    BY <1>4, ExtendControl DEF ControlCommitted, Commits
  <2>2. pending' \in Commits
    BY <1>4 DEF ControlCommitted, Commits, Phases
  <2> QED
    BY <1>4, <2>1, <2>2 DEF ControlCommitted
<1>5. CASE CommitControl
  BY <1>4, <1>5 DEF CommitControl
<1>6. CASE RecoverCommit
  <2>1. pending \in Commits
    BY <1>6 DEF RecoverCommit
  <2>2. source' \in SourceMaps
    BY <1>6, <2>1, ExtendSource DEF RecoverCommit, Commits
  <2> QED
    BY <1>4, <1>6, <2>1, <2>2 DEF RecoverCommit
<1>7. CASE Forget
  BY <1>7 DEF Forget
<1> QED
  BY <1>1, <1>2, <1>3, <1>5, <1>6, <1>7 DEF Committing

LEMMA MountingTyped == StoresTypeOK /\ Mounting => StoresTypeOK'
<1> SUFFICES ASSUME StoresTypeOK, Mounting PROVE StoresTypeOK'
  OBVIOUS
<1> USE DEF StoresTypeOK, storeVars, commitVars
<1>1. ASSUME NEW p \in Paths, NEW d \in Descriptors, Mount(p, d)
      PROVE  StoresTypeOK'
  BY <1>1 DEF Mount
<1>2. ASSUME NEW m \in reopening, MountAgain(m)
      PROVE  StoresTypeOK'
  BY <1>2 DEF MountAgain
<1>3. ASSUME NEW p \in Paths, Unmount(p)
      PROVE  StoresTypeOK'
  BY <1>3 DEF Unmount, EpochsWithout
<1>4. ASSUME NEW p \in Paths, NEW e \in Epochs, ObserveMountEpoch(p, e)
      PROVE  StoresTypeOK'
  <2>1. mounts[p] \in Descriptors
    BY <1>4 DEF ObserveMountEpoch, Mounted
  <2>2. [mounts[p] EXCEPT !.epoch = e] \in Descriptors
    BY <2>1 DEF Descriptors
  <2> QED
    BY <1>4, <2>2 DEF ObserveMountEpoch
<1> QED
  BY <1>1, <1>2, <1>3, <1>4 DEF Mounting

LEMMA PuttingTyped == StoresTypeOK /\ Putting => StoresTypeOK'
<1> SUFFICES ASSUME StoresTypeOK, Putting PROVE StoresTypeOK'
  OBVIOUS
<1> USE DEF StoresTypeOK, storeVars, mountVars, commitVars
<1>1. ASSUME NEW id \in CellIds, PutDerived(id)
      PROVE  StoresTypeOK'
  BY <1>1 DEF PutDerived
<1>2. ASSUME NEW id \in CellIds, StoreRemoveSource(id)
      PROVE  StoresTypeOK'
  BY <1>2 DEF StoreRemoveSource, RemoveSource, SourceMaps
<1>3. ASSUME NEW k \in Keys, NEW v \in Values, StorePutControl(k, v)
      PROVE  StoresTypeOK'
  BY <1>3 DEF StorePutControl, PutControl, ControlMaps
<1> QED
  BY <1>1, <1>2, <1>3 DEF Putting

LEMMA NextTyped == StoresTypeOK /\ [StoresNext]_storesVars => StoresTypeOK'
<1> SUFFICES ASSUME StoresTypeOK, [StoresNext]_storesVars PROVE StoresTypeOK'
  OBVIOUS
<1>1. CASE Crash
  BY <1>1 DEF Crash, StoresTypeOK, storeVars, mountVars
<1>2. CASE Reopen
  BY <1>2 DEF Reopen, StoresTypeOK, storeVars, Mounted
<1>3. CASE UNCHANGED storesVars
  BY <1>3 DEF storesVars, StoresTypeOK, storeVars, mountVars, commitVars
<1> QED
  BY <1>1, <1>2, <1>3, CommittingTyped, MountingTyped, PuttingTyped DEF StoresNext

\* The stores keep their types through commits, mounts, crashes and reopens
\* (store.rs, ExprTreeStores).
THEOREM StoresTyped == StoresSpec => []StoresTypeOK
BY InitTyped, NextTyped, PTL DEF StoresSpec

----------------------------------------------------------------------------
(***************************************************************************)
(* Mounts.                                                                 *)
(***************************************************************************)
LEMMA InitMounts == StoresInit => MountInv
BY DEF StoresInit, MountInv, MountsApart, ReopeningApart, ReopeningAccepted, EpochsAgree,
       Mounted

\* mount is the only action that adds to the table, and it asks first.
LEMMA MountKeeps ==
  ASSUME StoresTypeOK, MountInv, NEW path \in Paths, NEW d \in Descriptors, Mount(path, d)
  PROVE  MountInv'
<1>1. /\ reopening = {} /\ reopening' = {} /\ mount_epochs' = mount_epochs
      /\ path # <<>> /\ path \notin Mounted
      /\ mounts' = [mounts EXCEPT ![path] = d]
  BY DEF Mount, Idle, Refused
<1>2. Mounted' = Mounted \cup {path}
  BY <1>1, AbsentIsDistinct DEF Mounted, StoresTypeOK
<1>3. \A q \in Mounted : mounts'[q] = mounts[q] /\ q # path
  BY <1>1 DEF Mounted, StoresTypeOK
<1>4. mounts'[path] = d
  BY <1>1 DEF StoresTypeOK
<1>5. MountsApart'
  <2>1. \A q \in Mounted : /\ IsPrefix(q, path) => mounts[q].resource # "table"
                           /\ IsPrefix(path, q) => d.resource # "table"
    BY DEF Mount, Refused
  <2> QED
    BY <1>1, <1>2, <1>3, <1>4, <2>1 DEF MountInv, MountsApart
<1>6. EpochsAgree'
  BY <1>1, <1>2, <1>3 DEF MountInv, EpochsAgree
<1> QED
  BY <1>1, <1>5, <1>6 DEF MountInv, ReopeningApart, ReopeningAccepted

\* One descriptor of a reopen is mounted: it does not stand in the way of the
\* ones that are left, whichever comes next.
LEMMA MountAgainKeeps ==
  ASSUME StoresTypeOK, MountInv, NEW m \in reopening, MountAgain(m)
  PROVE  MountInv'
<1> DEFINE path == m.path
           d == m.descriptor
<1>1. path \in Paths /\ d \in Descriptors
  BY DEF StoresTypeOK
<1>2. /\ reopening' = reopening \ {m} /\ mount_epochs' = mount_epochs
      /\ ~ Refused(path, d.resource)
      /\ mounts' = [mounts EXCEPT ![path] = d]
  BY DEF MountAgain
<1> HIDE DEF path, d
<1>3. path # <<>> /\ path \notin Mounted
  BY <1>2 DEF Refused
<1>4. Mounted' = Mounted \cup {path}
  BY <1>1, <1>2, AbsentIsDistinct DEF Mounted, StoresTypeOK
<1>5. \A q \in Mounted : mounts'[q] = mounts[q] /\ q # path
  BY <1>2, <1>3 DEF Mounted, StoresTypeOK
<1>6. mounts'[path] = d
  BY <1>1, <1>2 DEF StoresTypeOK
<1>7. \A q \in Mounted : /\ IsPrefix(q, path) => mounts[q].resource # "table"
                         /\ IsPrefix(path, q) => d.resource # "table"
  BY <1>2 DEF Refused
<1>8. MountsApart'
  BY <1>3, <1>4, <1>5, <1>6, <1>7 DEF MountInv, MountsApart
<1>9. ReopeningApart'
  BY <1>2 DEF MountInv, ReopeningApart
<1>10. ReopeningAccepted'
  <2> SUFFICES ASSUME NEW n \in reopening', Refused(n.path, n.descriptor.resource)'
               PROVE  FALSE
    BY DEF ReopeningAccepted
  <2>1. n \in reopening /\ n # m
    BY <1>2
  <2>2. /\ n.path # path
        /\ IsPrefix(path, n.path) => d.resource # "table"
        /\ IsPrefix(n.path, path) => n.descriptor.resource # "table"
    BY <2>1 DEF MountInv, ReopeningApart, path, d
  <2>3. ~ Refused(n.path, n.descriptor.resource)
    BY <2>1 DEF MountInv, ReopeningAccepted
  <2> QED
    BY <1>4, <1>5, <1>6, <2>2, <2>3 DEF Refused
<1>11. EpochsAgree'
  <2> SUFFICES ASSUME NEW p \in Paths, mount_epochs'[p] # None
               PROVE  \/ p \in Mounted' /\ mounts'[p].epoch = mount_epochs'[p]
                      \/ \E n \in reopening' : n.path = p
                                                /\ n.descriptor.epoch = mount_epochs'[p]
    BY DEF EpochsAgree
  <2>1. CASE p \in Mounted /\ mounts[p].epoch = mount_epochs[p]
    BY <1>2, <1>4, <1>5, <2>1
  <2>2. ASSUME NEW n \in reopening, n.path = p, n.descriptor.epoch = mount_epochs[p]
        PROVE  \/ p \in Mounted' /\ mounts'[p].epoch = mount_epochs'[p]
               \/ \E k \in reopening' : k.path = p
                                         /\ k.descriptor.epoch = mount_epochs'[p]
    <3>1. CASE n = m
      BY <1>2, <1>4, <1>6, <2>2, <3>1 DEF path, d
    <3>2. CASE n # m
      BY <1>2, <2>2, <3>2
    <3> QED
      BY <3>1, <3>2
  <2> QED
    BY <1>2, <2>1, <2>2 DEF MountInv, EpochsAgree
<1> QED
  BY <1>8, <1>9, <1>10, <1>11 DEF MountInv

LEMMA UnmountKeeps ==
  ASSUME StoresTypeOK, MountInv, NEW path \in Paths, Unmount(path)
  PROVE  MountInv'
<1>1. /\ reopening = {} /\ reopening' = {}
      /\ mounts' = [mounts EXCEPT ![path] = NoMount]
      /\ mount_epochs' = [mount_epochs EXCEPT ![path] = None]
  BY DEF Unmount, Idle, EpochsWithout
<1>2. /\ Mounted' = Mounted \ {path}
      /\ \A q \in Mounted' : mounts'[q] = mounts[q]
  BY <1>1 DEF Mounted, StoresTypeOK
<1>3. MountsApart'
  BY <1>2 DEF MountInv, MountsApart
<1>4. EpochsAgree'
  BY <1>1, <1>2 DEF MountInv, EpochsAgree, StoresTypeOK
<1> QED
  BY <1>1, <1>3, <1>4 DEF MountInv, ReopeningApart, ReopeningAccepted

LEMMA ObserveKeeps ==
  ASSUME StoresTypeOK, MountInv, NEW path \in Paths, NEW e \in Epochs,
         ObserveMountEpoch(path, e)
  PROVE  MountInv'
<1>1. /\ reopening = {} /\ reopening' = {} /\ path \in Mounted
      /\ mounts' = [mounts EXCEPT ![path].epoch = e]
      /\ mount_epochs' = [mount_epochs EXCEPT ![path] = e]
  BY DEF ObserveMountEpoch, Idle
<1>2. mounts[path] \in Descriptors
  BY <1>1 DEF Mounted, StoresTypeOK
<1>3. /\ mounts'[path] \in Descriptors
      /\ mounts'[path].resource = mounts[path].resource
      /\ mounts'[path].epoch = e
      /\ \A q \in Paths \ {path} : mounts'[q] = mounts[q]
  BY <1>1, <1>2 DEF Descriptors, StoresTypeOK
<1>4. Mounted' = Mounted
  BY <1>1, <1>3, AbsentIsDistinct DEF Mounted
<1>5. MountsApart'
  BY <1>3, <1>4 DEF MountInv, MountsApart, Mounted
<1>6. EpochsAgree'
  BY <1>1, <1>3, <1>4 DEF MountInv, EpochsAgree, StoresTypeOK
<1> QED
  BY <1>1, <1>5, <1>6 DEF MountInv, ReopeningApart, ReopeningAccepted

\* Everything that was mounted is to be mounted again, next to what an
\* interrupted reopen had left.
LEMMA ReopenKeeps ==
  ASSUME StoresTypeOK, MountInv, Reopen
  PROVE  MountInv'
<1>1. /\ mount_epochs' = mount_epochs
      /\ reopening' = reopening \cup {[path |-> p, descriptor |-> mounts[p]] : p \in Mounted}
      /\ Mounted' = {}
  BY DEF Reopen, Mounted
<1>2. \A m \in reopening : /\ m.path \notin Mounted /\ m.path # <<>>
                           /\ \A q \in Mounted :
                                /\ IsPrefix(q, m.path) => mounts[q].resource # "table"
                                /\ IsPrefix(m.path, q) => m.descriptor.resource # "table"
  BY DEF MountInv, ReopeningAccepted, Refused
<1>3. \A m \in reopening' : \/ m \in reopening
                            \/ /\ m.path \in Mounted
                               /\ m = [path |-> m.path, descriptor |-> mounts[m.path]]
                               /\ m.descriptor = mounts[m.path]
  BY <1>1
<1>4. MountsApart'
  BY <1>1 DEF MountsApart
<1>5. ReopeningApart'
  <2> SUFFICES ASSUME NEW m \in reopening', NEW n \in reopening', m # n
               PROVE  /\ m.path # n.path
                      /\ IsPrefix(m.path, n.path) => m.descriptor.resource # "table"
    BY DEF ReopeningApart
  <2>1. CASE m \in reopening /\ n \in reopening
    BY <2>1 DEF MountInv, ReopeningApart
  <2>2. CASE m \in reopening /\ n \notin reopening
    BY <1>2, <1>3, <2>2
  <2>3. CASE m \notin reopening /\ n \in reopening
    BY <1>2, <1>3, <2>3
  <2>4. CASE m \notin reopening /\ n \notin reopening
    BY <1>3, <2>4 DEF MountInv, MountsApart
  <2> QED
    BY <2>1, <2>2, <2>3, <2>4
<1>6. ReopeningAccepted'
  <2> SUFFICES ASSUME NEW m \in reopening', Refused(m.path, m.descriptor.resource)'
               PROVE  FALSE
    BY DEF ReopeningAccepted
  <2>1. m.path # <<>>
    BY <1>2, <1>3 DEF MountInv, MountsApart
  <2> QED
    BY <1>1, <2>1 DEF Refused
<1>7. EpochsAgree'
  <2> SUFFICES ASSUME NEW p \in Paths, mount_epochs[p] # None
               PROVE  \E n \in reopening' : n.path = p
                                             /\ n.descriptor.epoch = mount_epochs[p]
    BY <1>1 DEF EpochsAgree
  <2>1. CASE p \in Mounted /\ mounts[p].epoch = mount_epochs[p]
    <3>1. [path |-> p, descriptor |-> mounts[p]] \in reopening'
      BY <1>1, <2>1
    <3> QED
      BY <2>1, <3>1
  <2>2. CASE \E n \in reopening : n.path = p /\ n.descriptor.epoch = mount_epochs[p]
    BY <1>1, <2>2
  <2> QED
    BY <2>1, <2>2 DEF MountInv, EpochsAgree
<1> QED
  BY <1>4, <1>5, <1>6, <1>7 DEF MountInv

LEMMA NextMounts ==
  ASSUME StoresTypeOK, MountInv, [StoresNext]_storesVars
  PROVE  MountInv'
<1>1. CASE UNCHANGED mountVars
  BY <1>1 DEF mountVars, MountInv, MountsApart, ReopeningApart, ReopeningAccepted,
              EpochsAgree, Mounted, Refused
<1>2. CASE Mounting
  BY <1>2, MountKeeps, MountAgainKeeps, UnmountKeeps, ObserveKeeps DEF Mounting
<1>3. CASE Reopen
  BY <1>3, ReopenKeeps
<1>4. Committing \/ Putting \/ Crash \/ UNCHANGED storesVars => UNCHANGED mountVars
  BY DEF Committing, Prepare, SavePending, CommitSource, CommitControl, ControlCommitted,
         RecoverCommit, Forget, Putting, PutDerived, StoreRemoveSource, StorePutControl,
         Crash, storesVars
<1> QED
  BY <1>1, <1>2, <1>3, <1>4 DEF StoresNext

LEMMA MountInvariance == StoresSpec => []MountInv
BY InitMounts, NextMounts, StoresTyped, PTL DEF StoresSpec

\* A reopen never fails half way: whatever was mounted, unmounted and observed
\* before, and wherever earlier reopens were interrupted, the checks of mount
\* accept every persisted descriptor in whatever order they come (store.rs reopen).
THEOREM MountTableReopens == StoresSpec => []ReopenNeverRefused
<1>1. MountInv => ReopenNeverRefused
  BY DEF MountInv, ReopeningAccepted, ReopenNeverRefused
<1> QED
  BY <1>1, MountInvariance, PTL

\* The control store never attributes the epoch of an earlier mount to a later
\* one at the same path (store.rs unmount, observe_mount_epoch).
THEOREM EpochsAreCurrent == StoresSpec => []EpochsAgree
<1>1. MountInv => EpochsAgree
  BY DEF MountInv
<1> QED
  BY <1>1, MountInvariance, PTL

----------------------------------------------------------------------------
(***************************************************************************)
(* Commits.                                                                *)
(***************************************************************************)
LEMMA InitCommits == StoresInit => CommitInv
BY DEF StoresInit, CommitInv, Written, SameCommit

\* What is written again is written already.
LEMMA WriteSource ==
  ASSUME StoresTypeOK, CommitInv, pending \in Commits, saved # NoCommit,
         source' = Extend(source, pending.source_writes)
  PROVE  /\ Extend(source', pending.source_writes) = source'
         /\ Extend(source', saved.source_writes) = source'
<1>1. pending.source_writes \in SourceMaps /\ source \in SourceMaps
  BY DEF StoresTypeOK, Commits
<1>2. Extend(source', pending.source_writes) = source'
  BY <1>1, ExtendSource
<1>3. pending.source_writes = saved.source_writes
  BY AbsentIsDistinct DEF CommitInv, SameCommit
<1> QED
  BY <1>2, <1>3

LEMMA WriteControl ==
  ASSUME StoresTypeOK, CommitInv, pending \in Commits, saved # NoCommit,
         control' = Extend(control, pending.control_writes)
  PROVE  /\ Extend(control', pending.control_writes) = control'
         /\ Extend(control', saved.control_writes) = control'
<1>1. pending.control_writes \in ControlMaps /\ control \in ControlMaps
  BY DEF StoresTypeOK, Commits
<1>2. Extend(control', pending.control_writes) = control'
  BY <1>1, ExtendControl
<1>3. pending.control_writes = saved.control_writes
  BY AbsentIsDistinct DEF CommitInv, SameCommit
<1> QED
  BY <1>2, <1>3

LEMMA CommittingKeeps ==
  ASSUME StoresTypeOK, CommitInv, Committing
  PROVE  CommitInv'
<1>1. ASSUME NEW s \in SourceMaps, NEW c \in ControlMaps, Prepare(s, c)
      PROVE  CommitInv'
  BY <1>1, AbsentIsDistinct DEF Prepare, Idle, storeVars, CommitInv, Written, SameCommit
<1>2. CASE SavePending
  BY <1>2 DEF SavePending, CommitInv, Written, SameCommit
<1>3. CASE CommitSource
  <2>1. /\ pending \in Commits /\ saved # NoCommit /\ saved' = saved /\ control' = control
        /\ pending.phase = "prepared"
        /\ source' = Extend(source, pending.source_writes)
        /\ pending' = [pending EXCEPT !.phase = "source-committed"]
    BY <1>3 DEF CommitSource, StoresTypeOK
  <2>2. /\ Extend(source', pending.source_writes) = source'
        /\ Extend(source', saved.source_writes) = source'
    BY <2>1, WriteSource
  <2>3. /\ pending'.phase = "source-committed"
        /\ pending'.source_writes = pending.source_writes
        /\ pending'.control_writes = pending.control_writes
    BY <2>1 DEF Commits
  <2>4. Written(pending)' /\ Written(saved)'
    BY <2>1, <2>2, <2>3 DEF CommitInv, Written
  <2> QED
    BY <2>1, <2>3, <2>4, AbsentIsDistinct DEF CommitInv, SameCommit
<1>4. ASSUME pending \in Commits, saved # NoCommit, ControlCommitted,
             Extend(source', pending.source_writes) = source',
             Extend(source', saved.source_writes) = source'
      PROVE  CommitInv'
  <2>1. /\ Extend(control', pending.control_writes) = control'
        /\ Extend(control', saved.control_writes) = control'
    BY <1>4, WriteControl DEF ControlCommitted
  <2>2. /\ pending'.phase = "control-committed"
        /\ pending'.source_writes = pending.source_writes
        /\ pending'.control_writes = pending.control_writes
        /\ saved' = saved
    BY <1>4 DEF ControlCommitted, Commits
  <2>3. Written(pending)' /\ Written(saved)'
    BY <1>4, <2>1, <2>2 DEF Written
  <2> QED
    BY <1>4, <2>2, <2>3, AbsentIsDistinct DEF CommitInv, SameCommit
<1>5. CASE CommitControl
  <2>1. /\ pending \in Commits /\ saved # NoCommit /\ source' = source
        /\ pending.phase = "source-committed" /\ ControlCommitted
    BY <1>5 DEF CommitControl, StoresTypeOK
  <2>2. /\ Extend(source, pending.source_writes) = source
        /\ pending.source_writes = saved.source_writes
    BY <2>1, AbsentIsDistinct DEF CommitInv, Written, SameCommit
  <2> QED
    BY <1>4, <2>1, <2>2
<1>6. CASE RecoverCommit
  <2>1. pending \in Commits /\ saved # NoCommit /\ ControlCommitted
    BY <1>6 DEF RecoverCommit, StoresTypeOK
  <2>2. /\ Extend(source', pending.source_writes) = source'
        /\ Extend(source', saved.source_writes) = source'
    <3>1. CASE pending.phase = "prepared"
      BY <1>6, <2>1, <3>1, WriteSource DEF RecoverCommit
    <3>2. CASE pending.phase # "prepared"
      <4>1. source' = source
        BY <1>6, <3>2 DEF RecoverCommit
      <4>2. /\ Extend(source, pending.source_writes) = source
            /\ pending.source_writes = saved.source_writes
        BY <2>1, <3>2, AbsentIsDistinct DEF CommitInv, Written, SameCommit
      <4> QED
        BY <4>1, <4>2
    <3> QED
      BY <3>1, <3>2
  <2> QED
    BY <1>4, <2>1, <2>2
<1>7. CASE Forget
  BY <1>7 DEF Forget, storeVars, CommitInv, Written, SameCommit
<1> QED
  BY <1>1, <1>2, <1>3, <1>5, <1>6, <1>7 DEF Committing

LEMMA NextCommits ==
  ASSUME StoresTypeOK, CommitInv, [StoresNext]_storesVars
  PROVE  CommitInv'
<1> USE DEF CommitInv, Written, SameCommit
<1>1. CASE Mounting
  BY <1>1 DEF Mounting, Mount, MountAgain, Unmount, ObserveMountEpoch, storeVars, commitVars
<1>2. CASE Putting
  BY <1>2 DEF Putting, PutDerived, StoreRemoveSource, StorePutControl, Idle, commitVars
<1>3. CASE Crash
  BY <1>3 DEF Crash, storeVars
<1>4. CASE Reopen
  BY <1>4 DEF Reopen, storeVars
<1>5. CASE UNCHANGED storesVars
  BY <1>5 DEF storesVars, storeVars, commitVars
<1> QED
  BY <1>1, <1>2, <1>3, <1>4, <1>5, CommittingKeeps DEF StoresNext

LEMMA CommitInvariance == StoresSpec => []CommitInv
BY InitCommits, NextCommits, StoresTyped, PTL DEF StoresSpec

----------------------------------------------------------------------------
(***************************************************************************)
(* Stores implements AtomicStores.                                         *)
(***************************************************************************)
LEMMA InitRefined == StoresInit => Atomic!Init
BY DEF StoresInit, Init, Atomic!Init, Applied

\* The step that is the commit: the record of a prepared commit is saved.
LEMMA SaveRefined ==
  ASSUME StoresTypeOK, CommitInv, SavePending
  PROVE  Atomic!Next \/ UNCHANGED Atomic!vars
<1>1. pending \in Commits /\ source' = source /\ control' = control /\ saved' = pending
  BY DEF SavePending, StoresTypeOK
<1>2. CASE saved = NoCommit
  <2>1. Atomic!Commit(pending.source_writes, pending.control_writes)
    BY <1>1, <1>2, AbsentIsDistinct
       DEF SavePending, Operate, Applied, Extend, Atomic!Commit, Atomic!Operate, Atomic!Extend
  <2>2. pending.source_writes \in Atomic!SourceMaps
        /\ pending.control_writes \in Atomic!ControlMaps
    BY <1>1 DEF Commits, SourceMaps, ControlMaps, Atomic!SourceMaps, Atomic!ControlMaps
  <2> QED
    BY <2>1, <2>2 DEF Atomic!Next
<1>3. CASE saved # NoCommit
  BY <1>1, <1>3, AbsentIsDistinct DEF SavePending, CommitInv, SameCommit, Applied, Atomic!vars
<1> QED
  BY <1>2, <1>3

\* The writes of a commit whose record is saved are applied already.
LEMMA WritesHidden ==
  ASSUME StoresTypeOK, CommitInv, CommitSource \/ CommitControl \/ RecoverCommit
  PROVE  UNCHANGED Atomic!vars
<1>1. /\ pending \in Commits /\ saved # NoCommit /\ saved' = saved /\ operation' = operation
      /\ source' = source \/ source' = Extend(source, pending.source_writes)
      /\ control' = control \/ control' = Extend(control, pending.control_writes)
  BY DEF CommitSource, CommitControl, RecoverCommit, ControlCommitted, StoresTypeOK
<1>2. /\ pending.source_writes = saved.source_writes
      /\ pending.control_writes = saved.control_writes
  BY <1>1, AbsentIsDistinct DEF CommitInv, SameCommit
<1>3. Extend(source', saved.source_writes) = Extend(source, saved.source_writes)
  BY <1>1, <1>2, WriteSource
<1>4. Extend(control', saved.control_writes) = Extend(control, saved.control_writes)
  BY <1>1, <1>2, WriteControl
<1> QED
  BY <1>1, <1>3, <1>4 DEF Applied, Atomic!vars

\* A record is forgotten only when both stores hold what it wrote.
LEMMA ForgetHidden ==
  ASSUME StoresTypeOK, CommitInv, Forget
  PROVE  UNCHANGED Atomic!vars
<1>1. /\ pending \in Commits /\ pending.phase = "control-committed"
      /\ source' = source /\ control' = control /\ operation' = operation
      /\ saved' = NoCommit
  BY DEF Forget, storeVars, StoresTypeOK
<1>2. /\ Extend(source, saved.source_writes) = source
      /\ Extend(control, saved.control_writes) = control
  BY <1>1, AbsentIsDistinct DEF CommitInv, Written, SameCommit
<1> QED
  BY <1>1, <1>2 DEF Applied, Atomic!vars

\* The single writes of an idle host are those of AtomicStores.
LEMMA PuttingRefined ==
  ASSUME Putting
  PROVE  Atomic!Next \/ UNCHANGED Atomic!vars
<1>1. ASSUME NEW id \in CellIds, PutDerived(id)
      PROVE  UNCHANGED Atomic!vars
  BY <1>1 DEF PutDerived, storeVars, commitVars, Applied, Atomic!vars
<1>2. ASSUME NEW id \in CellIds, StoreRemoveSource(id)
      PROVE  Atomic!RemoveSource(id)
  BY <1>2 DEF StoreRemoveSource, RemoveSource, Idle, commitVars, Operate, Applied,
              Atomic!RemoveSource, Atomic!Operate
<1>3. ASSUME NEW k \in Keys, NEW v \in Values, StorePutControl(k, v)
      PROVE  Atomic!PutControl(k, v)
  BY <1>3 DEF StorePutControl, PutControl, Idle, commitVars, Operate, Applied,
              Atomic!PutControl, Atomic!Operate
<1> QED
  BY <1>1, <1>2, <1>3 DEF Putting, Atomic!Next

LEMMA NextRefined ==
  ASSUME StoresTypeOK, CommitInv, [StoresNext]_storesVars
  PROVE  [Atomic!Next]_(Atomic!vars)
<1>1. CASE \E s \in SourceMaps, c \in ControlMaps : Prepare(s, c)
  BY <1>1 DEF Prepare, storeVars, Applied, Atomic!vars
<1>2. CASE Mounting
  BY <1>2 DEF Mounting, Mount, MountAgain, Unmount, ObserveMountEpoch, storeVars, commitVars,
              Applied, Atomic!vars
<1>3. CASE Crash \/ Reopen
  BY <1>3 DEF Crash, Reopen, storeVars, Applied, Atomic!vars
<1>4. CASE UNCHANGED storesVars
  BY <1>4 DEF storesVars, storeVars, commitVars, Applied, Atomic!vars
<1> QED
  BY <1>1, <1>2, <1>3, <1>4, SaveRefined, WritesHidden, ForgetHidden, PuttingRefined
     DEF StoresNext, Committing

\* A source/control commit is one step for every reader that recovers first: it
\* happens when its record is saved, and neither a crash between the two sides,
\* nor a replay of what was written, nor the end of the record shows
\* (store.rs prepare_source_control_commit, recover_commit).
THEOREM CommitsAtomic == StoresSpec => CommitsAreAtomic
BY InitRefined, NextRefined, StoresTyped, CommitInvariance, PTL
   DEF StoresSpec, CommitsAreAtomic, Atomic!Spec
=============================================================================
