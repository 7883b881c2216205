------------------------------- MODULE Stores -------------------------------
(***************************************************************************)
(* The typed stores (sim-expr-tree-core/src/store.rs): authored sources,   *)
(* control entries, derived entries and mount descriptors.                 *)
(*                                                                         *)
(* Source and control lie in separate backends.  A commit to both is       *)
(* prepared as one record, which the host saves before the first write and *)
(* forgets after the last; a process may end between any two steps, and    *)
(* the next one reopens the stores and replays the record.  commit_source  *)
(* and commit_control check no phase: that the source side comes first is  *)
(* the caller's doing (runtime.rs:307) and a guard of the actions here.    *)
(***************************************************************************)
EXTENDS Naturals, Sequences, SequencesExt, AtomicStores

CONSTANTS
  Paths,            \* where a mount may be asked for; <<>> is the root
  Epochs            \* the generations a backend may report

ASSUME StoresAssumption ==
  /\ Paths \subseteq Seq(STRING)
  /\ Epochs \subseteq Nat

VARIABLES
  mount_epochs,     \* the "mount-epoch:<path>" entries of the control store
  mounts,           \* path -> descriptor, or none
  derived,          \* the cells with a derived entry
  pending,          \* the commit under way, or none
  saved,            \* external: the record of it that survives a crash, or none
  running,          \* whether a process has the stores open
  reopening         \* the descriptors a reopen has not mounted yet

storeVars == <<source, control, operation>>
mountVars == <<mount_epochs, mounts, reopening>>
commitVars == <<pending, saved>>
storesVars == <<storeVars, mountVars, commitVars, derived, running>>

Resources == {"table", "dir"}
Phases == {"prepared", "source-committed", "control-committed"}
NoCommit == [phase |-> "none"]
Commits == [source_writes : SourceMaps, control_writes : ControlMaps, phase : Phases]
NoMount == [resource |-> "none"]
Descriptors == [resource : Resources, epoch : Epochs]

Mounted == {p \in Paths : mounts[p] # NoMount}

\* Between operations of the host: the stores are open and every commit is done.
Idle == running /\ reopening = {} /\ pending = NoCommit /\ saved = NoCommit

StoresInit ==
  /\ Init
  /\ mount_epochs = [p \in Paths |-> None] /\ mounts = [p \in Paths |-> NoMount]
  /\ derived = {} /\ running = TRUE /\ reopening = {}
  /\ pending = NoCommit /\ saved = NoCommit

----------------------------------------------------------------------------
(***************************************************************************)
(* A source/control commit.                                                *)
(***************************************************************************)
\* prepare_source_control_commit
Prepare(source_writes, control_writes) ==
  /\ Idle
  /\ pending' = [source_writes |-> source_writes, control_writes |-> control_writes,
                 phase |-> "prepared"]
  /\ UNCHANGED <<storeVars, mountVars, saved, derived, running>>

\* External: the host saves the record, at once or after a phase.
SavePending ==
  /\ running /\ pending # NoCommit /\ saved # pending
  /\ saved' = pending
  /\ IF saved = NoCommit THEN Operate ELSE UNCHANGED operation
  /\ UNCHANGED <<source, control, mountVars, pending, derived, running>>

\* commit_source
CommitSource ==
  /\ running /\ reopening = {} /\ pending # NoCommit /\ saved # NoCommit
  /\ pending.phase = "prepared"
  /\ source' = Extend(source, pending.source_writes)
  /\ pending' = [pending EXCEPT !.phase = "source-committed"]
  /\ UNCHANGED <<control, operation, mountVars, saved, derived, running>>

ControlCommitted ==
  /\ control' = Extend(control, pending.control_writes)
  /\ pending' = [pending EXCEPT !.phase = "control-committed"]
  /\ UNCHANGED <<operation, mountVars, saved, derived, running>>

\* Mutant: the control side may come first, and its phase passes the source's.
CommitControlFirst ==
  /\ running /\ reopening = {} /\ pending # NoCommit /\ saved # NoCommit
  /\ ControlCommitted
  /\ UNCHANGED source

\* commit_control, "Persist the control side of a source-committed commit."
CommitControl ==
  /\ running /\ reopening = {} /\ pending # NoCommit /\ saved # NoCommit
  /\ pending.phase = "source-committed"
  /\ ControlCommitted
  /\ UNCHANGED source

\* Mutant: a record whose source side was written is taken to be done.
RecoverPreparedOnly ==
  /\ running /\ reopening = {} /\ pending # NoCommit /\ saved # NoCommit
  /\ pending.phase = "prepared"
  /\ source' = Extend(source, pending.source_writes)
  /\ ControlCommitted

\* recover_commit: the phases that are missing, in one call.
RecoverCommit ==
  /\ running /\ reopening = {} /\ pending # NoCommit /\ saved # NoCommit
  /\ pending.phase # "control-committed"
  /\ source' = IF pending.phase = "prepared"
                 THEN Extend(source, pending.source_writes) ELSE source
  /\ ControlCommitted

\* External: the host forgets a commit that is done.
Forget ==
  /\ running /\ pending # NoCommit /\ pending.phase = "control-committed"
  /\ pending' = NoCommit /\ saved' = NoCommit
  /\ UNCHANGED <<storeVars, mountVars, derived, running>>

----------------------------------------------------------------------------
(***************************************************************************)
(* Crash and reopen.                                                       *)
(***************************************************************************)
\* External: the process ends.  Derived entries are rebuildable and may be lost.
Crash ==
  /\ running
  /\ running' = FALSE
  /\ pending' = NoCommit
  /\ derived' \in {derived, {}}
  /\ UNCHANGED <<storeVars, mountVars, saved>>

\* reopen: the stores are taken over; the persisted descriptors, in whatever
\* order they come, are mounted again one by one.
Reopen ==
  /\ ~ running /\ running' = TRUE
  /\ pending' = saved
  /\ reopening' = reopening \cup {[path |-> p, descriptor |-> mounts[p]] : p \in Mounted}
  /\ mounts' = [p \in Paths |-> NoMount]
  /\ UNCHANGED <<storeVars, mount_epochs, saved, derived>>

----------------------------------------------------------------------------
(***************************************************************************)
(* Mounts.                                                                 *)
(***************************************************************************)
\* Mutant: a mount is checked against the mounts above it only.
RefusedAbove(path, resource) ==
  \/ path = <<>> \/ path \in Mounted
  \/ \E q \in Mounted : IsPrefix(q, path) /\ mounts[q].resource = "table"

\* validate_mount and mount: not at the root, not twice, not below a table and
\* not as a table above a mount.
Refused(path, resource) ==
  \/ path = <<>> \/ path \in Mounted
  \/ \E q \in Mounted : \/ IsPrefix(q, path) /\ mounts[q].resource = "table"
                        \/ IsPrefix(path, q) /\ resource = "table"

Mount(path, descriptor) ==
  /\ Idle
  /\ ~ Refused(path, descriptor.resource)
  /\ mounts' = [mounts EXCEPT ![path] = descriptor]
  /\ UNCHANGED <<storeVars, mount_epochs, reopening, commitVars, derived, running>>

\* The loop of reopen; a refused descriptor ends it with an error.
MountAgain(m) ==
  /\ running /\ m \in reopening
  /\ ~ Refused(m.path, m.descriptor.resource)
  /\ mounts' = [mounts EXCEPT ![m.path] = m.descriptor]
  /\ reopening' = reopening \ {m}
  /\ UNCHANGED <<storeVars, mount_epochs, commitVars, derived, running>>

\* Mutant: the epoch entry of an unmounted path stays behind.
EpochsWithoutNone(path) == mount_epochs
EpochsWithout(path) == [mount_epochs EXCEPT ![path] = None]

Unmount(path) ==
  /\ Idle /\ path \in Mounted
  /\ mounts' = [mounts EXCEPT ![path] = NoMount]
  /\ mount_epochs' = EpochsWithout(path)
  /\ UNCHANGED <<storeVars, reopening, commitVars, derived, running>>

ObserveMountEpoch(path, epoch) ==
  /\ Idle /\ path \in Mounted
  /\ mounts' = [mounts EXCEPT ![path].epoch = epoch]
  /\ mount_epochs' = [mount_epochs EXCEPT ![path] = epoch]
  /\ UNCHANGED <<storeVars, reopening, commitVars, derived, running>>

----------------------------------------------------------------------------
\* put_derived, put_control and remove_source
PutDerived(id) ==
  /\ Idle
  /\ derived' = derived \cup {id}
  /\ UNCHANGED <<storeVars, mountVars, commitVars, running>>

StorePutControl(key, value) ==
  /\ Idle
  /\ PutControl(key, value)
  /\ UNCHANGED <<mountVars, commitVars, derived, running>>

StoreRemoveSource(id) ==
  /\ Idle
  /\ RemoveSource(id)
  /\ UNCHANGED <<mountVars, commitVars, derived, running>>

----------------------------------------------------------------------------
Committing ==
  \/ \E s \in SourceMaps, c \in ControlMaps : Prepare(s, c)
  \/ SavePending \/ CommitSource \/ CommitControl \/ RecoverCommit \/ Forget

Mounting ==
  \/ \E p \in Paths, d \in Descriptors : Mount(p, d)
  \/ \E m \in reopening : MountAgain(m)
  \/ \E p \in Paths : Unmount(p)
  \/ \E p \in Paths, e \in Epochs : ObserveMountEpoch(p, e)

Putting ==
  \/ \E id \in CellIds : PutDerived(id) \/ StoreRemoveSource(id)
  \/ \E k \in Keys, v \in Values : StorePutControl(k, v)

StoresNext == Committing \/ Mounting \/ Putting \/ Crash \/ Reopen

StoresSpec == StoresInit /\ [][StoresNext]_storesVars

\* A host that runs replays the record and reopens after a crash.
StoresFairness ==
  /\ WF_storesVars(RecoverCommit) /\ WF_storesVars(Forget) /\ WF_storesVars(Reopen)
  /\ WF_storesVars(\E m \in reopening : MountAgain(m))

FairStoresSpec == StoresSpec /\ StoresFairness

----------------------------------------------------------------------------
StoresTypeOK ==
  /\ source \in SourceMaps /\ control \in ControlMaps
  /\ mount_epochs \in [Paths -> Epochs \cup {None}]
  /\ mounts \in [Paths -> Descriptors \cup {NoMount}]
  /\ derived \subseteq CellIds
  /\ pending \in Commits \cup {NoCommit} /\ saved \in Commits \cup {NoCommit}
  /\ running \in BOOLEAN
  /\ reopening \subseteq [path : Paths, descriptor : Descriptors]

\* A saved record is as good as applied: what a reader of both stores will find
\* once recovery has run.
Applied(store, writes) == IF saved = NoCommit THEN store ELSE Extend(store, writes)
Atomic == INSTANCE AtomicStores
            WITH source <- Applied(source, saved.source_writes),
                 control <- Applied(control, saved.control_writes)

\* A commit happens in one step, when its record is saved: neither a crash
\* between the two sides nor a replay of a side that was already written shows.
CommitsAreAtomic == Atomic!Spec

\* "Recovery replays the same pending record until both sides are durable": unless
\* the process ends again and again, no commit stays half done.
CommitsFinish == <>[]running => []<>(saved = NoCommit)

\* The mount table always reopens: the checks accept every descriptor again, in
\* whatever order the persisted ones come.
ReopenNeverRefused ==
  running => \A m \in reopening : ~ Refused(m.path, m.descriptor.resource)

\* The epoch entry of a path is the epoch of what is mounted there now, never of
\* an earlier mount.
EpochsAgree ==
  \A p \in Paths : mount_epochs[p] # None =>
    \/ p \in Mounted /\ mounts[p].epoch = mount_epochs[p]
    \/ \E m \in reopening : m.path = p /\ m.descriptor.epoch = mount_epochs[p]
=============================================================================
