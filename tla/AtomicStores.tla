---------------------------- MODULE AtomicStores ----------------------------
(***************************************************************************)
(* What the stores promise of a commit: "the transaction boundary is       *)
(* exactly source plus control" (sim-expr-tree-core/src/store.rs,          *)
(* prepare_source_control_commit).  A commit writes authored sources and   *)
(* control entries in one step, and no crash shows.                        *)
(***************************************************************************)
CONSTANTS
  CellIds, Keys,        \* the keys of the two stores
  Entries, Values,      \* and what they may hold
  None                  \* no entry; in a write, nothing to write

ASSUME NoneAssumption == None \notin Entries \cup Values

VARIABLES
  source, control,
  operation         \* whether the number of operations so far is odd

vars == <<source, control, operation>>

SourceMaps == [CellIds -> Entries \cup {None}]
ControlMaps == [Keys -> Values \cup {None}]

\* BTreeMap::extend
Extend(store, writes) ==
  [k \in DOMAIN store |-> IF writes[k] = None THEN store[k] ELSE writes[k]]

\* What changes, changes by an operation of the host.
Operate == operation' = ~ operation

----------------------------------------------------------------------------
Init ==
  /\ source = [c \in CellIds |-> None]
  /\ control = [k \in Keys |-> None]
  /\ operation = FALSE

Commit(source_writes, control_writes) ==
  /\ Operate
  /\ source' = Extend(source, source_writes)
  /\ control' = Extend(control, control_writes)

PutControl(key, value) ==
  /\ Operate
  /\ control' = [control EXCEPT ![key] = value]
  /\ UNCHANGED source

RemoveSource(id) ==
  /\ Operate
  /\ source' = [source EXCEPT ![id] = None]
  /\ UNCHANGED control

Next ==
  \/ \E s \in SourceMaps, c \in ControlMaps : Commit(s, c)
  \/ \E k \in Keys, v \in Values : PutControl(k, v)
  \/ \E id \in CellIds : RemoveSource(id)

Spec == Init /\ [][Next]_vars
=============================================================================
