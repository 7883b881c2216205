---------------------------- MODULE TreeRuntime ----------------------------
(***************************************************************************)
(* The live tree of the runtime library                                    *)
(* (sim-lib-expr-tree/src/runtime.rs): one TreeState keeps the same tree   *)
(* five times - the namespace records, the path-keyed entries and cells,   *)
(* the source store with the mounts, and the calculator's cells and        *)
(* mounts - and every operation updates them one after the other.          *)
(*                                                                         *)
(* An operation holds the mutex of its TreeHandle from its first check to  *)
(* its last write, so it is one action; a failure between two writes keeps *)
(* the writes made so far.  An operation refused before its first write is *)
(* not a step.                                                             *)
(*                                                                         *)
(* A path is the sequence of its names and a node id is <<kind, number>>.  *)
(* The namespace is reduced to its live records: Namespace shows that its  *)
(* index holds exactly these, and with_writer acquires and releases the    *)
(* lane within the operation.  Policies, which no operation here reads,    *)
(* the control entries, which nothing reads back, and calculation, which   *)
(* AutomaticQueue models, are left out.                                    *)
(***************************************************************************)
EXTENDS Naturals, Sequences, FiniteSets

CONSTANTS
  Names,          \* the child names callers spell
  Generate,       \* the choice of a caller who leaves the name open
  Sources,        \* authored expressions
  Oversized,      \* those whose projection exceeds MAX_SOURCE_PROJECTION_BYTES
  Backends,       \* mount backends; "read-only" is the one that matters
  MaxNodes,       \* MAX_TREE_NODES
  MaxCells, MaxDirs, MaxRevision   \* model bounds on ids and revisions

ASSUME RuntimeAssumption ==
  /\ Generate \notin Names
  /\ Oversized \subseteq Sources
  /\ MaxNodes \in Nat \ {0}
  /\ MaxCells \in Nat /\ MaxDirs \in Nat /\ MaxRevision \in Nat

VARIABLES
  records,        \* Namespace: node id -> [parent, name]
  counters,       \* Namespace: <<directory id, kind>> -> last generated index
  entries,        \* path -> node id
  cells,          \* path -> [id, source, revision]
  source,         \* ExprTreeStores: cell id -> source
  mounts,         \* ExprTreeStores: path -> [resource, backend]
  calc_cells,     \* ExprTreeCalc: path -> source
  calc_mounts,    \* ExprTreeCalc: path -> [resource, backend]
  next_cell_id, next_dir_id, source_revision

namespace == <<records, counters>>
runtime == <<entries, cells>>
calc    == <<calc_cells, calc_mounts>>
vars == <<namespace, runtime, source, mounts, calc, next_cell_id, next_dir_id,
          source_revision>>

----------------------------------------------------------------------------
Root   == <<>>
RootId == <<"dir", 0>>
Resources == {"table", "dir"}

Put(f, k, v) == [x \in DOMAIN f \cup {k} |-> IF x = k THEN v ELSE f[x]]
Drop(f, k)   == [x \in DOMAIN f \ {k} |-> f[x]]
Parent(path) == SubSeq(path, 1, Len(path) - 1)
Name(path)   == path[Len(path)]

\* path_within
Within(parent, path) ==
  Len(parent) <= Len(path) /\ SubSeq(path, 1, Len(parent)) = parent

\* Mutant: a read-only mount guards what is below its root, not the root.
EnsureWritableInside(path) ==
  \A m \in DOMAIN mounts :
    Within(m, path) /\ m # path => mounts[m].backend # "read-only"

EnsureWritable(path) ==
  \A m \in DOMAIN mounts : Within(m, path) => mounts[m].backend # "read-only"

EnsureRoom == Cardinality(DOMAIN entries) < MaxNodes

IsDir(path) == path \in DOMAIN entries /\ entries[path][1] = "dir"

EnsureEmptyDir(path) ==
  \A p \in DOMAIN entries : Within(path, p) => p = path

TableMountContains(path) ==
  \E m \in DOMAIN mounts : mounts[m].resource = "table" /\ Within(m, path)

----------------------------------------------------------------------------
\* What the operations ask of the namespace.
Taken(dir, name) ==
  \E r \in DOMAIN records : records[r] = [parent |-> dir, name |-> name]

HasChildren(dir) == \E r \in DOMAIN records : records[r].parent = dir

CounterOf(dir, kind) ==
  IF <<dir, kind>> \in DOMAIN counters THEN counters[<<dir, kind>>] ELSE 0

\* reserve_name: the caller's name, or the next generated one, whose counter
\* advances even when the name turns out to be taken.
ReservedName(dir, kind, choice) ==
  IF choice = Generate THEN <<kind, CounterOf(dir, kind) + 1>> ELSE choice

Counted(dir, kind, choice) ==
  IF choice = Generate THEN Put(counters, <<dir, kind>>, CounterOf(dir, kind) + 1)
                       ELSE counters

----------------------------------------------------------------------------
Init ==
  /\ records = [r \in {RootId} |-> [parent |-> RootId, name |-> Generate]]
  /\ entries = [p \in {Root} |-> RootId]
  /\ counters = [k \in {} |-> 0]
  /\ cells = [p \in {} |-> 0]
  /\ source = [c \in {} |-> 0]
  /\ mounts = [p \in {} |-> 0]
  /\ calc_cells = [p \in {} |-> 0]
  /\ calc_mounts = [p \in {} |-> 0]
  /\ next_cell_id = 0 /\ next_dir_id = 0 /\ source_revision = 0

----------------------------------------------------------------------------
\* new_cell up to the reservation of its name.
BeginCell(p, choice) ==
  /\ EnsureRoom /\ EnsureWritable(p) /\ IsDir(p)
  /\ next_cell_id < MaxCells
  /\ next_cell_id' = next_cell_id + 1
  /\ counters' = Counted(entries[p], "cell", choice)
  /\ UNCHANGED <<mounts, calc_mounts, next_dir_id>>

\* The namespace creates the record.
CreateCellRecord(p, choice) ==
  LET name == ReservedName(entries[p], "cell", choice)
  IN /\ ~Taken(entries[p], name)
     /\ records' = Put(records, <<"cell", next_cell_id'>>,
                       [parent |-> entries[p], name |-> name])

NewCell(p, choice, s) ==
  /\ BeginCell(p, choice)
  /\ CreateCellRecord(p, choice)
  /\ s \notin Oversized
  /\ source_revision < MaxRevision
  /\ source_revision' = source_revision + 1
  /\ LET id   == <<"cell", next_cell_id'>>
         path == Append(p, ReservedName(entries[p], "cell", choice))
     IN /\ entries' = Put(entries, path, id)
        /\ cells' = Put(cells, path, [id |-> id, source |-> s,
                                      revision |-> source_revision'])
        /\ source' = Put(source, id, s)
        /\ calc_cells' = Put(calc_cells, path, s)

\* The projection is refused after the namespace has created the cell.
NewCellOversized(p, choice, s) ==
  /\ BeginCell(p, choice)
  /\ CreateCellRecord(p, choice)
  /\ s \in Oversized
  /\ UNCHANGED <<runtime, source, calc_cells, source_revision>>

NewCellTaken(p, choice) ==
  /\ BeginCell(p, choice)
  /\ Taken(entries[p], ReservedName(entries[p], "cell", choice))
  /\ UNCHANGED <<records, runtime, source, calc_cells, source_revision>>

----------------------------------------------------------------------------
\* create_dir up to the reservation of its name.
BeginDir(p, choice, mounting) ==
  /\ EnsureRoom /\ EnsureWritable(p)
  /\ mounting \/ ~TableMountContains(p)
  /\ IsDir(p)
  /\ next_dir_id < MaxDirs
  /\ next_dir_id' = next_dir_id + 1
  /\ counters' = Counted(entries[p], "dir", choice)
  /\ UNCHANGED <<cells, source, calc_cells, next_cell_id, source_revision>>

CreateDirRecord(p, choice) ==
  LET name == ReservedName(entries[p], "dir", choice)
      id   == <<"dir", next_dir_id'>>
  IN /\ ~Taken(entries[p], name)
     /\ records' = Put(records, id, [parent |-> entries[p], name |-> name])
     /\ entries' = Put(entries, Append(p, name), id)

NewDir(p, choice) ==
  /\ BeginDir(p, choice, FALSE)
  /\ CreateDirRecord(p, choice)
  /\ UNCHANGED <<mounts, calc_mounts>>

\* Also the end of a mount whose directory cannot be created.
NewDirTaken(p, choice, mounting) ==
  /\ BeginDir(p, choice, mounting)
  /\ Taken(entries[p], ReservedName(entries[p], "dir", choice))
  /\ UNCHANGED <<records, entries, mounts, calc_mounts>>

\* Mutant: the mounts above are not looked at.
MountAllowedBelowTable(path, resource) ==
  \A m \in DOMAIN mounts : Within(path, m) => resource # "table"

\* ExprTreeStores::mount
MountAllowed(path, resource) ==
  /\ path \notin DOMAIN mounts
  /\ \A m \in DOMAIN mounts : /\ Within(m, path) => mounts[m].resource # "table"
                              /\ Within(path, m) => resource # "table"

Mount(path, resource, backend) ==
  /\ BeginDir(Parent(path), Name(path), TRUE)
  /\ CreateDirRecord(Parent(path), Name(path))
  /\ MountAllowed(path, resource)
  /\ mounts' = Put(mounts, path, [resource |-> resource, backend |-> backend])
  /\ calc_mounts' = Put(calc_mounts, path, mounts'[path])

\* The stores refuse the mount and its directory is deleted again.
MountRefused(path, resource) ==
  /\ BeginDir(Parent(path), Name(path), TRUE)
  /\ ~Taken(entries[Parent(path)], Name(path))
  /\ ~MountAllowed(path, resource)
  /\ UNCHANGED <<records, entries, mounts, calc_mounts>>

\* delete_empty_dir; the namespace refuses while the directory has children.
DeleteEmptyDir(path) ==
  IF HasChildren(entries[path])
    THEN UNCHANGED <<records, entries>>
    ELSE /\ records' = Drop(records, entries[path])
         /\ entries' = Drop(entries, path)

Unmount(path) ==
  /\ EnsureEmptyDir(path)
  /\ path \in DOMAIN mounts
  /\ mounts' = Drop(mounts, path)
  /\ calc_mounts' = Drop(calc_mounts, path)
  /\ DeleteEmptyDir(path)
  /\ UNCHANGED <<counters, cells, source, calc_cells, next_cell_id, next_dir_id,
                 source_revision>>

----------------------------------------------------------------------------
\* Mutant: only the entry itself gets its new path.
RekeyedAlone(path, from, to) == IF path = from THEN to ELSE path

\* rekey_subtree
Rekeyed(path, from, to) ==
  IF Within(from, path) THEN to \o SubSeq(path, Len(from) + 1, Len(path))
                        ELSE path

Moved(f, from, to) ==
  [q \in {Rekeyed(p, from, to) : p \in DOMAIN f} |->
     f[CHOOSE p \in DOMAIN f : Rekeyed(p, from, to) = q]]

\* move_entry; the namespace refuses to put a directory below itself, which
\* its records and the paths agree on.
MoveEntry(from, to) ==
  /\ from # Root /\ to # Root
  /\ EnsureWritable(from) /\ EnsureWritable(Parent(to))
  /\ IsDir(Parent(to)) /\ from \in DOMAIN entries
  /\ \A m \in DOMAIN mounts : ~Within(from, m)
  /\ to \notin DOMAIN entries
  /\ entries[from][1] = "dir" => ~Within(from, Parent(to))
  /\ ~Taken(entries[Parent(to)], Name(to))
  /\ records' = [records EXCEPT ![entries[from]] =
                   [parent |-> entries[Parent(to)], name |-> Name(to)]]
  /\ entries' = Moved(entries, from, to)
  /\ cells' = Moved(cells, from, to)
  /\ calc_cells' = Moved(calc_cells, from, to)
  /\ UNCHANGED <<counters, source, mounts, calc_mounts, next_cell_id,
                 next_dir_id, source_revision>>

\* Mutant: the authored source stays behind.
DeleteCellKeepingSource(path) ==
  /\ path \in DOMAIN cells /\ EnsureWritable(path)
  /\ records' = Drop(records, entries[path])
  /\ calc_cells' = Drop(calc_cells, path)
  /\ entries' = Drop(entries, path)
  /\ cells' = Drop(cells, path)
  /\ UNCHANGED <<counters, source, mounts, calc_mounts, next_cell_id,
                 next_dir_id, source_revision>>

\* delete, of a cell
DeleteCell(path) ==
  /\ path \in DOMAIN entries /\ entries[path][1] = "cell"
  /\ EnsureWritable(path)
  /\ records' = Drop(records, entries[path])
  /\ calc_cells' = Drop(calc_cells, path)
  /\ source' = Drop(source, entries[path])
  /\ entries' = Drop(entries, path)
  /\ cells' = Drop(cells, path)
  /\ UNCHANGED <<counters, mounts, calc_mounts, next_cell_id, next_dir_id,
                 source_revision>>

\* delete, of a directory; the namespace refuses the root.
DeleteDir(path) ==
  /\ IsDir(path) /\ path # Root
  /\ EnsureWritable(path) /\ EnsureEmptyDir(path)
  /\ path \notin DOMAIN mounts
  /\ ~HasChildren(entries[path])
  /\ DeleteEmptyDir(path)
  /\ UNCHANGED <<counters, cells, source, mounts, calc, next_cell_id,
                 next_dir_id, source_revision>>

SetExpr(path, s) ==
  /\ EnsureWritable(path)
  /\ s \notin Oversized
  /\ path \in DOMAIN cells
  /\ source_revision < MaxRevision
  /\ source_revision' = source_revision + 1
  /\ cells' = [cells EXCEPT ![path].source = s, ![path].revision = source_revision']
  /\ source' = Put(source, cells[path].id, s)
  /\ calc_cells' = Put(calc_cells, path, s)
  /\ UNCHANGED <<namespace, entries, mounts, calc_mounts, next_cell_id, next_dir_id>>

----------------------------------------------------------------------------
Directories == {p \in DOMAIN entries : IsDir(p)}
Targets == {Append(p, name) : p \in Directories, name \in Names}

Next ==
  \/ \E p \in Directories, choice \in Names \cup {Generate} :
       \/ \E s \in Sources : NewCell(p, choice, s) \/ NewCellOversized(p, choice, s)
       \/ NewCellTaken(p, choice)
       \/ NewDir(p, choice)
       \/ NewDirTaken(p, choice, FALSE)
       \/ choice # Generate /\ NewDirTaken(p, choice, TRUE)
  \/ \E path \in Targets, resource \in Resources :
       \/ \E backend \in Backends : Mount(path, resource, backend)
       \/ MountRefused(path, resource)
  \/ \E path \in DOMAIN entries :
       \/ \E to \in Targets : MoveEntry(path, to)
       \/ Unmount(path)
       \/ DeleteCell(path)
       \/ DeleteDir(path)
       \/ \E s \in Sources : SetExpr(path, s)

Spec == Init /\ [][Next]_vars

----------------------------------------------------------------------------
\* Every listed path is spelled by the namespace records of its node, whatever
\* was moved, mounted or refused before: the same parent, the same name, and no
\* two paths for one node.
EntriesNamed ==
  /\ Root \in DOMAIN entries /\ entries[Root] = RootId
  /\ \A p \in DOMAIN entries \ {Root} :
       /\ Parent(p) \in DOMAIN entries
       /\ entries[p] \in DOMAIN records
       /\ records[entries[p]] = [parent |-> entries[Parent(p)], name |-> Name(p)]
  /\ \A p, q \in DOMAIN entries : entries[p] = entries[q] => p = q

\* The three copies of the authored source agree: what a listed cell shows is
\* what the source store keeps for its id and what the calculator evaluates at
\* its path, and neither keeps a source for a cell that is gone.
SourcesAgree ==
  /\ DOMAIN cells = {p \in DOMAIN entries : entries[p][1] = "cell"}
  /\ \A p \in DOMAIN cells : cells[p].id = entries[p]
  /\ calc_cells = [p \in DOMAIN cells |-> cells[p].source]
  /\ DOMAIN source = {cells[p].id : p \in DOMAIN cells}
  /\ \A p \in DOMAIN cells : source[cells[p].id] = cells[p].source

\* Stores and calculator agree on the mounts, each mount is a listed directory,
\* and no mount lies below a table mount.
MountsSound ==
  /\ mounts = calc_mounts
  /\ \A m \in DOMAIN mounts : IsDir(m)
  /\ \A m, n \in DOMAIN mounts :
       Within(m, n) /\ m # n => mounts[m].resource = "dir"

\* Nothing is created below, moved into or mounted on a read-only mount.
ReadOnlyUntouched ==
  \A m \in DOMAIN mounts : mounts[m].backend = "read-only" =>
    EnsureEmptyDir(m) /\ ~HasChildren(entries[m])

\* The namespace holds at most MAX_TREE_NODES records (runtime.rs:20, "Hard
\* ceiling on authored namespace nodes in one live tree").  Refuted: a source
\* whose projection is too large leaves its cell in the namespace and not in
\* the entries that are counted.
NodesWithinCeiling == Cardinality(DOMAIN records) <= MaxNodes
=============================================================================
