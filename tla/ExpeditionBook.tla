--------------------------- MODULE ExpeditionBook ---------------------------
(***************************************************************************)
(* Expedition books (sim-lib-expedition-book): optimistic edits of one     *)
(* book by several editors, and its archive of exports and disposable      *)
(* projections.                                                            *)
(*                                                                         *)
(* A book is a record of its revision, its branches by id and the choice.  *)
(* Theses and statements are left out; an objection is its id with the     *)
(* evidence it cites.  The text of an export is modelled field by field:   *)
(* an absent field and the blank text are written alike (codec.rs).        *)
(* seen and exported are history: the book an editor last saw, and the     *)
(* book an export was made of.                                             *)
(***************************************************************************)
EXTENDS Naturals, FiniteSets

CONSTANTS
  Editors,
  Ids,                      \* branch ids other than root; one may be blank
  Refs,                     \* evidence references
  Objections,               \* objection ids
  Plays,                    \* texts of next plays
  Blank,                    \* the blank text
  None,                     \* an absent optional field
  Archives,                 \* export names
  MaxRevision               \* model bound

Root == "root"

ASSUME BookAssumption ==
  /\ MaxRevision \in Nat
  /\ Root \notin Ids
  /\ Blank \notin {None, Root}
  /\ None \notin Ids \cup Plays \cup {Root}

VARIABLES
  book,
  exports,                  \* export name -> encoded book
  projections,              \* names whose projection is still stored
  seen,                     \* editor -> the book of its last read or edit
  exported                  \* export name -> the book that was exported

vars == <<book, exports, projections, seen, exported>>

BranchIds == Ids \cup {Root}
OrNone(S) == S \cup {None}

\* Objections are kept by id, with the evidence each cites.
Branch == [parent : OrNone(BranchIds), evidence : SUBSET Refs,
           objections : [Objections -> OrNone(SUBSET Refs)],
           next_play : OrNone(Plays), sealed : BOOLEAN]

NoObjections == [o \in Objections |-> None]

NewBranch(parent, evidence) ==
  [parent |-> parent, evidence |-> evidence, objections |-> NoObjections,
   next_play |-> None, sealed |-> FALSE]

NewBook == [revision |-> 0, choice |-> None,
            branches |-> [b \in {Root} |-> NewBranch(None, {})]]

Init ==
  /\ book = NewBook
  /\ exports = [n \in {} |-> NewBook] /\ exported = [n \in {} |-> NewBook]
  /\ projections = {}
  /\ seen = [e \in Editors |-> NewBook]

----------------------------------------------------------------------------
\* An editor presents the revision it last saw; a refused edit changes nothing.
Expected(e) == seen[e].revision = book.revision

Live(b) == b \in DOMAIN book.branches

\* Mutant: the seal is not looked at.
EditableUnsealed(e, b) == Expected(e) /\ Live(b)

Editable(e, b) == Expected(e) /\ Live(b) /\ ~book.branches[b].sealed

\* changed, and the new revision is the editor's answer.
Commit(e, edited) ==
  /\ book.revision < MaxRevision
  /\ book' = [edited EXCEPT !.revision = @ + 1]
  /\ seen' = [seen EXCEPT ![e] = book']
  /\ UNCHANGED <<exports, projections, exported>>

Edit(e, b, branch) == Commit(e, [book EXCEPT !.branches[b] = branch])

WithBranch(id, branch) ==
  [book EXCEPT !.branches =
     [b \in DOMAIN @ \cup {id} |-> IF b = id THEN branch ELSE @[b]]]

\* A fork carries the evidence of its parent and nothing else.
BranchOff(e, parent, id) ==
  /\ Editable(e, parent)
  /\ ~Live(id)
  /\ Commit(e, WithBranch(id, NewBranch(parent, book.branches[parent].evidence)))

Reference(e, b, refs) ==
  Editable(e, b) /\ Edit(e, b, [book.branches[b] EXCEPT !.evidence = @ \cup refs])

Object(e, b, o, refs) ==
  /\ Editable(e, b)
  /\ book.branches[b].objections[o] = None
  /\ Edit(e, b, [book.branches[b] EXCEPT !.objections = [@ EXCEPT ![o] = refs]])

Choose(e, b) ==
  /\ Expected(e)
  /\ Live(b)
  /\ Commit(e, [book EXCEPT !.choice = b])

SetNextPlay(e, b, play) ==
  Editable(e, b) /\ Edit(e, b, [book.branches[b] EXCEPT !.next_play = play])

Seal(e, b) == Editable(e, b) /\ Edit(e, b, [book.branches[b] EXCEPT !.sealed = TRUE])

Reopen(e, b) ==
  Expected(e) /\ Live(b) /\ Edit(e, b, [book.branches[b] EXCEPT !.sealed = FALSE])

\* Mutant: only the root is checked.
RetainableRoot(ids) == Root \in ids

\* The root and the chosen branch must be kept; a parent need not be.
Retainable(ids) == Root \in ids /\ book.choice \in OrNone(ids)

Kept(ids) ==
  [book EXCEPT !.branches = [b \in DOMAIN @ \cap ids |-> @[b]]]

\* Mutant: the revision stays.
RetainSilently(e, ids) ==
  /\ Expected(e)
  /\ Retainable(ids)
  /\ book' = Kept(ids)
  /\ seen' = [seen EXCEPT ![e] = book']
  /\ UNCHANGED <<exports, projections, exported>>

Retain(e, ids) ==
  /\ Expected(e)
  /\ Retainable(ids)
  /\ Commit(e, Kept(ids))

Read(e) ==
  /\ seen' = [seen EXCEPT ![e] = book]
  /\ UNCHANGED <<book, exports, projections, exported>>

----------------------------------------------------------------------------
\* codec.rs: optional fields are written as text, and blank text is read as
\* absent.
Text(v) == IF v = None THEN Blank ELSE v
Optional(t) == IF t = Blank THEN None ELSE t

EncodeBranch(branch) ==
  [branch EXCEPT !.parent = Text(@), !.next_play = Text(@)]

Encode(bk) ==
  [bk EXCEPT !.choice = Text(@),
             !.branches = [b \in DOMAIN @ |-> EncodeBranch(@[b])]]

\* Mutant: the next play is read as it is written.
DecodeBranchPlainPlay(text) == [text EXCEPT !.parent = Optional(@)]

DecodeBranch(text) ==
  [text EXCEPT !.parent = Optional(@), !.next_play = Optional(@)]

Decode(text) ==
  [text EXCEPT !.choice = Optional(@),
               !.branches = [b \in DOMAIN @ |-> DecodeBranch(@[b])]]

\* Every reference a book holds, through its branches or their objections.
Cited(bk) ==
  {r \in Refs : \E b \in DOMAIN bk.branches :
     \/ r \in bk.branches[b].evidence
     \/ \E o \in Objections : /\ bk.branches[b].objections[o] # None
                              /\ r \in bk.branches[b].objections[o]}

Export(n) ==
  /\ exports' = [m \in DOMAIN exports \cup {n} |->
                   IF m = n THEN Encode(book) ELSE exports[m]]
  /\ exported' = [m \in DOMAIN exported \cup {n} |->
                    IF m = n THEN book ELSE exported[m]]
  /\ projections' = projections \cup {n}
  /\ UNCHANGED <<book, seen>>

DeleteProjection(n) ==
  /\ projections' = projections \ {n}
  /\ UNCHANGED <<book, exports, exported, seen>>

\* Archive::replay with a resolver that knows the references in available.
Replay(n, available) ==
  LET decoded == Decode(exports[n])
  IN [book |-> decoded, missing |-> Cited(decoded) \ available]

EditBy(e) ==
  \/ Read(e)
  \/ \E b \in BranchIds :
       \/ \E id \in Ids : BranchOff(e, b, id)
       \/ \E r \in Refs : Reference(e, b, {r})
       \/ \E o \in Objections, r \in Refs : Object(e, b, o, {r})
       \/ \E p \in Plays : SetNextPlay(e, b, p)
       \/ Choose(e, b) \/ Seal(e, b) \/ Reopen(e, b)
  \/ \E ids \in SUBSET BranchIds : Retain(e, ids)

Next ==
  \/ \E e \in Editors : EditBy(e)
  \/ \E n \in Archives : Export(n)
  \/ \E n \in projections : DeleteProjection(n)

Spec == Init /\ [][Next]_vars

----------------------------------------------------------------------------
\* The revision stands for the whole content: an editor whose revision is still
\* the current one has seen exactly the current book, so no edit is ever
\* applied to a book its editor did not see, and an export of the current
\* revision is an export of the current book (edit.rs editable, changed).
RevisionIdentifiesBook ==
  /\ \A e \in Editors : Expected(e) => seen[e] = book
  /\ \A n \in DOMAIN exported :
       exported[n].revision = book.revision => exported[n] = book

\* After any sequence of forks, choices and retentions the root is there, the
\* choice names a branch of the book, and every branch but the root still names
\* a parent, which a retention may have dropped (edit.rs retain; model.rs
\* "Parent branch, absent only at the root.").
RootAndChoiceKept ==
  /\ Live(Root)
  /\ book.choice # None => Live(book.choice)
  /\ \A b \in DOMAIN book.branches : book.branches[b].parent = None <=> b = Root

\* What the text can say of a book: an optional field whose text is blank, a
\* choice or a parent with the blank id included, is absent from it.
BlankAsAbsent(bk) ==
  LET Said(v) == IF v = Blank THEN None ELSE v
  IN [revision |-> bk.revision, choice |-> Said(bk.choice),
      branches |-> [b \in DOMAIN bk.branches |->
                      [bk.branches[b] EXCEPT !.parent = Said(@), !.next_play = Said(@)]]]

\* A replay gives back the book that was exported, however much the live book
\* has been edited since and whatever its ids and texts, but for blank optional
\* fields, and reports missing exactly the references the exported book cites
\* and the resolver lacks (archive.rs replay, codec.rs).
ReplayGivesBack ==
  \A n \in DOMAIN exported, available \in SUBSET Refs :
    Replay(n, available) = [book |-> BlankAsAbsent(exported[n]),
                            missing |-> Cited(exported[n]) \ available]

\* A sealed branch keeps its evidence, objections and next play until it is
\* reopened or dropped by a retention: no interleaving of editors changes it
\* (edit.rs "A sealed branch refuses mutation.").
SealedUntouched ==
  [][\A b \in DOMAIN book.branches \cap DOMAIN book'.branches :
       book.branches[b].sealed =>
         book'.branches[b] \in {book.branches[b],
                                [book.branches[b] EXCEPT !.sealed = FALSE]}]_vars
=============================================================================
