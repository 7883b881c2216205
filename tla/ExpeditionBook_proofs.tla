----------------------- MODULE ExpeditionBook_proofs -----------------------
(***************************************************************************)
(* What an expedition book keeps under every interleaving of its editors,  *)
(* for every set of editors, branches, references and archives: its type,  *)
(* its root and its choice; that its revision stands for its content; that *)
(* a sealed branch is left alone; and that a replay gives back what was    *)
(* exported.                                                               *)
(***************************************************************************)
EXTENDS ExpeditionBook, TLAPS

\* A book has whole branches under known ids.
IsBook(bk) ==
  /\ bk = [revision |-> bk.revision, choice |-> bk.choice, branches |-> bk.branches]
  /\ bk.revision \in Nat
  /\ bk.choice \in OrNone(BranchIds)
  /\ DOMAIN bk.branches \subseteq BranchIds
  /\ bk.branches \in [DOMAIN bk.branches -> Branch]

\* The type of the book and of the books that editors saw and archives keep.
BookTypeOK ==
  /\ IsBook(book)
  /\ seen = [e \in Editors |-> seen[e]]
  /\ \A e \in Editors : IsBook(seen[e])
  /\ \A n \in DOMAIN exported : IsBook(exported[n])

\* The archive holds the encoding of the book each export was made of.
ArchiveExact ==
  /\ DOMAIN exports = DOMAIN exported
  /\ \A n \in DOMAIN exported : exports[n] = Encode(exported[n])

----------------------------------------------------------------------------
\* What an edit may turn the book into: the guard of an operation and the
\* argument it hands to Commit.
Edited(bk) ==
  \/ \E b \in BranchIds, id \in Ids :
       /\ Live(b) /\ ~Live(id)
       /\ bk = WithBranch(id, NewBranch(b, book.branches[b].evidence))
  \/ \E b \in BranchIds, branch \in Branch :
       /\ Live(b)
       /\ branch.parent = book.branches[b].parent
       /\ book.branches[b].sealed =>
            branch = [book.branches[b] EXCEPT !.sealed = FALSE]
       /\ bk = [book EXCEPT !.branches[b] = branch]
  \/ \E b \in BranchIds : Live(b) /\ bk = [book EXCEPT !.choice = b]
  \/ \E ids \in SUBSET BranchIds : Retainable(ids) /\ bk = Kept(ids)

\* Each edit of a branch writes a branch with the same parent, and a sealed
\* branch is only written by Reopen.
LEMMA BranchWritten ==
  ASSUME BookTypeOK, NEW e \in Editors, NEW b \in BranchIds, NEW branch \in Branch,
         Live(b), branch.parent = book.branches[b].parent,
         book.branches[b].sealed => branch = [book.branches[b] EXCEPT !.sealed = FALSE],
         Edit(e, b, branch)
  PROVE  \E bk : Edited(bk) /\ Commit(e, bk)
  BY DEF Edited, Edit

LEMMA LiveBranch ==
  ASSUME BookTypeOK, NEW b \in BranchIds, Live(b)
  PROVE  book.branches[b] \in Branch
  BY DEF BookTypeOK, IsBook, Live

\* Every step of an editor is a read or the commit of such an edit.
LEMMA EditsCommit ==
  ASSUME BookTypeOK, NEW e \in Editors, EditBy(e)
  PROVE  Read(e) \/ \E bk : Edited(bk) /\ Commit(e, bk)
<1>1. CASE Read(e)
  BY <1>1
<1>2. ASSUME NEW b \in BranchIds, NEW id \in Ids, BranchOff(e, b, id)
      PROVE  \E bk : Edited(bk) /\ Commit(e, bk)
  BY <1>2 DEF BranchOff, Editable, Edited
<1>3. ASSUME NEW b \in BranchIds, NEW r \in Refs, Reference(e, b, {r})
      PROVE  \E bk : Edited(bk) /\ Commit(e, bk)
  <2> DEFINE branch == [book.branches[b] EXCEPT !.evidence = @ \cup {r}]
  <2>1. Live(b) /\ ~book.branches[b].sealed /\ Edit(e, b, branch)
    BY <1>3 DEF Reference, Editable
  <2>2. branch \in Branch /\ branch.parent = book.branches[b].parent
    BY <2>1, LiveBranch DEF Branch
  <2> HIDE DEF branch
  <2> QED
    BY <2>1, <2>2, BranchWritten
<1>4. ASSUME NEW b \in BranchIds, NEW o \in Objections, NEW r \in Refs,
             Object(e, b, o, {r})
      PROVE  \E bk : Edited(bk) /\ Commit(e, bk)
  <2> DEFINE branch == [book.branches[b] EXCEPT !.objections = [@ EXCEPT ![o] = {r}]]
  <2>1. Live(b) /\ ~book.branches[b].sealed /\ Edit(e, b, branch)
    BY <1>4 DEF Object, Editable
  <2>2. branch \in Branch /\ branch.parent = book.branches[b].parent
    BY <2>1, LiveBranch DEF Branch, OrNone
  <2> HIDE DEF branch
  <2> QED
    BY <2>1, <2>2, BranchWritten
<1>5. ASSUME NEW b \in BranchIds, NEW p \in Plays, SetNextPlay(e, b, p)
      PROVE  \E bk : Edited(bk) /\ Commit(e, bk)
  <2> DEFINE branch == [book.branches[b] EXCEPT !.next_play = p]
  <2>1. Live(b) /\ ~book.branches[b].sealed /\ Edit(e, b, branch)
    BY <1>5 DEF SetNextPlay, Editable
  <2>2. branch \in Branch /\ branch.parent = book.branches[b].parent
    BY <2>1, LiveBranch DEF Branch, OrNone
  <2> HIDE DEF branch
  <2> QED
    BY <2>1, <2>2, BranchWritten
<1>6. ASSUME NEW b \in BranchIds, Choose(e, b)
      PROVE  \E bk : Edited(bk) /\ Commit(e, bk)
  BY <1>6 DEF Choose, Edited
<1>7. ASSUME NEW b \in BranchIds, Seal(e, b)
      PROVE  \E bk : Edited(bk) /\ Commit(e, bk)
  <2> DEFINE branch == [book.branches[b] EXCEPT !.sealed = TRUE]
  <2>1. Live(b) /\ ~book.branches[b].sealed /\ Edit(e, b, branch)
    BY <1>7 DEF Seal, Editable
  <2>2. branch \in Branch /\ branch.parent = book.branches[b].parent
    BY <2>1, LiveBranch DEF Branch
  <2> HIDE DEF branch
  <2> QED
    BY <2>1, <2>2, BranchWritten
<1>8. ASSUME NEW b \in BranchIds, Reopen(e, b)
      PROVE  \E bk : Edited(bk) /\ Commit(e, bk)
  <2> DEFINE branch == [book.branches[b] EXCEPT !.sealed = FALSE]
  <2>1. Live(b) /\ Edit(e, b, branch)
    BY <1>8 DEF Reopen
  <2>2. branch \in Branch /\ branch.parent = book.branches[b].parent
    BY <2>1, LiveBranch DEF Branch
  <2> QED
    BY <2>1, <2>2, BranchWritten
<1>9. ASSUME NEW ids \in SUBSET BranchIds, Retain(e, ids)
      PROVE  \E bk : Edited(bk) /\ Commit(e, bk)
  BY <1>9 DEF Retain, Edited
<1> QED
  BY <1>1, <1>2, <1>3, <1>4, <1>5, <1>6, <1>7, <1>8, <1>9 DEF EditBy

----------------------------------------------------------------------------
\* An edited book has the type of a book and the revision of the book it edits.
LEMMA EditedTyped ==
  ASSUME IsBook(book), NEW bk, Edited(bk)
  PROVE  IsBook(bk) /\ bk.revision = book.revision
<1>1. ASSUME NEW b \in BranchIds, NEW id \in Ids, Live(b),
             bk = WithBranch(id, NewBranch(b, book.branches[b].evidence))
      PROVE  IsBook(bk) /\ bk.revision = book.revision
  <2> DEFINE branch == NewBranch(b, book.branches[b].evidence)
  <2>1. branch \in Branch
    BY <1>1 DEF IsBook, Live, NewBranch, NoObjections, Branch, OrNone
  <2>2. bk = [revision |-> book.revision, choice |-> book.choice,
              branches |-> [x \in DOMAIN book.branches \cup {id} |->
                              IF x = id THEN branch ELSE book.branches[x]]]
    BY <1>1 DEF WithBranch, IsBook
  <2> HIDE DEF branch
  <2> QED
    BY <2>1, <2>2 DEF IsBook, BranchIds
<1>2. ASSUME NEW b \in BranchIds, NEW branch \in Branch, Live(b),
             bk = [book EXCEPT !.branches[b] = branch]
      PROVE  IsBook(bk) /\ bk.revision = book.revision
  <2>1. bk = [revision |-> book.revision, choice |-> book.choice,
              branches |-> [book.branches EXCEPT ![b] = branch]]
    BY <1>2 DEF IsBook
  <2> QED
    BY <2>1 DEF IsBook
<1>3. ASSUME NEW b \in BranchIds, bk = [book EXCEPT !.choice = b]
      PROVE  IsBook(bk) /\ bk.revision = book.revision
  <2>1. bk = [revision |-> book.revision, choice |-> b, branches |-> book.branches]
    BY <1>3 DEF IsBook
  <2> QED
    BY <2>1 DEF IsBook, OrNone
<1>4. ASSUME NEW ids \in SUBSET BranchIds, bk = Kept(ids)
      PROVE  IsBook(bk) /\ bk.revision = book.revision
  <2>1. bk = [revision |-> book.revision, choice |-> book.choice,
              branches |-> [b \in DOMAIN book.branches \cap ids |-> book.branches[b]]]
    BY <1>4 DEF Kept, IsBook
  <2> QED
    BY <2>1 DEF IsBook
<1> QED
  BY <1>1, <1>2, <1>3, <1>4 DEF Edited

\* A commit changes the edited book in its revision only.
LEMMA Committed ==
  ASSUME BookTypeOK, NEW e \in Editors, NEW bk, Edited(bk), Commit(e, bk)
  PROVE  /\ IsBook(book')
         /\ book'.revision = book.revision + 1
         /\ book'.branches = bk.branches /\ book'.choice = bk.choice
         /\ seen' = [x \in Editors |-> IF x = e THEN book' ELSE seen[x]]
         /\ UNCHANGED <<exports, projections, exported>>
<1>1. IsBook(bk) /\ bk.revision = book.revision
  BY EditedTyped DEF BookTypeOK
<1>2. book' = [revision |-> bk.revision + 1, choice |-> bk.choice,
               branches |-> bk.branches]
  BY <1>1 DEF Commit, IsBook
<1>3. seen' = [x \in Editors |-> IF x = e THEN book' ELSE seen[x]]
  BY DEF Commit, BookTypeOK
<1>4. UNCHANGED <<exports, projections, exported>>
  BY DEF Commit
<1> QED
  BY <1>1, <1>2, <1>3, <1>4 DEF IsBook

LEMMA NewBookTyped == IsBook(NewBook)
<1>1. NewBranch(None, {}) \in Branch
  BY DEF NewBranch, NoObjections, Branch, OrNone
<1> QED
  BY <1>1 DEF NewBook, IsBook, OrNone, BranchIds

LEMMA BookNextTyped ==
  ASSUME BookTypeOK, [Next]_vars
  PROVE  BookTypeOK'
<1>1. ASSUME NEW e \in Editors, Read(e)
      PROVE  BookTypeOK'
  BY <1>1 DEF Read, BookTypeOK, IsBook
<1>2. ASSUME NEW e \in Editors, NEW bk, Edited(bk), Commit(e, bk)
      PROVE  BookTypeOK'
  <2>1. /\ IsBook(book')
        /\ seen' = [x \in Editors |-> IF x = e THEN book' ELSE seen[x]]
        /\ exported' = exported
    BY <1>2, Committed
  <2> QED
    BY <2>1 DEF BookTypeOK
<1>3. ASSUME NEW n \in Archives, Export(n)
      PROVE  BookTypeOK'
  BY <1>3 DEF Export, BookTypeOK
<1>4. ASSUME NEW n, DeleteProjection(n)
      PROVE  BookTypeOK'
  BY <1>4 DEF DeleteProjection, BookTypeOK
<1>5. CASE UNCHANGED vars
  BY <1>5 DEF vars, BookTypeOK
<1> QED
  BY <1>1, <1>2, <1>3, <1>4, <1>5, EditsCommit DEF Next

\* The book, what its editors saw and what its archive keeps have the type of a
\* book: whole branches under known ids (model.rs ExpeditionBook, Branch).
THEOREM BookTyped == Spec => []BookTypeOK
<1>1. Init => BookTypeOK
  BY NewBookTyped DEF Init, BookTypeOK
<1> QED
  BY <1>1, BookNextTyped, PTL DEF Spec

----------------------------------------------------------------------------
\* An edit keeps the root, the choice and the ids of parents.
LEMMA EditedRooted ==
  ASSUME IsBook(book), RootAndChoiceKept, NEW bk, Edited(bk)
  PROVE  /\ Root \in DOMAIN bk.branches
         /\ bk.choice # None => bk.choice \in DOMAIN bk.branches
         /\ \A b \in DOMAIN bk.branches : bk.branches[b].parent = None <=> b = Root
<1> DEFINE Goal == /\ Root \in DOMAIN bk.branches
                   /\ bk.choice # None => bk.choice \in DOMAIN bk.branches
                   /\ \A b \in DOMAIN bk.branches :
                        bk.branches[b].parent = None <=> b = Root
<1>1. ASSUME NEW b \in BranchIds, NEW id \in Ids, Live(b), ~Live(id),
             bk = WithBranch(id, NewBranch(b, book.branches[b].evidence))
      PROVE  Goal
  <2> DEFINE branch == NewBranch(b, book.branches[b].evidence)
  <2>1. branch.parent = b /\ b # None /\ id # Root
    BY BookAssumption DEF NewBranch, BranchIds
  <2>2. /\ bk.choice = book.choice
        /\ bk.branches = [x \in DOMAIN book.branches \cup {id} |->
                            IF x = id THEN branch ELSE book.branches[x]]
    BY <1>1 DEF WithBranch, IsBook
  <2> HIDE DEF branch
  <2> QED
    BY <2>1, <2>2 DEF RootAndChoiceKept, Live
<1>2. ASSUME NEW b \in BranchIds, NEW branch \in Branch, Live(b),
             branch.parent = book.branches[b].parent,
             bk = [book EXCEPT !.branches[b] = branch]
      PROVE  Goal
  <2>1. bk.choice = book.choice /\ bk.branches = [book.branches EXCEPT ![b] = branch]
    BY <1>2 DEF IsBook
  <2> QED
    BY <1>2, <2>1 DEF RootAndChoiceKept, Live
<1>3. ASSUME NEW b \in BranchIds, Live(b), bk = [book EXCEPT !.choice = b]
      PROVE  Goal
  <2>1. bk.choice = b /\ bk.branches = book.branches
    BY <1>3 DEF IsBook
  <2> QED
    BY <1>3, <2>1 DEF RootAndChoiceKept, Live
<1>4. ASSUME NEW ids \in SUBSET BranchIds, Retainable(ids), bk = Kept(ids)
      PROVE  Goal
  <2>1. /\ bk.choice = book.choice
        /\ bk.branches = [b \in DOMAIN book.branches \cap ids |-> book.branches[b]]
    BY <1>4 DEF Kept, IsBook
  <2> QED
    BY <1>4, <2>1 DEF RootAndChoiceKept, Live, Retainable, OrNone
<1> QED
  BY <1>1, <1>2, <1>3, <1>4 DEF Edited

\* Forks, choices, retentions and everything else in any order keep the root,
\* keep the choice among the branches, and leave no branch but the root without
\* the id of a parent; the parent's record may be dropped (edit.rs branch,
\* choose, retain).
THEOREM RootAlwaysKept == Spec => []RootAndChoiceKept
<1>1. Init => RootAndChoiceKept
  BY DEF Init, NewBook, NewBranch, RootAndChoiceKept, Live
<1>2. BookTypeOK /\ RootAndChoiceKept /\ [Next]_vars => RootAndChoiceKept'
  <2> SUFFICES ASSUME BookTypeOK, RootAndChoiceKept, [Next]_vars
               PROVE  RootAndChoiceKept'
    OBVIOUS
  <2>1. ASSUME NEW e \in Editors, NEW bk, Edited(bk), Commit(e, bk)
        PROVE  RootAndChoiceKept'
    <3>1. book'.branches = bk.branches /\ book'.choice = bk.choice
      BY <2>1, Committed
    <3> QED
      BY <2>1, <3>1, EditedRooted DEF BookTypeOK, RootAndChoiceKept, Live
  <2>2. CASE UNCHANGED book
    BY <2>2 DEF RootAndChoiceKept, Live
  <2> QED
    BY <2>1, <2>2, EditsCommit DEF Next, Read, Export, DeleteProjection, vars
<1> QED
  BY <1>1, <1>2, BookTyped, PTL DEF Spec

----------------------------------------------------------------------------
\* The inductive invariant behind RevisionIdentifiesBook: what was seen or
\* exported is older than the book, or it is the book.
NotAhead(bk) ==
  bk.revision <= book.revision /\ (bk.revision = book.revision => bk = book)

HistoryBehind ==
  /\ \A e \in Editors : NotAhead(seen[e])
  /\ \A n \in DOMAIN exported : NotAhead(exported[n])

\* The revision stands for the content: an edit that is accepted was made to the
\* book its editor saw, whatever the other editors did in between (edit.rs
\* editable, changed).
THEOREM RevisionsIdentify == Spec => []RevisionIdentifiesBook
<1>1. Init => HistoryBehind
  BY DEF Init, NewBook, HistoryBehind, NotAhead
<1>2. BookTypeOK /\ HistoryBehind /\ [Next]_vars => HistoryBehind'
  <2> SUFFICES ASSUME BookTypeOK, HistoryBehind, [Next]_vars
               PROVE  HistoryBehind'
    OBVIOUS
  <2>1. book.revision \in Nat
    BY DEF BookTypeOK, IsBook
  <2>2. ASSUME NEW e \in Editors, Read(e)
        PROVE  HistoryBehind'
    BY <2>1, <2>2 DEF Read, HistoryBehind, NotAhead, BookTypeOK
  <2>3. ASSUME NEW e \in Editors, NEW bk, Edited(bk), Commit(e, bk)
        PROVE  HistoryBehind'
    <3>1. /\ book'.revision = book.revision + 1
          /\ seen' = [x \in Editors |-> IF x = e THEN book' ELSE seen[x]]
          /\ exported' = exported
      BY <2>3, Committed
    <3>2. ASSUME NEW old, IsBook(old), NotAhead(old)
          PROVE  NotAhead(old)'
      BY <2>1, <3>1, <3>2 DEF NotAhead, IsBook
    <3>3. NotAhead(book)'
      BY <2>1, <3>1 DEF NotAhead
    <3> QED
      BY <3>1, <3>2, <3>3 DEF HistoryBehind, BookTypeOK, NotAhead
  <2>4. ASSUME NEW n \in Archives, Export(n)
        PROVE  HistoryBehind'
    BY <2>1, <2>4 DEF Export, HistoryBehind, NotAhead
  <2>5. ASSUME NEW n, DeleteProjection(n)
        PROVE  HistoryBehind'
    BY <2>5 DEF DeleteProjection, HistoryBehind, NotAhead
  <2>6. CASE UNCHANGED vars
    BY <2>6 DEF vars, HistoryBehind, NotAhead
  <2> QED
    BY <2>2, <2>3, <2>4, <2>5, <2>6, EditsCommit DEF Next
<1>3. HistoryBehind => RevisionIdentifiesBook
  BY DEF HistoryBehind, NotAhead, RevisionIdentifiesBook, Expected
<1> QED
  BY <1>1, <1>2, <1>3, BookTyped, PTL DEF Spec

----------------------------------------------------------------------------
\* No interleaving of editors changes a sealed branch but to reopen it (edit.rs
\* "A sealed branch refuses mutation.").
THEOREM SealedIsKept == Spec => SealedUntouched
<1> DEFINE Undisturbed == \A b \in DOMAIN book.branches \cap DOMAIN book'.branches :
                      book.branches[b].sealed =>
                        book'.branches[b] \in {book.branches[b],
                                      [book.branches[b] EXCEPT !.sealed = FALSE]}
<1>1. BookTypeOK /\ [Next]_vars => [Undisturbed]_vars
  <2> SUFFICES ASSUME BookTypeOK, [Next]_vars
               PROVE  Undisturbed
    OBVIOUS
  <2>1. ASSUME NEW e \in Editors, NEW bk, Edited(bk), Commit(e, bk)
        PROVE  Undisturbed
    <3>1. IsBook(book) /\ book'.branches = bk.branches
      BY <2>1, Committed DEF BookTypeOK
    <3>2. ASSUME NEW b \in BranchIds, NEW id \in Ids, ~Live(id),
                 bk = WithBranch(id, NewBranch(b, book.branches[b].evidence))
          PROVE  Undisturbed
      <4>1. \A x \in DOMAIN book.branches : bk.branches[x] = book.branches[x]
        BY <3>1, <3>2 DEF WithBranch, IsBook, Live
      <4> QED
        BY <3>1, <4>1
    <3>3. ASSUME NEW b \in BranchIds, NEW branch \in Branch, Live(b),
                 book.branches[b].sealed =>
                   branch = [book.branches[b] EXCEPT !.sealed = FALSE],
                 bk = [book EXCEPT !.branches[b] = branch]
          PROVE  Undisturbed
      <4>1. bk.branches = [book.branches EXCEPT ![b] = branch]
        BY <3>1, <3>3 DEF IsBook
      <4> QED
        BY <3>1, <3>3, <4>1
    <3>4. ASSUME NEW b \in BranchIds, bk = [book EXCEPT !.choice = b]
          PROVE  Undisturbed
      <4>1. bk.branches = book.branches
        BY <3>1, <3>4 DEF IsBook
      <4> QED
        BY <3>1, <4>1
    <3>5. ASSUME NEW ids \in SUBSET BranchIds, bk = Kept(ids)
          PROVE  Undisturbed
      <4>1. bk.branches = [b \in DOMAIN book.branches \cap ids |-> book.branches[b]]
        BY <3>1, <3>5 DEF Kept, IsBook
      <4> QED
        BY <3>1, <4>1
    <3> QED
      BY <2>1, <3>2, <3>3, <3>4, <3>5 DEF Edited
  <2>2. CASE UNCHANGED book
    BY <2>2
  <2> QED
    BY <2>1, <2>2, EditsCommit DEF Next, Read, Export, DeleteProjection, vars
<1> QED
  BY <1>1, BookTyped, PTL DEF Spec, SealedUntouched

----------------------------------------------------------------------------
\* An optional field is read as it was, or as absent when it was blank.
LEMMA OptionalText ==
  ASSUME NEW v
  PROVE  Optional(Text(v)) = IF v = Blank THEN None ELSE v
  BY BookAssumption DEF Optional, Text

\* Two fields of a book rewritten.
LEMMA Rewritten ==
  ASSUME NEW bk, NEW c, NEW f,
         bk = [revision |-> bk.revision, choice |-> bk.choice, branches |-> bk.branches]
  PROVE  [bk EXCEPT !.choice = c, !.branches = f]
           = [revision |-> bk.revision, choice |-> c, branches |-> f]
<1> DEFINE once == [bk EXCEPT !.choice = c]
<1>1. once = [revision |-> bk.revision, choice |-> c, branches |-> bk.branches]
  OBVIOUS
<1> HIDE DEF once
<1>2. [once EXCEPT !.branches = f]
        = [revision |-> bk.revision, choice |-> c, branches |-> f]
  BY <1>1
<1> QED
  BY <1>2 DEF once

\* Decoding undoes encoding, but for blank optional fields.
LEMMA DecodeEncode ==
  ASSUME NEW bk, IsBook(bk)
  PROVE  Decode(Encode(bk)) = BlankAsAbsent(bk)
<1> DEFINE coded == Encode(bk)
           Said(v) == IF v = Blank THEN None ELSE v
<1>1. coded = [revision |-> bk.revision, choice |-> Text(bk.choice),
               branches |-> [b \in DOMAIN bk.branches |->
                               EncodeBranch(bk.branches[b])]]
  BY Rewritten DEF Encode, IsBook
<1>2. ASSUME NEW b \in DOMAIN bk.branches
      PROVE  DecodeBranch(EncodeBranch(bk.branches[b]))
               = [bk.branches[b] EXCEPT !.parent = Said(@), !.next_play = Said(@)]
  <2>1. bk.branches[b] \in Branch
    BY DEF IsBook
  <2>2. /\ Optional(Text(bk.branches[b].parent)) = Said(bk.branches[b].parent)
        /\ Optional(Text(bk.branches[b].next_play)) = Said(bk.branches[b].next_play)
    BY OptionalText
  <2> HIDE DEF Said
  <2> QED
    BY <2>1, <2>2 DEF Branch, EncodeBranch, DecodeBranch
<1> HIDE DEF coded
<1>3. Decode(coded) =
        [revision |-> bk.revision, choice |-> Optional(Text(bk.choice)),
         branches |-> [b \in DOMAIN bk.branches |->
                         DecodeBranch(EncodeBranch(bk.branches[b]))]]
  <2> DEFINE parts == [b \in DOMAIN coded.branches |-> DecodeBranch(coded.branches[b])]
  <2>1. parts = [b \in DOMAIN bk.branches |->
                   DecodeBranch(EncodeBranch(bk.branches[b]))]
    BY <1>1
  <2>2. Decode(coded) = [coded EXCEPT !.choice = Optional(coded.choice),
                                      !.branches = parts]
    BY DEF Decode
  <2> HIDE DEF parts
  <2>3. coded = [revision |-> coded.revision, choice |-> coded.choice,
                 branches |-> coded.branches]
    BY <1>1
  <2>4. Decode(coded) = [revision |-> coded.revision,
                         choice |-> Optional(coded.choice), branches |-> parts]
    BY <2>2, <2>3, Rewritten
  <2> QED
    BY <1>1, <2>1, <2>4
<1>4. [b \in DOMAIN bk.branches |-> DecodeBranch(EncodeBranch(bk.branches[b]))]
        = [b \in DOMAIN bk.branches |->
             [bk.branches[b] EXCEPT !.parent = Said(@), !.next_play = Said(@)]]
  BY <1>2
<1>5. Optional(Text(bk.choice)) = Said(bk.choice)
  BY OptionalText
<1>6. Decode(coded) =
        [revision |-> bk.revision, choice |-> Said(bk.choice),
         branches |-> [b \in DOMAIN bk.branches |->
                         [bk.branches[b] EXCEPT !.parent = Said(@), !.next_play = Said(@)]]]
  BY <1>3, <1>4, <1>5
<1> QED
  BY <1>6 DEF coded, BlankAsAbsent

\* Absent fields cite nothing, so the references of a book stay.
LEMMA BlankCites ==
  ASSUME NEW bk, IsBook(bk)
  PROVE  Cited(BlankAsAbsent(bk)) = Cited(bk)
<1> DEFINE B == BlankAsAbsent(bk).branches
<1>1. DOMAIN B = DOMAIN bk.branches
  BY DEF BlankAsAbsent
<1>2. ASSUME NEW b \in DOMAIN bk.branches
      PROVE  /\ B[b].evidence = bk.branches[b].evidence
             /\ B[b].objections = bk.branches[b].objections
  BY DEF BlankAsAbsent, IsBook, Branch
<1> HIDE DEF B
<1>3. \A r : (\E b \in DOMAIN B :
               \/ r \in B[b].evidence
               \/ \E o \in Objections : B[b].objections[o] # None
                                          /\ r \in B[b].objections[o])
             <=> (\E b \in DOMAIN bk.branches :
                    \/ r \in bk.branches[b].evidence
                    \/ \E o \in Objections : bk.branches[b].objections[o] # None
                                               /\ r \in bk.branches[b].objections[o])
  BY <1>1, <1>2
<1> QED
  BY <1>3 DEF Cited, B

\* A replay gives back the book that was exported, whatever its branches are
\* called, with its blank optional fields absent, and names exactly the missing
\* references, however the live book went on and whichever projections were
\* deleted (archive.rs export, replay; codec.rs).
THEOREM ReplaysGiveBack == Spec => []ReplayGivesBack
<1>1. Init => ArchiveExact
  BY DEF Init, ArchiveExact
<1>2. ArchiveExact /\ BookTypeOK /\ [Next]_vars => ArchiveExact'
  <2> SUFFICES ASSUME ArchiveExact, BookTypeOK, [Next]_vars
               PROVE  ArchiveExact'
    OBVIOUS
  <2>1. ASSUME NEW n \in Archives, Export(n)
        PROVE  ArchiveExact'
    BY <2>1 DEF Export, ArchiveExact
  <2>2. CASE UNCHANGED <<exports, exported>>
    BY <2>2 DEF ArchiveExact
  <2> QED
    BY <2>1, <2>2, EditsCommit DEF Next, Read, Commit, DeleteProjection, vars
<1>3. ArchiveExact /\ BookTypeOK => ReplayGivesBack
  <2> SUFFICES ASSUME ArchiveExact, BookTypeOK, NEW n \in DOMAIN exported,
                      NEW available \in SUBSET Refs
               PROVE  Replay(n, available)
                        = [book |-> BlankAsAbsent(exported[n]),
                           missing |-> Cited(exported[n]) \ available]
    BY DEF ReplayGivesBack
  <2>1. IsBook(exported[n]) /\ exports[n] = Encode(exported[n])
    BY DEF BookTypeOK, ArchiveExact
  <2>2. Decode(exports[n]) = BlankAsAbsent(exported[n])
    BY <2>1, DecodeEncode
  <2>3. Cited(BlankAsAbsent(exported[n])) = Cited(exported[n])
    BY <2>1, BlankCites
  <2> QED
    BY <2>2, <2>3 DEF Replay
<1> QED
  BY <1>1, <1>2, <1>3, BookTyped, PTL DEF Spec
=============================================================================
