---------------------------- MODULE SessionPages ----------------------------
(***************************************************************************)
(* Bounded snapshots and continuation tokens of one server session         *)
(* (sim-lib-expr-tree-server/src/session.rs): what each reply renders of   *)
(* the tree, and which tokens it leaves to ask for more.                   *)
(*                                                                         *)
(* A path is the sequence of its names.  A layout maps a directory to the  *)
(* sequence of its entries' paths; an entry outside the domain is a cell.  *)
(* A token is the number that makes it unique.  rendered and sent are      *)
(* history variables: the entries of each directory, and the tokens, that  *)
(* the last snapshot a client was sent holds.                              *)
(*                                                                         *)
(* A request has the session's record to itself while it renders, not the  *)
(* runtime's tree: every call of inspect_entries and inspect_cell takes    *)
(* that lock anew, other sessions change the tree between two of them, and *)
(* each may fail.  A step is one request, with what it glimpsed of the     *)
(* tree at each of its calls and the call that failed, if one did.         *)
(***************************************************************************)
EXTENDS Naturals, Sequences, FiniteSets, SequencesExt

CONSTANTS
  Layouts,                  \* the trees the runtime may produce (external)
  OpenCells,                \* cells that clients disclose
  MaxPage, MaxDepth,        \* ExpressionTreeServerLimits
  MaxRevision, MaxToken     \* model bounds

ASSUME PagesAssumption ==
  Layouts # {} /\ MaxPage \in Nat \ {0} /\ MaxDepth \in Nat \ {0}

\* The entries of a directory are listed once each, one name below it.
WellListed(t) ==
  /\ <<>> \in DOMAIN t
  /\ \A d \in DOMAIN t :
       /\ d \in Seq(STRING) /\ t[d] \in Seq(Seq(STRING))
       /\ \A i \in 1..Len(t[d]) : /\ t[d][i] # <<>> /\ Front(t[d][i]) = d
                                 /\ \A j \in 1..Len(t[d]) : t[d][i] = t[d][j] => i = j

ASSUME LayoutAssumption == \A t \in Layouts : WellListed(t)

VARIABLES
  revision,
  expanded,                 \* set of paths
  page_sizes,               \* path -> entries asked for
  continuations,            \* token -> [path, offset, revision]
  next_continuation,
  rendered,                 \* path -> sequence of entries
  sent                      \* set of tokens

vars == <<revision, expanded, page_sizes, continuations, next_continuation,
          rendered, sent>>

Root == <<>>
Paths == UNION {DOMAIN t : t \in Layouts}
Put(f, k, v) == [x \in DOMAIN f \cup {k} |-> IF x = k THEN v ELSE f[x]]
Smaller(a, b) == IF a < b THEN a ELSE b
Empty == [x \in {} |-> 0]

\* The tree as each directory was when it was listed.  An entry is the kind its
\* directory's listing gave it; what it holds, its own listing says.
Glimpses == {at \in [Paths -> Layouts] : \A d \in Paths : d \in DOMAIN at[d]}

Sight(at) == [d \in {d \in Paths : d = Root \/ d \in DOMAIN at[Front(d)]} |-> at[d][d]]

----------------------------------------------------------------------------
\* The snapshot walk carries what it has rendered, the tokens it has issued,
\* the budget that is left, and the calls of node and directory_page that are
\* still to be made or to return, the innermost first.  W is the world it
\* renders.
Budget == MaxPage * MaxDepth

Issue(W, walk, path, offset) ==
  [walk EXCEPT
     !.tokens = Put(@, walk.next, [path |-> path, offset |-> offset,
                                   revision |-> W.revision]),
     !.next = @ + 1]

PageSize(W, path) ==
  Smaller(IF path \in DOMAIN W.page_sizes THEN W.page_sizes[path] ELSE MaxPage,
          Len(W.tree[path]))

Visit(path, depth) == [call |-> "node", path |-> path, depth |-> depth]
Return(path) == [call |-> "return", path |-> path, depth |-> 0]

\* Mutant: the budget is charged but not consulted.
DirectoryPageUnbudgeted(W, walk, path, depth) ==
  LET admitted == PageSize(W, path)
  IN [walk EXCEPT
        !.remaining = IF @ < admitted THEN 0 ELSE @ - admitted,
        !.rendered = Put(@, path, admitted),
        !.calls = [i \in 1..admitted |-> Visit(W.tree[path][i], depth)]
                    \o <<Return(path)>> \o @]

\* The page's own entries are paid for first, then the entries are visited.
DirectoryPage(W, walk, path, depth) ==
  LET admitted == Smaller(PageSize(W, path), walk.remaining)
  IN [walk EXCEPT
        !.remaining = @ - admitted,
        !.rendered = Put(@, path, admitted),
        !.calls = [i \in 1..admitted |-> Visit(W.tree[path][i], depth)]
                    \o <<Return(path)>> \o @]

\* A directory that was not rendered to its end gets a token.
Truncated(W, walk, path) ==
  IF walk.rendered[path] < Len(W.tree[path])
    THEN Issue(W, walk, path, walk.rendered[path]) ELSE walk

\* Mutant: a collapsed directory is rendered all the same.
NodeAlwaysOpen(W, walk, entry, depth) ==
  IF entry \notin DOMAIN W.tree THEN walk
  ELSE IF depth + 1 >= MaxDepth THEN Issue(W, walk, entry, 0)
  ELSE DirectoryPage(W, walk, entry, depth + 1)

Node(W, walk, entry, depth) ==
  IF entry \notin DOMAIN W.tree \/ entry \notin W.expanded THEN walk
  ELSE IF depth + 1 >= MaxDepth THEN Issue(W, walk, entry, 0)
  ELSE DirectoryPage(W, walk, entry, depth + 1)

WalkOn(W, walk) ==
  IF walk.calls = <<>> THEN walk
  ELSE LET call == Head(walk.calls)
           rest == [walk EXCEPT !.calls = Tail(@)]
       IN IF call.call = "return" THEN Truncated(W, rest, call.path)
          ELSE Node(W, rest, call.path, call.depth)

\* The budget bounds the walk: an admitted entry is one call, and so is the
\* return of each directory among them and of the root.
Steps == 2 * Budget + 1

Walk(W, start) ==
  LET walk[k \in 0..Steps] == IF k = 0 THEN start ELSE WalkOn(W, walk[k - 1])
  IN walk

\* Mutant: the tokens of earlier snapshots stay.
SnapshotKeepingTokens(W) ==
  LET start == [rendered |-> Empty, tokens |-> continuations,
                next |-> next_continuation, remaining |-> Budget, calls |-> <<>>]
  IN Walk(W, DirectoryPage(W, start, Root, 0))[Steps]

\* SessionRecord::snapshot: the tokens of earlier snapshots are gone.
Snapshot(W) ==
  LET start == [rendered |-> Empty, tokens |-> Empty,
                next |-> next_continuation, remaining |-> Budget, calls |-> <<>>]
  IN Walk(W, DirectoryPage(W, start, Root, 0))[Steps]

\* The next call of the walk asks the runtime for a listing or a cell.
Inspects(W, walk) ==
  /\ walk.calls # <<>>
  /\ LET call == Head(walk.calls)
     IN /\ call.call = "node" /\ call.path \in W.expanded
        /\ call.path \in DOMAIN W.tree => call.depth + 1 < MaxDepth

\* What is left of a snapshot when one of its inspections fails: the entry has
\* gone or become something else, or the listing is over its limit.
Interrupted(W) ==
  LET start == [rendered |-> Empty, tokens |-> Empty,
                next |-> next_continuation, remaining |-> Budget, calls |-> <<>>]
      walk == Walk(W, DirectoryPage(W, start, Root, 0))
  IN {start} \cup {w \in {walk[k] : k \in 0..Steps} : Inspects(W, w)}

\* What the walk has rendered of a directory.
Page(W, walk, path) == SubSeq(W.tree[path], 1, walk.rendered[path])

\* The record after a step's own changes and what its snapshot sees of the tree.
World(at, r, e, p) ==
  [tree |-> Sight(at), revision |-> r, expanded |-> e, page_sizes |-> p]

\* The record after the walk.
Rendered(W, walk) ==
  /\ walk.next <= MaxToken
  /\ revision' = W.revision /\ expanded' = W.expanded
  /\ page_sizes' = W.page_sizes
  /\ continuations' = walk.tokens /\ next_continuation' = walk.next

Reply(W) ==
  LET shot == Snapshot(W) IN
  /\ Rendered(W, shot)
  /\ rendered' = [d \in DOMAIN shot.rendered |-> Page(W, shot, d)]
  /\ sent' = DOMAIN shot.tokens

\* The request fails with its snapshot.  What it changed stays, the earlier
\* tokens are gone, and those issued on the way are of no reply.
Fail(W) ==
  /\ \E walk \in Interrupted(W) : Rendered(W, walk)
  /\ UNCHANGED <<rendered, sent>>

Serve(r, e, p) ==
  \E at \in Glimpses : Reply(World(at, r, e, p)) \/ Fail(World(at, r, e, p))

----------------------------------------------------------------------------
Init ==
  /\ revision = 1
  /\ expanded = {Root}
  /\ page_sizes = Empty
  /\ continuations = Empty /\ next_continuation = 1
  /\ rendered = Empty /\ sent = {}

\* web-session/read, and the reply to an operation that changes nothing
\* (open-policy, explain, ...).
Read == Serve(revision, expanded, page_sizes)

\* The snapshot apply_intent takes is the decoder's; the client is not sent it.
IntentSnapshot ==
  /\ \E at \in Glimpses :
       LET W == World(at, revision, expanded, page_sizes) IN Rendered(W, Snapshot(W))
  /\ UNCHANGED <<rendered, sent>>

\* Collapsing a directory collapses everything under it; the root stays.
Disclosed(path, open) ==
  IF open THEN expanded \cup {path}
  ELSE {e \in expanded : e = Root \/ ~IsPrefix(path, e)}

Disclose(path, open) ==
  /\ revision < MaxRevision
  /\ Serve(revision + 1, Disclosed(path, open), page_sizes)

\* The token is consumed, then compared with the revision and the path.
Continue(path, token) ==
  /\ revision < MaxRevision
  /\ token \in DOMAIN continuations
  /\ continuations[token].revision = revision
  /\ continuations[token].path = path
  /\ Serve(revision + 1, expanded,
           Put(page_sizes, path, continuations[token].offset + MaxPage))

StaleContinuation(path, token) ==
  /\ token \in DOMAIN continuations
  /\ \/ continuations[token].revision # revision
     \/ continuations[token].path # path
  /\ continuations' = [t \in DOMAIN continuations \ {token} |-> continuations[t]]
  /\ UNCHANGED <<revision, expanded, page_sizes, next_continuation, rendered, sent>>

\* A runtime operation that changed the tree: the surface request answers with
\* a snapshot, the direct call with the operation's value only.
RuntimeChange ==
  /\ revision < MaxRevision
  /\ Serve(revision + 1, expanded, page_sizes)

DirectChange ==
  /\ revision < MaxRevision
  /\ revision' = revision + 1
  /\ UNCHANGED <<expanded, page_sizes, continuations, next_continuation,
                 rendered, sent>>

Next ==
  \/ Read \/ IntentSnapshot
  \/ \E path \in Paths \cup OpenCells, open \in BOOLEAN : Disclose(path, open)
  \/ \E path \in Paths :
       \E token \in DOMAIN continuations :
         Continue(path, token) \/ StaleContinuation(path, token)
  \/ RuntimeChange \/ DirectChange

Spec == Init /\ [][Next]_vars

----------------------------------------------------------------------------
\* The tokens that a continue would be accepted for.
Redeemable == {t \in DOMAIN continuations : continuations[t].revision = revision}

\* The places of the entries that the last snapshot sent holds.
Shown == UNION {{p} \X (1..Len(rendered[p])) : p \in DOMAIN rendered}

\* A snapshot never renders more entries than max_page_entries x
\* max_snapshot_depth, however many directories are open, however often their
\* pages have been continued and however the tree changes while it is rendered
\* (session.rs snapshot, directory_page).
SnapshotBounded == Cardinality(Shown) <= Budget

\* A token that the client was sent and that a continue would be accepted for
\* is of the last snapshot it was sent: it resumes exactly where that snapshot's
\* page ends, also after requests that failed in the middle of theirs.  No two
\* tokens compete for one page, of those left by a failed request neither.
TokensResume ==
  /\ \A t \in Redeemable \cap sent :
       continuations[t].offset =
         IF continuations[t].path \in DOMAIN rendered
           THEN Len(rendered[continuations[t].path]) ELSE 0
  /\ \A s, t \in Redeemable :
       continuations[s].path = continuations[t].path => s = t

\* A collapsed directory is not rendered, and an open one is rendered only if
\* it is an entry of a page that is: whatever stays in expanded or page_sizes
\* after a collapse, a move or a deletion shows nothing on its own.
RenderedIsReachable ==
  [][rendered' # rendered =>
       \A p \in DOMAIN rendered' \ {Root} :
         /\ p \in expanded'
         /\ \E q \in DOMAIN rendered' : p \in ToSet(rendered'[q])]_vars
=============================================================================
