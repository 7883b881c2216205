------------------------------- MODULE Surface -------------------------------
(***************************************************************************)
(* The surface codec over a session's snapshots: what a scene shows and    *)
(* offers (sim-lib-view-expr-tree scene.rs, model.rs, budget.rs), what the *)
(* decoder makes of an intent (intent.rs), and what the session or the     *)
(* operation table of sim-lib-expr-tree does with the operation it         *)
(* compiles to.  Rendering and decoding keep no state: they are operators  *)
(* over the snapshot that a session state of SessionPages answers.         *)
(*                                                                         *)
(* Texts, labels and layout are left out.  Every size estimate counts one  *)
(* unit; LongNames are the entries whose name exceeds the face bound.  An  *)
(* operation's arguments are the kinds of its values.                      *)
(***************************************************************************)
EXTENDS SessionPages

CONSTANTS
  RenderBudgets,            \* [nodes, depth, bytes] per display density
  SubtreeCaps,              \* the caps of RenderBudget::subtree
  LongNames,
  CellDetails               \* [source : face state, receipt : BOOLEAN]

ASSUME SurfaceAssumption ==
  /\ \A b \in RenderBudgets \cup {SubtreeCaps} :
       /\ DOMAIN b = {"nodes", "depth", "bytes"}
       /\ b.nodes \in Nat /\ b.depth \in Nat /\ b.bytes \in Nat
  /\ \A detail \in CellDetails : detail.receipt \in BOOLEAN

\* What a snapshot would render now, with such glimpses of the tree.
WorldNow(at) == World(at, revision, expanded, page_sizes)

----------------------------------------------------------------------------
\* The snapshot value: a function from the paths it carries to their nodes.

\* The entries of a directory that its page admitted.
PageOf(W, shot, dir) ==
  IF dir \in DOMAIN shot.rendered THEN Page(W, shot, dir) ELSE <<>>

DirectorySnapshot(W, shot, dir) ==
  [type |-> "directory", open |-> dir \in W.expanded,
   nodes |-> PageOf(W, shot, dir),
   tokens |-> {t \in DOMAIN shot.tokens : shot.tokens[t].path = dir}]

CellSnapshot(W, path, detail) ==
  [type |-> "cell", open |-> path \in W.expanded, detail |-> detail]

SurfaceSnapshot(W, shot, detail) ==
  LET carried == {Root} \cup
        UNION {ToSet(PageOf(W, shot, d)) : d \in DOMAIN shot.rendered}
  IN [p \in carried |-> IF p \in DOMAIN W.tree
                          THEN DirectorySnapshot(W, shot, p)
                          ELSE CellSnapshot(W, p, detail)]

----------------------------------------------------------------------------
\* Scene: the rendering carries what has been admitted, the nodes shown, the
\* places marked as cut, the intents the controls submit, and the directory
\* bodies that are not finished, the innermost first.

Subtree(b) == [f \in DOMAIN b |-> Smaller(b[f], SubtreeCaps[f])]

Admits(b, used, depth, long) ==
  /\ used.nodes < b.nodes
  /\ depth <= b.depth
  /\ ~long
  /\ used.bytes + 1 <= b.bytes

Admitted(used) == [used EXCEPT !.nodes = @ + 1, !.bytes = @ + 1]

NothingUsed == [nodes |-> 0, bytes |-> 0]

Target(path, tokens, request) ==
  [revision |-> revision, path |-> path, tokens |-> tokens, request |-> request]

Taps(target, controls) == {[kind |-> "tap", target |-> target, control |-> c]
                             : c \in controls}

\* Mutant: the cancel button does not depend on the receipt.
ActionsAlwaysCancel(target) ==
  Taps(target, {"calculate", "recalculate", "recalculate-recursive",
                "policy", "explain", "cancel"})

Actions(target) ==
  Taps(target, {"calculate", "recalculate", "recalculate-recursive",
                "policy", "explain"}
               \cup (IF target.request THEN {"cancel"} ELSE {}))

\* A source face that is not complete is shown as text and cannot be edited.
FaceControls(target, detail) ==
  IF detail.source = "complete"
    THEN {[kind |-> "edit-field", target |-> target]} ELSE {}

Disclosure(path, node) ==
  [kind |-> "tree-disclosure", target |-> Target(path, {}, FALSE),
   open |-> ~node.open]

Offer(scene, intents) == [scene EXCEPT !.offered = @ \cup intents]
Mark(scene, path)     == [scene EXCEPT !.marked = @ \cup {path}]

Show(scene, path, node) ==
  Offer([scene EXCEPT !.shown = @ \cup {path}], {Disclosure(path, node)})

\* The detail is one more admission; when it fails the cell is not shown,
\* although it has been charged.
RenderCell(b, scene, path, node, depth) ==
  LET target == Target(path, {}, node.detail.receipt)
  IN IF ~node.open THEN [ok |-> TRUE, scene |-> Show(scene, path, node)]
     ELSE IF ~Admits(b, scene.used, depth + 1, FALSE)
       THEN [ok |-> FALSE, scene |-> scene]
     ELSE [ok |-> TRUE,
           scene |-> Offer(Show([scene EXCEPT !.used = Admitted(@)], path, node),
                           Actions(target) \cup FaceControls(target, node.detail))]

\* The body of an open directory while it is rendered: the entries that are
\* left of its page, and what its subtree has used.
Body(S, dir, depth) ==
  [dir |-> dir, depth |-> depth, left |-> S[dir].nodes, used |-> NothingUsed]

\* A node is charged before its body is rendered; the body of a directory is
\* still to come.
RenderNode(S, b, scene, path, depth) ==
  LET node  == S[path]
      begun == [scene EXCEPT !.used = Admitted(@)]
      cell  == RenderCell(b, begun, path, node, depth)
  IN IF ~Admits(b, scene.used, depth, path \in LongNames)
       THEN [ok |-> FALSE, scene |-> scene, bodies |-> <<>>]
     ELSE IF node.type = "cell"
       THEN [ok |-> cell.ok, scene |-> cell.scene, bodies |-> <<>>]
     ELSE [ok |-> TRUE, scene |-> Show(begun, path, node),
           bodies |-> IF node.open THEN <<Body(S, path, depth + 1)>> ELSE <<>>]

\* Mutant: a subtree that outgrows its own budget just stops.
RenderChildSilently(S, b, render) ==
  LET body  == Head(render.bodies)
      child == Head(body.left)
      node  == RenderNode(S, b, render.scene, child, body.depth)
      rest  == [body EXCEPT !.left = Tail(@), !.used = Admitted(@)]
  IN IF ~Admits(Subtree(b), body.used, body.depth, child \in LongNames)
       THEN [render EXCEPT !.bodies = Tail(@)]
     ELSE IF ~node.ok
       THEN [scene |-> Mark(node.scene, body.dir), bodies |-> Tail(render.bodies)]
     ELSE [scene |-> node.scene,
           bodies |-> node.bodies \o <<rest>> \o Tail(render.bodies)]

\* One child: admitted by the subtree, then rendered against the whole budget.
\* Whatever refuses it, the directory is marked and its later entries left out.
RenderChild(S, b, render) ==
  LET body  == Head(render.bodies)
      child == Head(body.left)
      node  == RenderNode(S, b, render.scene, child, body.depth)
      rest  == [body EXCEPT !.left = Tail(@), !.used = Admitted(@)]
  IN IF ~Admits(Subtree(b), body.used, body.depth, child \in LongNames)
       THEN [scene |-> Mark(render.scene, body.dir), bodies |-> Tail(render.bodies)]
     ELSE IF ~node.ok
       THEN [scene |-> Mark(node.scene, body.dir), bodies |-> Tail(render.bodies)]
     ELSE [scene |-> node.scene,
           bodies |-> node.bodies \o <<rest>> \o Tail(render.bodies)]

\* A page with a continuation ends in Load more, unless a budget cut it first.
FinishBody(S, render) ==
  LET dir == Head(render.bodies).dir
  IN [scene |-> IF S[dir].tokens = {} THEN render.scene
                ELSE Offer(Mark(render.scene, dir),
                           Taps(Target(dir, S[dir].tokens, FALSE), {"continue"})),
      bodies |-> Tail(render.bodies)]

\* The innermost directory body goes on.
RenderDirectoryBody(S, b, render) ==
  IF render.bodies = <<>> THEN render
  ELSE IF Head(render.bodies).left = <<>> THEN FinishBody(S, render)
  ELSE RenderChild(S, b, render)

\* Every admitted node is rendered once and has at most one body to finish.
Renderings(b) == 2 * b.nodes

Render(S, b, start) ==
  LET render[k \in 0..Renderings(b)] ==
        IF k = 0 THEN start ELSE RenderDirectoryBody(S, b, render[k - 1])
  IN render

\* The one root of the snapshot; the marker of the scene itself is moreRoots.
Encode(S, b) ==
  LET blank == [used |-> NothingUsed, shown |-> {}, marked |-> {}, offered |-> {}]
      root  == RenderNode(S, b, blank, Root, 1)
      scene == Render(S, b, [scene |-> root.scene, bodies |-> root.bodies])
                 [Renderings(b)].scene
  IN [shown |-> scene.shown, marked |-> scene.marked, offered |-> scene.offered,
      moreRoots |-> ~root.ok]

----------------------------------------------------------------------------
\* Intents that need no control of the scene, on what the scene shows.
At(p) == Target(p, {}, FALSE)

CreateIntents(p) ==
  {[kind |-> "create", target |-> At(p), class |-> "cell",
    args |-> <<"name", "source">>],
   [kind |-> "create", target |-> At(p), class |-> "directory", args |-> <<"name">>]}

EntryIntents(p) ==
  {[kind |-> "delete", target |-> At(p)],
   [kind |-> "move", target |-> At(p), to |-> At(p)],
   [kind |-> "set-param", target |-> At(p), param |-> "calc-policy"],
   [kind |-> "set-param", target |-> At(p), param |-> "codec-policy"]}

CellIntents(p) ==
  {[kind |-> "invoke", target |-> At(p), op |-> "recalculate", args |-> <<>>],
   [kind |-> "invoke", target |-> At(p), op |-> "cancel", args |-> <<"request">>],
   [kind |-> "cancel", target |-> Target(p, {}, TRUE)]}

HostIntents(scene, S) ==
  UNION {EntryIntents(p) \cup (IF S[p].type = "directory" THEN CreateIntents(p)
                                                         ELSE CellIntents(p))
           : p \in scene.shown}

\* intent.rs: the command an intent proposes, NoCommand when it is rejected.
NoCommand == [action |-> "rejected"]

Command(action, target, args) ==
  [action |-> action, path |-> target.path, args |-> args,
   revision |-> revision, tokens |-> target.tokens]

Tap(target, control) ==
  CASE control = "continue" ->
         IF target.tokens = {} THEN NoCommand ELSE Command("continue", target, <<>>)
    [] control = "cancel" ->
         IF target.request THEN Command("cancel", target, <<"request">>) ELSE NoCommand
    [] control = "policy" -> Command("open-policy", target, <<>>)
    [] OTHER -> Command(control, target, <<>>)

Create(target, class, args) ==
  CASE class = "cell" /\ Len(args) = 2 -> Command("new-cell", target, args)
    [] class = "directory" /\ Len(args) = 1 -> Command("new-dir", target, args)
    [] OTHER -> NoCommand

Invoke(target, op, args) ==
  CASE op = "cancel" -> Command("cancel", target, args)
    [] args = <<>> -> Command(op, target, <<>>)
    [] OTHER -> NoCommand

Policy(target, param) ==
  Command(IF param = "calc-policy" THEN "set-calc-policy" ELSE "set-codec-policy",
          target, <<"policy">>)

Decode(i) ==
  LET t == i.target IN
  IF t.revision # revision THEN NoCommand
  ELSE CASE i.kind = "tree-disclosure" -> Command("disclose", t, <<"bool">>)
         [] i.kind = "tap"        -> Tap(t, i.control)
         [] i.kind = "edit-field" -> Command("set-expr", t, <<"source">>)
         [] i.kind = "create"     -> Create(t, i.class, i.args)
         [] i.kind = "move"       -> IF i.to.revision # revision THEN NoCommand
                                     ELSE Command("move", t, <<"path">>)
         [] i.kind = "delete"     -> Command("delete", t, <<>>)
         [] i.kind = "invoke"     -> Invoke(t, i.op, i.args)
         [] i.kind = "set-param"  -> Policy(t, i.param)
         [] i.kind = "cancel"     -> IF t.request THEN Command("cancel", t, <<"request">>)
                                     ELSE NoCommand

\* commit: the form an operation takes and the capability it asks of the caller.
LocalActions == {"disclose", "continue", "open-policy"}

RequiredCapability(action) ==
  CASE action \in LocalActions \cup {"explain"} -> "read"
    [] action \in {"calculate", "recalculate", "recalculate-recursive", "cancel"}
         -> "calculate"
    [] OTHER -> "write"

Compile(c) ==
  [local |-> c.action \in LocalActions, op |-> c.action, path |-> c.path,
   tokens |-> c.tokens, capability |-> RequiredCapability(c.action),
   args |-> IF c.action = "cancel" THEN <<"tree">> \o c.args
            ELSE <<"tree", "path">> \o c.args]

----------------------------------------------------------------------------
\* operation_specs: the capability of the operations a surface can compile to.
OperationCapability(op) ==
  CASE op \in {"new-cell", "new-dir", "move", "delete", "set-expr",
               "set-calc-policy", "set-codec-policy"} -> "write"
    [] op \in {"calculate", "recalculate", "recalculate-recursive", "cancel"}
         -> "calculate"
    [] op = "explain" -> "read"

\* dispatch.rs: what each operation reads from its arguments, in order.
OperationArgs(op) ==
  CASE op = "new-cell" -> <<"tree", "path", "name", "source">>
    [] op = "new-dir"  -> <<"tree", "path", "name">>
    [] op = "move"     -> <<"tree", "path", "path">>
    [] op = "set-expr" -> <<"tree", "path", "source">>
    [] op \in {"set-calc-policy", "set-codec-policy"} -> <<"tree", "path", "policy">>
    [] op = "cancel"   -> <<"tree", "request">>
    [] op \in {"delete", "calculate", "recalculate", "recalculate-recursive",
               "explain"} -> <<"tree", "path">>

\* apply_surface_local on the record that answered the snapshot.
AcceptedLocally(shot, o) ==
  o.op = "continue" =>
    \A t \in o.tokens : /\ t \in DOMAIN shot.tokens
                        /\ shot.tokens[t].path = o.path
                        /\ shot.tokens[t].revision = revision

AcceptedByRuntime(o) ==
  /\ o.args = OperationArgs(o.op)
  /\ o.capability = OperationCapability(o.op)

----------------------------------------------------------------------------
\* Every scene of every snapshot this session state may answer.
EveryScene(P(_, _, _, _)) ==
  \A at \in Glimpses :
    LET W == WorldNow(at)
        shot == Snapshot(W)
    IN \A b \in RenderBudgets, detail \in CellDetails :
         LET S == SurfaceSnapshot(W, shot, detail) IN P(W, shot, S, Encode(S, b))

\* Nothing of an open directory is left out silently: when an entry that
\* was listed is missing from the scene under a directory the scene shows open,
\* because of the page, the subtree budget, the whole budget, its depth or its
\* name, the scene marks that directory (scene.rs render_directory_body,
\* session.rs directory_page).
OmissionsMarked ==
  LET Marked(W, shot, S, scene) ==
        /\ Root \in scene.shown \/ scene.moreRoots
        /\ \A d \in scene.shown \cap expanded \cap DOMAIN W.tree :
             ~(ToSet(W.tree[d]) \subseteq scene.shown) => d \in scene.marked
  IN EveryScene(Marked)

\* Whatever a scene offers works on the session that answered it: each intent
\* decodes, and compiles to an operation the session accepts (tokens included)
\* or whose arguments and capability are the ones the operation table and the
\* dispatcher ask for (scene.rs, intent.rs, operation.rs, session.rs).  This is
\* about operations that web-session/commit and web-session/realize bring: an
\* intent through apply_intent is decoded against a snapshot taken anew, which
\* forgets the tokens (server.rs:202).
OfferedControlsRun ==
  LET Runs(W, shot, S, scene) ==
        \A i \in scene.offered \cup HostIntents(scene, S) :
          LET c == Decode(i)
              o == Compile(c)
          IN /\ c # NoCommand
             /\ IF o.local THEN AcceptedLocally(shot, o) ELSE AcceptedByRuntime(o)
  IN EveryScene(Runs)
=============================================================================
