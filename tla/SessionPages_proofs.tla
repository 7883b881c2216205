------------------------- MODULE SessionPages_proofs -------------------------
(***************************************************************************)
(* Proofs about SessionPages and Surface, for every layout, page size,     *)
(* depth, display budget and length of run: a snapshot stays within the    *)
(* node budget, its walk ends, its tokens resume where it stopped, it      *)
(* shows only what can be reached, a scene marks what it leaves out, and   *)
(* what it offers runs.  Walk and rendering are recursive functions; what  *)
(* they compute is proved by induction over their calls.                   *)
(***************************************************************************)
EXTENDS Surface, FiniteSetTheorems, SequenceTheorems, TLAPS

----------------------------------------------------------------------------
\* Induction over the numbers of a set: the induction theorems of the library
\* take an operator, this one takes a set.
LEMMA SetInduction ==
  ASSUME NEW T, 0 \in T, \A n \in Nat : n \in T => n + 1 \in T
  PROVE  \A n \in Nat : n \in T
<1> SUFFICES ASSUME NEW n \in Nat, n \notin T PROVE FALSE
  OBVIOUS
<1> DEFINE F == {0 .. m : m \in Nat \ T}
           R == StrictSubsetOrdering(Nat)
           S == FiniteSubsetsOf(Nat)
<1>1. F \subseteq S /\ F # {}
  <2>1. \A m \in Nat : 0 .. m \subseteq Nat /\ IsFiniteSet(0 .. m)
    BY FS_Interval
  <2> QED
    BY <2>1 DEF FiniteSubsetsOf
<1>2. IsWellFoundedOn(R, S)
  BY FS_StrictSubsetOrderingWellFounded
<1>3. PICK x \in F : \A y \in F : ~ (<<y, x>> \in R)
  <2> HIDE DEF F, R, S
  <2> QED
    BY <1>1, <1>2, WFMin
<1>4. PICK m \in Nat \ T : x = 0 .. m
  OBVIOUS
<1>5. m - 1 \in Nat /\ m - 1 \notin T
  OBVIOUS
<1>6. 0 .. m - 1 \in F /\ 0 .. m - 1 \subseteq 0 .. m /\ m \in 0 .. m /\ m \notin 0 .. m - 1
  BY <1>5
<1>7. <<0 .. m - 1, 0 .. m>> \in R
  BY <1>5, <1>6 DEF StrictSubsetOrdering
<1> QED
  BY <1>3, <1>4, <1>6, <1>7

\* The budget and the number of calls it allows are numbers.
LEMMA Bounds == Budget \in Nat /\ Steps \in Nat /\ Steps >= 1
BY PagesAssumption DEF Budget, Steps

\* What the walk's definition says: it starts at the start, and each call of it
\* goes on from the one before.
LEMMA WalkByCalls ==
  ASSUME NEW W, NEW start
  PROVE  /\ Walk(W, start)[0] = start
         /\ \A k \in 1 .. Steps : Walk(W, start)[k] = WalkOn(W, Walk(W, start)[k - 1])
<1> DEFINE Calls(f, n) ==
             [k \in 0 .. n |-> IF k = 0 THEN start ELSE WalkOn(W, f[k - 1])]
           T == {n \in Nat : \E f : f = Calls(f, n)}
<1>1. 0 \in T
  <2> DEFINE f == [k \in 0 .. 0 |-> start]
  <2>1. f = Calls(f, 0)
    OBVIOUS
  <2> QED
    BY <2>1
<1>2. ASSUME NEW n \in Nat, n \in T PROVE n + 1 \in T
  <2>1. PICK f : f = Calls(f, n)
    BY <1>2
  <2> DEFINE g == [k \in 0 .. n + 1 |-> IF k = n + 1 THEN WalkOn(W, f[n]) ELSE f[k]]
  <2>2. ASSUME NEW k \in 0 .. n + 1
        PROVE  g[k] = IF k = 0 THEN start ELSE WalkOn(W, g[k - 1])
    <3>1. CASE k = 0
      BY <2>1, <3>1
    <3>2. CASE k = n + 1
      BY <3>2
    <3>3. CASE k # 0 /\ k # n + 1
      <4>1. k \in 0 .. n /\ k - 1 \in 0 .. n /\ k - 1 # n + 1 /\ k - 1 \in 0 .. n + 1
        BY <3>3
      <4>2. f[k] = WalkOn(W, f[k - 1])
        BY <2>1, <3>3, <4>1
      <4> QED
        BY <3>3, <4>1, <4>2
    <3> QED
      BY <3>1, <3>2, <3>3
  <2>3. g = Calls(g, n + 1)
    <3> HIDE DEF g
    <3>1. g = [k \in 0 .. n + 1 |-> g[k]]
      BY DEF g
    <3> QED
      BY <2>2, <3>1
  <2>4. \E h : h = Calls(h, n + 1)
    <3> HIDE DEF g
    <3> QED
      BY <2>3
  <2> QED
    BY <2>4
<1>3. Steps \in T
  <2> HIDE DEF T
  <2> QED
    BY <1>1, <1>2, SetInduction, Bounds
<1>4. Walk(W, start) = Calls(Walk(W, start), Steps)
  <2>1. \E f : f = Calls(f, Steps)
    BY <1>3
  <2>2. Walk(W, start) = CHOOSE f : f = Calls(f, Steps)
    BY DEF Walk
  <2> QED
    BY <2>1, <2>2
<1> QED
  BY <1>4, Bounds

----------------------------------------------------------------------------
(***************************************************************************)
(* Paths and layouts.                                                      *)
(***************************************************************************)
Path == Seq(STRING)

\* The path e is p or above it.
Above(e, p) == Len(e) <= Len(p) /\ \A i \in 1 .. Len(e) : p[i] = e[i]

\* What a walk may be given to render.
GoodWorld(W) ==
  /\ WellListed(W.tree)
  /\ W.revision \in Nat
  /\ \A p \in DOMAIN W.page_sizes : W.page_sizes[p] \in Nat

\* A path is above itself, and two paths of one length are not above each other.
LEMMA AboveFacts ==
  ASSUME NEW e \in Path, NEW p \in Path
  PROVE  /\ Len(e) \in Nat
         /\ Above(e, e)
         /\ Above(e, p) /\ Len(e) = Len(p) => e = p
<1>1. Len(e) \in Nat /\ Len(p) \in Nat
  BY LenProperties DEF Path
<1>2. Above(e, p) /\ Len(e) = Len(p) => e = p
  BY SeqEqual DEF Above, Path
<1> QED
  BY <1>1, <1>2 DEF Above

\* What is above a path is above what that path is above.
LEMMA AboveTransitive ==
  ASSUME NEW e \in Path, NEW p \in Path, NEW q \in Path, Above(e, p), Above(p, q)
  PROVE  Above(e, q)
BY AboveFacts DEF Above

\* A directory's entries: one name below it, each listed once.
LEMMA LayoutFacts ==
  ASSUME NEW W, GoodWorld(W), NEW d \in DOMAIN W.tree
  PROVE  /\ Root \in DOMAIN W.tree
         /\ d \in Path /\ Len(W.tree[d]) \in Nat
         /\ \A i \in 1 .. Len(W.tree[d]) :
              /\ W.tree[d][i] \in Path
              /\ Len(W.tree[d][i]) = Len(d) + 1
              /\ Above(d, W.tree[d][i])
              /\ \A j \in 1 .. Len(W.tree[d]) : W.tree[d][i] = W.tree[d][j] => i = j
<1>1. /\ d \in Path /\ W.tree[d] \in Seq(Path) /\ Root \in DOMAIN W.tree
      /\ \A i \in 1 .. Len(W.tree[d]) :
           /\ W.tree[d][i] # <<>> /\ Front(W.tree[d][i]) = d
           /\ \A j \in 1 .. Len(W.tree[d]) : W.tree[d][i] = W.tree[d][j] => i = j
  BY DEF GoodWorld, WellListed, Path, Root
<1>2. Len(W.tree[d]) \in Nat
  BY <1>1, LenProperties
<1>3. ASSUME NEW i \in 1 .. Len(W.tree[d])
      PROVE  /\ W.tree[d][i] \in Path
             /\ Len(W.tree[d][i]) = Len(d) + 1
             /\ Above(d, W.tree[d][i])
  <2> DEFINE c == W.tree[d][i]
             n == Len(c) - 1
  <2>1. c \in Path /\ c # <<>> /\ d = Front(c)
    BY <1>1, ElementOfSeq
  <2>2. d = SubSeq(c, 1, n)
    BY <2>1 DEF Front
  <2>3. Len(c) \in Nat \ {0} /\ n \in Nat /\ n + 1 = Len(c)
    BY <2>1, EmptySeq DEF Path
  <2>4. \A k \in 1 .. n : c[k] \in STRING
    BY <2>1, <2>3, ElementOfSeq DEF Path
  <2> HIDE DEF c, n
  <2>5. Len(d) = n /\ \A k \in 1 .. n : d[k] = c[k]
    <3>1. /\ Len(SubSeq(c, 1, n)) = IF 1 <= n THEN n - 1 + 1 ELSE 0
          /\ \A k \in 1 .. n - 1 + 1 : SubSeq(c, 1, n)[k] = c[1 + k - 1]
      BY <2>3, <2>4, SubSeqProperties
    <3> QED
      BY <2>2, <2>3, <3>1
  <2>6. Len(d) <= Len(c) /\ \A k \in 1 .. Len(d) : c[k] = d[k]
    BY <2>3, <2>5
  <2> QED
    BY <2>1, <2>3, <2>5, <2>6 DEF c, Above
<1>4. \A i, j \in 1 .. Len(W.tree[d]) : W.tree[d][i] = W.tree[d][j] => i = j
  BY <1>1
<1> QED
  BY <1>1, <1>2, <1>3, <1>4

\* What is above an entry is the entry or above its directory, and what an entry
\* is above its directory is above.
LEMMA AboveEntry ==
  ASSUME NEW W, GoodWorld(W), NEW d \in DOMAIN W.tree,
         NEW i \in 1 .. Len(W.tree[d]), NEW p \in Path
  PROVE  /\ Above(p, W.tree[d][i]) => p = W.tree[d][i] \/ Above(p, d)
         /\ Above(W.tree[d][i], p) => Above(d, p)
         /\ ~ Above(W.tree[d][i], d)
<1> DEFINE c == W.tree[d][i]
<1>1. d \in Path /\ c \in Path /\ Len(c) = Len(d) + 1 /\ Above(d, c)
  BY LayoutFacts
<1> HIDE DEF c
<1>2. Len(d) \in Nat /\ Len(p) \in Nat
  BY <1>1, AboveFacts
<1>3. ASSUME Above(p, c), p # c PROVE Above(p, d)
  <2>1. Len(p) <= Len(d)
    BY <1>1, <1>2, <1>3, AboveFacts DEF Above
  <2> QED
    BY <1>1, <1>2, <1>3, <2>1 DEF Above
<1>4. Above(c, p) => Above(d, p)
  BY <1>1, AboveTransitive
<1>5. ~ Above(c, d)
  BY <1>1, <1>2 DEF Above
<1> QED
  BY <1>3, <1>4, <1>5 DEF c

----------------------------------------------------------------------------
(***************************************************************************)
(* What holds of a walk between two of its calls.                          *)
(***************************************************************************)
Call == [call : {"node", "return"}, path : Path, depth : Nat]

Record(w) ==
  [rendered |-> w.rendered, tokens |-> w.tokens, next |-> w.next,
   remaining |-> w.remaining, calls |-> w.calls]

WalkTyped(W, w) ==
  /\ w = Record(w)
  /\ w.remaining \in Nat /\ w.next \in Nat
  /\ \A p \in DOMAIN w.rendered :
       p \in DOMAIN W.tree /\ w.rendered[p] \in 0 .. Len(W.tree[p])
  /\ \A t \in DOMAIN w.tokens :
       /\ t \in Nat /\ t < w.next
       /\ w.tokens[t].path \in Path /\ w.tokens[t].revision = W.revision
  /\ w.calls \in Seq(Call)

\* What is rendered is paid for out of the budget.
Places(f) == UNION {{p} \X (1 .. f[p]) : p \in DOMAIN f}

WalkPaid(w) ==
  /\ IsFiniteSet(Places(w.rendered))
  /\ Cardinality(Places(w.rendered)) + w.remaining <= Budget

\* One token to a directory, and it resumes where the directory's page ends.
WalkTokens(w) ==
  \A t \in DOMAIN w.tokens :
    /\ w.tokens[t].offset = IF w.tokens[t].path \in DOMAIN w.rendered
                              THEN w.rendered[w.tokens[t].path] ELSE 0
    /\ \A s \in DOMAIN w.tokens : w.tokens[s].path = w.tokens[t].path => s = t

IsNode(w, i) == i \in 1 .. Len(w.calls) /\ w.calls[i].call = "node"
IsReturn(w, i) == i \in 1 .. Len(w.calls) /\ w.calls[i].call = "return"

\* The path e and all below it is still untouched.
Untouched(w, e) ==
  /\ \A p \in DOMAIN w.rendered : ~ Above(e, p)
  /\ \A t \in DOMAIN w.tokens : ~ Above(e, w.tokens[t].path)

\* The rendered directory p has no token yet.
Unissued(w, p) ==
  p \in DOMAIN w.rendered /\ \A t \in DOMAIN w.tokens : w.tokens[t].path # p

\* The calls that are left are about different parts of the tree.
WalkApart(w) ==
  /\ \A i : IsNode(w, i) => Untouched(w, w.calls[i].path)
  /\ \A i, j : IsNode(w, i) /\ IsNode(w, j) /\ Above(w.calls[i].path, w.calls[j].path)
                => i = j
  /\ \A i : IsReturn(w, i) => Unissued(w, w.calls[i].path)
  /\ \A i, j : IsReturn(w, i) /\ IsReturn(w, j) /\ w.calls[i].path = w.calls[j].path
                => i = j

\* Whatever is rendered or still to be, is an entry of a page that is rendered.
Listed(W, f, p) == \E q \in DOMAIN f : \E i \in 1 .. f[q] : W.tree[q][i] = p

WalkReachable(W, w) ==
  /\ \A p \in DOMAIN w.rendered : p # Root => p \in W.expanded /\ Listed(W, w.rendered, p)
  /\ \A i : IsNode(w, i) => Listed(W, w.rendered, w.calls[i].path)

WalkInv(W, w) ==
  WalkTyped(W, w) /\ WalkPaid(w) /\ WalkTokens(w) /\ WalkApart(w) /\ WalkReachable(W, w)

\* The next call leaves the agenda; what held of it still holds, and the others
\* are apart from it.
Popped(w) == [w EXCEPT !.calls = Tail(@)]

\* Taking the next call off the stack keeps the invariant and frees its directory.
LEMMA PopKeeps ==
  ASSUME NEW W, NEW w, WalkInv(W, w), w.calls # <<>>
  PROVE  /\ WalkInv(W, Popped(w))
         /\ Head(w.calls) \in Call
         /\ Popped(w).rendered = w.rendered
         /\ LET e == Head(w.calls).path IN
              IF Head(w.calls).call = "return"
              THEN /\ Unissued(Popped(w), e)
                   /\ \A i : IsNode(Popped(w), i) => ~ Above(Popped(w).calls[i].path, e)
                   /\ \A i : IsReturn(Popped(w), i) => Popped(w).calls[i].path # e
              ELSE /\ Untouched(Popped(w), e)
                   /\ Listed(W, Popped(w).rendered, e)
                   /\ \A i : IsNode(Popped(w), i) =>
                        /\ ~ Above(Popped(w).calls[i].path, e)
                        /\ ~ Above(e, Popped(w).calls[i].path)
<1> DEFINE r == Popped(w)
<1>1. /\ w = Record(w) /\ w.calls \in Seq(Call)
  BY DEF WalkInv, WalkTyped
<1>2. /\ r.rendered = w.rendered /\ r.tokens = w.tokens /\ r.next = w.next
      /\ r.remaining = w.remaining /\ r.calls = Tail(w.calls) /\ r = Record(r)
  BY <1>1 DEF Popped, Record
<1>3. /\ Len(w.calls) \in Nat \ {0} /\ w.calls[1] = Head(w.calls) /\ Head(w.calls) \in Call
      /\ r.calls \in Seq(Call) /\ Len(r.calls) = Len(w.calls) - 1
      /\ \A i \in 1 .. Len(r.calls) : r.calls[i] = w.calls[i + 1]
  BY <1>1, <1>2, HeadTailProperties, EmptySeq
<1> HIDE DEF r
<1>4. \A i : /\ IsNode(r, i) => i \in Nat /\ IsNode(w, i + 1) /\ r.calls[i] = w.calls[i + 1]
             /\ IsReturn(r, i) => i \in Nat /\ IsReturn(w, i + 1)
                                 /\ r.calls[i] = w.calls[i + 1]
  BY <1>3 DEF IsNode, IsReturn
<1>5. \A e : /\ Untouched(r, e) <=> Untouched(w, e)
             /\ Unissued(r, e) <=> Unissued(w, e)
  BY <1>2 DEF Untouched, Unissued
<1>6. WalkTyped(W, r)
  BY <1>2, <1>3 DEF WalkInv, WalkTyped
<1>7. WalkPaid(r) /\ WalkTokens(r)
  BY <1>2 DEF WalkInv, WalkPaid, WalkTokens
<1>8. WalkApart(r)
  <2>1. WalkApart(w)
    BY DEF WalkInv
  <2>2. \A i : IsNode(r, i) => Untouched(r, r.calls[i].path)
    BY <1>4, <1>5, <2>1 DEF WalkApart
  <2>3. ASSUME NEW i, NEW j, IsNode(r, i), IsNode(r, j),
               Above(r.calls[i].path, r.calls[j].path)
        PROVE  i = j
    <3>1. i + 1 = j + 1 /\ i \in Nat /\ j \in Nat
      BY <1>4, <2>1, <2>3 DEF WalkApart
    <3> QED
      BY <3>1
  <2>4. \A i : IsReturn(r, i) => Unissued(r, r.calls[i].path)
    BY <1>4, <1>5, <2>1 DEF WalkApart
  <2>5. ASSUME NEW i, NEW j, IsReturn(r, i), IsReturn(r, j),
               r.calls[i].path = r.calls[j].path
        PROVE  i = j
    <3>1. i + 1 = j + 1 /\ i \in Nat /\ j \in Nat
      BY <1>4, <2>1, <2>5 DEF WalkApart
    <3> QED
      BY <3>1
  <2> QED
    BY <2>2, <2>3, <2>4, <2>5 DEF WalkApart
<1>9. WalkReachable(W, r)
  BY <1>2, <1>4 DEF WalkInv, WalkReachable
<1>10. \A i \in Nat \ {0} : i + 1 # 1
  OBVIOUS
<1>11. \A i : IsNode(r, i) \/ IsReturn(r, i) => i + 1 # 1
  BY <1>10 DEF IsNode, IsReturn
<1>12. ASSUME Head(w.calls).call = "return"
       PROVE  /\ Unissued(r, Head(w.calls).path)
              /\ \A i : IsNode(r, i) => ~ Above(r.calls[i].path, Head(w.calls).path)
              /\ \A i : IsReturn(r, i) => r.calls[i].path # Head(w.calls).path
  <2>1. IsReturn(w, 1) /\ Unissued(w, Head(w.calls).path)
    BY <1>3, <1>12 DEF IsReturn, WalkInv, WalkApart
  <2>2. \A i : IsNode(r, i) => ~ Above(r.calls[i].path, Head(w.calls).path)
    BY <1>4, <2>1 DEF WalkInv, WalkApart, Unissued, Untouched
  <2>3. \A i : IsReturn(r, i) => r.calls[i].path # Head(w.calls).path
    BY <1>3, <1>4, <1>11, <2>1 DEF WalkInv, WalkApart
  <2> QED
    BY <1>5, <2>1, <2>2, <2>3
<1>13. ASSUME Head(w.calls).call # "return"
       PROVE  /\ Untouched(r, Head(w.calls).path)
              /\ Listed(W, r.rendered, Head(w.calls).path)
              /\ \A i : IsNode(r, i) =>
                   /\ ~ Above(r.calls[i].path, Head(w.calls).path)
                   /\ ~ Above(Head(w.calls).path, r.calls[i].path)
  <2>1. IsNode(w, 1)
    BY <1>3, <1>13 DEF IsNode, Call
  <2>2. Untouched(r, Head(w.calls).path) /\ Listed(W, r.rendered, Head(w.calls).path)
    BY <1>2, <1>3, <1>5, <2>1 DEF WalkInv, WalkApart, WalkReachable
  <2>3. \A i : IsNode(r, i) => /\ ~ Above(r.calls[i].path, Head(w.calls).path)
                               /\ ~ Above(Head(w.calls).path, r.calls[i].path)
    BY <1>3, <1>4, <1>11, <2>1 DEF WalkInv, WalkApart
  <2> QED
    BY <2>2, <2>3
<1> QED
  BY <1>2, <1>3, <1>6, <1>7, <1>8, <1>9, <1>12, <1>13 DEF WalkInv, r

\* A token for a directory that has none and that no call left is above of.
LEMMA IssueKeeps ==
  ASSUME NEW W, GoodWorld(W), NEW w, WalkInv(W, w), NEW path \in Path, NEW offset,
         offset = IF path \in DOMAIN w.rendered THEN w.rendered[path] ELSE 0,
         \A t \in DOMAIN w.tokens : w.tokens[t].path # path,
         \A i : IsNode(w, i) => ~ Above(w.calls[i].path, path),
         \A i : IsReturn(w, i) => w.calls[i].path # path
  PROVE  WalkInv(W, Issue(W, w, path, offset))
<1> DEFINE r == Issue(W, w, path, offset)
           token == [path |-> path, offset |-> offset, revision |-> W.revision]
<1>1. w = Record(w) /\ w.next \in Nat
  BY DEF WalkInv, WalkTyped
<1>2. /\ r.rendered = w.rendered /\ r.tokens = Put(w.tokens, w.next, token)
      /\ r.next = w.next + 1 /\ r.remaining = w.remaining /\ r.calls = w.calls
      /\ r = Record(r)
  <2> DEFINE tokens == Put(w.tokens, w.next, token)
             next == w.next + 1
  <2>1. r = [w EXCEPT !.tokens = tokens, !.next = next]
    BY DEF Issue
  <2> HIDE DEF tokens, next, r, token
  <2>2. r = [rendered |-> w.rendered, tokens |-> tokens, next |-> next,
             remaining |-> w.remaining, calls |-> w.calls]
    BY <1>1, <2>1 DEF Record
  <2> QED
    BY <2>2 DEF Record, tokens, next
<1>3. /\ token.path = path /\ token.offset = offset /\ token.revision = W.revision
  OBVIOUS
<1> HIDE DEF r, token
<1>4. /\ DOMAIN r.tokens = DOMAIN w.tokens \cup {w.next}
      /\ r.tokens[w.next] = token
      /\ \A t \in DOMAIN w.tokens : t # w.next /\ r.tokens[t] = w.tokens[t]
  <2>1. \A t \in DOMAIN w.tokens : t \in Nat /\ t < w.next
    BY DEF WalkInv, WalkTyped
  <2> QED
    BY <1>1, <1>2, <2>1 DEF Put
<1>5. \A i : (IsNode(r, i) <=> IsNode(w, i)) /\ (IsReturn(r, i) <=> IsReturn(w, i))
  BY <1>2 DEF IsNode, IsReturn
<1>6. WalkTyped(W, r)
  BY <1>1, <1>2, <1>3, <1>4 DEF WalkInv, WalkTyped
<1>7. WalkPaid(r)
  BY <1>2 DEF WalkInv, WalkPaid
<1>8. WalkTokens(r)
  BY <1>2, <1>3, <1>4 DEF WalkInv, WalkTokens
<1>9. WalkApart(r)
  <2>1. \A i : IsNode(r, i) => Untouched(r, r.calls[i].path)
    BY <1>2, <1>3, <1>4, <1>5 DEF WalkInv, WalkApart, Untouched
  <2>2. \A i : IsReturn(r, i) => Unissued(r, r.calls[i].path)
    BY <1>2, <1>3, <1>4, <1>5 DEF WalkInv, WalkApart, Unissued
  <2> QED
    BY <1>2, <1>5, <2>1, <2>2 DEF WalkInv, WalkApart
<1>10. WalkReachable(W, r)
  BY <1>2, <1>5 DEF WalkInv, WalkReachable
<1> QED
  BY <1>6, <1>7, <1>8, <1>9, <1>10 DEF WalkInv, r

\* Calls put in front of others.
LEMMA InFront ==
  ASSUME NEW D, NEW a \in Seq(D), NEW c \in D, NEW b \in Seq(D)
  PROVE  LET s == a \o <<c>> \o b IN
         /\ s \in Seq(D) /\ Len(a) \in Nat /\ Len(b) \in Nat
         /\ Len(s) = Len(a) + 1 + Len(b)
         /\ \A i \in 1 .. Len(s) :
              \/ i \in 1 .. Len(a) /\ s[i] = a[i]
              \/ i = Len(a) + 1 /\ s[i] = c
              \/ /\ i \in Nat /\ i > Len(a) + 1 /\ i - Len(a) - 1 \in 1 .. Len(b)
                 /\ s[i] = b[i - Len(a) - 1]
<1> DEFINE ac == a \o <<c>>
           s == ac \o b
<1>1. Len(a) \in Nat /\ Len(b) \in Nat /\ <<c>> \in Seq(D) /\ Len(<<c>>) = 1
  BY LenProperties
<1>2. /\ ac \in Seq(D) /\ Len(ac) = Len(a) + 1
      /\ \A i \in 1 .. Len(a) + 1 : ac[i] = IF i <= Len(a) THEN a[i] ELSE c
  <2>1. /\ ac \in Seq(D) /\ Len(ac) = Len(a) + Len(<<c>>)
        /\ \A i \in 1 .. Len(a) + Len(<<c>>) :
             ac[i] = IF i <= Len(a) THEN a[i] ELSE <<c>>[i - Len(a)]
    BY <1>1, ConcatProperties
  <2> HIDE DEF ac
  <2>2. <<c>>[1] = c
    OBVIOUS
  <2>3. \A i \in 1 .. Len(a) + 1 : ~ (i <= Len(a)) => i - Len(a) = 1
    BY <1>1
  <2> QED
    BY <1>1, <2>1, <2>2, <2>3
<1> HIDE DEF ac
<1>3. /\ s \in Seq(D) /\ Len(s) = Len(ac) + Len(b)
      /\ \A i \in 1 .. Len(ac) + Len(b) :
           s[i] = IF i <= Len(ac) THEN ac[i] ELSE b[i - Len(ac)]
  BY <1>2, ConcatProperties
<1> HIDE DEF s
<1>4. ASSUME NEW i \in 1 .. Len(s)
      PROVE  \/ i \in 1 .. Len(a) /\ s[i] = a[i]
             \/ i = Len(a) + 1 /\ s[i] = c
             \/ /\ i \in Nat /\ i > Len(a) + 1 /\ i - Len(a) - 1 \in 1 .. Len(b)
                /\ s[i] = b[i - Len(a) - 1]
  <2>1. /\ i \in Nat /\ 1 <= i /\ i <= Len(a) + 1 + Len(b)
        /\ s[i] = IF i <= Len(a) + 1 THEN ac[i] ELSE b[i - (Len(a) + 1)]
    BY <1>1, <1>2, <1>3
  <2>2. CASE i <= Len(a)
    <3>1. i \in 1 .. Len(a) + 1 /\ i <= Len(a) + 1 /\ i \in 1 .. Len(a)
      BY <1>1, <2>1, <2>2
    <3> QED
      BY <1>2, <2>1, <2>2, <3>1
  <2>3. CASE i = Len(a) + 1
    <3>1. i \in 1 .. Len(a) + 1 /\ i <= Len(a) + 1 /\ ~ (i <= Len(a))
      BY <1>1, <2>3
    <3> QED
      BY <1>2, <2>1, <2>3, <3>1
  <2>4. CASE i > Len(a) + 1
    <3>1. /\ ~ (i <= Len(a) + 1) /\ i - (Len(a) + 1) = i - Len(a) - 1
          /\ i - Len(a) - 1 \in 1 .. Len(b)
      BY <1>1, <2>1, <2>4
    <3> QED
      BY <2>1, <2>4, <3>1
  <2> QED
    BY <1>1, <2>1, <2>2, <2>3, <2>4
<1> QED
  BY <1>1, <1>2, <1>3, <1>4 DEF s, ac

\* A page adds as many places as it was admitted.
LEMMA PlacesAdded ==
  ASSUME NEW f, NEW p, p \notin DOMAIN f, NEW n \in Nat, IsFiniteSet(Places(f))
  PROVE  /\ IsFiniteSet(Places(Put(f, p, n)))
         /\ Cardinality(Places(Put(f, p, n))) <= Cardinality(Places(f)) + n
         /\ Cardinality(Places(f)) \in Nat
         /\ Cardinality(Places(Put(f, p, n))) \in Nat
<1> DEFINE new == {p} \X (1 .. n)
           g == Put(f, p, n)
<1>1. IsFiniteSet(new) /\ Cardinality(new) <= n
  <2> DEFINE h == [i \in 1 .. n |-> <<p, i>>]
  <2>1. h \in Surjection(1 .. n, new)
    <3>1. h \in [1 .. n -> new]
      OBVIOUS
    <3>2. ASSUME NEW t \in new PROVE \E i \in 1 .. n : h[i] = t
      <4>1. PICK i \in 1 .. n : t = <<p, i>>
        OBVIOUS
      <4> QED
        BY <4>1
    <3> HIDE DEF h, new
    <3> QED
      BY <3>1, <3>2 DEF Surjection
  <2>2. IsFiniteSet(1 .. n) /\ Cardinality(1 .. n) = n
    BY FS_Interval
  <2> HIDE DEF h, new
  <2> QED
    BY <2>1, <2>2, FS_Surjection
<1>2. Places(g) = Places(f) \cup new
  <2>1. /\ DOMAIN g = DOMAIN f \cup {p} /\ g[p] = n
        /\ \A q \in DOMAIN f : g[q] = f[q]
    BY DEF Put
  <2> HIDE DEF g
  <2> QED
    BY <2>1 DEF Places
<1> HIDE DEF new, g
<1>3. /\ IsFiniteSet(Places(f) \cup new)
      /\ Cardinality(Places(f) \cup new)
           = Cardinality(Places(f)) + Cardinality(new) - Cardinality(Places(f) \cap new)
  BY <1>1, FS_Union
<1>4. IsFiniteSet(Places(f) \cap new)
  BY <1>1, FS_Subset
<1>5. /\ Cardinality(Places(f)) \in Nat /\ Cardinality(new) \in Nat
      /\ Cardinality(Places(f) \cap new) \in Nat
      /\ Cardinality(Places(f) \cup new) \in Nat
  BY <1>1, <1>3, <1>4, FS_CardinalityType
<1> QED
  BY <1>1, <1>2, <1>3, <1>5 DEF g

\* What a page of n entries changes in the walk: its entries' calls and its
\* return come in front of the calls that were left.
PageAdds(W, w, path, n, r) ==
  /\ n \in Nat /\ n <= Len(W.tree[path]) /\ n <= w.remaining
  /\ r.rendered = Put(w.rendered, path, n) /\ r.tokens = w.tokens
  /\ r.next = w.next /\ r.remaining = w.remaining - n /\ r = Record(r)
  /\ r.calls \in Seq(Call) /\ Len(r.calls) = n + 1 + Len(w.calls)
  /\ \A i : IsNode(r, i) =>
       \/ i \in 1 .. n /\ r.calls[i].path = W.tree[path][i]
       \/ /\ i \in Nat /\ i > n + 1
          /\ IsNode(w, i - n - 1) /\ r.calls[i] = w.calls[i - n - 1]
  /\ \A i : IsReturn(r, i) =>
       \/ i = n + 1 /\ r.calls[i].path = path
       \/ /\ i \in Nat /\ i > n + 1
          /\ IsReturn(w, i - n - 1) /\ r.calls[i] = w.calls[i - n - 1]

\* A call of the node p, or the return of its page, is still to come.
NodeLeft(w, p) == \E i : IsNode(w, i) /\ w.calls[i].path = p
ReturnLeft(w, p) == \E i : IsReturn(w, i) /\ w.calls[i].path = p

\* None of the entries of the page, nor its return, nor a call that was left
\* before is forgotten.
PageCallsAll(W, w, path, n, r) ==
  /\ \A i \in 1 .. n : NodeLeft(r, W.tree[path][i])
  /\ ReturnLeft(r, path)
  /\ \A p : NodeLeft(w, p) => NodeLeft(r, p)
  /\ \A p : ReturnLeft(w, p) => ReturnLeft(r, p)

\* Where the entries of a page of n, its return and the m calls behind them are.
LEMMA Positions ==
  ASSUME NEW n \in Nat, NEW m \in Nat
  PROVE  /\ \A i \in 1 .. n : i \in 1 .. n + 1 + m /\ i # n + 1 /\ ~ (i > n + 1)
         /\ n + 1 \in 1 .. n + 1 + m /\ n + 1 \notin 1 .. n /\ ~ (n + 1 > n + 1)
         /\ \A j \in 1 .. m : /\ j + n + 1 \in 1 .. n + 1 + m /\ j + n + 1 \notin 1 .. n
                             /\ j + n + 1 # n + 1 /\ (j + n + 1) - n - 1 = j
OBVIOUS

\* The calls that a page puts on the stack, and what it admits.
LEMMA PageCalls ==
  ASSUME NEW W, GoodWorld(W), NEW w, WalkTyped(W, w),
         NEW path \in DOMAIN W.tree, NEW depth \in Nat
  PROVE  /\ PageAdds(W, w, path, Smaller(PageSize(W, path), w.remaining),
                     DirectoryPage(W, w, path, depth))
         /\ PageCallsAll(W, w, path, Smaller(PageSize(W, path), w.remaining),
                         DirectoryPage(W, w, path, depth))
<1> DEFINE n == Smaller(PageSize(W, path), w.remaining)
           kids == [i \in 1 .. n |-> Visit(W.tree[path][i], depth)]
           calls == kids \o <<Return(path)>> \o w.calls
           r == DirectoryPage(W, w, path, depth)
<1>1. /\ w = Record(w) /\ w.remaining \in Nat /\ w.calls \in Seq(Call)
  BY DEF WalkTyped
<1>2. path \in Path /\ Len(W.tree[path]) \in Nat
  BY LayoutFacts
<1>3. n \in Nat /\ n <= Len(W.tree[path]) /\ n <= w.remaining
  <2>1. PageSize(W, path) \in Nat /\ PageSize(W, path) <= Len(W.tree[path])
    BY <1>2, PagesAssumption DEF PageSize, Smaller, GoodWorld
  <2> QED
    BY <1>1, <1>2, <2>1 DEF Smaller
<1>4. r = [rendered |-> Put(w.rendered, path, n), tokens |-> w.tokens, next |-> w.next,
           remaining |-> w.remaining - n, calls |-> calls]
  <2> DEFINE f == Put(w.rendered, path, n)
             m == w.remaining - n
  <2>1. r = [w EXCEPT !.remaining = m, !.rendered = f, !.calls = calls]
    BY DEF DirectoryPage
  <2> HIDE DEF f, m, calls, r
  <2>2. r = [rendered |-> f, tokens |-> w.tokens, next |-> w.next,
             remaining |-> m, calls |-> calls]
    BY <1>1, <2>1 DEF Record
  <2> QED
    BY <2>2 DEF f, m
<1>5. /\ kids \in Seq(Call) /\ Len(kids) = n
      /\ \A i \in 1 .. n : kids[i] = Visit(W.tree[path][i], depth)
  <2> HIDE DEF n
  <2>1. \A i \in 1 .. n : i \in 1 .. Len(W.tree[path])
    BY <1>2, <1>3
  <2>2. \A i \in 1 .. n : W.tree[path][i] \in Path
    BY <2>1, LayoutFacts
  <2>3. \A i \in 1 .. n : Visit(W.tree[path][i], depth) \in Call
    BY <2>2 DEF Visit, Call
  <2> QED
    BY <1>3, <2>3
<1>6. Return(path) \in Call
  BY <1>2 DEF Return, Call
<1> HIDE DEF n, kids, r
<1>7. /\ calls \in Seq(Call) /\ Len(calls) = n + 1 + Len(w.calls)
      /\ \A i \in 1 .. Len(calls) :
           \/ i \in 1 .. n /\ calls[i] = kids[i]
           \/ i = n + 1 /\ calls[i] = Return(path)
           \/ /\ i \in Nat /\ i > n + 1 /\ i - n - 1 \in 1 .. Len(w.calls)
              /\ calls[i] = w.calls[i - n - 1]
  <2> DEFINE back == Return(path)
             rest == w.calls
  <2>1. kids \in Seq(Call) /\ back \in Call /\ rest \in Seq(Call)
    BY <1>1, <1>5, <1>6
  <2> HIDE DEF back, rest, calls
  <2>2. LET s == kids \o <<back>> \o rest IN
         /\ s \in Seq(Call) /\ Len(kids) \in Nat /\ Len(rest) \in Nat
         /\ Len(s) = Len(kids) + 1 + Len(rest)
         /\ \A i \in 1 .. Len(s) :
              \/ i \in 1 .. Len(kids) /\ s[i] = kids[i]
              \/ i = Len(kids) + 1 /\ s[i] = back
              \/ /\ i \in Nat /\ i > Len(kids) + 1 /\ i - Len(kids) - 1 \in 1 .. Len(rest)
                 /\ s[i] = rest[i - Len(kids) - 1]
    BY <2>1, InFront
  <2>3. calls = kids \o <<back>> \o rest
    BY DEF calls, back, rest
  <2> QED
    BY <1>5, <2>2, <2>3 DEF back, rest
<1> HIDE DEF calls
<1>8. /\ r.rendered = Put(w.rendered, path, n) /\ r.tokens = w.tokens /\ r.next = w.next
      /\ r.remaining = w.remaining - n /\ r.calls = calls /\ r = Record(r)
  BY <1>4 DEF Record
<1>9. /\ \A i \in 1 .. n : kids[i].call = "node" /\ kids[i].path = W.tree[path][i]
      /\ Return(path).call = "return" /\ Return(path).path = path
  BY <1>5 DEF Visit, Return
<1>10. ASSUME NEW i, IsNode(r, i)
       PROVE  \/ i \in 1 .. n /\ r.calls[i].path = W.tree[path][i]
              \/ /\ i \in Nat /\ i > n + 1
                 /\ IsNode(w, i - n - 1) /\ r.calls[i] = w.calls[i - n - 1]
  <2>1. i \in 1 .. Len(calls) /\ calls[i].call = "node" /\ r.calls = calls
    BY <1>8, <1>10 DEF IsNode
  <2>2. calls[i] # Return(path)
    BY <1>9, <2>1
  <2> QED
    BY <1>7, <1>9, <2>1, <2>2 DEF IsNode
<1>11. ASSUME NEW i, IsReturn(r, i)
       PROVE  \/ i = n + 1 /\ r.calls[i].path = path
              \/ /\ i \in Nat /\ i > n + 1
                 /\ IsReturn(w, i - n - 1) /\ r.calls[i] = w.calls[i - n - 1]
  <2>1. i \in 1 .. Len(calls) /\ calls[i].call = "return" /\ r.calls = calls
    BY <1>8, <1>11 DEF IsReturn
  <2>2. ~ (i \in 1 .. n /\ calls[i] = kids[i])
    BY <1>9, <2>1
  <2> QED
    BY <1>7, <1>9, <2>1, <2>2 DEF IsReturn
<1>12. calls \in Seq(Call) /\ Len(calls) = n + 1 + Len(w.calls)
  BY <1>7
<1>13. PageAdds(W, w, path, n, r)
  BY <1>3, <1>8, <1>10, <1>11, <1>12 DEF PageAdds
<1>14. /\ \A i \in 1 .. n : IsNode(r, i) /\ r.calls[i].path = W.tree[path][i]
       /\ IsReturn(r, n + 1) /\ r.calls[n + 1].path = path
  <2>1. Len(w.calls) \in Nat
    BY <1>1, LenProperties
  <2>2. n \in Nat /\ Len(calls) = n + 1 + Len(w.calls)
    BY <1>3, <1>12
  <2>3. ASSUME NEW i \in 1 .. n
        PROVE  IsNode(r, i) /\ r.calls[i].path = W.tree[path][i]
    <3>1. i \in 1 .. Len(calls) /\ i # n + 1 /\ ~ (i > n + 1)
      BY <2>1, <2>2, Positions
    <3>2. calls[i] = kids[i]
      BY <1>7, <3>1
    <3> QED
      BY <1>8, <1>9, <3>1, <3>2 DEF IsNode
  <2>4. n + 1 \in 1 .. Len(calls) /\ n + 1 \notin 1 .. n /\ ~ (n + 1 > n + 1)
    BY <2>1, <2>2, Positions
  <2>5. calls[n + 1] = Return(path)
    BY <1>7, <2>4
  <2> QED
    BY <1>8, <1>9, <2>3, <2>4, <2>5 DEF IsReturn
<1>15. ASSUME NEW j \in 1 .. Len(w.calls)
       PROVE  j + n + 1 \in 1 .. Len(calls) /\ calls[j + n + 1] = w.calls[j]
  <2>1. Len(w.calls) \in Nat
    BY <1>1, LenProperties
  <2>2. n \in Nat /\ Len(calls) = n + 1 + Len(w.calls)
    BY <1>3, <1>12
  <2> DEFINE i == j + n + 1
             m == Len(w.calls)
  <2>3. j \in 1 .. m /\ m \in Nat
    BY <2>1
  <2> HIDE DEF m
  <2>4. /\ i \in 1 .. n + 1 + m /\ i \notin 1 .. n /\ i # n + 1
        /\ i - n - 1 = j
    BY <2>2, <2>3, Positions
  <2> HIDE DEF i
  <2>5. i \in 1 .. Len(calls) /\ calls[i] = w.calls[i - n - 1]
    BY <1>7, <2>2, <2>4 DEF m
  <2> QED
    BY <2>4, <2>5 DEF i
<1>16. /\ \A j : IsNode(w, j) => IsNode(r, j + n + 1) /\ r.calls[j + n + 1] = w.calls[j]
       /\ \A j : IsReturn(w, j) => IsReturn(r, j + n + 1)
                                 /\ r.calls[j + n + 1] = w.calls[j]
  BY <1>8, <1>15 DEF IsNode, IsReturn
<1>17. PageCallsAll(W, w, path, n, r)
  BY <1>14, <1>16 DEF PageCallsAll, NodeLeft, ReturnLeft
<1> QED
  BY <1>13, <1>17 DEF n, r

\* The page of a directory that the walk has not touched yet.
LEMMA PageKeeps ==
  ASSUME NEW W, GoodWorld(W), NEW w, WalkInv(W, w),
         NEW path \in DOMAIN W.tree, NEW depth \in Nat,
         path # Root => path \in W.expanded /\ Listed(W, w.rendered, path),
         Untouched(w, path),
         \A i : IsNode(w, i) => /\ ~ Above(w.calls[i].path, path)
                               /\ ~ Above(path, w.calls[i].path)
  PROVE  WalkInv(W, DirectoryPage(W, w, path, depth))
<1> DEFINE n == Smaller(PageSize(W, path), w.remaining)
           r == DirectoryPage(W, w, path, depth)
<1>1. /\ WalkTyped(W, w) /\ w = Record(w) /\ w.remaining \in Nat /\ w.calls \in Seq(Call)
      /\ \A t \in DOMAIN w.tokens : w.tokens[t].path \in Path
      /\ \A p \in DOMAIN w.rendered : p \in DOMAIN W.tree
  BY DEF WalkInv, WalkTyped
<1>2. path \in Path /\ Len(W.tree[path]) \in Nat
  BY LayoutFacts
<1>3. PageAdds(W, w, path, n, r)
  BY <1>1, PageCalls
<1> HIDE DEF n, r
<1> USE DEF PageAdds
<1>4. path \notin DOMAIN w.rendered
  BY <1>2, AboveFacts DEF Untouched
<1>5. /\ DOMAIN r.rendered = DOMAIN w.rendered \cup {path}
       /\ r.rendered[path] = n
       /\ \A p \in DOMAIN w.rendered : r.rendered[p] = w.rendered[p]
  BY <1>3, <1>4 DEF Put
<1>6. \A t \in DOMAIN w.tokens : w.tokens[t].path # path
  BY <1>2, AboveFacts DEF Untouched
<1>7. \A i : IsNode(w, i) => w.calls[i].path \in Path
  <2> SUFFICES ASSUME NEW i, IsNode(w, i) PROVE w.calls[i].path \in Path
    OBVIOUS
  <2>1. w.calls[i] \in Call
    BY <1>1, ElementOfSeq DEF IsNode
  <2> QED
    BY <2>1 DEF Call
<1>8. WalkTyped(W, r)
  <2>1. /\ r = Record(r) /\ r.remaining \in Nat /\ r.next \in Nat /\ r.calls \in Seq(Call)
    BY <1>1, <1>3 DEF WalkInv, WalkTyped
  <2>2. \A p \in DOMAIN r.rendered :
          p \in DOMAIN W.tree /\ r.rendered[p] \in 0 .. Len(W.tree[p])
    BY <1>2, <1>3, <1>5 DEF WalkInv, WalkTyped
  <2>3. \A t \in DOMAIN r.tokens :
          /\ t \in Nat /\ t < r.next
          /\ r.tokens[t].path \in Path /\ r.tokens[t].revision = W.revision
    BY <1>3 DEF WalkInv, WalkTyped
  <2> QED
    BY <2>1, <2>2, <2>3 DEF WalkTyped
<1>9. WalkPaid(r)
  <2>1. /\ IsFiniteSet(Places(w.rendered))
        /\ Cardinality(Places(w.rendered)) + w.remaining <= Budget
    BY DEF WalkInv, WalkPaid
  <2>2. /\ IsFiniteSet(Places(r.rendered))
        /\ Cardinality(Places(r.rendered)) <= Cardinality(Places(w.rendered)) + n
        /\ Cardinality(Places(w.rendered)) \in Nat /\ Cardinality(Places(r.rendered)) \in Nat
    BY <1>3, <1>4, <2>1, PlacesAdded
  <2> QED
    BY <1>1, <1>3, <2>1, <2>2, Bounds DEF WalkPaid
<1>10. WalkTokens(r)
  BY <1>3, <1>5, <1>6 DEF WalkInv, WalkTokens
<1>11. WalkReachable(W, r)
  <2>1. \A p : Listed(W, w.rendered, p) => Listed(W, r.rendered, p)
    BY <1>5 DEF Listed
  <2>2. \A i \in 1 .. n : Listed(W, r.rendered, W.tree[path][i])
    BY <1>5 DEF Listed
  <2>3. \A p \in DOMAIN r.rendered : p # Root => p \in W.expanded /\ Listed(W, r.rendered, p)
    BY <1>5, <2>1 DEF WalkInv, WalkReachable
  <2>4. \A i : IsNode(r, i) => Listed(W, r.rendered, r.calls[i].path)
    BY <1>3, <2>1, <2>2 DEF WalkInv, WalkReachable
  <2> QED
    BY <2>3, <2>4 DEF WalkReachable
<1>12. WalkApart(r)
  <2>1. ASSUME NEW i, IsNode(r, i) PROVE Untouched(r, r.calls[i].path)
    <3>1. CASE i \in 1 .. n /\ r.calls[i].path = W.tree[path][i]
      <4>1. i \in 1 .. Len(W.tree[path])
        BY <1>2, <1>3, <3>1
      <4>2. ASSUME NEW p \in Path, ~ Above(path, p) PROVE ~ Above(W.tree[path][i], p)
        BY <4>1, <4>2, AboveEntry
      <4>3. ~ Above(W.tree[path][i], path)
        BY <1>2, <4>1, AboveEntry
      <4>4. \A p \in DOMAIN w.rendered : p \in Path
        BY <1>1, LayoutFacts
      <4> QED
        BY <1>1, <1>3, <1>5, <3>1, <4>2, <4>3, <4>4 DEF Untouched
    <3>2. CASE IsNode(w, i - n - 1) /\ r.calls[i] = w.calls[i - n - 1]
      BY <1>3, <1>5, <3>2 DEF WalkInv, WalkApart, Untouched
    <3> QED
      BY <1>3, <2>1, <3>1, <3>2
  <2>2. ASSUME NEW i, NEW j, IsNode(r, i), IsNode(r, j),
               Above(r.calls[i].path, r.calls[j].path)
        PROVE  i = j
    <3>1. \A k \in 1 .. n : k \in 1 .. Len(W.tree[path])
      BY <1>2, <1>3
    <3>2. CASE /\ i \in 1 .. n /\ r.calls[i].path = W.tree[path][i]
               /\ j \in 1 .. n /\ r.calls[j].path = W.tree[path][j]
      <4>1. /\ W.tree[path][i] \in Path /\ W.tree[path][j] \in Path
            /\ Len(W.tree[path][i]) = Len(W.tree[path][j])
        BY <3>1, <3>2, LayoutFacts
      <4>2. W.tree[path][i] = W.tree[path][j]
        BY <2>2, <3>2, <4>1, AboveFacts
      <4> QED
        BY <3>1, <3>2, <4>2, LayoutFacts
    <3>3. CASE /\ i \in 1 .. n /\ r.calls[i].path = W.tree[path][i]
               /\ IsNode(w, j - n - 1) /\ r.calls[j] = w.calls[j - n - 1]
      <4>1. w.calls[j - n - 1].path \in Path /\ ~ Above(path, w.calls[j - n - 1].path)
        BY <1>7, <3>3
      <4> QED
        BY <2>2, <3>1, <3>3, <4>1, AboveEntry
    <3>4. CASE /\ IsNode(w, i - n - 1) /\ r.calls[i] = w.calls[i - n - 1]
               /\ j \in 1 .. n /\ r.calls[j].path = W.tree[path][j]
      <4>1. /\ w.calls[i - n - 1].path \in Path
            /\ ~ Above(path, w.calls[i - n - 1].path)
            /\ ~ Above(w.calls[i - n - 1].path, path)
        BY <1>7, <3>4
      <4>2. Above(path, W.tree[path][j])
        BY <3>1, <3>4, LayoutFacts
      <4> QED
        BY <2>2, <3>1, <3>4, <4>1, <4>2, AboveEntry
    <3>5. CASE /\ i \in Nat /\ IsNode(w, i - n - 1) /\ r.calls[i] = w.calls[i - n - 1]
               /\ j \in Nat /\ IsNode(w, j - n - 1) /\ r.calls[j] = w.calls[j - n - 1]
      <4>1. i - n - 1 = j - n - 1
        BY <2>2, <3>5 DEF WalkInv, WalkApart
      <4> QED
        BY <1>3, <3>5, <4>1
    <3> QED
      BY <1>3, <2>2, <3>2, <3>3, <3>4, <3>5
  <2>3. ASSUME NEW i, IsReturn(r, i) PROVE Unissued(r, r.calls[i].path)
    BY <1>3, <1>5, <1>6, <2>3 DEF WalkInv, WalkApart, Unissued
  <2>4. ASSUME NEW i, NEW j, IsReturn(r, i), IsReturn(r, j),
               r.calls[i].path = r.calls[j].path
        PROVE  i = j
    <3>1. \A k : IsReturn(w, k) => w.calls[k].path # path
      BY <1>4 DEF WalkInv, WalkApart, Unissued
    <3>2. ASSUME NEW k, IsReturn(r, k), r.calls[k].path = path PROVE k = n + 1
      BY <1>3, <3>1, <3>2
    <3>3. CASE i = n + 1 \/ j = n + 1
      <4>1. n + 1 \in Nat
        BY <1>3
      <4>2. \A k : IsReturn(r, k) /\ k = n + 1 => r.calls[k].path = path
        BY <1>3, <4>1
      <4> QED
        BY <2>4, <3>2, <3>3, <4>2
    <3>4. CASE /\ i \in Nat /\ IsReturn(w, i - n - 1) /\ r.calls[i] = w.calls[i - n - 1]
               /\ j \in Nat /\ IsReturn(w, j - n - 1) /\ r.calls[j] = w.calls[j - n - 1]
      <4>1. i - n - 1 = j - n - 1
        BY <2>4, <3>4 DEF WalkInv, WalkApart
      <4> QED
        BY <1>3, <3>4, <4>1
    <3> QED
      BY <1>3, <2>4, <3>4, <3>3
  <2> QED
    BY <2>1, <2>2, <2>3, <2>4 DEF WalkApart
<1> QED
  BY <1>8, <1>9, <1>10, <1>11, <1>12 DEF WalkInv, r

\* A call of the walk keeps what holds of it.
LEMMA WalkOnKeeps ==
  ASSUME NEW W, GoodWorld(W), NEW w, WalkInv(W, w)
  PROVE  WalkInv(W, WalkOn(W, w))
<1>1. CASE w.calls = <<>>
  BY <1>1 DEF WalkOn
<1>2. CASE w.calls # <<>>
  <2> DEFINE call == Head(w.calls)
             e == call.path
             r == Popped(w)
  <2>1. /\ WalkInv(W, r) /\ call \in Call /\ e \in Path
        /\ IF call.call = "return"
           THEN /\ Unissued(r, e)
                /\ \A i : IsNode(r, i) => ~ Above(r.calls[i].path, e)
                /\ \A i : IsReturn(r, i) => r.calls[i].path # e
           ELSE /\ Untouched(r, e)
                /\ Listed(W, r.rendered, e)
                /\ \A i : IsNode(r, i) => /\ ~ Above(r.calls[i].path, e)
                                          /\ ~ Above(e, r.calls[i].path)
    BY <1>2, PopKeeps DEF Call
  <2>2. WalkOn(W, w) = IF call.call = "return" THEN Truncated(W, r, e)
                       ELSE Node(W, r, e, call.depth)
    BY <1>2 DEF WalkOn, Popped
  <2>3. call.depth \in Nat
    BY <2>1 DEF Call
  <2> HIDE DEF call, e, r
  <2>4. CASE call.call = "return"
    <3>1. e \in DOMAIN r.rendered /\ \A t \in DOMAIN r.tokens : r.tokens[t].path # e
      BY <2>1, <2>4 DEF Unissued
    <3>2. WalkInv(W, Issue(W, r, e, r.rendered[e]))
      BY <2>1, <2>4, <3>1, IssueKeeps
    <3> QED
      BY <2>1, <2>2, <2>4, <3>2 DEF Truncated
  <2>5. CASE call.call # "return"
    <3>1. /\ e \notin DOMAIN r.rendered
          /\ \A t \in DOMAIN r.tokens : r.tokens[t].path # e
      BY <2>1, <2>5, AboveFacts DEF Untouched
    <3>2. \A i : IsReturn(r, i) => r.calls[i].path # e
      BY <2>1, <3>1 DEF WalkInv, WalkApart, Unissued
    <3>3. WalkInv(W, Issue(W, r, e, 0))
      BY <2>1, <2>5, <3>1, <3>2, IssueKeeps
    <3>4. ASSUME e \in DOMAIN W.tree, e \in W.expanded
          PROVE  WalkInv(W, DirectoryPage(W, r, e, call.depth + 1))
      BY <2>1, <2>3, <2>5, <3>4, PageKeeps
    <3> QED
      BY <2>1, <2>2, <2>5, <3>3, <3>4 DEF Node
  <2> QED
    BY <2>4, <2>5
<1> QED
  BY <1>1, <1>2

Blank(n) == [rendered |-> Empty, tokens |-> Empty, next |-> n,
             remaining |-> Budget, calls |-> <<>>]

\* The page of the root starts the walk in its invariant.
LEMMA FirstPageKeeps ==
  ASSUME NEW W, GoodWorld(W), NEW n \in Nat
  PROVE  WalkInv(W, DirectoryPage(W, Blank(n), Root, 0))
<1> DEFINE w == Blank(n)
<1>1. /\ w = Record(w) /\ w.rendered = Empty /\ w.tokens = Empty /\ w.next = n
      /\ w.remaining = Budget /\ w.calls = <<>>
  BY DEF Blank, Record
<1>2. DOMAIN Empty = {}
  BY DEF Empty
<1> HIDE DEF w
<1>3. /\ \A i : ~ IsNode(w, i) /\ ~ IsReturn(w, i)
      /\ \A p : Untouched(w, p)
  BY <1>1, <1>2 DEF IsNode, IsReturn, Untouched
<1>4. WalkTyped(W, w)
  BY <1>1, <1>2, Bounds DEF WalkTyped
<1>5. WalkPaid(w)
  <2>1. Places(w.rendered) = {}
    BY <1>1, <1>2 DEF Places
  <2> QED
    BY <1>1, <2>1, FS_EmptySet, Bounds DEF WalkPaid
<1>6. WalkTokens(w)
  BY <1>1, <1>2 DEF WalkTokens
<1>7. WalkApart(w)
  BY <1>3 DEF WalkApart
<1>8. WalkReachable(W, w)
  BY <1>1, <1>2, <1>3 DEF WalkReachable
<1>9. WalkInv(W, w)
  BY <1>4, <1>5, <1>6, <1>7, <1>8 DEF WalkInv
<1>10. Root \in DOMAIN W.tree
  BY DEF GoodWorld, WellListed, Root
<1>11. WalkInv(W, DirectoryPage(W, w, Root, 0))
  BY <1>3, <1>9, <1>10, PageKeeps
<1> QED
  BY <1>11 DEF w

\* The numbers of the tokens a walk has issued, and of the next, are not below n.
Newer(n, w) == w.next >= n /\ \A t \in DOMAIN w.tokens : t >= n

\* A call of the walk issues a newer token or none.
LEMMA WalkOnNewer ==
  ASSUME NEW W, NEW n \in Nat, NEW w, WalkInv(W, w), Newer(n, w)
  PROVE  Newer(n, WalkOn(W, w))
<1>1. CASE w.calls = <<>>
  BY <1>1 DEF WalkOn
<1>2. CASE w.calls # <<>>
  <2> DEFINE call == Head(w.calls)
             r == Popped(w)
  <2>1. WalkInv(W, r)
    BY <1>2, PopKeeps
  <2>2. /\ WalkOn(W, w) = IF call.call = "return" THEN Truncated(W, r, call.path)
                          ELSE Node(W, r, call.path, call.depth)
    BY <1>2 DEF WalkOn, Popped
  <2>3. w = Record(w)
    BY DEF WalkInv, WalkTyped
  <2>4. r.tokens = w.tokens /\ r.next = w.next
    BY <2>3 DEF Popped, Record
  <2>5. r = Record(r) /\ r.next \in Nat
    BY <2>1 DEF WalkInv, WalkTyped
  <2> HIDE DEF call, r
  <2>6. Newer(n, r)
    BY <2>4 DEF Newer
  <2>7. ASSUME NEW path, NEW offset PROVE Newer(n, Issue(W, r, path, offset))
    <3> DEFINE v == [path |-> path, offset |-> offset, revision |-> W.revision]
               q == Issue(W, r, path, offset)
    <3>1. q.next = r.next + 1 /\ q.tokens = Put(r.tokens, r.next, v)
      BY <2>5 DEF Issue, Record
    <3>2. DOMAIN q.tokens = DOMAIN r.tokens \cup {r.next}
      BY <3>1 DEF Put
    <3> HIDE DEF q
    <3> QED
      BY <2>5, <2>6, <3>1, <3>2 DEF Newer, q
  <2>8. ASSUME NEW path, NEW depth PROVE Newer(n, DirectoryPage(W, r, path, depth))
    <3> DEFINE q == DirectoryPage(W, r, path, depth)
    <3>1. q.next = r.next /\ q.tokens = r.tokens
      BY <2>5 DEF DirectoryPage, Record
    <3> HIDE DEF q
    <3> QED
      BY <2>6, <3>1 DEF Newer, q
  <2> QED
    BY <2>2, <2>6, <2>7, <2>8 DEF Truncated, Node
<1> QED
  BY <1>1, <1>2

\* Where the walk of a session's next snapshot starts.
FirstPage(W) == DirectoryPage(W, Blank(next_continuation), Root, 0)

\* Between any two calls of a snapshot's walk what holds of walks holds of it.
LEMMA WalksKeep ==
  ASSUME NEW W, GoodWorld(W), next_continuation \in Nat
  PROVE  \A k \in 0 .. Steps :
           /\ WalkInv(W, Walk(W, FirstPage(W))[k])
           /\ Newer(next_continuation, Walk(W, FirstPage(W))[k])
<1> DEFINE start == FirstPage(W)
           n == next_continuation
           Holds(w) == WalkInv(W, w) /\ Newer(n, w)
           T == {k \in Nat : k \in 0 .. Steps => Holds(Walk(W, start)[k])}
<1>1. Holds(start)
  <2>1. start.next = n /\ start.tokens = Empty
    BY DEF FirstPage, DirectoryPage, Blank
  <2>2. DOMAIN start.tokens = {}
    BY <2>1 DEF Empty
  <2>3. WalkInv(W, start)
    BY FirstPageKeeps DEF FirstPage
  <2> HIDE DEF start
  <2> QED
    BY <2>1, <2>2, <2>3 DEF Newer
<1> HIDE DEF start
<1>2. /\ Walk(W, start)[0] = start
      /\ \A k \in 1 .. Steps : Walk(W, start)[k] = WalkOn(W, Walk(W, start)[k - 1])
  BY WalkByCalls
<1>3. 0 \in T
  BY <1>1, <1>2
<1>4. ASSUME NEW k \in Nat, k \in T PROVE k + 1 \in T
  <2>1. SUFFICES ASSUME k + 1 \in 0 .. Steps PROVE Holds(Walk(W, start)[k + 1])
    OBVIOUS
  <2>2. k \in 0 .. Steps /\ k + 1 \in 1 .. Steps /\ (k + 1) - 1 = k
    BY <2>1, Bounds
  <2>3. Holds(Walk(W, start)[k])
    BY <1>4, <2>2
  <2>4. Walk(W, start)[k + 1] = WalkOn(W, Walk(W, start)[k])
    BY <1>2, <2>2
  <2> QED
    BY <2>3, <2>4, WalkOnKeeps, WalkOnNewer
<1>5. \A k \in Nat : k \in T
  <2> HIDE DEF T
  <2> QED
    BY <1>3, <1>4, SetInduction
<1>6. \A k \in 0 .. Steps : k \in Nat
  BY Bounds
<1> QED
  BY <1>5, <1>6 DEF start

\* So it holds of a snapshot, which is what the walk leaves.
LEMMA SnapshotKeeps ==
  ASSUME NEW W, GoodWorld(W), next_continuation \in Nat
  PROVE  WalkInv(W, Snapshot(W)) /\ Newer(next_continuation, Snapshot(W))
<1>1. Steps \in 0 .. Steps
  BY Bounds
<1>2. Snapshot(W) = Walk(W, FirstPage(W))[Steps]
  BY DEF Snapshot, FirstPage, Blank
<1> QED
  BY <1>1, <1>2, WalksKeep

\* And of what a failing inspection leaves of it.
LEMMA InterruptedKeeps ==
  ASSUME NEW W, GoodWorld(W), next_continuation \in Nat, NEW w \in Interrupted(W)
  PROVE  WalkTyped(W, w) /\ WalkTokens(w) /\ Newer(next_continuation, w)
<1>1. CASE w = Blank(next_continuation)
  <2>1. /\ w = Record(w) /\ w.rendered = Empty /\ w.tokens = Empty
        /\ w.next = next_continuation /\ w.remaining = Budget /\ w.calls = <<>>
    BY <1>1 DEF Blank, Record
  <2>2. DOMAIN Empty = {}
    BY DEF Empty
  <2> QED
    BY <2>1, <2>2, Bounds DEF WalkTyped, WalkTokens, Newer
<1>2. CASE \E k \in 0 .. Steps : w = Walk(W, FirstPage(W))[k]
  BY <1>2, WalksKeep DEF WalkInv
<1> QED
  BY <1>1, <1>2 DEF Interrupted, FirstPage, Blank

----------------------------------------------------------------------------
(***************************************************************************)
(* The walk ends: what is left to do, an admitted entry counted twice, for *)
(* the call it is and for the return it may leave, shrinks with each call. *)
(***************************************************************************)
Nodes(w) == {i \in 1 .. Len(w.calls) : w.calls[i].call = "node"}
Left(w) == Len(w.calls) + Cardinality(Nodes(w)) + 2 * w.remaining

\* The node calls of a stack are finitely many.
LEMMA NodesFinite ==
  ASSUME NEW w, w.calls \in Seq(Call)
  PROVE  /\ IsFiniteSet(Nodes(w)) /\ Cardinality(Nodes(w)) \in Nat
         /\ Len(w.calls) \in Nat
         /\ \A i : i \in Nodes(w) <=> IsNode(w, i)
<1>1. Len(w.calls) \in Nat
  BY LenProperties
<1>2. IsFiniteSet(1 .. Len(w.calls))
  BY <1>1, FS_Interval
<1>3. IsFiniteSet(Nodes(w))
  BY <1>2, FS_Subset DEF Nodes
<1> QED
  BY <1>1, <1>3, FS_CardinalityType DEF Nodes, IsNode

\* Calls that are other calls, moved by a fixed distance, are not more.
LEMMA Shifted ==
  ASSUME NEW S, S \subseteq Nat, NEW T, IsFiniteSet(T), NEW d \in Int,
         \A i \in S : i + d \in T
  PROVE  IsFiniteSet(S) /\ Cardinality(S) <= Cardinality(T)
<1> DEFINE f == [i \in S |-> i + d]
<1>1. f \in [S -> T]
  OBVIOUS
<1>2. ASSUME NEW i \in S, NEW j \in S, f[i] = f[j] PROVE i = j
  <2>1. i + d = j + d /\ i \in Nat /\ j \in Nat
    BY <1>2
  <2> QED
    BY <2>1
<1> HIDE DEF f
<1>3. f \in Injection(S, T)
  BY <1>1, <1>2 DEF Injection, IsInjective
<1> QED
  BY <1>3, FS_Injection

\* What is left of a walk, spelled out as a number.
LEMMA LeftIs ==
  ASSUME NEW w, w.calls \in Seq(Call), w.remaining \in Nat
  PROVE  /\ Len(w.calls) \in Nat /\ Cardinality(Nodes(w)) \in Nat
         /\ Left(w) = Len(w.calls) + Cardinality(Nodes(w)) + 2 * w.remaining
BY NodesFinite DEF Left

\* The call taken off leaves less to do: two for a node, one for a return.
LEMMA PopLeaves ==
  ASSUME NEW W, NEW w, WalkTyped(W, w), w.calls # <<>>
  PROVE  /\ Left(w) \in Nat /\ Left(Popped(w)) \in Nat
         /\ Left(Popped(w)) + (IF Head(w.calls).call = "node" THEN 2 ELSE 1) <= Left(w)
<1> DEFINE r == Popped(w)
           first == IF Head(w.calls).call = "node" THEN {1} ELSE {}
<1>1. w = Record(w) /\ w.calls \in Seq(Call) /\ w.remaining \in Nat
  BY DEF WalkTyped
<1>2. r.calls = Tail(w.calls) /\ r.remaining = w.remaining
  BY <1>1 DEF Popped, Record
<1>3. /\ Len(w.calls) \in Nat \ {0} /\ w.calls[1] = Head(w.calls)
      /\ r.calls \in Seq(Call) /\ Len(r.calls) = Len(w.calls) - 1
      /\ \A i \in 1 .. Len(r.calls) : r.calls[i] = w.calls[i + 1]
  BY <1>1, <1>2, HeadTailProperties, EmptySeq
<1> HIDE DEF r
<1>4. /\ IsFiniteSet(Nodes(w)) /\ Cardinality(Nodes(w)) \in Nat
      /\ IsFiniteSet(Nodes(r)) /\ Cardinality(Nodes(r)) \in Nat
  BY <1>1, <1>3, NodesFinite
<1>5. Nodes(r) \subseteq Nat /\ \A i \in Nodes(r) : i + 1 \in Nodes(w) /\ i + 1 # 1
  BY <1>3 DEF Nodes
<1> DEFINE l == Len(w.calls)
           c == Cardinality(Nodes(w))
           m == w.remaining
           k == Len(r.calls)
           e == Cardinality(Nodes(r))
           u == Left(w)
           v == Left(r)
<1>6. l \in Nat /\ c \in Nat /\ m \in Nat /\ u = l + c + 2 * m
  BY <1>1, LeftIs
<1>7. k \in Nat /\ e \in Nat /\ v = k + e + 2 * m
  <2>1. r.remaining \in Nat /\ r.remaining = w.remaining
    BY <1>1, <1>2
  <2>2. /\ Len(r.calls) \in Nat /\ Cardinality(Nodes(r)) \in Nat
        /\ Left(r) = Len(r.calls) + Cardinality(Nodes(r)) + 2 * r.remaining
    BY <1>3, <2>1, LeftIs
  <2> QED
    BY <2>1, <2>2
<1>8. k + 1 = l
  BY <1>3
<1>9. ASSUME Head(w.calls).call = "node" PROVE e <= c - 1
  <2>1. 1 \in Nodes(w)
    BY <1>3, <1>9 DEF Nodes
  <2>2. /\ IsFiniteSet(Nodes(w) \ {1})
        /\ Cardinality(Nodes(w) \ {1}) = Cardinality(Nodes(w)) - 1
    BY <1>4, <2>1, FS_RemoveElement
  <2>3. \A i \in Nodes(r) : i + 1 \in Nodes(w) \ {1}
    BY <1>5
  <2>4. Cardinality(Nodes(r)) <= Cardinality(Nodes(w) \ {1})
    BY <1>5, <2>2, <2>3, Shifted
  <2> QED
    BY <2>2, <2>4
<1>10. e <= c
  BY <1>4, <1>5, Shifted
<1> HIDE DEF l, c, m, k, e, u, v
<1>11. /\ u \in Nat /\ v \in Nat
       /\ v + (IF Head(w.calls).call = "node" THEN 2 ELSE 1) <= u
  <2>1. CASE Head(w.calls).call = "node"
    BY <1>6, <1>7, <1>8, <1>9, <2>1
  <2>2. CASE Head(w.calls).call # "node"
    BY <1>6, <1>7, <1>8, <1>10, <2>2
  <2> QED
    BY <2>1, <2>2
<1> QED
  BY <1>11 DEF u, v, r

\* A page adds its return; its entries are paid for out of the budget.
LEMMA PageLeaves ==
  ASSUME NEW W, GoodWorld(W), NEW w, WalkTyped(W, w),
         NEW path \in DOMAIN W.tree, NEW depth \in Nat
  PROVE  /\ Left(w) \in Nat /\ Left(DirectoryPage(W, w, path, depth)) \in Nat
         /\ Left(DirectoryPage(W, w, path, depth)) <= Left(w) + 1
<1> DEFINE n == Smaller(PageSize(W, path), w.remaining)
           r == DirectoryPage(W, w, path, depth)
<1>1. w.calls \in Seq(Call) /\ w.remaining \in Nat
  BY DEF WalkTyped
<1>2. PageAdds(W, w, path, n, r)
  BY PageCalls
<1> HIDE DEF n, r
<1>3. /\ n \in Nat /\ n <= w.remaining /\ r.remaining = w.remaining - n
      /\ r.calls \in Seq(Call) /\ Len(r.calls) = n + 1 + Len(w.calls)
      /\ \A i : IsNode(r, i) => \/ i \in 1 .. n
                                \/ i \in Nat /\ IsNode(w, i - n - 1)
  BY <1>2 DEF PageAdds
<1>4. /\ IsFiniteSet(Nodes(w)) /\ Cardinality(Nodes(w)) \in Nat /\ Len(w.calls) \in Nat
      /\ \A i : i \in Nodes(w) <=> IsNode(w, i)
  BY <1>1, NodesFinite
<1>5. /\ IsFiniteSet(Nodes(r)) /\ Cardinality(Nodes(r)) \in Nat
      /\ \A i : i \in Nodes(r) <=> IsNode(r, i)
  BY <1>3, NodesFinite
<1> DEFINE old == {i \in Nodes(r) : i \in Nat /\ i - n - 1 \in Nodes(w)}
           d == 0 - n - 1
<1>6. IsFiniteSet(old) /\ Cardinality(old) <= Cardinality(Nodes(w))
  <2>1. d \in Int /\ old \subseteq Nat
    BY <1>3
  <2>2. \A i \in old : i + d \in Nodes(w)
    <3> SUFFICES ASSUME NEW i \in old PROVE i + d \in Nodes(w)
      OBVIOUS
    <3>1. i \in Nat /\ i - n - 1 \in Nodes(w) /\ i + d = i - n - 1
      BY <1>3
    <3> QED
      BY <3>1
  <2> HIDE DEF old, d
  <2> QED
    BY <1>4, <2>1, <2>2, Shifted
<1>7. IsFiniteSet(1 .. n) /\ Cardinality(1 .. n) = n
  BY <1>3, FS_Interval
<1>8. Nodes(r) \subseteq (1 .. n) \cup old
  BY <1>3, <1>4, <1>5
<1> HIDE DEF old, d
<1>9. Cardinality(Nodes(r)) <= n + Cardinality(Nodes(w))
  <2>1. /\ IsFiniteSet((1 .. n) \cup old)
        /\ Cardinality((1 .. n) \cup old)
             = Cardinality(1 .. n) + Cardinality(old) - Cardinality((1 .. n) \cap old)
    BY <1>6, <1>7, FS_Union
  <2>2. IsFiniteSet((1 .. n) \cap old)
    BY <1>6, FS_Subset
  <2>3. /\ Cardinality(old) \in Nat /\ Cardinality((1 .. n) \cap old) \in Nat
        /\ Cardinality((1 .. n) \cup old) \in Nat
    BY <1>6, <2>1, <2>2, FS_CardinalityType
  <2>4. Cardinality(Nodes(r)) <= Cardinality((1 .. n) \cup old)
    BY <1>8, <2>1, FS_Subset
  <2> QED
    BY <1>3, <1>4, <1>5, <1>6, <1>7, <2>1, <2>3, <2>4
<1> DEFINE l == Len(w.calls)
           c == Cardinality(Nodes(w))
           m == w.remaining
           k == Len(r.calls)
           e == Cardinality(Nodes(r))
           h == r.remaining
           u == Left(w)
           v == Left(r)
<1>10. l \in Nat /\ c \in Nat /\ m \in Nat /\ u = l + c + 2 * m
  BY <1>1, LeftIs
<1>11. h = m - n /\ h \in Nat /\ k = n + 1 + l /\ e <= n + c
  BY <1>1, <1>3, <1>9
<1>12. k \in Nat /\ e \in Nat /\ v = k + e + 2 * h
  <2>1. r.remaining \in Nat
    BY <1>11
  <2> QED
    BY <1>3, <2>1, LeftIs
<1>13. n \in Nat
  BY <1>3
<1> HIDE DEF l, c, m, k, e, h, u, v
<1>14. u \in Nat /\ v \in Nat /\ v <= u + 1
  BY <1>10, <1>11, <1>12, <1>13
<1> QED
  BY <1>14 DEF u, v, r

\* Issuing a token leaves the walk as much to do.
LEMMA IssueLeaves ==
  ASSUME NEW W, NEW w, w = Record(w), NEW path, NEW offset
  PROVE  Left(Issue(W, w, path, offset)) = Left(w)
<1> DEFINE r == Issue(W, w, path, offset)
<1>1. r.calls = w.calls /\ r.remaining = w.remaining
  BY DEF Issue, Record
<1> HIDE DEF r
<1>2. Nodes(r) = Nodes(w)
  BY <1>1 DEF Nodes
<1>3. Left(r) = Left(w)
  BY <1>1, <1>2 DEF Left
<1> QED
  BY <1>3 DEF r

\* Every call of the walk leaves less to do.
LEMMA WalkOnLeaves ==
  ASSUME NEW W, GoodWorld(W), NEW w, WalkInv(W, w), w.calls # <<>>
  PROVE  /\ Left(w) \in Nat /\ Left(WalkOn(W, w)) \in Nat
         /\ Left(WalkOn(W, w)) + 1 <= Left(w)
<1> DEFINE call == Head(w.calls)
           e == call.path
           r == Popped(w)
<1>1. WalkInv(W, r) /\ call \in Call
  BY PopKeeps
<1>2. WalkTyped(W, r) /\ r = Record(r) /\ WalkTyped(W, w)
  BY <1>1 DEF WalkInv, WalkTyped
<1>3. /\ Left(w) \in Nat /\ Left(r) \in Nat
      /\ Left(r) + (IF call.call = "node" THEN 2 ELSE 1) <= Left(w)
  BY <1>2, PopLeaves
<1>4. WalkOn(W, w) = IF call.call = "return" THEN Truncated(W, r, e)
                     ELSE Node(W, r, e, call.depth)
  BY DEF WalkOn, Popped
<1>5. call.depth \in Nat /\ call.call \in {"node", "return"}
  BY <1>1 DEF Call
<1> HIDE DEF call, e, r
<1>6. \A offset : Left(Issue(W, r, e, offset)) = Left(r)
  BY <1>2, IssueLeaves
<1>7. CASE call.call = "return"
  <2>1. Left(WalkOn(W, w)) = Left(r)
    BY <1>4, <1>6, <1>7 DEF Truncated
  <2> QED
    BY <1>3, <1>7, <2>1
<1>8. CASE call.call = "node"
  <2>1. ASSUME e \in DOMAIN W.tree
        PROVE  /\ Left(DirectoryPage(W, r, e, call.depth + 1)) \in Nat
               /\ Left(DirectoryPage(W, r, e, call.depth + 1)) <= Left(r) + 1
    <3>1. call.depth + 1 \in Nat
      BY <1>5
    <3> QED
      BY <1>2, <2>1, <3>1, PageLeaves
  <2>2. /\ Left(Node(W, r, e, call.depth)) \in Nat
        /\ Left(Node(W, r, e, call.depth)) <= Left(r) + 1
    <3>1. CASE e \notin DOMAIN W.tree \/ e \notin W.expanded
      BY <1>3, <3>1 DEF Node
    <3>2. CASE /\ ~ (e \notin DOMAIN W.tree \/ e \notin W.expanded)
               /\ call.depth + 1 >= MaxDepth
      <4>1. Node(W, r, e, call.depth) = Issue(W, r, e, 0)
        BY <3>2 DEF Node
      <4> QED
        BY <1>3, <1>6, <4>1
    <3>3. CASE /\ ~ (e \notin DOMAIN W.tree \/ e \notin W.expanded)
               /\ ~ (call.depth + 1 >= MaxDepth)
      <4>1. Node(W, r, e, call.depth) = DirectoryPage(W, r, e, call.depth + 1)
        BY <3>3 DEF Node
      <4> QED
        BY <2>1, <3>3, <4>1
    <3> QED
      BY <3>1, <3>2, <3>3
  <2>3. Left(WalkOn(W, w)) = Left(Node(W, r, e, call.depth))
    BY <1>4, <1>8
  <2> QED
    BY <1>3, <1>8, <2>2, <2>3
<1> QED
  BY <1>5, <1>7, <1>8

\* The first page leaves no more than the number of calls that are made.
LEMMA FirstPageLeaves ==
  ASSUME NEW W, GoodWorld(W), NEW n \in Nat
  PROVE  /\ Left(DirectoryPage(W, Blank(n), Root, 0)) \in Nat
         /\ Left(DirectoryPage(W, Blank(n), Root, 0)) <= Steps
<1> DEFINE w == Blank(n)
<1>1. /\ w = Record(w) /\ DOMAIN w.rendered = {} /\ DOMAIN w.tokens = {}
      /\ w.next = n /\ w.remaining = Budget /\ w.calls = <<>>
  BY DEF Blank, Record, Empty
<1> HIDE DEF w
<1>2. WalkTyped(W, w)
  BY <1>1, Bounds DEF WalkTyped
<1>3. Root \in DOMAIN W.tree
  BY DEF GoodWorld, WellListed, Root
<1>4. /\ Left(w) \in Nat /\ Left(DirectoryPage(W, w, Root, 0)) \in Nat
      /\ Left(DirectoryPage(W, w, Root, 0)) <= Left(w) + 1
  BY <1>2, <1>3, PageLeaves
<1>5. Left(w) = 2 * Budget
  <2>1. Nodes(w) = {}
    BY <1>1 DEF Nodes
  <2>2. Cardinality(Nodes(w)) = 0 /\ Len(w.calls) = 0
    BY <1>1, <2>1, FS_EmptySet
  <2>3. Left(w) = 0 + 0 + 2 * Budget
    BY <1>1, <2>2 DEF Left
  <2> QED
    BY <2>3, Bounds
<1>6. Left(DirectoryPage(W, w, Root, 0)) <= Steps
  BY <1>4, <1>5 DEF Steps
<1> QED
  BY <1>4, <1>6 DEF w

\* Nothing of a snapshot is left out: however wide and deep the tree, the node
\* budget is spent and the recursion has returned within twice the budget's
\* calls, so the bounded walk is the recursion of the code (session.rs
\* snapshot, directory_page, node).
THEOREM SnapshotEnds ==
  ASSUME NEW W, GoodWorld(W), next_continuation \in Nat
  PROVE  Snapshot(W).calls = <<>>
<1> DEFINE start == DirectoryPage(W, Blank(next_continuation), Root, 0)
           Done(k) == /\ WalkInv(W, Walk(W, start)[k])
                      /\ \/ Walk(W, start)[k].calls = <<>>
                         \/ /\ Left(Walk(W, start)[k]) \in Nat
                            /\ Left(Walk(W, start)[k]) + k <= Steps
           T == {k \in Nat : k \in 0 .. Steps => Done(k)}
<1>1. /\ WalkInv(W, start) /\ Left(start) \in Nat /\ Left(start) <= Steps
  BY FirstPageKeeps, FirstPageLeaves
<1> HIDE DEF start
<1>2. /\ Walk(W, start)[0] = start
      /\ \A k \in 1 .. Steps : Walk(W, start)[k] = WalkOn(W, Walk(W, start)[k - 1])
  BY WalkByCalls
<1>3. 0 \in T
  <2>1. Done(0)
    BY <1>1, <1>2
  <2> QED
    BY <2>1
<1>4. ASSUME NEW k \in Nat, k \in T PROVE k + 1 \in T
  <2>1. SUFFICES ASSUME k + 1 \in 0 .. Steps PROVE Done(k + 1)
    OBVIOUS
  <2>2. k \in 0 .. Steps /\ k + 1 \in 1 .. Steps /\ (k + 1) - 1 = k
    BY <2>1, Bounds
  <2> DEFINE w == Walk(W, start)[k]
             r == Walk(W, start)[k + 1]
  <2>3. /\ WalkInv(W, w)
        /\ w.calls = <<>> \/ (Left(w) \in Nat /\ Left(w) + k <= Steps)
    BY <1>4, <2>2
  <2>4. r = WalkOn(W, w)
    BY <1>2, <2>2
  <2> HIDE DEF w, r
  <2>5. WalkInv(W, r)
    BY <2>3, <2>4, WalkOnKeeps
  <2>6. CASE w.calls = <<>>
    <3>1. r.calls = <<>>
      BY <2>4, <2>6 DEF WalkOn
    <3> QED
      BY <2>5, <3>1 DEF r
  <2>7. CASE w.calls # <<>>
    <3>1. Left(r) \in Nat /\ Left(r) + 1 <= Left(w)
      BY <2>3, <2>4, <2>7, WalkOnLeaves
    <3>2. Left(r) + (k + 1) <= Steps
      BY <2>3, <2>7, <3>1, Bounds
    <3> QED
      BY <2>5, <3>1, <3>2 DEF r
  <2> QED
    BY <2>6, <2>7
<1>5. Steps \in T
  <2> HIDE DEF T
  <2> QED
    BY <1>3, <1>4, SetInduction, Bounds
<1> DEFINE last == Walk(W, start)[Steps]
<1>6. /\ WalkInv(W, last)
      /\ last.calls = <<>> \/ (Left(last) \in Nat /\ Left(last) + Steps <= Steps)
  BY <1>5, Bounds
<1>7. last = Snapshot(W)
  BY DEF Snapshot, start, Blank
<1> HIDE DEF last
<1>8. last.calls = <<>>
  <2>1. SUFFICES ASSUME last.calls # <<>> PROVE FALSE
    OBVIOUS
  <2>2. Left(last) \in Nat /\ Left(last) + Steps <= Steps
    BY <1>6, <2>1
  <2>3. Left(last) = 0
    BY <2>2, Bounds
  <2>4. /\ Left(WalkOn(W, last)) \in Nat /\ Left(WalkOn(W, last)) + 1 <= Left(last)
    BY <1>6, <2>1, WalkOnLeaves
  <2> QED
    BY <2>3, <2>4
<1> QED
  BY <1>7, <1>8

----------------------------------------------------------------------------
(***************************************************************************)
(* The session between two requests.                                       *)
(***************************************************************************)
PagesTypeOK ==
  /\ revision \in Nat /\ next_continuation \in Nat
  /\ Root \in expanded
  /\ \A p \in DOMAIN page_sizes : page_sizes[p] \in Nat
  /\ \A t \in DOMAIN continuations :
       /\ t \in Nat /\ t < next_continuation
       /\ continuations[t].offset \in Nat
       /\ continuations[t].revision \in 0 .. revision
  /\ \A t \in sent : t \in Nat /\ t < next_continuation

PagesInv == PagesTypeOK /\ SnapshotBounded /\ TokensResume

\* What a snapshot shows can be reached from the root through open directories.
Reached ==
  \A p \in DOMAIN rendered \ {Root} :
    /\ p \in expanded
    /\ \E q \in DOMAIN rendered : p \in ToSet(rendered[q])

\* The first state of a session.
LEMMA PagesInit == Init => PagesInv
<1> SUFFICES ASSUME Init PROVE PagesInv
  OBVIOUS
<1>1. DOMAIN Empty = {}
  BY DEF Empty
<1>2. PagesTypeOK
  BY <1>1, PagesAssumption DEF Init, PagesTypeOK
<1>3. SnapshotBounded
  <2>1. Shown = {}
    BY <1>1 DEF Init, Shown
  <2> QED
    BY <2>1, FS_EmptySet, Bounds DEF SnapshotBounded
<1>4. TokensResume
  BY <1>1 DEF Init, TokensResume, Redeemable
<1> QED
  BY <1>2, <1>3, <1>4 DEF PagesInv

\* The record after a walk: of whatever was sent before, nothing is redeemable.
LEMMA RenderedKeeps ==
  ASSUME PagesTypeOK, NEW W, GoodWorld(W), Root \in W.expanded,
         NEW w, WalkTyped(W, w), WalkTokens(w), Newer(next_continuation, w),
         Rendered(W, w), sent' \in {sent, DOMAIN w.tokens}
  PROVE  /\ PagesTypeOK'
         /\ sent' = sent => Redeemable' \cap sent' = {}
         /\ \A s, t \in Redeemable' :
              continuations'[s].path = continuations'[t].path => s = t
<1>1. /\ revision' = W.revision /\ expanded' = W.expanded /\ page_sizes' = W.page_sizes
      /\ continuations' = w.tokens /\ next_continuation' = w.next
  BY DEF Rendered
<1>2. /\ w.next \in Nat
      /\ \A p \in DOMAIN w.rendered :
           p \in DOMAIN W.tree /\ w.rendered[p] \in 0 .. Len(W.tree[p])
      /\ \A t \in DOMAIN w.tokens :
           t \in Nat /\ t < w.next /\ w.tokens[t].revision = W.revision
  BY DEF WalkTyped
<1>3. \A t \in DOMAIN w.tokens : w.tokens[t].offset \in Nat
  <2>1. \A p \in DOMAIN w.rendered : w.rendered[p] \in Nat
    BY <1>2, LayoutFacts
  <2> QED
    BY <2>1 DEF WalkTokens
<1>4. /\ next_continuation \in Nat /\ next_continuation <= w.next
      /\ \A t \in DOMAIN w.tokens : next_continuation <= t
      /\ \A t \in sent : t \in Nat /\ t < next_continuation
  BY <1>2 DEF PagesTypeOK, Newer
<1>5. \A t \in sent : t \in Nat /\ t < w.next
  BY <1>2, <1>4
<1>6. PagesTypeOK'
  <2>1. \A t \in sent' : t \in Nat /\ t < w.next
    BY <1>2, <1>5
  <2>2. /\ W.revision \in Nat
        /\ \A p \in DOMAIN W.page_sizes : W.page_sizes[p] \in Nat
    BY DEF GoodWorld
  <2> QED
    BY <1>1, <1>2, <1>3, <2>1, <2>2 DEF PagesTypeOK
<1>7. ASSUME sent' = sent PROVE Redeemable' \cap sent' = {}
  <2>1. ASSUME NEW t \in DOMAIN w.tokens, t \in sent PROVE FALSE
    BY <1>2, <1>4, <2>1
  <2> QED
    BY <1>1, <1>7, <2>1 DEF Redeemable
<1>8. \A s, t \in DOMAIN w.tokens : w.tokens[s].path = w.tokens[t].path => s = t
  BY DEF WalkTokens
<1>9. Redeemable' \subseteq DOMAIN w.tokens
  BY <1>1 DEF Redeemable
<1> QED
  BY <1>1, <1>6, <1>7, <1>8, <1>9

\* A request that fails in its snapshot, or whose snapshot is not sent.
LEMMA UnsentKeeps ==
  ASSUME PagesInv, NEW W, GoodWorld(W), Root \in W.expanded,
         NEW w, WalkTyped(W, w), WalkTokens(w), Newer(next_continuation, w),
         Rendered(W, w), UNCHANGED <<rendered, sent>>
  PROVE  PagesInv'
<1>1. PagesTypeOK /\ SnapshotBounded
  BY DEF PagesInv
<1>2. /\ PagesTypeOK' /\ Redeemable' \cap sent' = {}
      /\ \A s, t \in Redeemable' :
           continuations'[s].path = continuations'[t].path => s = t
  BY <1>1, RenderedKeeps
<1>3. SnapshotBounded'
  BY <1>1 DEF SnapshotBounded, Shown
<1>4. TokensResume'
  BY <1>2 DEF TokensResume
<1> QED
  BY <1>2, <1>3, <1>4 DEF PagesInv

\* A reply with a snapshot.
LEMMA ReplyKeeps ==
  ASSUME PagesTypeOK, NEW W, GoodWorld(W), Root \in W.expanded, Reply(W)
  PROVE  PagesInv' /\ Reached'
<1> DEFINE shot == Snapshot(W)
           Shows(d) == Page(W, shot, d)
<1>1. WalkInv(W, shot) /\ Newer(next_continuation, shot)
  BY SnapshotKeeps DEF PagesTypeOK
<1>2. /\ Rendered(W, shot) /\ sent' = DOMAIN shot.tokens
      /\ rendered' = [d \in DOMAIN shot.rendered |-> Shows(d)]
  BY DEF Reply
<1> HIDE DEF shot
<1>3. continuations' = shot.tokens /\ revision' = W.revision /\ expanded' = W.expanded
  BY <1>2 DEF Rendered
<1>4. /\ PagesTypeOK'
      /\ \A s, t \in Redeemable' :
           continuations'[s].path = continuations'[t].path => s = t
  BY <1>1, <1>2, RenderedKeeps DEF WalkInv
<1>5. ASSUME NEW d \in DOMAIN shot.rendered
      PROVE  /\ Len(Shows(d)) = shot.rendered[d]
             /\ \A i \in 1 .. shot.rendered[d] : W.tree[d][i] \in ToSet(Shows(d))
  <2> DEFINE s == W.tree[d]
             n == shot.rendered[d]
  <2>1. d \in DOMAIN W.tree /\ n \in 0 .. Len(s)
    BY <1>1 DEF WalkInv, WalkTyped
  <2>2. s \in Seq(Path) /\ Len(s) \in Nat
    BY <2>1, LayoutFacts DEF GoodWorld, WellListed, Path
  <2>3. Shows(d) = SubSeq(s, 1, n)
    BY DEF Page
  <2> HIDE DEF s, n, Shows
  <2>4. Len(SubSeq(s, 1, n)) = n
    BY <2>1, <2>2
  <2>5. ASSUME NEW i \in 1 .. n PROVE s[i] \in ToSet(SubSeq(s, 1, n))
    <3>1. i \in DOMAIN SubSeq(s, 1, n) /\ SubSeq(s, 1, n)[i] = s[i]
      BY <2>1, <2>2
    <3> QED
      BY <3>1 DEF ToSet
  <2> QED
    BY <2>3, <2>4, <2>5 DEF s, n
<1> HIDE DEF Shows
<1>6. SnapshotBounded'
  <2>1. Shown' = Places(shot.rendered)
    BY <1>2, <1>5 DEF Shown, Places
  <2>2. /\ IsFiniteSet(Places(shot.rendered)) /\ shot.remaining \in Nat
        /\ Cardinality(Places(shot.rendered)) + shot.remaining <= Budget
    BY <1>1 DEF WalkInv, WalkPaid, WalkTyped
  <2>3. Cardinality(Places(shot.rendered)) \in Nat
    BY <2>2, FS_CardinalityType
  <2>4. Cardinality(Places(shot.rendered)) <= Budget
    BY <2>2, <2>3, Bounds
  <2> QED
    BY <2>1, <2>4 DEF SnapshotBounded, Budget
<1>7. TokensResume'
  <2>1. \A t \in DOMAIN shot.tokens :
          shot.tokens[t].offset = IF shot.tokens[t].path \in DOMAIN shot.rendered
                                    THEN shot.rendered[shot.tokens[t].path] ELSE 0
    BY <1>1 DEF WalkInv, WalkTokens
  <2>2. \A t \in DOMAIN shot.tokens :
          shot.tokens[t].offset = IF shot.tokens[t].path \in DOMAIN rendered'
                                    THEN Len(rendered'[shot.tokens[t].path]) ELSE 0
    BY <1>2, <1>5, <2>1
  <2> QED
    BY <1>2, <1>3, <1>4, <2>2 DEF TokensResume
<1>8. Reached'
  <2>1. ASSUME NEW p \in DOMAIN rendered' \ {Root}
        PROVE  p \in expanded' /\ \E q \in DOMAIN rendered' : p \in ToSet(rendered'[q])
    <3>1. p \in DOMAIN shot.rendered /\ p # Root
      BY <1>2
    <3>2. p \in W.expanded /\ Listed(W, shot.rendered, p)
      BY <1>1, <3>1 DEF WalkInv, WalkReachable
    <3>3. PICK q \in DOMAIN shot.rendered :
            \E i \in 1 .. shot.rendered[q] : W.tree[q][i] = p
      BY <3>2 DEF Listed
    <3>4. p \in ToSet(Shows(q)) /\ rendered'[q] = Shows(q) /\ q \in DOMAIN rendered'
      BY <1>2, <1>5, <3>3
    <3> QED
      BY <1>3, <3>2, <3>4
  <2> QED
    BY <2>1 DEF Reached
<1> QED
  BY <1>4, <1>6, <1>7, <1>8 DEF PagesInv

\* Whatever a walk glimpses of the tree, each listing is of some layout.
LEMMA SightIsGood ==
  ASSUME NEW at \in Glimpses
  PROVE  WellListed(Sight(at)) /\ DOMAIN Sight(at) \subseteq Paths
<1>1. /\ DOMAIN Sight(at) \subseteq Paths
      /\ \A d \in DOMAIN Sight(at) : d \in Paths /\ Sight(at)[d] = at[d][d]
  BY DEF Sight
<1>2. \A d \in Paths : at[d] \in Layouts /\ d \in DOMAIN at[d]
  BY DEF Glimpses
<1>3. \A t \in Layouts : WellListed(t)
  BY LayoutAssumption
<1>4. Root \in DOMAIN Sight(at)
  <2>1. PICK t \in Layouts : TRUE
    BY PagesAssumption
  <2>2. Root \in DOMAIN t
    BY <1>3 DEF WellListed, Root
  <2>3. Root \in Paths
    BY <2>2 DEF Paths
  <2> QED
    BY <2>3 DEF Sight
<1>5. ASSUME NEW d \in DOMAIN Sight(at)
      PROVE  /\ d \in Seq(STRING) /\ Sight(at)[d] \in Seq(Seq(STRING))
             /\ \A i \in 1 .. Len(Sight(at)[d]) :
                  /\ Sight(at)[d][i] # <<>> /\ Front(Sight(at)[d][i]) = d
                  /\ \A j \in 1 .. Len(Sight(at)[d]) :
                       Sight(at)[d][i] = Sight(at)[d][j] => i = j
  <2>1. WellListed(at[d]) /\ d \in DOMAIN at[d] /\ Sight(at)[d] = at[d][d]
    BY <1>1, <1>2, <1>3
  <2> QED
    BY <2>1 DEF WellListed
<1> QED
  BY <1>1, <1>4, <1>5 DEF WellListed, Root

\* What a session state hands to its walk is as the walk expects it.
LEMMA WorldIsGood ==
  ASSUME NEW at \in Glimpses, NEW r \in Nat, NEW e, Root \in e, NEW p,
         \A x \in DOMAIN p : p[x] \in Nat
  PROVE  GoodWorld(World(at, r, e, p)) /\ Root \in World(at, r, e, p).expanded
BY SightIsGood DEF GoodWorld, World

\* A request that answers with a snapshot, or fails on the way.
LEMMA ServeKeeps ==
  ASSUME PagesInv, NEW r \in Nat, NEW e, Root \in e, NEW p,
         \A x \in DOMAIN p : p[x] \in Nat, Serve(r, e, p)
  PROVE  PagesInv' /\ (rendered' # rendered => Reached')
<1>1. PagesTypeOK /\ next_continuation \in Nat
  BY DEF PagesInv, PagesTypeOK
<1>2. PICK at \in Glimpses : Reply(World(at, r, e, p)) \/ Fail(World(at, r, e, p))
  BY DEF Serve
<1> DEFINE W == World(at, r, e, p)
<1>3. GoodWorld(W) /\ Root \in W.expanded
  BY WorldIsGood
<1>4. Reply(W) \/ Fail(W)
  BY <1>2
<1> HIDE DEF W
<1>5. CASE Reply(W)
  BY <1>1, <1>3, <1>5, ReplyKeeps
<1>6. CASE Fail(W)
  <2>1. PICK w \in Interrupted(W) : Rendered(W, w)
    BY <1>6 DEF Fail
  <2>2. UNCHANGED <<rendered, sent>>
    BY <1>6 DEF Fail
  <2>3. WalkTyped(W, w) /\ WalkTokens(w) /\ Newer(next_continuation, w)
    BY <1>1, <1>3, InterruptedKeeps
  <2>4. PagesInv'
    BY <1>3, <2>1, <2>2, <2>3, UnsentKeeps
  <2> QED
    BY <2>2, <2>4
<1> QED
  BY <1>4, <1>5, <1>6

\* Every request keeps the invariant, and one that is answered with a snapshot
\* shows what can be reached.
LEMMA PagesStep ==
  ASSUME PagesInv, [Next]_vars
  PROVE  PagesInv' /\ (rendered' # rendered => Reached')
<1>1. /\ PagesTypeOK /\ SnapshotBounded /\ TokensResume
      /\ revision \in Nat /\ revision + 1 \in Nat /\ next_continuation \in Nat
      /\ Root \in expanded /\ \A p \in DOMAIN page_sizes : page_sizes[p] \in Nat
  BY DEF PagesInv, PagesTypeOK
<1> DEFINE Kept == PagesInv' /\ (rendered' # rendered => Reached')
<1>2. CASE Read
  BY <1>1, <1>2, ServeKeeps DEF Read
<1>3. CASE IntentSnapshot
  <2>1. PICK at \in Glimpses :
          LET W == World(at, revision, expanded, page_sizes) IN Rendered(W, Snapshot(W))
    BY <1>3 DEF IntentSnapshot
  <2> DEFINE W == World(at, revision, expanded, page_sizes)
  <2>2. GoodWorld(W) /\ Root \in W.expanded
    BY <1>1, WorldIsGood
  <2>3. Rendered(W, Snapshot(W)) /\ UNCHANGED <<rendered, sent>>
    BY <1>3, <2>1 DEF IntentSnapshot
  <2> HIDE DEF W
  <2>4. WalkInv(W, Snapshot(W)) /\ Newer(next_continuation, Snapshot(W))
    BY <1>1, <2>2, SnapshotKeeps
  <2>5. PagesInv'
    BY <2>2, <2>3, <2>4, UnsentKeeps DEF WalkInv
  <2> QED
    BY <2>3, <2>5
<1>4. ASSUME NEW path, NEW open, Disclose(path, open) PROVE Kept
  <2>1. Root \in Disclosed(path, open)
    BY <1>1 DEF Disclosed
  <2>2. Serve(revision + 1, Disclosed(path, open), page_sizes)
    BY <1>4 DEF Disclose
  <2> QED
    BY <1>1, <2>1, <2>2, ServeKeeps
<1>5. ASSUME NEW path, NEW token \in DOMAIN continuations, Continue(path, token)
      PROVE  Kept
  <2> DEFINE p == Put(page_sizes, path, continuations[token].offset + MaxPage)
  <2>1. continuations[token].offset + MaxPage \in Nat
    BY <1>1, PagesAssumption DEF PagesTypeOK
  <2>2. \A x \in DOMAIN p : p[x] \in Nat
    BY <1>1, <2>1 DEF Put
  <2>3. Serve(revision + 1, expanded, p)
    BY <1>5 DEF Continue
  <2> HIDE DEF p
  <2> QED
    BY <1>1, <2>2, <2>3, ServeKeeps
<1>6. ASSUME NEW path, NEW token \in DOMAIN continuations, StaleContinuation(path, token)
      PROVE  Kept
  <2>1. /\ DOMAIN continuations' \subseteq DOMAIN continuations
        /\ \A t \in DOMAIN continuations' : continuations'[t] = continuations[t]
        /\ UNCHANGED <<revision, expanded, page_sizes, next_continuation, rendered, sent>>
    BY <1>6 DEF StaleContinuation
  <2>2. PagesTypeOK'
    BY <1>1, <2>1 DEF PagesTypeOK
  <2>3. SnapshotBounded'
    BY <1>1, <2>1 DEF SnapshotBounded, Shown
  <2>4. TokensResume'
    BY <1>1, <2>1 DEF TokensResume, Redeemable
  <2> QED
    BY <2>1, <2>2, <2>3, <2>4 DEF PagesInv
<1>7. CASE RuntimeChange
  BY <1>1, <1>7, ServeKeeps DEF RuntimeChange
<1>8. CASE DirectChange
  <2>1. /\ revision' = revision + 1
        /\ UNCHANGED <<expanded, page_sizes, continuations, next_continuation,
                       rendered, sent>>
    BY <1>8 DEF DirectChange
  <2>2. PagesTypeOK'
    BY <1>1, <2>1 DEF PagesTypeOK
  <2>3. SnapshotBounded'
    BY <1>1, <2>1 DEF SnapshotBounded, Shown
  <2>4. Redeemable' = {}
    BY <1>1, <2>1 DEF Redeemable, PagesTypeOK
  <2>5. TokensResume'
    BY <2>4 DEF TokensResume
  <2> QED
    BY <2>1, <2>2, <2>3, <2>5 DEF PagesInv
<1>9. CASE UNCHANGED vars
  BY <1>1, <1>9
  DEF vars, PagesInv, PagesTypeOK, SnapshotBounded, Shown, TokensResume, Redeemable
<1> HIDE DEF Kept
<1>10. CASE Next
  BY <1>2, <1>3, <1>4, <1>5, <1>6, <1>7, <1>8, <1>10 DEF Next, Kept
<1> QED
  BY <1>9, <1>10

\* The invariant holds in every state of a session.
LEMMA PagesAlways == Spec => []PagesInv
BY PagesInit, PagesStep, PTL DEF Spec

\* Tokens come from the past: none is as new as the next, none names a revision
\* the session has not reached, and whatever is collapsed the root stays open
\* (session.rs, SessionRecord).
THEOREM PagesTyped == Spec => []PagesTypeOK
<1>1. PagesInv => PagesTypeOK
  BY DEF PagesInv
<1> QED
  BY <1>1, PagesAlways, PTL

\* A snapshot renders at most max_page_entries x max_snapshot_depth entries,
\* whatever is open and however far its pages were continued (session.rs
\* snapshot, directory_page).
THEOREM SnapshotsAreBounded == Spec => []SnapshotBounded
<1>1. PagesInv => SnapshotBounded
  BY DEF PagesInv
<1> QED
  BY <1>1, PagesAlways, PTL

\* A token the client was sent and a continue is accepted for resumes where the
\* page the client holds ends, however many requests failed in their snapshot
\* since and however the tree changed under each; and no two redeemable tokens,
\* sent or not, are for one page (session.rs snapshot, continuation,
\* apply_surface_local).
THEOREM TokensAlwaysResume == Spec => []TokensResume
<1>1. PagesInv => TokensResume
  BY DEF PagesInv
<1> QED
  BY <1>1, PagesAlways, PTL

\* What a snapshot shows is open, and listed on a page that it shows as well
\* (session.rs node).
THEOREM OnlyReachableRendered == Spec => RenderedIsReachable
<1>1. PagesInv /\ [Next]_vars => [rendered' # rendered => Reached']_vars
  BY PagesStep
<1>2. [rendered' # rendered => Reached']_vars
        <=> [rendered' # rendered =>
               \A p \in DOMAIN rendered' \ {Root} :
                 /\ p \in expanded'
                 /\ \E q \in DOMAIN rendered' : p \in ToSet(rendered'[q])]_vars
  BY DEF Reached
<1>3. Spec => [][rendered' # rendered => Reached']_vars
  BY <1>1, PagesAlways, PTL DEF Spec
<1> QED
  BY <1>2, <1>3, PTL DEF RenderedIsReachable

----------------------------------------------------------------------------
(***************************************************************************)
(* Nothing is forgotten: whatever a rendered page lists is rendered, has a *)
(* token, or is still to be called.                                        *)
(***************************************************************************)
Ticketed(w, p) == \E t \in DOMAIN w.tokens : w.tokens[t].path = p

Complete(W, w, p) == p \in DOMAIN w.rendered /\ w.rendered[p] = Len(W.tree[p])

\* A listed directory that is open.
Opened(W, w, p) ==
  Listed(W, w.rendered, p) /\ p \in DOMAIN W.tree /\ p \in W.expanded

WalkCovers(W, w) ==
  /\ Root \in DOMAIN w.rendered
  /\ \A p \in DOMAIN w.rendered : Complete(W, w, p) \/ Ticketed(w, p) \/ ReturnLeft(w, p)
  /\ \A p : Opened(W, w, p) =>
       p \in DOMAIN w.rendered \/ Ticketed(w, p) \/ NodeLeft(w, p)

\* What is still covered when the call of e has left the stack.
CoversBut(W, w, call, e) ==
  /\ Root \in DOMAIN w.rendered
  /\ \A p \in DOMAIN w.rendered :
       \/ Complete(W, w, p) \/ Ticketed(w, p) \/ ReturnLeft(w, p)
       \/ call = "return" /\ p = e
  /\ \A p : Opened(W, w, p) =>
       \/ p \in DOMAIN w.rendered \/ Ticketed(w, p) \/ NodeLeft(w, p)
       \/ call = "node" /\ p = e

\* The call taken off the stack is the only thing not covered any more.
LEMMA PopCovers ==
  ASSUME NEW W, NEW w, w = Record(w), w.calls \in Seq(Call), w.calls # <<>>,
         WalkCovers(W, w)
  PROVE  CoversBut(W, Popped(w), Head(w.calls).call, Head(w.calls).path)
<1> DEFINE r == Popped(w)
           call == Head(w.calls)
<1>1. r.rendered = w.rendered /\ r.tokens = w.tokens /\ r.calls = Tail(w.calls)
  BY DEF Popped, Record
<1>2. /\ Len(w.calls) \in Nat \ {0} /\ w.calls[1] = call
      /\ Len(r.calls) = Len(w.calls) - 1
      /\ \A i \in 1 .. Len(r.calls) : r.calls[i] = w.calls[i + 1]
  BY <1>1, HeadTailProperties, EmptySeq
<1> HIDE DEF r, call
<1>3. ASSUME NEW i \in 1 .. Len(w.calls)
      PROVE  \/ i = 1 /\ w.calls[i] = call
             \/ i - 1 \in 1 .. Len(r.calls) /\ r.calls[i - 1] = w.calls[i]
  <2>1. CASE i = 1
    BY <1>2, <2>1
  <2>2. CASE i # 1
    <3>1. i - 1 \in 1 .. Len(r.calls) /\ (i - 1) + 1 = i
      BY <1>2, <2>2
    <3> QED
      BY <1>2, <3>1
  <2> QED
    BY <2>1, <2>2
<1>4. \A p : NodeLeft(w, p) => NodeLeft(r, p) \/ (call.call = "node" /\ p = call.path)
  BY <1>3 DEF NodeLeft, IsNode
<1>5. \A p : ReturnLeft(w, p) =>
               ReturnLeft(r, p) \/ (call.call = "return" /\ p = call.path)
  BY <1>3 DEF ReturnLeft, IsReturn
<1>6. \A p : /\ Complete(W, r, p) <=> Complete(W, w, p)
             /\ Ticketed(r, p) <=> Ticketed(w, p)
             /\ Opened(W, r, p) <=> Opened(W, w, p)
  BY <1>1 DEF Complete, Ticketed, Opened
<1>7. CoversBut(W, r, call.call, call.path)
  BY <1>1, <1>4, <1>5, <1>6 DEF WalkCovers, CoversBut
<1> QED
  BY <1>7 DEF r, call

\* A token for the call that was taken off covers it again.
LEMMA IssueCovers ==
  ASSUME NEW W, NEW w, w = Record(w), NEW call, NEW path, NEW offset,
         \A t \in DOMAIN w.tokens : t # w.next,
         CoversBut(W, w, call, path)
  PROVE  WalkCovers(W, Issue(W, w, path, offset))
<1> DEFINE r == Issue(W, w, path, offset)
           token == [path |-> path, offset |-> offset, revision |-> W.revision]
<1>1. /\ r.rendered = w.rendered /\ r.tokens = Put(w.tokens, w.next, token)
      /\ r.calls = w.calls
  BY DEF Issue, Record
<1>2. token.path = path
  OBVIOUS
<1> HIDE DEF r, token
<1>3. /\ Ticketed(r, path)
      /\ \A p : Ticketed(w, p) => Ticketed(r, p)
  BY <1>1, <1>2 DEF Put, Ticketed
<1>4. \A p : /\ Complete(W, r, p) <=> Complete(W, w, p)
             /\ Opened(W, r, p) <=> Opened(W, w, p)
             /\ NodeLeft(r, p) <=> NodeLeft(w, p)
             /\ ReturnLeft(r, p) <=> ReturnLeft(w, p)
  BY <1>1 DEF Complete, Opened, NodeLeft, ReturnLeft, IsNode, IsReturn
<1>5. WalkCovers(W, r)
  BY <1>1, <1>3, <1>4 DEF WalkCovers, CoversBut
<1> QED
  BY <1>5 DEF r

\* A page covers its directory: entries beyond it wait for a return or a token.
LEMMA PageCovers ==
  ASSUME NEW W, GoodWorld(W), NEW w, WalkTyped(W, w),
         NEW path \in DOMAIN W.tree, path \notin DOMAIN w.rendered, NEW depth \in Nat,
         \/ CoversBut(W, w, "node", path)
         \/ path = Root /\ DOMAIN w.rendered = {}
  PROVE  WalkCovers(W, DirectoryPage(W, w, path, depth))
<1> DEFINE n == Smaller(PageSize(W, path), w.remaining)
           r == DirectoryPage(W, w, path, depth)
<1>1. PageAdds(W, w, path, n, r) /\ PageCallsAll(W, w, path, n, r)
  BY PageCalls
<1> HIDE DEF n, r
<1>2. /\ r.rendered = Put(w.rendered, path, n) /\ r.tokens = w.tokens
  BY <1>1 DEF PageAdds
<1>3. /\ DOMAIN r.rendered = DOMAIN w.rendered \cup {path}
      /\ r.rendered[path] = n
      /\ \A p \in DOMAIN w.rendered : r.rendered[p] = w.rendered[p]
  BY <1>2 DEF Put
<1>4. \A p : /\ Complete(W, w, p) => Complete(W, r, p)
             /\ Ticketed(w, p) => Ticketed(r, p)
  BY <1>2, <1>3 DEF Complete, Ticketed
<1>5. \A p : Opened(W, r, p) => Opened(W, w, p) \/ \E i \in 1 .. n : W.tree[path][i] = p
  BY <1>3 DEF Opened, Listed
<1>6. Root \in DOMAIN r.rendered
  BY <1>3 DEF CoversBut
<1>7. ASSUME NEW p \in DOMAIN r.rendered
      PROVE  Complete(W, r, p) \/ Ticketed(r, p) \/ ReturnLeft(r, p)
  BY <1>1, <1>3, <1>4 DEF CoversBut, PageCallsAll
<1>8. ASSUME NEW p, Opened(W, r, p)
      PROVE  p \in DOMAIN r.rendered \/ Ticketed(r, p) \/ NodeLeft(r, p)
  <2>1. CASE \E i \in 1 .. n : W.tree[path][i] = p
    BY <1>1, <2>1 DEF PageCallsAll
  <2>2. CASE Opened(W, w, p)
    <3>1. CoversBut(W, w, "node", path)
      BY <2>2 DEF Opened, Listed
    <3> QED
      BY <1>1, <1>3, <1>4, <2>2, <3>1 DEF CoversBut, PageCallsAll
  <2> QED
    BY <1>5, <1>8, <2>1, <2>2
<1>9. WalkCovers(W, r)
  BY <1>6, <1>7, <1>8 DEF WalkCovers
<1> QED
  BY <1>9 DEF r

\* Every call of the walk keeps what is listed covered.
LEMMA WalkOnCovers ==
  ASSUME NEW W, GoodWorld(W), NEW w, WalkInv(W, w), WalkCovers(W, w)
  PROVE  WalkCovers(W, WalkOn(W, w))
<1>1. CASE w.calls = <<>>
  BY <1>1 DEF WalkOn
<1>2. CASE w.calls # <<>>
  <2> DEFINE call == Head(w.calls)
             e == call.path
             r == Popped(w)
  <2>1. w = Record(w) /\ w.calls \in Seq(Call)
    BY DEF WalkInv, WalkTyped
  <2>2. CoversBut(W, r, call.call, e)
    BY <1>2, <2>1, PopCovers
  <2>3. /\ WalkInv(W, r) /\ call \in Call
        /\ call.call # "return" => Untouched(r, e)
    BY <1>2, PopKeeps
  <2>4. /\ r = Record(r) /\ WalkTyped(W, r) /\ e \in Path
        /\ call.depth \in Nat /\ call.call \in {"node", "return"}
        /\ \A t \in DOMAIN r.tokens : t \in Nat /\ t < r.next
        /\ \A p \in DOMAIN r.rendered :
             p \in DOMAIN W.tree /\ r.rendered[p] \in 0 .. Len(W.tree[p])
        /\ r.next \in Nat
    BY <2>3 DEF WalkInv, WalkTyped, Call
  <2>5. WalkOn(W, w) = IF call.call = "return" THEN Truncated(W, r, e)
                       ELSE Node(W, r, e, call.depth)
    BY <1>2 DEF WalkOn, Popped
  <2> HIDE DEF call, e, r
  <2>6. \A t \in DOMAIN r.tokens : t # r.next
    BY <2>4
  <2>7. \A offset : WalkCovers(W, Issue(W, r, e, offset))
    BY <2>2, <2>4, <2>6, IssueCovers
  <2>8. CASE call.call = "return"
    <3>1. CASE r.rendered[e] < Len(W.tree[e])
      BY <2>5, <2>7, <2>8, <3>1 DEF Truncated
    <3>2. CASE ~ (r.rendered[e] < Len(W.tree[e]))
      <4>1. e \in DOMAIN r.rendered => Complete(W, r, e)
        <5>1. ASSUME e \in DOMAIN r.rendered PROVE r.rendered[e] = Len(W.tree[e])
          <6>1. Len(W.tree[e]) \in Nat /\ r.rendered[e] \in 0 .. Len(W.tree[e])
            BY <2>4, <5>1, LayoutFacts
          <6> QED
            BY <3>2, <6>1
        <5> QED
          BY <5>1 DEF Complete
      <4>2. WalkCovers(W, r)
        BY <2>2, <2>8, <4>1 DEF WalkCovers, CoversBut
      <4> QED
        BY <2>5, <2>8, <3>2, <4>2 DEF Truncated
    <3> QED
      BY <3>1, <3>2
  <2>9. CASE call.call = "node"
    <3>1. CASE e \notin DOMAIN W.tree \/ e \notin W.expanded
      <4>1. WalkCovers(W, r)
        BY <2>2, <2>9, <3>1 DEF WalkCovers, CoversBut, Opened
      <4> QED
        BY <2>5, <2>9, <3>1, <4>1 DEF Node
    <3>2. CASE e \in DOMAIN W.tree /\ e \in W.expanded
      <4>1. e \notin DOMAIN r.rendered
        BY <2>3, <2>4, <2>9, AboveFacts DEF Untouched
      <4>2. WalkCovers(W, DirectoryPage(W, r, e, call.depth + 1))
        <5>1. call.depth + 1 \in Nat /\ CoversBut(W, r, "node", e)
          BY <2>2, <2>4, <2>9
        <5> QED
          BY <2>4, <3>2, <4>1, <5>1, PageCovers
      <4> QED
        BY <2>5, <2>7, <2>9, <3>2, <4>2 DEF Node
    <3> QED
      BY <3>1, <3>2
  <2> QED
    BY <2>4, <2>8, <2>9
<1> QED
  BY <1>1, <1>2

\* In a snapshot no call is left, so nothing open is without its page or a token.
LEMMA SnapshotCovers ==
  ASSUME NEW W, GoodWorld(W), next_continuation \in Nat
  PROVE  WalkCovers(W, Snapshot(W))
<1> DEFINE blank == Blank(next_continuation)
           start == DirectoryPage(W, blank, Root, 0)
           T == {k \in Nat : k \in 0 .. Steps => /\ WalkInv(W, Walk(W, start)[k])
                                                 /\ WalkCovers(W, Walk(W, start)[k])}
<1>1. WalkInv(W, start)
  BY FirstPageKeeps
<1>2. WalkCovers(W, start)
  <2>1. /\ blank = Record(blank) /\ blank.rendered = Empty /\ blank.tokens = Empty
        /\ blank.next = next_continuation /\ blank.remaining = Budget
        /\ blank.calls = <<>>
    BY DEF Blank, Record
  <2>2. DOMAIN Empty = {}
    BY DEF Empty
  <2>3. Root \in DOMAIN W.tree
    BY DEF GoodWorld, WellListed, Root
  <2> HIDE DEF blank
  <2>4. WalkTyped(W, blank)
    BY <2>1, <2>2, Bounds DEF WalkTyped
  <2>5. Root \notin DOMAIN blank.rendered /\ DOMAIN blank.rendered = {}
    BY <2>1, <2>2
  <2> QED
    BY <2>3, <2>4, <2>5, PageCovers
<1> HIDE DEF start
<1>3. /\ Walk(W, start)[0] = start
      /\ \A k \in 1 .. Steps : Walk(W, start)[k] = WalkOn(W, Walk(W, start)[k - 1])
  BY WalkByCalls
<1>4. 0 \in T
  BY <1>1, <1>2, <1>3
<1>5. ASSUME NEW k \in Nat, k \in T PROVE k + 1 \in T
  <2>1. SUFFICES ASSUME k + 1 \in 0 .. Steps
                 PROVE  /\ WalkInv(W, Walk(W, start)[k + 1])
                        /\ WalkCovers(W, Walk(W, start)[k + 1])
    OBVIOUS
  <2>2. k \in 0 .. Steps /\ k + 1 \in 1 .. Steps /\ (k + 1) - 1 = k
    BY <2>1, Bounds
  <2>3. WalkInv(W, Walk(W, start)[k]) /\ WalkCovers(W, Walk(W, start)[k])
    BY <1>5, <2>2
  <2>4. Walk(W, start)[k + 1] = WalkOn(W, Walk(W, start)[k])
    BY <1>3, <2>2
  <2> QED
    BY <2>3, <2>4, WalkOnKeeps, WalkOnCovers
<1>6. Steps \in T
  <2> HIDE DEF T
  <2> QED
    BY <1>4, <1>5, SetInduction, Bounds
<1>7. WalkCovers(W, Walk(W, start)[Steps])
  BY <1>6, Bounds
<1>8. Snapshot(W) = Walk(W, start)[Steps]
  BY DEF Snapshot, start, Blank
<1> QED
  BY <1>7, <1>8

\* A sequence that agrees with two others, one after the other, joins them.
LEMMA Joined ==
  ASSUME NEW S, NEW a \in Seq(S), NEW b \in Seq(S), NEW c \in Seq(S),
         Len(c) = Len(a) + Len(b),
         \A i \in 1 .. Len(a) : c[i] = a[i],
         \A i \in 1 .. Len(b) : c[Len(a) + i] = b[i]
  PROVE  a \o b = c
<1>1. Len(a) \in Nat /\ Len(b) \in Nat
  BY LenProperties
<1> DEFINE d == a \o b
<1>2. /\ d \in Seq(S) /\ Len(d) = Len(a) + Len(b)
      /\ \A i \in 1 .. Len(a) + Len(b) :
           d[i] = IF i <= Len(a) THEN a[i] ELSE b[i - Len(a)]
  BY ConcatProperties
<1> HIDE DEF d
<1>3. ASSUME NEW i \in 1 .. Len(d) PROVE d[i] = c[i]
  <2>1. CASE i <= Len(a)
    BY <1>1, <1>2, <2>1
  <2>2. CASE ~ (i <= Len(a))
    <3>1. i - Len(a) \in 1 .. Len(b) /\ Len(a) + (i - Len(a)) = i
      BY <1>1, <1>2, <2>2
    <3>2. c[Len(a) + (i - Len(a))] = b[i - Len(a)]
      BY <3>1
    <3> QED
      BY <1>2, <2>2, <3>1, <3>2
  <2> QED
    BY <2>1, <2>2
<1>4. d = c
  BY <1>2, <1>3, SeqEqual
<1> QED
  BY <1>4 DEF d

\* The arguments of an operation, put together from two parts.
LEMMA JoinOneOne ==
  ASSUME NEW S, NEW x \in S, NEW y \in S
  PROVE  <<x>> \o <<y>> = <<x, y>>
<1> DEFINE a == <<x>>
           b == <<y>>
           c == <<x, y>>
<1>1. a \in Seq(S) /\ Len(a) = 1 /\ a[1] = x
  OBVIOUS
<1>2. b \in Seq(S) /\ Len(b) = 1 /\ b[1] = y
  OBVIOUS
<1>3. c \in Seq(S) /\ Len(c) = 2 /\ c[1] = x /\ c[2] = y
  OBVIOUS
<1> HIDE DEF a, b, c
<1>4. /\ \A i \in 1 .. Len(a) : c[i] = a[i]
      /\ \A i \in 1 .. Len(b) : c[Len(a) + i] = b[i]
      /\ Len(c) = Len(a) + Len(b)
      /\ a \in Seq(S) /\ b \in Seq(S) /\ c \in Seq(S)
  BY <1>1, <1>2, <1>3
<1>5. a \o b = c
  BY <1>4, Joined
<1> QED
  BY <1>5 DEF a, b, c

\* Two arguments and a third.
LEMMA JoinTwoOne ==
  ASSUME NEW S, NEW x \in S, NEW y \in S, NEW z \in S
  PROVE  <<x, y>> \o <<z>> = <<x, y, z>>
<1> DEFINE a == <<x, y>>
           b == <<z>>
           c == <<x, y, z>>
<1>1. a \in Seq(S) /\ Len(a) = 2 /\ a[1] = x /\ a[2] = y
  OBVIOUS
<1>2. b \in Seq(S) /\ Len(b) = 1 /\ b[1] = z
  OBVIOUS
<1>3. c \in Seq(S) /\ Len(c) = 3 /\ c[1] = x /\ c[2] = y /\ c[3] = z
  OBVIOUS
<1> HIDE DEF a, b, c
<1>4. /\ \A i \in 1 .. Len(a) : c[i] = a[i]
      /\ \A i \in 1 .. Len(b) : c[Len(a) + i] = b[i]
      /\ Len(c) = Len(a) + Len(b)
      /\ a \in Seq(S) /\ b \in Seq(S) /\ c \in Seq(S)
  BY <1>1, <1>2, <1>3
<1>5. a \o b = c
  BY <1>4, Joined
<1> QED
  BY <1>5 DEF a, b, c

\* Two arguments and two more.
LEMMA JoinTwoTwo ==
  ASSUME NEW S, NEW x \in S, NEW y \in S, NEW z \in S, NEW u \in S
  PROVE  <<x, y>> \o <<z, u>> = <<x, y, z, u>>
<1> DEFINE a == <<x, y>>
           b == <<z, u>>
           c == <<x, y, z, u>>
<1>1. a \in Seq(S) /\ Len(a) = 2 /\ a[1] = x /\ a[2] = y
  OBVIOUS
<1>2. b \in Seq(S) /\ Len(b) = 2 /\ b[1] = z /\ b[2] = u
  OBVIOUS
<1>3. c \in Seq(S) /\ Len(c) = 4 /\ c[1] = x /\ c[2] = y /\ c[3] = z /\ c[4] = u
  OBVIOUS
<1> HIDE DEF a, b, c
<1>4. /\ \A i \in 1 .. Len(a) : c[i] = a[i]
      /\ \A i \in 1 .. Len(b) : c[Len(a) + i] = b[i]
      /\ Len(c) = Len(a) + Len(b)
      /\ a \in Seq(S) /\ b \in Seq(S) /\ c \in Seq(S)
  BY <1>1, <1>2, <1>3
<1>5. a \o b = c
  BY <1>4, Joined
<1> QED
  BY <1>5 DEF a, b, c

\* The tree, or the tree and a path, come before what the control carries.
LEMMA Arguments ==
  /\ <<"tree", "path">> \o <<"name", "source">> = <<"tree", "path", "name", "source">>
  /\ <<"tree", "path">> \o <<"name">> = <<"tree", "path", "name">>
  /\ <<"tree", "path">> \o <<"path">> = <<"tree", "path", "path">>
  /\ <<"tree", "path">> \o <<"source">> = <<"tree", "path", "source">>
  /\ <<"tree", "path">> \o <<"policy">> = <<"tree", "path", "policy">>
  /\ <<"tree", "path">> \o <<>> = <<"tree", "path">>
  /\ <<"tree">> \o <<"request">> = <<"tree", "request">>
<1> DEFINE S == {"tree", "path", "name", "source", "policy", "request"}
<1>1. /\ "tree" \in S /\ "path" \in S /\ "name" \in S /\ "source" \in S
      /\ "policy" \in S /\ "request" \in S
  OBVIOUS
<1> HIDE DEF S
<1>2. <<"tree", "path">> \o <<"name", "source">> = <<"tree", "path", "name", "source">>
  BY <1>1, JoinTwoTwo
<1>3. \A z \in S : <<"tree", "path">> \o <<z>> = <<"tree", "path", z>>
  BY <1>1, JoinTwoOne
<1>4. <<"tree">> \o <<"request">> = <<"tree", "request">>
  BY <1>1, JoinOneOne
<1>5. <<"tree", "path">> \o <<>> = <<"tree", "path">>
  <2>1. <<"tree", "path">> \in Seq(S)
    BY <1>1
  <2> QED
    BY <2>1, ConcatEmptySeq
<1> QED
  BY <1>1, <1>2, <1>3, <1>4, <1>5

\* What becomes of the operation that a command compiles to.
Runs(shot, c) ==
  /\ c # NoCommand
  /\ IF Compile(c).local THEN AcceptedLocally(shot, Compile(c))
                         ELSE AcceptedByRuntime(Compile(c))

RuntimeActions ==
  {"new-cell", "new-dir", "move", "delete", "set-expr", "set-calc-policy",
   "set-codec-policy", "calculate", "recalculate", "recalculate-recursive",
   "cancel", "explain"}

\* The capability that the codec asks for is the one of the operation table.
LEMMA SameCapability ==
  ASSUME NEW a \in RuntimeActions
  PROVE  RequiredCapability(a) = OperationCapability(a) /\ a \notin LocalActions
BY DEF RuntimeActions, RequiredCapability, OperationCapability, LocalActions

\* A command for the runtime is accepted when its arguments are the ones asked for.
LEMMA RuntimeRuns ==
  ASSUME NEW shot, NEW a \in RuntimeActions, NEW target, NEW args,
         OperationArgs(a) = IF a = "cancel" THEN <<"tree">> \o args
                                            ELSE <<"tree", "path">> \o args
  PROVE  Runs(shot, Command(a, target, args))
<1> DEFINE c == Command(a, target, args)
<1>1. /\ c.action = a /\ c.args = args
  BY DEF Command
<1>2. c # NoCommand
  <2>1. NoCommand.action = "rejected"
    BY DEF NoCommand
  <2> QED
    BY <1>1, <2>1 DEF RuntimeActions
<1> HIDE DEF c
<1>3. /\ Compile(c).local = (c.action \in LocalActions)
      /\ Compile(c).op = a /\ Compile(c).capability = RequiredCapability(a)
      /\ Compile(c).args = OperationArgs(a)
  BY <1>1 DEF Compile
<1>4. ~ Compile(c).local
  BY <1>1, <1>3, SameCapability
<1>5. AcceptedByRuntime(Compile(c))
  BY <1>3, SameCapability DEF AcceptedByRuntime
<1>6. Runs(shot, c)
  BY <1>2, <1>4, <1>5 DEF Runs
<1> QED
  BY <1>6 DEF c

\* A local operation asks nothing but the tokens of a continue.
LEMMA LocalRuns ==
  ASSUME NEW shot, NEW a \in LocalActions, NEW target, NEW args,
         a = "continue" =>
           \A t \in target.tokens : /\ t \in DOMAIN shot.tokens
                                    /\ shot.tokens[t].path = target.path
                                    /\ shot.tokens[t].revision = revision
  PROVE  Runs(shot, Command(a, target, args))
<1> DEFINE c == Command(a, target, args)
<1>1. /\ c.action = a /\ c.tokens = target.tokens /\ c.path = target.path
  BY DEF Command
<1>2. c # NoCommand
  <2>1. NoCommand.action = "rejected"
    BY DEF NoCommand
  <2> QED
    BY <1>1, <2>1 DEF LocalActions
<1> HIDE DEF c
<1>3. /\ Compile(c).local = (c.action \in LocalActions)
      /\ Compile(c).op = a /\ Compile(c).tokens = target.tokens
      /\ Compile(c).path = target.path
  BY <1>1 DEF Compile
<1>4. Compile(c).local
  BY <1>1, <1>3
<1>5. AcceptedLocally(shot, Compile(c))
  BY <1>3 DEF AcceptedLocally
<1>6. Runs(shot, c)
  BY <1>2, <1>4, <1>5 DEF Runs
<1> QED
  BY <1>6 DEF c

\* What the operations read, spelled out.
LEMMA OperationReads ==
  /\ OperationArgs("new-cell") = <<"tree", "path", "name", "source">>
  /\ OperationArgs("new-dir") = <<"tree", "path", "name">>
  /\ OperationArgs("move") = <<"tree", "path", "path">>
  /\ OperationArgs("set-expr") = <<"tree", "path", "source">>
  /\ \A a \in {"set-calc-policy", "set-codec-policy"} :
       OperationArgs(a) = <<"tree", "path", "policy">>
  /\ OperationArgs("cancel") = <<"tree", "request">>
  /\ \A a \in {"delete", "calculate", "recalculate", "recalculate-recursive",
               "explain"} : OperationArgs(a) = <<"tree", "path">>
BY DEF OperationArgs

\* Every command the codec makes is one that runs.
LEMMA CommandsRun ==
  ASSUME NEW shot, NEW target
  PROVE  /\ Runs(shot, Command("new-cell", target, <<"name", "source">>))
         /\ Runs(shot, Command("new-dir", target, <<"name">>))
         /\ Runs(shot, Command("move", target, <<"path">>))
         /\ Runs(shot, Command("set-expr", target, <<"source">>))
         /\ \A a \in {"set-calc-policy", "set-codec-policy"} :
              Runs(shot, Command(a, target, <<"policy">>))
         /\ Runs(shot, Command("cancel", target, <<"request">>))
         /\ \A a \in {"delete", "calculate", "recalculate", "recalculate-recursive",
                      "explain"} : Runs(shot, Command(a, target, <<>>))
         /\ Runs(shot, Command("disclose", target, <<"bool">>))
         /\ Runs(shot, Command("open-policy", target, <<>>))
<1>1. Runs(shot, Command("new-cell", target, <<"name", "source">>))
  BY RuntimeRuns, OperationReads, Arguments DEF RuntimeActions
<1>2. Runs(shot, Command("new-dir", target, <<"name">>))
  BY RuntimeRuns, OperationReads, Arguments DEF RuntimeActions
<1>3. Runs(shot, Command("move", target, <<"path">>))
  BY RuntimeRuns, OperationReads, Arguments DEF RuntimeActions
<1>4. Runs(shot, Command("set-expr", target, <<"source">>))
  BY RuntimeRuns, OperationReads, Arguments DEF RuntimeActions
<1>5. ASSUME NEW a \in {"set-calc-policy", "set-codec-policy"}
      PROVE  Runs(shot, Command(a, target, <<"policy">>))
  <2>1. a \in RuntimeActions /\ a # "cancel"
    BY DEF RuntimeActions
  <2> QED
    BY <2>1, RuntimeRuns, OperationReads, Arguments
<1>6. Runs(shot, Command("cancel", target, <<"request">>))
  BY RuntimeRuns, OperationReads, Arguments DEF RuntimeActions
<1>7. ASSUME NEW a \in {"delete", "calculate", "recalculate", "recalculate-recursive",
                        "explain"}
      PROVE  Runs(shot, Command(a, target, <<>>))
  <2>1. a \in RuntimeActions /\ a # "cancel"
    BY DEF RuntimeActions
  <2> QED
    BY <2>1, RuntimeRuns, OperationReads, Arguments
<1>8. /\ Runs(shot, Command("disclose", target, <<"bool">>))
      /\ Runs(shot, Command("open-policy", target, <<>>))
  BY LocalRuns DEF LocalActions
<1> QED
  BY <1>1, <1>2, <1>3, <1>4, <1>5, <1>6, <1>7, <1>8

Works(shot, i) == Runs(shot, Decode(i))

\* A tap with the present revision decodes by its control.
LEMMA TapDecodes ==
  ASSUME NEW i, NEW t, NEW control, t.revision = revision,
         i = [kind |-> "tap", target |-> t, control |-> control]
  PROVE  Decode(i) = Tap(t, control)
<1>1. i.kind = "tap" /\ i.target = t /\ i.control = control
  OBVIOUS
<1> QED
  BY <1>1 DEF Decode

\* The disclosure button of a node works.
LEMMA DisclosureWorks ==
  ASSUME NEW shot, NEW path, NEW node
  PROVE  Works(shot, Disclosure(path, node))
<1> DEFINE i == Disclosure(path, node)
           t == Target(path, {}, FALSE)
<1>1. i.kind = "tree-disclosure" /\ i.target = t
  BY DEF Disclosure
<1>2. t.revision = revision
  BY DEF Target
<1> HIDE DEF i, t
<1>3. Decode(i) = Command("disclose", t, <<"bool">>)
  BY <1>1, <1>2 DEF Decode
<1>4. Works(shot, i)
  BY <1>3, CommandsRun DEF Works
<1> QED
  BY <1>4 DEF i

\* The buttons of an open cell work.
LEMMA ActionsWork ==
  ASSUME NEW shot, NEW path, NEW request \in BOOLEAN, NEW i \in Actions(Target(path, {}, request))
  PROVE  Works(shot, i)
<1> DEFINE t == Target(path, {}, request)
<1>1. t.revision = revision /\ t.request = request
  BY DEF Target
<1> HIDE DEF t
<1>2. PICK control : /\ i = [kind |-> "tap", target |-> t, control |-> control]
                     /\ \/ control \in {"calculate", "recalculate",
                                        "recalculate-recursive", "policy", "explain"}
                        \/ control = "cancel" /\ t.request
  BY DEF Actions, Taps, t
<1>3. Decode(i) = Tap(t, control)
  BY <1>1, <1>2, TapDecodes
<1>4. CASE control = "cancel" /\ t.request
  <2>1. Tap(t, control) = Command("cancel", t, <<"request">>)
    BY <1>4 DEF Tap
  <2> QED
    BY <1>3, <2>1, CommandsRun DEF Works
<1>5. CASE control = "policy"
  <2>1. Tap(t, control) = Command("open-policy", t, <<>>)
    BY <1>5 DEF Tap
  <2> QED
    BY <1>3, <2>1, CommandsRun DEF Works
<1>6. CASE control \in {"calculate", "recalculate", "recalculate-recursive", "explain"}
  <2>1. Tap(t, control) = Command(control, t, <<>>)
    BY <1>6 DEF Tap
  <2> QED
    BY <1>3, <1>6, <2>1, CommandsRun DEF Works
<1> QED
  BY <1>2, <1>4, <1>5, <1>6

\* The editable field of a complete source works.
LEMMA FaceControlsWork ==
  ASSUME NEW shot, NEW path, NEW tokens, NEW request, NEW detail,
         NEW i \in FaceControls(Target(path, tokens, request), detail)
  PROVE  Works(shot, i)
<1> DEFINE t == Target(path, tokens, request)
<1>1. t.revision = revision
  BY DEF Target
<1>2. i = [kind |-> "edit-field", target |-> t]
  BY DEF FaceControls
<1>3. i.kind = "edit-field" /\ i.target = t
  BY <1>2
<1> HIDE DEF t
<1>4. Decode(i) = Command("set-expr", t, <<"source">>)
  BY <1>1, <1>3 DEF Decode
<1> QED
  BY <1>4, CommandsRun DEF Works

\* Load more sends the tokens that the snapshot holds for the directory.
LEMMA ContinueWorks ==
  ASSUME NEW shot, NEW path, NEW tokens, tokens # {},
         \A t \in tokens : /\ t \in DOMAIN shot.tokens
                           /\ shot.tokens[t].path = path
                           /\ shot.tokens[t].revision = revision,
         NEW i \in Taps(Target(path, tokens, FALSE), {"continue"})
  PROVE  Works(shot, i)
<1> DEFINE target == Target(path, tokens, FALSE)
<1>1. target.revision = revision /\ target.path = path /\ target.tokens = tokens
  BY DEF Target
<1>2. i = [kind |-> "tap", target |-> target, control |-> "continue"]
  BY DEF Taps
<1> HIDE DEF target
<1>3. Decode(i) = Tap(target, "continue")
  BY <1>1, <1>2, TapDecodes
<1>4. Tap(target, "continue") = Command("continue", target, <<>>)
  BY <1>1 DEF Tap
<1>5. Runs(shot, Command("continue", target, <<>>))
  BY <1>1, LocalRuns DEF LocalActions
<1> QED
  BY <1>3, <1>4, <1>5 DEF Works

\* What the host offers on a scene without a control of it.
LEMMA HostIntentsWork ==
  ASSUME NEW shot, NEW scene, NEW S, NEW i \in HostIntents(scene, S)
  PROVE  Works(shot, i)
<1>1. PICK p : i \in CreateIntents(p) \/ i \in EntryIntents(p) \/ i \in CellIntents(p)
  BY DEF HostIntents
<1> DEFINE t == At(p)
           u == Target(p, {}, TRUE)
<1>2. t.revision = revision /\ u.revision = revision /\ u.request
  BY DEF At, Target
<1> HIDE DEF t, u
<1>3. CASE i = [kind |-> "create", target |-> t, class |-> "cell",
                args |-> <<"name", "source">>]
  <2>1. i.kind = "create" /\ i.target = t /\ i.class = "cell"
        /\ i.args = <<"name", "source">>
    BY <1>3
  <2>2. Len(<<"name", "source">>) = 2
    OBVIOUS
  <2>3. Decode(i) = Create(t, i.class, i.args)
    BY <1>2, <2>1 DEF Decode
  <2>4. Create(t, i.class, i.args) = Command("new-cell", t, <<"name", "source">>)
    BY <2>1, <2>2 DEF Create
  <2> QED
    BY <2>3, <2>4, CommandsRun DEF Works
<1>4. CASE i = [kind |-> "create", target |-> t, class |-> "directory",
                args |-> <<"name">>]
  <2>1. i.kind = "create" /\ i.target = t /\ i.class = "directory" /\ i.args = <<"name">>
    BY <1>4
  <2>2. Len(<<"name">>) = 1
    OBVIOUS
  <2>3. Decode(i) = Create(t, i.class, i.args)
    BY <1>2, <2>1 DEF Decode
  <2>4. Create(t, i.class, i.args) = Command("new-dir", t, <<"name">>)
    BY <2>1, <2>2 DEF Create
  <2> QED
    BY <2>3, <2>4, CommandsRun DEF Works
<1>5. CASE i = [kind |-> "delete", target |-> t]
  <2>1. i.kind = "delete" /\ i.target = t
    BY <1>5
  <2>2. Decode(i) = Command("delete", t, <<>>)
    BY <1>2, <2>1 DEF Decode
  <2> QED
    BY <2>2, CommandsRun DEF Works
<1>6. CASE i = [kind |-> "move", target |-> t, to |-> t]
  <2>1. i.kind = "move" /\ i.target = t /\ i.to = t
    BY <1>6
  <2>2. Decode(i) = Command("move", t, <<"path">>)
    BY <1>2, <2>1 DEF Decode
  <2> QED
    BY <2>2, CommandsRun DEF Works
<1>7. ASSUME NEW param \in {"calc-policy", "codec-policy"},
             i = [kind |-> "set-param", target |-> t, param |-> param]
      PROVE  Works(shot, i)
  <2>1. i.kind = "set-param" /\ i.target = t /\ i.param = param
    BY <1>7
  <2>2. Decode(i) = Policy(t, param)
    BY <1>2, <2>1 DEF Decode
  <2>3. \E a \in {"set-calc-policy", "set-codec-policy"} :
          Policy(t, param) = Command(a, t, <<"policy">>)
    BY DEF Policy
  <2> QED
    BY <2>2, <2>3, CommandsRun DEF Works
<1>8. CASE i = [kind |-> "invoke", target |-> t, op |-> "recalculate", args |-> <<>>]
  <2>1. i.kind = "invoke" /\ i.target = t /\ i.op = "recalculate" /\ i.args = <<>>
    BY <1>8
  <2>2. Decode(i) = Invoke(t, i.op, i.args)
    BY <1>2, <2>1 DEF Decode
  <2>3. Invoke(t, i.op, i.args) = Command("recalculate", t, <<>>)
    BY <2>1 DEF Invoke
  <2> QED
    BY <2>2, <2>3, CommandsRun DEF Works
<1>9. CASE i = [kind |-> "invoke", target |-> t, op |-> "cancel", args |-> <<"request">>]
  <2>1. i.kind = "invoke" /\ i.target = t /\ i.op = "cancel" /\ i.args = <<"request">>
    BY <1>9
  <2>2. Decode(i) = Invoke(t, i.op, i.args)
    BY <1>2, <2>1 DEF Decode
  <2>3. Invoke(t, i.op, i.args) = Command("cancel", t, <<"request">>)
    BY <2>1 DEF Invoke
  <2> QED
    BY <2>2, <2>3, CommandsRun DEF Works
<1>10. CASE i = [kind |-> "cancel", target |-> u]
  <2>1. i.kind = "cancel" /\ i.target = u
    BY <1>10
  <2>2. Decode(i) = Command("cancel", u, <<"request">>)
    BY <1>2, <2>1 DEF Decode
  <2> QED
    BY <2>2, CommandsRun DEF Works
<1> QED
  <2>1. \/ i = [kind |-> "create", target |-> t, class |-> "cell",
                args |-> <<"name", "source">>]
        \/ i = [kind |-> "create", target |-> t, class |-> "directory",
                args |-> <<"name">>]
        \/ i = [kind |-> "delete", target |-> t]
        \/ i = [kind |-> "move", target |-> t, to |-> t]
        \/ i = [kind |-> "set-param", target |-> t, param |-> "calc-policy"]
        \/ i = [kind |-> "set-param", target |-> t, param |-> "codec-policy"]
        \/ i = [kind |-> "invoke", target |-> t, op |-> "recalculate", args |-> <<>>]
        \/ i = [kind |-> "invoke", target |-> t, op |-> "cancel",
                args |-> <<"request">>]
        \/ i = [kind |-> "cancel", target |-> u]
    BY <1>1 DEF t, u, CreateIntents, EntryIntents, CellIntents
  <2> QED
    BY <2>1, <1>3, <1>4, <1>5, <1>6, <1>7, <1>8, <1>9, <1>10

----------------------------------------------------------------------------
(***************************************************************************)
(* Sequences and the sets of what they hold.                               *)
(***************************************************************************)
LEMMA ToSetIs ==
  ASSUME NEW D, NEW s \in Seq(D)
  PROVE  /\ Len(s) \in Nat
         /\ ToSet(s) \subseteq D
         /\ \A x : x \in ToSet(s) <=> \E i \in 1 .. Len(s) : s[i] = x
<1>1. Len(s) \in Nat /\ DOMAIN s = 1 .. Len(s) /\ \A i \in 1 .. Len(s) : s[i] \in D
  BY LenProperties, ElementOfSeq
<1> QED
  BY <1>1 DEF ToSet

\* A sequence that is not empty is its head and the rest.
LEMMA ToSetHead ==
  ASSUME NEW D, NEW s \in Seq(D), s # <<>>
  PROVE  /\ Head(s) \in D /\ Tail(s) \in Seq(D)
         /\ Len(s) \in Nat \ {0} /\ Len(Tail(s)) = Len(s) - 1
         /\ ToSet(s) = {Head(s)} \cup ToSet(Tail(s))
<1> DEFINE r == Tail(s)
           h == Head(s)
<1>1. /\ Len(s) \in Nat \ {0} /\ s[1] = h /\ h \in D
      /\ r \in Seq(D) /\ Len(r) = Len(s) - 1
      /\ \A i \in 1 .. Len(r) : r[i] = s[i + 1]
  BY HeadTailProperties, EmptySeq
<1> HIDE DEF r, h
<1>2. ASSUME NEW x \in ToSet(s) PROVE x \in {h} \cup ToSet(r)
  <2>1. PICK i \in 1 .. Len(s) : s[i] = x
    BY ToSetIs
  <2>2. CASE i = 1
    BY <1>1, <2>1, <2>2
  <2>3. CASE i # 1
    <3>1. i - 1 \in 1 .. Len(r) /\ (i - 1) + 1 = i
      BY <1>1, <2>3
    <3>2. r[i - 1] = x
      BY <1>1, <2>1, <3>1
    <3> QED
      BY <1>1, <3>1, <3>2, ToSetIs
  <2> QED
    BY <2>2, <2>3
<1>3. ASSUME NEW x \in {h} \cup ToSet(r) PROVE x \in ToSet(s)
  <2>1. CASE x = h
    <3>1. 1 \in 1 .. Len(s)
      BY <1>1
    <3> QED
      BY <1>1, <2>1, <3>1, ToSetIs
  <2>2. CASE x \in ToSet(r)
    <3>1. PICK i \in 1 .. Len(r) : r[i] = x
      BY <1>1, <2>2, ToSetIs
    <3>2. i + 1 \in 1 .. Len(s) /\ s[i + 1] = x
      BY <1>1, <3>1
    <3> QED
      BY <3>2, ToSetIs
  <2> QED
    BY <1>3, <2>1, <2>2
<1>4. ToSet(s) = {h} \cup ToSet(r)
  BY <1>2, <1>3
<1> QED
  BY <1>1, <1>4 DEF r, h

\* A sequence put in front of an element and others.
LEMMA ToSetInFront ==
  ASSUME NEW D, NEW a \in Seq(D), NEW c \in D, NEW b \in Seq(D)
  PROVE  /\ a \o <<c>> \o b \in Seq(D)
         /\ Len(a \o <<c>> \o b) = Len(a) + 1 + Len(b)
         /\ ToSet(a \o <<c>> \o b) = ToSet(a) \cup {c} \cup ToSet(b)
<1> DEFINE s == a \o <<c>> \o b
           n == Len(a)
           m == Len(b)
<1>1. n \in Nat /\ m \in Nat
  BY LenProperties
<1>2. /\ s \in Seq(D) /\ Len(s) = Len(a) + 1 + Len(b)
      /\ \A i \in 1 .. Len(s) :
           \/ i \in 1 .. Len(a) /\ s[i] = a[i]
           \/ i = Len(a) + 1 /\ s[i] = c
           \/ /\ i \in Nat /\ i > Len(a) + 1 /\ i - Len(a) - 1 \in 1 .. Len(b)
              /\ s[i] = b[i - Len(a) - 1]
  BY InFront
<1> HIDE DEF s, n, m
<1>3. /\ s \in Seq(D) /\ Len(s) = n + 1 + m
      /\ \A i \in 1 .. Len(s) :
           \/ i \in 1 .. n /\ s[i] = a[i]
           \/ i = n + 1 /\ s[i] = c
           \/ i \in Nat /\ i > n + 1 /\ i - n - 1 \in 1 .. m /\ s[i] = b[i - n - 1]
  BY <1>2 DEF n, m
<1>4. /\ \A x : x \in ToSet(a) <=> \E i \in 1 .. n : a[i] = x
      /\ \A x : x \in ToSet(b) <=> \E i \in 1 .. m : b[i] = x
      /\ \A x : x \in ToSet(s) <=> \E i \in 1 .. Len(s) : s[i] = x
  BY <1>3, ToSetIs DEF n, m
<1>5. \A x \in ToSet(s) : x \in ToSet(a) \cup {c} \cup ToSet(b)
  BY <1>3, <1>4
<1>6. ASSUME NEW x \in ToSet(a) PROVE x \in ToSet(s)
  <2>1. PICK i \in 1 .. n : a[i] = x
    BY <1>4
  <2>2. i \in 1 .. n + 1 + m /\ i # n + 1 /\ ~ (i > n + 1)
    BY <1>1, Positions
  <2>3. i \in 1 .. Len(s) /\ s[i] = x
    BY <1>3, <2>1, <2>2
  <2> QED
    BY <1>4, <2>3
<1>7. c \in ToSet(s)
  <2>1. n + 1 \in 1 .. n + 1 + m /\ n + 1 \notin 1 .. n /\ ~ (n + 1 > n + 1)
    BY <1>1, Positions
  <2>2. n + 1 \in 1 .. Len(s) /\ s[n + 1] = c
    BY <1>3, <2>1
  <2> QED
    BY <1>4, <2>2
<1>8. ASSUME NEW x \in ToSet(b) PROVE x \in ToSet(s)
  <2>1. PICK j \in 1 .. m : b[j] = x
    BY <1>4
  <2> DEFINE i == j + n + 1
  <2>2. i \in 1 .. n + 1 + m /\ i \notin 1 .. n /\ i # n + 1 /\ i - n - 1 = j
    BY <1>1, Positions
  <2> HIDE DEF i
  <2>3. i \in 1 .. Len(s) /\ s[i] = x
    BY <1>3, <2>1, <2>2
  <2> QED
    BY <1>4, <2>3
<1>9. ToSet(s) = ToSet(a) \cup {c} \cup ToSet(b)
  BY <1>5, <1>6, <1>7, <1>8
<1> QED
  BY <1>3, <1>9 DEF s, n, m

----------------------------------------------------------------------------
(***************************************************************************)
(* What a snapshot tells the surface of the tree.                          *)
(***************************************************************************)
Directory(S, p) == S[p].type = "directory"
OpenDirectories(S) == {p \in DOMAIN S : Directory(S, p) /\ S[p].open}

\* The tokens that the snapshot holds for a directory are the session's.
FaithfulSnapshot(shot, S) ==
  /\ Root \in DOMAIN S
  /\ \A p \in DOMAIN S : S[p].open <=> p \in expanded
  /\ \A p \in DOMAIN S :
       IF Directory(S, p)
       THEN /\ S[p].nodes \in Seq(DOMAIN S)
            /\ \A t \in S[p].tokens : /\ t \in DOMAIN shot.tokens
                                      /\ shot.tokens[t].path = p
                                      /\ shot.tokens[t].revision = revision
       ELSE S[p].type = "cell" /\ S[p].detail \in CellDetails

\* It shows what was seen of the tree: an open directory without a token is on
\* its page to the last entry.
Depicts(W, S) ==
  \A p \in DOMAIN S :
    /\ Directory(S, p) <=> p \in DOMAIN W.tree
    /\ p \in DOMAIN W.tree /\ p \in expanded /\ S[p].tokens = {}
         => ToSet(W.tree[p]) \subseteq ToSet(S[p].nodes)

\* The page of a directory is the beginning of it that was rendered.
LEMMA PageIs ==
  ASSUME NEW W, GoodWorld(W), NEW w, WalkTyped(W, w), NEW d
  PROVE  /\ PageOf(W, w, d) \in Seq(Path)
         /\ d \in DOMAIN w.rendered =>
              /\ ToSet(PageOf(W, w, d)) = {W.tree[d][i] : i \in 1 .. w.rendered[d]}
              /\ w.rendered[d] = Len(W.tree[d]) => PageOf(W, w, d) = W.tree[d]
<1>1. CASE d \notin DOMAIN w.rendered
  <2>1. PageOf(W, w, d) = <<>>
    BY <1>1 DEF PageOf
  <2> QED
    BY <1>1, <2>1
<1>2. CASE d \in DOMAIN w.rendered
  <2> DEFINE s == W.tree[d]
             n == w.rendered[d]
             r == SubSeq(s, 1, n)
  <2>1. PageOf(W, w, d) = r
    BY <1>2 DEF PageOf, Page
  <2>2. d \in DOMAIN W.tree /\ n \in 0 .. Len(s)
    BY <1>2 DEF WalkTyped
  <2>3. s \in Seq(Path) /\ Len(s) \in Nat
    BY <2>2, LenProperties DEF GoodWorld, WellListed, Path
  <2>4. \A i \in 1 .. n : s[i] \in Path
    BY <2>2, <2>3, ElementOfSeq
  <2> HIDE DEF s, n
  <2>5. /\ r \in Seq(Path) /\ Len(r) = n /\ \A i \in 1 .. n : r[i] = s[i]
    BY <2>2, <2>3, <2>4
  <2> HIDE DEF r
  <2>6. ToSet(r) = {s[i] : i \in 1 .. n}
    BY <2>5, ToSetIs
  <2>7. n = Len(s) => r = s
    BY <2>3, <2>5, SeqEqual
  <2> QED
    BY <1>2, <2>1, <2>5, <2>6, <2>7 DEF s, n
<1> QED
  BY <1>1, <1>2

\* Every snapshot a session answers is faithful to its tokens and to the tree.
LEMMA SnapshotIsFaithful ==
  ASSUME PagesTypeOK, NEW at \in Glimpses, NEW detail \in CellDetails
  PROVE  LET W == WorldNow(at)
             S == SurfaceSnapshot(W, Snapshot(W), detail)
         IN FaithfulSnapshot(Snapshot(W), S) /\ Depicts(W, S)
<1> DEFINE W == WorldNow(at)
           shot == Snapshot(W)
           pages == {ToSet(PageOf(W, shot, d)) : d \in DOMAIN shot.rendered}
           carried == {Root} \cup UNION pages
           S == SurfaceSnapshot(W, shot, detail)
<1>1. /\ GoodWorld(W) /\ W.revision = revision /\ W.expanded = expanded
      /\ next_continuation \in Nat
  <2>1. /\ revision \in Nat /\ Root \in expanded /\ next_continuation \in Nat
        /\ \A p \in DOMAIN page_sizes : page_sizes[p] \in Nat
    BY DEF PagesTypeOK
  <2>2. GoodWorld(W)
    BY <2>1, WorldIsGood DEF WorldNow
  <2> QED
    BY <2>1, <2>2 DEF WorldNow, World
<1>2. WalkInv(W, shot) /\ WalkCovers(W, shot) /\ shot.calls = <<>>
  BY <1>1, SnapshotKeeps, SnapshotCovers, SnapshotEnds
<1>3. WalkTyped(W, shot)
  BY <1>2 DEF WalkInv
<1>4. S = [p \in carried |-> IF p \in DOMAIN W.tree THEN DirectorySnapshot(W, shot, p)
                                                   ELSE CellSnapshot(W, p, detail)]
  BY DEF SurfaceSnapshot
<1> HIDE DEF W, shot, carried, S
<1>5. /\ DOMAIN S = carried
      /\ \A p \in carried \cap DOMAIN W.tree : S[p] = DirectorySnapshot(W, shot, p)
      /\ \A p \in carried \ DOMAIN W.tree : S[p] = CellSnapshot(W, p, detail)
  BY <1>1, <1>4
<1>6. \A p \in carried \cap DOMAIN W.tree :
        /\ S[p].type = "directory" /\ S[p].open = (p \in expanded)
        /\ S[p].nodes = PageOf(W, shot, p)
        /\ S[p].tokens = {t \in DOMAIN shot.tokens : shot.tokens[t].path = p}
  BY <1>1, <1>5 DEF DirectorySnapshot
<1>7. \A p \in carried \ DOMAIN W.tree :
        /\ S[p].type = "cell" /\ S[p].open = (p \in expanded) /\ S[p].detail = detail
  BY <1>1, <1>5 DEF CellSnapshot
<1>8. /\ \A d \in DOMAIN shot.rendered : ToSet(PageOf(W, shot, d)) \subseteq carried
      /\ Root \in carried
      /\ \A p \in carried : p = Root \/ Listed(W, shot.rendered, p)
  <2>1. \A d \in DOMAIN shot.rendered :
          ToSet(PageOf(W, shot, d)) = {W.tree[d][i] : i \in 1 .. shot.rendered[d]}
    BY <1>1, <1>3, PageIs
  <2>2. ASSUME NEW p \in carried, p # Root PROVE Listed(W, shot.rendered, p)
    <3>1. PICK d \in DOMAIN shot.rendered : p \in ToSet(PageOf(W, shot, d))
      BY <2>2 DEF carried
    <3> QED
      BY <2>1, <3>1 DEF Listed
  <2> QED
    BY <2>2 DEF carried
<1>9. ASSUME NEW p \in carried \cap DOMAIN W.tree PROVE S[p].nodes \in Seq(DOMAIN S)
  <2> DEFINE s == PageOf(W, shot, p)
  <2>1. s \in Seq(Path) /\ ToSet(s) \subseteq carried
    <3>1. s \in Seq(Path)
      BY <1>1, <1>3, PageIs
    <3>2. CASE p \in DOMAIN shot.rendered
      BY <1>8, <3>1, <3>2
    <3>3. CASE p \notin DOMAIN shot.rendered
      <4>1. s = <<>>
        BY <3>3 DEF PageOf
      <4>2. ToSet(s) = {}
        BY <4>1 DEF ToSet
      <4> QED
        BY <3>1, <4>2
    <3> QED
      BY <3>2, <3>3
  <2>2. S[p].nodes = s /\ DOMAIN S = carried
    BY <1>5, <1>6
  <2> HIDE DEF s
  <2>3. /\ Len(s) \in Nat /\ s = [i \in 1 .. Len(s) |-> s[i]]
        /\ \A i \in 1 .. Len(s) : s[i] \in carried
    <3>1. \A i \in 1 .. Len(s) : s[i] \in ToSet(s)
      BY <2>1, ToSetIs
    <3> QED
      BY <2>1, <3>1, LenProperties
  <2>4. s \in Seq(carried)
    BY <2>3
  <2> QED
    BY <2>2, <2>4
<1>10. ASSUME NEW p \in carried \cap DOMAIN W.tree, p \in expanded, S[p].tokens = {}
       PROVE  ToSet(W.tree[p]) \subseteq ToSet(S[p].nodes)
  <2>1. ~ Ticketed(shot, p)
    BY <1>6, <1>10 DEF Ticketed
  <2>2. ~ NodeLeft(shot, p) /\ ~ ReturnLeft(shot, p)
    BY <1>2 DEF NodeLeft, ReturnLeft, IsNode, IsReturn
  <2>3. p \in DOMAIN shot.rendered
    BY <1>1, <1>2, <1>8, <1>10, <2>1, <2>2 DEF WalkCovers, Opened
  <2>4. shot.rendered[p] = Len(W.tree[p])
    BY <1>2, <2>1, <2>2, <2>3 DEF WalkCovers, Complete
  <2>5. PageOf(W, shot, p) = W.tree[p]
    BY <1>1, <1>3, <2>3, <2>4, PageIs
  <2> QED
    BY <1>6, <2>5
<1>11. ASSUME NEW p \in carried \cap DOMAIN W.tree, NEW t \in S[p].tokens
       PROVE  /\ t \in DOMAIN shot.tokens /\ shot.tokens[t].path = p
              /\ shot.tokens[t].revision = revision
  BY <1>1, <1>3, <1>6, <1>11 DEF WalkTyped
<1>12. /\ \A p \in DOMAIN S : Directory(S, p) <=> p \in DOMAIN W.tree
       /\ \A p \in DOMAIN S : S[p].open <=> p \in expanded
  <2>1. ASSUME NEW p \in DOMAIN S
        PROVE  (Directory(S, p) <=> p \in DOMAIN W.tree) /\ (S[p].open <=> p \in expanded)
    <3>1. CASE p \in DOMAIN W.tree
      BY <1>5, <1>6, <3>1 DEF Directory
    <3>2. CASE p \notin DOMAIN W.tree
      BY <1>5, <1>7, <3>2 DEF Directory
    <3> QED
      BY <3>1, <3>2
  <2> QED
    BY <2>1
<1>13. FaithfulSnapshot(shot, S)
  BY <1>5, <1>7, <1>8, <1>9, <1>11, <1>12 DEF FaithfulSnapshot
<1>14. Depicts(W, S)
  BY <1>5, <1>10, <1>12 DEF Depicts
<1> QED
  BY <1>13, <1>14 DEF S, shot, W

----------------------------------------------------------------------------
(***************************************************************************)
(* What holds of a scene while it is rendered.                             *)
(***************************************************************************)
Scene(scene) ==
  [used |-> scene.used, shown |-> scene.shown, marked |-> scene.marked,
   offered |-> scene.offered]

Usage == [nodes : Nat, bytes : Nat]

SceneOK(shot, S, b, scene) ==
  /\ scene = Scene(scene)
  /\ scene.used \in Usage /\ scene.used.nodes <= b.nodes
  /\ scene.shown \subseteq DOMAIN S
  /\ \A i \in scene.offered : Works(shot, i)

\* An admission uses one node more.
LEMMA AdmittedUsage ==
  ASSUME NEW u \in Usage
  PROVE  /\ u.nodes \in Nat
         /\ Admitted(u) \in Usage /\ Admitted(u).nodes = u.nodes + 1
<1> DEFINE n == u.nodes
           m == u.bytes
           x == n + 1
           y == m + 1
<1>1. n \in Nat /\ m \in Nat /\ u = [nodes |-> n, bytes |-> m]
  BY DEF Usage
<1>2. Admitted(u) = [u EXCEPT !.nodes = x, !.bytes = y]
  BY DEF Admitted
<1>3. Admitted(u) = [nodes |-> x, bytes |-> y]
  <2> HIDE DEF n, m, x, y
  <2> QED
    BY <1>1, <1>2
<1>4. x \in Nat /\ y \in Nat
  BY <1>1
<1> HIDE DEF x, y
<1>5. Admitted(u) \in Usage /\ Admitted(u).nodes = x
  BY <1>3, <1>4 DEF Usage
<1> QED
  BY <1>1, <1>5 DEF x

\* A charge for a node keeps a scene in order.
LEMMA ChargeScene ==
  ASSUME NEW shot, NEW S, NEW b, b.nodes \in Nat, NEW scene, SceneOK(shot, S, b, scene),
         scene.used.nodes < b.nodes
  PROVE  LET charged == [scene EXCEPT !.used = Admitted(@)] IN
         /\ SceneOK(shot, S, b, charged)
         /\ charged.shown = scene.shown /\ charged.marked = scene.marked
         /\ charged.used.nodes = scene.used.nodes + 1
<1> DEFINE used == Admitted(scene.used)
           charged == [scene EXCEPT !.used = used]
<1>1. /\ used \in Usage /\ used.nodes = scene.used.nodes + 1
      /\ used.nodes <= b.nodes
  <2>1. scene.used \in Usage
    BY DEF SceneOK
  <2>2. /\ scene.used.nodes \in Nat
        /\ used \in Usage /\ used.nodes = scene.used.nodes + 1
    BY <2>1, AdmittedUsage
  <2> HIDE DEF used
  <2> QED
    BY <2>2
<1> HIDE DEF used
<1>2. charged = [used |-> used, shown |-> scene.shown, marked |-> scene.marked,
                 offered |-> scene.offered]
  BY DEF SceneOK, Scene
<1> HIDE DEF charged
<1>3. /\ charged.used = used /\ charged.shown = scene.shown
      /\ charged.marked = scene.marked /\ charged.offered = scene.offered
      /\ charged = Scene(charged)
  BY <1>2 DEF Scene
<1>4. SceneOK(shot, S, b, charged)
  BY <1>1, <1>3 DEF SceneOK
<1> QED
  BY <1>1, <1>3, <1>4 DEF charged, used

\* So does offering intents that work.
LEMMA OfferScene ==
  ASSUME NEW shot, NEW S, NEW b, NEW scene, SceneOK(shot, S, b, scene), NEW intents,
         \A i \in intents : Works(shot, i)
  PROVE  LET offered == Offer(scene, intents) IN
         /\ SceneOK(shot, S, b, offered)
         /\ offered.shown = scene.shown /\ offered.marked = scene.marked
         /\ offered.used = scene.used
<1> DEFINE all == scene.offered \cup intents
           r == Offer(scene, intents)
<1>1. r = [scene EXCEPT !.offered = all]
  BY DEF Offer
<1>2. \A i \in all : Works(shot, i)
  BY DEF SceneOK
<1> HIDE DEF all, r
<1>3. r = [used |-> scene.used, shown |-> scene.shown, marked |-> scene.marked,
           offered |-> all]
  BY <1>1 DEF SceneOK, Scene
<1>4. /\ r.used = scene.used /\ r.shown = scene.shown /\ r.marked = scene.marked
      /\ r.offered = all /\ r = Scene(r)
  BY <1>3 DEF Scene
<1>5. SceneOK(shot, S, b, r)
  BY <1>2, <1>4 DEF SceneOK
<1> QED
  BY <1>4, <1>5 DEF r

\* So does showing a path of the snapshot.
LEMMA ShowScene ==
  ASSUME NEW shot, NEW S, NEW b, NEW scene, SceneOK(shot, S, b, scene),
         NEW path \in DOMAIN S
  PROVE  LET showing == Show(scene, path, S[path]) IN
         /\ SceneOK(shot, S, b, showing)
         /\ showing.shown = scene.shown \cup {path} /\ showing.marked = scene.marked
         /\ showing.used = scene.used
<1> DEFINE all == scene.shown \cup {path}
           r == [scene EXCEPT !.shown = all]
<1>1. r = [used |-> scene.used, shown |-> all, marked |-> scene.marked,
           offered |-> scene.offered]
  <2> HIDE DEF all
  <2> QED
    BY DEF SceneOK, Scene
<1>2. all \subseteq DOMAIN S
  BY DEF SceneOK
<1>3. Show(scene, path, S[path]) = Offer(r, {Disclosure(path, S[path])})
  BY DEF Show
<1> HIDE DEF all, r
<1>4. /\ r.used = scene.used /\ r.shown = all /\ r.marked = scene.marked
      /\ r.offered = scene.offered /\ r = Scene(r)
  BY <1>1 DEF Scene
<1>5. SceneOK(shot, S, b, r)
  BY <1>2, <1>4 DEF SceneOK
<1>6. \A i \in {Disclosure(path, S[path])} : Works(shot, i)
  BY DisclosureWorks
<1> DEFINE intents == {Disclosure(path, S[path])}
           offered == Offer(r, intents)
<1>7. /\ SceneOK(shot, S, b, offered)
      /\ offered.shown = r.shown /\ offered.marked = r.marked /\ offered.used = r.used
  BY <1>5, <1>6, OfferScene
<1> HIDE DEF offered
<1>8. Show(scene, path, S[path]) = offered
  BY <1>3 DEF offered
<1> QED
  BY <1>4, <1>7, <1>8 DEF all

\* So does a mark.
LEMMA MarkScene ==
  ASSUME NEW shot, NEW S, NEW b, NEW scene, SceneOK(shot, S, b, scene), NEW path
  PROVE  LET marking == Mark(scene, path) IN
         /\ SceneOK(shot, S, b, marking)
         /\ marking.shown = scene.shown /\ marking.marked = scene.marked \cup {path}
         /\ marking.used = scene.used
<1> DEFINE all == scene.marked \cup {path}
           r == Mark(scene, path)
<1>1. r = [scene EXCEPT !.marked = all]
  BY DEF Mark
<1>2. all = scene.marked \cup {path}
  OBVIOUS
<1> HIDE DEF all, r
<1>3. r = [used |-> scene.used, shown |-> scene.shown, marked |-> all,
           offered |-> scene.offered]
  BY <1>1 DEF SceneOK, Scene
<1>4. /\ r.used = scene.used /\ r.shown = scene.shown /\ r.marked = all
      /\ r.offered = scene.offered /\ r = Scene(r)
  BY <1>3 DEF Scene
<1>5. SceneOK(shot, S, b, r)
  BY <1>4 DEF SceneOK
<1> QED
  BY <1>2, <1>4, <1>5 DEF r

----------------------------------------------------------------------------
\* What rendering a node does to the scene: a node that is rendered is shown and
\* was charged, one that is not is not shown and leaves nothing to render.
NodeRendered(shot, S, b, scene, path, depth, n) ==
  /\ SceneOK(shot, S, b, n.scene)
  /\ n.scene.marked = scene.marked
  /\ n.ok \in BOOLEAN
  /\ n.ok => /\ n.scene.shown = scene.shown \cup {path}
             /\ scene.used.nodes < n.scene.used.nodes
             /\ n.bodies = IF path \in OpenDirectories(S)
                             THEN <<Body(S, path, depth + 1)>> ELSE <<>>
  /\ ~ n.ok => /\ n.scene.shown = scene.shown
               /\ scene.used.nodes <= n.scene.used.nodes
               /\ n.bodies = <<>>

\* A cell is shown, or refused by its detail.
LEMMA CellRenders ==
  ASSUME NEW shot, NEW S, FaithfulSnapshot(shot, S), NEW b, b.nodes \in Nat,
         NEW scene, SceneOK(shot, S, b, scene), NEW path \in DOMAIN S, ~ Directory(S, path),
         NEW depth
  PROVE  LET cell == RenderCell(b, scene, path, S[path], depth) IN
         /\ SceneOK(shot, S, b, cell.scene)
         /\ cell.scene.marked = scene.marked
         /\ cell.ok \in BOOLEAN
         /\ cell.ok => cell.scene.shown = scene.shown \cup {path}
         /\ ~ cell.ok => cell.scene.shown = scene.shown
         /\ scene.used.nodes <= cell.scene.used.nodes
<1> DEFINE node == S[path]
           target == Target(path, {}, node.detail.receipt)
           charged == [scene EXCEPT !.used = Admitted(@)]
           showing == Show(charged, path, node)
           controls == Actions(target) \cup FaceControls(target, node.detail)
           cell == RenderCell(b, scene, path, node, depth)
<1>1. node.detail.receipt \in BOOLEAN
  BY SurfaceAssumption DEF FaithfulSnapshot
<1>2. scene.used.nodes \in Nat /\ scene.used.nodes <= scene.used.nodes
  BY DEF SceneOK, Usage
<1>3. CASE ~ node.open
  <2>1. cell = [ok |-> TRUE, scene |-> Show(scene, path, node)]
    BY <1>3 DEF RenderCell
  <2> DEFINE r == Show(scene, path, node)
  <2>2. /\ SceneOK(shot, S, b, r) /\ r.shown = scene.shown \cup {path}
        /\ r.marked = scene.marked /\ r.used = scene.used
    BY ShowScene
  <2> HIDE DEF r, cell
  <2>3. cell.ok = TRUE /\ cell.scene = r
    BY <2>1 DEF r
  <2> QED
    BY <1>2, <2>2, <2>3 DEF cell
<1>4. CASE node.open /\ ~ Admits(b, scene.used, depth + 1, FALSE)
  <2>1. cell = [ok |-> FALSE, scene |-> scene]
    BY <1>4 DEF RenderCell
  <2> HIDE DEF cell
  <2>2. cell.ok = FALSE /\ cell.scene = scene
    BY <2>1
  <2> QED
    BY <1>2, <2>2 DEF cell
<1>5. CASE node.open /\ Admits(b, scene.used, depth + 1, FALSE)
  <2>1. cell = [ok |-> TRUE, scene |-> Offer(showing, controls)]
    BY <1>5 DEF RenderCell
  <2>2. scene.used.nodes < b.nodes
    BY <1>5 DEF Admits
  <2>3. /\ SceneOK(shot, S, b, charged) /\ charged.shown = scene.shown
        /\ charged.marked = scene.marked /\ charged.used.nodes = scene.used.nodes + 1
    BY <2>2, ChargeScene
  <2> HIDE DEF charged
  <2>4. /\ SceneOK(shot, S, b, showing) /\ showing.shown = charged.shown \cup {path}
        /\ showing.marked = charged.marked /\ showing.used = charged.used
    BY <2>3, ShowScene
  <2> HIDE DEF showing
  <2>5. \A i \in controls : Works(shot, i)
    BY <1>1, ActionsWork, FaceControlsWork
  <2> DEFINE r == Offer(showing, controls)
  <2> HIDE DEF controls
  <2>6. /\ SceneOK(shot, S, b, r) /\ r.shown = showing.shown
        /\ r.marked = showing.marked /\ r.used = showing.used
    BY <2>4, <2>5, OfferScene
  <2> HIDE DEF r, cell
  <2>7. cell.ok = TRUE /\ cell.scene = r
    BY <2>1 DEF r
  <2>8. scene.used.nodes <= charged.used.nodes
    BY <1>2, <2>3
  <2> QED
    BY <2>3, <2>4, <2>6, <2>7, <2>8 DEF cell
<1> QED
  BY <1>3, <1>4, <1>5

\* Rendering a node does what NodeRendered says.
LEMMA NodeRenders ==
  ASSUME NEW shot, NEW S, FaithfulSnapshot(shot, S), NEW b, b.nodes \in Nat,
         NEW scene, SceneOK(shot, S, b, scene), NEW path \in DOMAIN S, NEW depth
  PROVE  NodeRendered(shot, S, b, scene, path, depth, RenderNode(S, b, scene, path, depth))
<1> DEFINE node == S[path]
           begun == [scene EXCEPT !.used = Admitted(@)]
           cell == RenderCell(b, begun, path, node, depth)
           n == RenderNode(S, b, scene, path, depth)
<1>1. scene.used.nodes \in Nat /\ scene.used.nodes <= scene.used.nodes
  BY DEF SceneOK, Usage
<1>2. CASE ~ Admits(b, scene.used, depth, path \in LongNames)
  <2>1. n = [ok |-> FALSE, scene |-> scene, bodies |-> <<>>]
    BY <1>2 DEF RenderNode
  <2> HIDE DEF n
  <2>2. n.ok = FALSE /\ n.scene = scene /\ n.bodies = <<>>
    BY <2>1
  <2>3. NodeRendered(shot, S, b, scene, path, depth, n)
    BY <1>1, <2>2 DEF NodeRendered
  <2> QED
    BY <2>3 DEF n
<1>3. CASE Admits(b, scene.used, depth, path \in LongNames)
  <2>1. scene.used.nodes < b.nodes
    BY <1>3 DEF Admits
  <2>2. /\ SceneOK(shot, S, b, begun) /\ begun.shown = scene.shown
        /\ begun.marked = scene.marked /\ begun.used.nodes = scene.used.nodes + 1
    BY <2>1, ChargeScene
  <2>3. n = IF node.type = "cell"
              THEN [ok |-> cell.ok, scene |-> cell.scene, bodies |-> <<>>]
            ELSE [ok |-> TRUE, scene |-> Show(begun, path, node),
                  bodies |-> IF node.open THEN <<Body(S, path, depth + 1)>> ELSE <<>>]
    BY <1>3 DEF RenderNode
  <2>4. node.type = "cell" <=> ~ Directory(S, path)
    BY DEF FaithfulSnapshot, Directory
  <2> HIDE DEF begun, n
  <2>5. CASE node.type = "cell"
    <3>1. /\ SceneOK(shot, S, b, cell.scene)
          /\ cell.scene.marked = begun.marked
          /\ cell.ok \in BOOLEAN
          /\ cell.ok => cell.scene.shown = begun.shown \cup {path}
          /\ ~ cell.ok => cell.scene.shown = begun.shown
          /\ begun.used.nodes <= cell.scene.used.nodes
      BY <2>2, <2>4, <2>5, CellRenders
    <3>2. path \notin OpenDirectories(S)
      BY <2>4, <2>5 DEF OpenDirectories
    <3> HIDE DEF cell
    <3>3. n.ok = cell.ok /\ n.scene = cell.scene /\ n.bodies = <<>>
      BY <2>3, <2>5
    <3>4. cell.scene.used.nodes \in Nat
      BY <3>1 DEF SceneOK, Usage
    <3>5. /\ scene.used.nodes < n.scene.used.nodes
          /\ scene.used.nodes <= n.scene.used.nodes
      BY <1>1, <2>2, <3>1, <3>3, <3>4
    <3>6. NodeRendered(shot, S, b, scene, path, depth, n)
      BY <2>2, <3>1, <3>2, <3>3, <3>5 DEF NodeRendered
    <3> QED
      BY <3>6 DEF n
  <2>6. CASE node.type # "cell"
    <3> DEFINE r == Show(begun, path, node)
    <3>1. /\ SceneOK(shot, S, b, r) /\ r.shown = begun.shown \cup {path}
          /\ r.marked = begun.marked /\ r.used = begun.used
      BY <2>2, ShowScene
    <3>2. path \in OpenDirectories(S) <=> node.open
      BY <2>4, <2>6 DEF OpenDirectories
    <3> HIDE DEF r
    <3>3. /\ n.ok = TRUE /\ n.scene = r
          /\ n.bodies = IF node.open THEN <<Body(S, path, depth + 1)>> ELSE <<>>
      BY <2>3, <2>6 DEF r
    <3>4. scene.used.nodes < n.scene.used.nodes
      BY <1>1, <2>2, <3>1, <3>3
    <3>5. NodeRendered(shot, S, b, scene, path, depth, n)
      BY <2>2, <3>1, <3>2, <3>3, <3>4 DEF NodeRendered
    <3> QED
      BY <3>5 DEF n
  <2> QED
    BY <2>5, <2>6
<1> QED
  BY <1>2, <1>3

----------------------------------------------------------------------------
\* Every entry of the page of an unfinished body is shown or still left; an open
\* directory that is shown is settled or has such a body.
Bodies(S) == [dir : OpenDirectories(S), depth : Nat, left : Seq(DOMAIN S), used : Usage]

PageHeld(S, scene, body) ==
  ToSet(S[body.dir].nodes) \subseteq scene.shown \cup ToSet(body.left)

Settled(S, scene, d) ==
  d \in scene.marked \/ (S[d].tokens = {} /\ ToSet(S[d].nodes) \subseteq scene.shown)

RenderOK(shot, S, b, r) ==
  /\ SceneOK(shot, S, b, r.scene)
  /\ r.bodies \in Seq(Bodies(S))
  /\ \A body \in ToSet(r.bodies) : PageHeld(S, r.scene, body)
  /\ \A d \in r.scene.shown \cap OpenDirectories(S) :
       Settled(S, r.scene, d) \/ \E body \in ToSet(r.bodies) : body.dir = d

\* A scene only ever shows and marks more.
Grows(old, new) == old.shown \subseteq new.shown /\ old.marked \subseteq new.marked

\* A scene that grows keeps the pages held and the directories settled.
LEMMA GrowingKeeps ==
  ASSUME NEW S, NEW old, NEW new, Grows(old, new)
  PROVE  /\ \A body : PageHeld(S, old, body) => PageHeld(S, new, body)
         /\ \A d : Settled(S, old, d) => Settled(S, new, d)
BY DEF Grows, PageHeld, Settled

\* What is left to do: a body is finished or goes on with one node fewer.
Rank(b, r) == Len(r.bodies) + 2 * (b.nodes - r.scene.used.nodes)

BodyStep(shot, S, b, r, n) ==
  /\ RenderOK(shot, S, b, n)
  /\ Grows(r.scene, n.scene)
  /\ r.bodies # <<>> => Rank(b, n) + 1 <= Rank(b, r)

\* The innermost body is done, its directory settled; the others wait.
LEMMA BodyDone ==
  ASSUME NEW shot, NEW S, NEW b, b.nodes \in Nat, NEW r, RenderOK(shot, S, b, r),
         r.bodies # <<>>, NEW scene, SceneOK(shot, S, b, scene),
         Grows(r.scene, scene), scene.shown = r.scene.shown,
         r.scene.used.nodes <= scene.used.nodes,
         Settled(S, scene, Head(r.bodies).dir)
  PROVE  BodyStep(shot, S, b, r, [scene |-> scene, bodies |-> Tail(r.bodies)])
<1> DEFINE rest == Tail(r.bodies)
           n == [scene |-> scene, bodies |-> rest]
           body == Head(r.bodies)
<1>1. /\ rest \in Seq(Bodies(S)) /\ body \in Bodies(S)
      /\ Len(r.bodies) \in Nat \ {0} /\ Len(rest) = Len(r.bodies) - 1
      /\ ToSet(r.bodies) = {body} \cup ToSet(rest)
  BY ToSetHead DEF RenderOK
<1>2. n.scene = scene /\ n.bodies = rest
  OBVIOUS
<1> HIDE DEF n, rest, body
<1>3. \A x \in ToSet(rest) : PageHeld(S, scene, x)
  BY <1>1, GrowingKeeps DEF RenderOK
<1>4. ASSUME NEW d \in scene.shown \cap OpenDirectories(S)
      PROVE  Settled(S, scene, d) \/ \E x \in ToSet(rest) : x.dir = d
  <2>1. Settled(S, r.scene, d) \/ \E x \in ToSet(r.bodies) : x.dir = d
    BY DEF RenderOK
  <2> QED
    BY <1>1, <2>1, GrowingKeeps DEF body
<1>5. RenderOK(shot, S, b, n)
  BY <1>1, <1>2, <1>3, <1>4 DEF RenderOK
<1>6. Rank(b, n) + 1 <= Rank(b, r)
  <2> DEFINE k == Len(r.bodies)
             l == Len(rest)
             u == r.scene.used.nodes
             v == scene.used.nodes
             m == b.nodes
  <2>1. k \in Nat /\ l \in Nat /\ l + 1 = k /\ m \in Nat
    BY <1>1
  <2>2. u \in Nat /\ v \in Nat /\ u <= v
    BY DEF RenderOK, SceneOK, Usage
  <2>3. Rank(b, n) = l + 2 * (m - v) /\ Rank(b, r) = k + 2 * (m - u)
    BY <1>2 DEF Rank
  <2> HIDE DEF k, l, u, v, m
  <2> QED
    BY <2>1, <2>2, <2>3
<1>7. BodyStep(shot, S, b, r, n)
  BY <1>2, <1>5, <1>6 DEF BodyStep
<1> QED
  BY <1>7 DEF n, rest

\* Finishing the innermost body settles its directory.
LEMMA FinishKeeps ==
  ASSUME NEW shot, NEW S, FaithfulSnapshot(shot, S), NEW b, b.nodes \in Nat,
         NEW r, RenderOK(shot, S, b, r), r.bodies # <<>>, Head(r.bodies).left = <<>>
  PROVE  BodyStep(shot, S, b, r, FinishBody(S, r))
<1> DEFINE body == Head(r.bodies)
           dir == body.dir
           intents == Taps(Target(dir, S[dir].tokens, FALSE), {"continue"})
           marking == Mark(r.scene, dir)
           offered == Offer(marking, intents)
<1>1. body \in Bodies(S) /\ body \in ToSet(r.bodies)
  BY ToSetHead DEF RenderOK
<1>2. /\ dir \in DOMAIN S /\ Directory(S, dir)
      /\ SceneOK(shot, S, b, r.scene) /\ r.scene.used.nodes \in Nat
      /\ r.scene.used.nodes <= r.scene.used.nodes
  <2>1. dir \in DOMAIN S /\ Directory(S, dir)
    BY <1>1 DEF Bodies, OpenDirectories
  <2>2. SceneOK(shot, S, b, r.scene)
    BY DEF RenderOK
  <2>3. r.scene.used.nodes \in Nat
    BY <2>2 DEF SceneOK, Usage
  <2> QED
    BY <2>1, <2>2, <2>3
<1>3. CASE S[dir].tokens = {}
  <2>1. ToSet(S[dir].nodes) \subseteq r.scene.shown
    <3>1. ToSet(body.left) = {}
      BY DEF ToSet
    <3>2. PageHeld(S, r.scene, body)
      BY <1>1 DEF RenderOK
    <3> QED
      BY <3>1, <3>2 DEF PageHeld
  <2>2. Settled(S, r.scene, dir) /\ Grows(r.scene, r.scene)
    BY <1>3, <2>1 DEF Settled, Grows
  <2>3. FinishBody(S, r) = [scene |-> r.scene, bodies |-> Tail(r.bodies)]
    BY <1>3 DEF FinishBody
  <2> QED
    BY <1>2, <2>2, <2>3, BodyDone
<1>4. CASE S[dir].tokens # {}
  <2>1. /\ SceneOK(shot, S, b, marking) /\ marking.shown = r.scene.shown
        /\ marking.marked = r.scene.marked \cup {dir} /\ marking.used = r.scene.used
    BY <1>2, MarkScene
  <2>2. \A i \in intents : Works(shot, i)
    <3>1. \A t \in S[dir].tokens : /\ t \in DOMAIN shot.tokens
                                   /\ shot.tokens[t].path = dir
                                   /\ shot.tokens[t].revision = revision
      BY <1>2 DEF FaithfulSnapshot
    <3> QED
      BY <1>4, <3>1, ContinueWorks
  <2>3. FinishBody(S, r) = [scene |-> offered, bodies |-> Tail(r.bodies)]
    BY <1>4 DEF FinishBody
  <2> HIDE DEF marking, intents
  <2>4. /\ SceneOK(shot, S, b, offered) /\ offered.shown = marking.shown
        /\ offered.marked = marking.marked /\ offered.used = marking.used
    BY <2>1, <2>2, OfferScene
  <2> HIDE DEF offered
  <2>5. Settled(S, offered, dir) /\ Grows(r.scene, offered)
    BY <2>1, <2>4 DEF Settled, Grows
  <2>6. offered.shown = r.scene.shown /\ r.scene.used.nodes <= offered.used.nodes
    BY <1>2, <2>1, <2>4
  <2> QED
    BY <2>3, <2>4, <2>5, <2>6, BodyDone
<1> QED
  BY <1>3, <1>4

GoesOn(body, left, used) == [body EXCEPT !.left = left, !.used = used]

\* A body that goes on is a body of the same directory.
LEMMA BodyGoesOn ==
  ASSUME NEW S, NEW body \in Bodies(S), NEW left \in Seq(DOMAIN S), NEW used \in Usage
  PROVE  /\ GoesOn(body, left, used) \in Bodies(S)
         /\ GoesOn(body, left, used).dir = body.dir
         /\ GoesOn(body, left, used).left = left
<1> DEFINE d == body.dir
           e == body.depth
           l == body.left
           u == body.used
           rest == GoesOn(body, left, used)
<1>1. /\ d \in OpenDirectories(S) /\ e \in Nat
      /\ body = [dir |-> d, depth |-> e, left |-> l, used |-> u]
  BY DEF Bodies
<1> HIDE DEF d, e, l, u
<1>2. rest = [dir |-> d, depth |-> e, left |-> left, used |-> used]
  <2>1. rest = [body EXCEPT !.left = left, !.used = used]
    BY DEF GoesOn
  <2> HIDE DEF rest
  <2> QED
    BY <1>1, <2>1
<1> HIDE DEF rest
<1>3. rest \in Bodies(S) /\ rest.dir = d /\ rest.left = left
  BY <1>1, <1>2 DEF Bodies
<1> QED
  BY <1>3 DEF rest, d

\* The child is rendered, the body goes on, and the child's own comes before it.
LEMMA ChildShown ==
  ASSUME NEW shot, NEW S, FaithfulSnapshot(shot, S), NEW b, b.nodes \in Nat,
         NEW r, RenderOK(shot, S, b, r), r.bodies # <<>>,
         Head(r.bodies).left # <<>>, NEW n,
         NodeRendered(shot, S, b, r.scene, Head(Head(r.bodies).left),
                      Head(r.bodies).depth, n),
         n.ok
  PROVE  LET body == Head(r.bodies)
             rest == [body EXCEPT !.left = Tail(@), !.used = Admitted(@)]
         IN BodyStep(shot, S, b, r,
                     [scene |-> n.scene,
                      bodies |-> n.bodies \o <<rest>> \o Tail(r.bodies)])
<1> DEFINE body == Head(r.bodies)
           child == Head(body.left)
           left == Tail(body.left)
           used == Admitted(body.used)
           rest == [body EXCEPT !.left = left, !.used = used]
           others == Tail(r.bodies)
           all == n.bodies \o <<rest>> \o others
           new == [scene |-> n.scene, bodies |-> all]
<1>1. /\ others \in Seq(Bodies(S)) /\ body \in Bodies(S)
      /\ Len(r.bodies) \in Nat \ {0} /\ Len(others) = Len(r.bodies) - 1
      /\ ToSet(r.bodies) = {body} \cup ToSet(others)
  BY ToSetHead DEF RenderOK
<1>2. /\ body.dir \in OpenDirectories(S) /\ body.depth \in Nat
      /\ body.left \in Seq(DOMAIN S) /\ body.used \in Usage
      /\ body = [dir |-> body.dir, depth |-> body.depth, left |-> body.left,
                 used |-> body.used]
  BY <1>1 DEF Bodies
<1>3. /\ child \in DOMAIN S /\ left \in Seq(DOMAIN S)
      /\ ToSet(body.left) = {child} \cup ToSet(left)
  BY <1>2, ToSetHead
<1>4. used \in Usage
  BY <1>2, AdmittedUsage
<1>5. /\ SceneOK(shot, S, b, n.scene)
      /\ n.scene.marked = r.scene.marked
      /\ n.scene.shown = r.scene.shown \cup {child}
      /\ r.scene.used.nodes < n.scene.used.nodes
      /\ n.bodies = IF child \in OpenDirectories(S)
                      THEN <<Body(S, child, body.depth + 1)>> ELSE <<>>
  BY DEF NodeRendered
<1>6. Grows(r.scene, n.scene)
  BY <1>5 DEF Grows
<1> HIDE DEF child, left, used
<1>7. rest \in Bodies(S) /\ rest.dir = body.dir /\ rest.left = left
  <2>1. body \in Bodies(S) /\ left \in Seq(DOMAIN S) /\ used \in Usage
    BY <1>1, <1>3, <1>4
  <2>2. rest = GoesOn(body, left, used)
    BY DEF GoesOn
  <2> HIDE DEF body, rest
  <2> QED
    BY <2>1, <2>2, BodyGoesOn
<1> HIDE DEF rest
<1>8. PageHeld(S, n.scene, rest)
  <2>1. PageHeld(S, r.scene, body)
    BY <1>1 DEF RenderOK
  <2> QED
    BY <1>3, <1>5, <1>7, <2>1 DEF PageHeld
<1> DEFINE inner == Body(S, child, body.depth + 1)
<1>9. ASSUME child \in OpenDirectories(S)
       PROVE  inner \in Bodies(S) /\ inner.dir = child /\ PageHeld(S, n.scene, inner)
  <2>1. /\ inner.dir = child /\ inner.depth = body.depth + 1
        /\ inner.left = S[child].nodes /\ inner.used = NothingUsed
        /\ inner = [dir |-> child, depth |-> body.depth + 1, left |-> S[child].nodes,
                    used |-> NothingUsed]
    BY DEF Body
  <2>2. S[child].nodes \in Seq(DOMAIN S)
    BY <1>3, <1>9 DEF FaithfulSnapshot, OpenDirectories
  <2>3. NothingUsed \in Usage
    BY DEF NothingUsed, Usage
  <2>4. body.depth + 1 \in Nat
    BY <1>2
  <2> HIDE DEF inner
  <2>5. inner \in Bodies(S)
    BY <1>9, <2>1, <2>2, <2>3, <2>4 DEF Bodies
  <2> QED
    BY <2>1, <2>5 DEF PageHeld
<1> HIDE DEF inner, body
<1>10. /\ n.bodies \in Seq(Bodies(S)) /\ Len(n.bodies) \in Nat /\ Len(n.bodies) <= 1
       /\ \A x \in ToSet(n.bodies) : x = inner /\ child \in OpenDirectories(S)
       /\ child \in OpenDirectories(S) => inner \in ToSet(n.bodies)
  <2>1. CASE child \in OpenDirectories(S)
    <3>1. n.bodies = <<inner>>
      BY <1>5, <2>1 DEF inner, body
    <3>2. <<inner>> \in Seq(Bodies(S)) /\ Len(<<inner>>) = 1 /\ ToSet(<<inner>>) = {inner}
      BY <1>9, <2>1 DEF ToSet
    <3> QED
      BY <2>1, <3>1, <3>2
  <2>2. CASE child \notin OpenDirectories(S)
    <3>1. n.bodies = <<>>
      BY <1>5, <2>2 DEF body
    <3>2. ToSet(<<>>) = {} /\ <<>> \in Seq(Bodies(S)) /\ Len(<<>>) = 0
      BY DEF ToSet
    <3> QED
      BY <2>2, <3>1, <3>2
  <2> QED
    BY <2>1, <2>2
<1>11. /\ all \in Seq(Bodies(S))
       /\ Len(all) = Len(n.bodies) + 1 + Len(others)
       /\ ToSet(all) = ToSet(n.bodies) \cup {rest} \cup ToSet(others)
  <2> DEFINE front == n.bodies
  <2>1. front \in Seq(Bodies(S)) /\ rest \in Bodies(S) /\ others \in Seq(Bodies(S))
    BY <1>1, <1>7, <1>10
  <2> HIDE DEF front, others
  <2>2. /\ front \o <<rest>> \o others \in Seq(Bodies(S))
        /\ Len(front \o <<rest>> \o others) = Len(front) + 1 + Len(others)
        /\ ToSet(front \o <<rest>> \o others)
             = ToSet(front) \cup {rest} \cup ToSet(others)
    BY <2>1, ToSetInFront
  <2>3. all = front \o <<rest>> \o others
    BY DEF front
  <2> HIDE DEF all
  <2> QED
    BY <2>2, <2>3 DEF front
<1>12. new.scene = n.scene /\ new.bodies = all
  OBVIOUS
<1> HIDE DEF new, all, others
<1>13. \A x \in ToSet(all) : PageHeld(S, n.scene, x)
  <2>1. \A x \in ToSet(others) : PageHeld(S, n.scene, x)
    BY <1>1, <1>6, GrowingKeeps DEF RenderOK
  <2> QED
    BY <1>8, <1>9, <1>10, <1>11, <2>1
<1>14. ASSUME NEW d \in n.scene.shown \cap OpenDirectories(S)
       PROVE  Settled(S, n.scene, d) \/ \E x \in ToSet(all) : x.dir = d
  <2>1. CASE d = child
    BY <1>9, <1>10, <1>11, <2>1
  <2>2. CASE d # child
    <3>1. Settled(S, r.scene, d) \/ \E x \in ToSet(r.bodies) : x.dir = d
      BY <1>5, <2>2 DEF RenderOK
    <3> QED
      BY <1>1, <1>6, <1>7, <1>11, <3>1, GrowingKeeps
  <2> QED
    BY <2>1, <2>2
<1>15. RenderOK(shot, S, b, new)
  BY <1>5, <1>11, <1>12, <1>13, <1>14 DEF RenderOK
<1>16. Rank(b, new) + 1 <= Rank(b, r)
  <2> DEFINE k == Len(r.bodies)
             l == Len(all)
             i == Len(n.bodies)
             u == r.scene.used.nodes
             v == n.scene.used.nodes
             m == b.nodes
             o == Len(others)
  <2>1. /\ k \in Nat \ {0} /\ o = k - 1 /\ l = i + 1 + o
        /\ i \in Nat /\ i <= 1 /\ m \in Nat
    BY <1>1, <1>10, <1>11
  <2>2. u \in Nat /\ v \in Nat /\ u < v
    BY <1>5 DEF RenderOK, SceneOK, Usage
  <2>3. Rank(b, new) = l + 2 * (m - v) /\ Rank(b, r) = k + 2 * (m - u)
    BY <1>12 DEF Rank
  <2> HIDE DEF k, l, i, u, v, m, o
  <2> QED
    BY <2>1, <2>2, <2>3
<1>17. BodyStep(shot, S, b, r, new)
  BY <1>6, <1>12, <1>15, <1>16 DEF BodyStep
<1> QED
  BY <1>17 DEF new, all, others, rest, left, used, body

\* Rendering one child keeps the invariant and leaves less to do.
LEMMA ChildKeeps ==
  ASSUME NEW shot, NEW S, FaithfulSnapshot(shot, S), NEW b, b.nodes \in Nat,
         NEW r, RenderOK(shot, S, b, r), r.bodies # <<>>, Head(r.bodies).left # <<>>
  PROVE  BodyStep(shot, S, b, r, RenderChild(S, b, r))
<1> DEFINE body == Head(r.bodies)
           child == Head(body.left)
           n == RenderNode(S, b, r.scene, child, body.depth)
           rest == [body EXCEPT !.left = Tail(@), !.used = Admitted(@)]
           admitted == Admits(Subtree(b), body.used, body.depth, child \in LongNames)
           shown == [scene |-> n.scene, bodies |-> n.bodies \o <<rest>> \o Tail(r.bodies)]
<1>1. body \in Bodies(S)
  BY ToSetHead DEF RenderOK
<1>2. child \in DOMAIN S
  BY <1>1, ToSetHead DEF Bodies
<1>3. SceneOK(shot, S, b, r.scene)
  BY DEF RenderOK
<1>4. NodeRendered(shot, S, b, r.scene, child, body.depth, n)
  BY <1>2, <1>3, NodeRenders
<1>5. RenderChild(S, b, r) =
        IF ~ admitted
          THEN [scene |-> Mark(r.scene, body.dir), bodies |-> Tail(r.bodies)]
        ELSE IF ~ n.ok
          THEN [scene |-> Mark(n.scene, body.dir), bodies |-> Tail(r.bodies)]
        ELSE shown
  BY DEF RenderChild
<1>6. ASSUME NEW scene, SceneOK(shot, S, b, scene), scene.shown = r.scene.shown,
             scene.marked = r.scene.marked, r.scene.used.nodes <= scene.used.nodes
      PROVE  BodyStep(shot, S, b, r, [scene |-> Mark(scene, body.dir),
                                      bodies |-> Tail(r.bodies)])
  <2> DEFINE marking == Mark(scene, body.dir)
  <2>1. /\ SceneOK(shot, S, b, marking) /\ marking.shown = scene.shown
        /\ marking.marked = scene.marked \cup {body.dir} /\ marking.used = scene.used
    BY <1>6, MarkScene
  <2> HIDE DEF marking
  <2>2. Grows(r.scene, marking) /\ Settled(S, marking, body.dir)
    BY <1>6, <2>1 DEF Grows, Settled
  <2>3. marking.shown = r.scene.shown /\ r.scene.used.nodes <= marking.used.nodes
    BY <1>6, <2>1
  <2>4. BodyStep(shot, S, b, r, [scene |-> marking, bodies |-> Tail(r.bodies)])
    BY <2>1, <2>2, <2>3, BodyDone
  <2> QED
    BY <2>4 DEF marking
<1>7. CASE ~ admitted
  <2>1. r.scene.used.nodes <= r.scene.used.nodes
    BY <1>3 DEF SceneOK, Usage
  <2> QED
    BY <1>3, <1>5, <1>6, <1>7, <2>1
<1>8. CASE admitted /\ ~ n.ok
  <2>1. /\ SceneOK(shot, S, b, n.scene) /\ n.scene.shown = r.scene.shown
        /\ n.scene.marked = r.scene.marked /\ r.scene.used.nodes <= n.scene.used.nodes
    BY <1>4, <1>8 DEF NodeRendered
  <2> HIDE DEF n
  <2> QED
    BY <1>5, <1>6, <1>8, <2>1
<1>9. CASE admitted /\ n.ok
  <2>1. BodyStep(shot, S, b, r, shown)
    <3> HIDE DEF n
    <3> QED
      BY <1>4, <1>9, ChildShown
  <2> QED
    BY <1>5, <1>9, <2>1
<1> QED
  BY <1>7, <1>8, <1>9

\* What the rendering's definition says, as of the walk.
LEMMA RenderByBodies ==
  ASSUME NEW S, NEW b, b.nodes \in Nat, NEW start
  PROVE  /\ Renderings(b) \in Nat
         /\ Render(S, b, start)[0] = start
         /\ \A k \in 1 .. Renderings(b) :
              Render(S, b, start)[k] = RenderDirectoryBody(S, b, Render(S, b, start)[k - 1])
<1> DEFINE Calls(f, n) ==
             [k \in 0 .. n |-> IF k = 0 THEN start ELSE RenderDirectoryBody(S, b, f[k - 1])]
           T == {n \in Nat : \E f : f = Calls(f, n)}
<1>0. Renderings(b) \in Nat
  BY DEF Renderings
<1>1. 0 \in T
  <2> DEFINE f == [k \in 0 .. 0 |-> start]
  <2>1. f = Calls(f, 0)
    OBVIOUS
  <2> QED
    BY <2>1
<1>2. ASSUME NEW n \in Nat, n \in T PROVE n + 1 \in T
  <2>1. PICK f : f = Calls(f, n)
    BY <1>2
  <2> DEFINE g == [k \in 0 .. n + 1 |->
                     IF k = n + 1 THEN RenderDirectoryBody(S, b, f[n]) ELSE f[k]]
  <2>2. ASSUME NEW k \in 0 .. n + 1
        PROVE  g[k] = IF k = 0 THEN start ELSE RenderDirectoryBody(S, b, g[k - 1])
    <3>1. CASE k = 0
      BY <2>1, <3>1
    <3>2. CASE k = n + 1
      BY <3>2
    <3>3. CASE k # 0 /\ k # n + 1
      <4>1. k \in 0 .. n /\ k - 1 \in 0 .. n /\ k - 1 # n + 1 /\ k - 1 \in 0 .. n + 1
        BY <3>3
      <4>2. f[k] = RenderDirectoryBody(S, b, f[k - 1])
        BY <2>1, <3>3, <4>1
      <4> QED
        BY <3>3, <4>1, <4>2
    <3> QED
      BY <3>1, <3>2, <3>3
  <2>3. g = Calls(g, n + 1)
    <3> HIDE DEF g
    <3>1. g = [k \in 0 .. n + 1 |-> g[k]]
      BY DEF g
    <3> QED
      BY <2>2, <3>1
  <2>4. \E h : h = Calls(h, n + 1)
    <3> HIDE DEF g
    <3> QED
      BY <2>3
  <2> QED
    BY <2>4
<1>3. Renderings(b) \in T
  <2> HIDE DEF T
  <2> QED
    BY <1>0, <1>1, <1>2, SetInduction
<1>4. Render(S, b, start) = Calls(Render(S, b, start), Renderings(b))
  <2>1. \E f : f = Calls(f, Renderings(b))
    BY <1>3
  <2>2. Render(S, b, start) = CHOOSE f : f = Calls(f, Renderings(b))
    BY DEF Render
  <2> QED
    BY <2>1, <2>2
<1> QED
  BY <1>0, <1>4

\* So does every step of the rendering.
LEMMA RenderDirectoryBodyKeeps ==
  ASSUME NEW shot, NEW S, FaithfulSnapshot(shot, S), NEW b, b.nodes \in Nat,
         NEW r, RenderOK(shot, S, b, r)
  PROVE  BodyStep(shot, S, b, r, RenderDirectoryBody(S, b, r))
<1>1. CASE r.bodies = <<>>
  <2>1. RenderDirectoryBody(S, b, r) = r
    BY <1>1 DEF RenderDirectoryBody
  <2>2. Grows(r.scene, r.scene)
    BY DEF Grows
  <2> QED
    BY <1>1, <2>1, <2>2 DEF BodyStep
<1>2. CASE r.bodies # <<>> /\ Head(r.bodies).left = <<>>
  BY <1>2, FinishKeeps DEF RenderDirectoryBody
<1>3. CASE r.bodies # <<>> /\ Head(r.bodies).left # <<>>
  BY <1>3, ChildKeeps DEF RenderDirectoryBody
<1> QED
  BY <1>1, <1>2, <1>3

\* A rendering that starts with no more to do than it has steps for ends, and
\* shows and marks at least what it started with.
LEMMA RenderEnds ==
  ASSUME NEW shot, NEW S, FaithfulSnapshot(shot, S), NEW b, b.nodes \in Nat,
         NEW start, RenderOK(shot, S, b, start),
         start.bodies = <<>> \/ Rank(b, start) <= Renderings(b)
  PROVE  LET last == Render(S, b, start)[Renderings(b)] IN
         /\ RenderOK(shot, S, b, last)
         /\ start.scene.shown \subseteq last.scene.shown
         /\ last.bodies = <<>>
<1> DEFINE N == Renderings(b)
           Now(k) == Render(S, b, start)[k]
           Done(k) == /\ RenderOK(shot, S, b, Now(k))
                      /\ start.scene.shown \subseteq Now(k).scene.shown
                      /\ Now(k).bodies = <<>> \/ Rank(b, Now(k)) + k <= N
           T == {k \in Nat : k \in 0 .. N => Done(k)}
<1>1. /\ N \in Nat /\ Now(0) = start
      /\ \A k \in 1 .. N : Now(k) = RenderDirectoryBody(S, b, Now(k - 1))
  BY RenderByBodies
<1>2. ASSUME NEW r, RenderOK(shot, S, b, r)
      PROVE  /\ Rank(b, r) \in Int /\ Rank(b, r) \in Nat
             /\ r.bodies # <<>> => Rank(b, r) >= 1
  <2> DEFINE l == Len(r.bodies)
             u == r.scene.used.nodes
             m == b.nodes
  <2>1. l \in Nat /\ (r.bodies # <<>> => l >= 1) /\ m \in Nat
    BY <1>2, LenProperties, EmptySeq DEF RenderOK
  <2>2. u \in Nat /\ u <= m
    BY <1>2 DEF RenderOK, SceneOK, Usage
  <2>3. Rank(b, r) = l + 2 * (m - u)
    BY DEF Rank
  <2> HIDE DEF l, u, m
  <2> QED
    BY <2>1, <2>2, <2>3
<1> HIDE DEF N
<1>3. 0 \in T
  <2>1. Rank(b, start) \in Nat
    BY <1>2
  <2>2. start.bodies = <<>> \/ Rank(b, start) + 0 <= N
    BY <1>1, <2>1 DEF N
  <2>3. Done(0)
    <3> HIDE DEF Now
    <3> QED
      BY <1>1, <2>2
  <2> QED
    BY <2>3
<1>4. ASSUME NEW k \in Nat, k \in T PROVE k + 1 \in T
  <2>1. SUFFICES ASSUME k + 1 \in 0 .. N PROVE Done(k + 1)
    OBVIOUS
  <2>2. k \in 0 .. N /\ k + 1 \in 1 .. N /\ (k + 1) - 1 = k
    BY <1>1, <2>1
  <2> DEFINE r == Now(k)
             n == Now(k + 1)
  <2>3. /\ RenderOK(shot, S, b, r) /\ start.scene.shown \subseteq r.scene.shown
        /\ r.bodies = <<>> \/ Rank(b, r) + k <= N
    BY <1>4, <2>2
  <2>4. n = RenderDirectoryBody(S, b, r)
    BY <1>1, <2>2
  <2> HIDE DEF r, n, Now
  <2>5. BodyStep(shot, S, b, r, n)
    BY <2>3, <2>4, RenderDirectoryBodyKeeps
  <2>6. RenderOK(shot, S, b, n) /\ start.scene.shown \subseteq n.scene.shown
    BY <2>3, <2>5 DEF BodyStep, Grows
  <2>7. n.bodies = <<>> \/ Rank(b, n) + (k + 1) <= N
    <3>1. CASE r.bodies = <<>>
      BY <2>4, <3>1 DEF RenderDirectoryBody
    <3>2. CASE r.bodies # <<>>
      <4>1. Rank(b, n) + 1 <= Rank(b, r) /\ Rank(b, r) + k <= N
        BY <2>3, <2>5, <3>2 DEF BodyStep
      <4>2. Rank(b, n) \in Int /\ Rank(b, r) \in Int
        BY <1>2, <2>3, <2>6
      <4> QED
        BY <1>1, <4>1, <4>2
    <3> QED
      BY <3>1, <3>2
  <2> QED
    BY <2>6, <2>7 DEF n
<1>5. N \in T
  <2> HIDE DEF T
  <2> QED
    BY <1>1, <1>3, <1>4, SetInduction
<1>6. Done(N)
  BY <1>1, <1>5
<1> DEFINE last == Now(N)
<1>7. /\ RenderOK(shot, S, b, last) /\ start.scene.shown \subseteq last.scene.shown
      /\ last.bodies = <<>> \/ Rank(b, last) + N <= N
  BY <1>6
<1> HIDE DEF last
<1>8. last.bodies = <<>>
  <2>1. SUFFICES ASSUME last.bodies # <<>> PROVE FALSE
    OBVIOUS
  <2>2. Rank(b, last) \in Int /\ Rank(b, last) >= 1 /\ Rank(b, last) + N <= N
    BY <1>2, <1>7, <2>1
  <2> QED
    BY <1>1, <2>2
<1> QED
  BY <1>7, <1>8 DEF last, N

\* What a finished scene shows of the snapshot.
SceneComplete(shot, S, scene) ==
  /\ Root \in scene.shown \/ scene.moreRoots
  /\ scene.shown \subseteq DOMAIN S
  /\ \A d \in scene.shown \cap OpenDirectories(S) : Settled(S, scene, d)
  /\ \A i \in scene.offered : Works(shot, i)

\* A finished scene has settled every open directory it shows.
LEMMA EncodeCompletes ==
  ASSUME NEW shot, NEW S, FaithfulSnapshot(shot, S), NEW b, b.nodes \in Nat
  PROVE  SceneComplete(shot, S, Encode(S, b))
<1> DEFINE blank == [used |-> NothingUsed, shown |-> {}, marked |-> {}, offered |-> {}]
           root == RenderNode(S, b, blank, Root, 1)
           start == [scene |-> root.scene, bodies |-> root.bodies]
           N == Renderings(b)
           last == Render(S, b, start)[N]
           scene == Encode(S, b)
<1>1. SceneOK(shot, S, b, blank) /\ blank.shown = {} /\ blank.used.nodes = 0
  <2>1. NothingUsed \in Usage /\ NothingUsed.nodes = 0
    BY DEF NothingUsed, Usage
  <2> QED
    BY <2>1 DEF SceneOK, Scene
<1> HIDE DEF blank
<1>2. NodeRendered(shot, S, b, blank, Root, 1, root) /\ Root \in DOMAIN S
  <2>1. Root \in DOMAIN S
    BY DEF FaithfulSnapshot
  <2> QED
    BY <1>1, <2>1, NodeRenders
<1>3. scene = [shown |-> last.scene.shown, marked |-> last.scene.marked,
               offered |-> last.scene.offered, moreRoots |-> ~ root.ok]
  BY DEF Encode, blank
<1> HIDE DEF root
<1>4. start.scene = root.scene /\ start.bodies = root.bodies
  OBVIOUS
<1> HIDE DEF start
<1> DEFINE body == Body(S, Root, 2)
<1>5. /\ SceneOK(shot, S, b, root.scene) /\ root.ok \in BOOLEAN
      /\ root.ok => /\ root.scene.shown = {Root}
                    /\ 0 < root.scene.used.nodes
                    /\ root.bodies = IF Root \in OpenDirectories(S) THEN <<body>> ELSE <<>>
      /\ ~ root.ok => root.scene.shown = {} /\ root.bodies = <<>>
  <2>1. 1 + 1 = 2
    OBVIOUS
  <2> QED
    BY <1>1, <1>2, <2>1 DEF NodeRendered
<1>6. Root \in OpenDirectories(S) => body \in Bodies(S) /\ body.dir = Root
                                     /\ PageHeld(S, root.scene, body)
  <2>1. /\ body = [dir |-> Root, depth |-> 2, left |-> S[Root].nodes,
                   used |-> NothingUsed]
        /\ body.dir = Root /\ body.left = S[Root].nodes
    BY DEF Body
  <2>2. Root \in OpenDirectories(S) => S[Root].nodes \in Seq(DOMAIN S)
    BY DEF FaithfulSnapshot, OpenDirectories
  <2>3. NothingUsed \in Usage
    BY DEF NothingUsed, Usage
  <2> HIDE DEF body
  <2>4. Root \in OpenDirectories(S) => body \in Bodies(S)
    BY <2>1, <2>2, <2>3 DEF Bodies
  <2> QED
    BY <2>1, <2>4 DEF PageHeld
<1> HIDE DEF body
<1>7. ASSUME RenderOK(shot, S, b, start), start.bodies = <<>> \/ Rank(b, start) <= N
      PROVE  SceneComplete(shot, S, scene)
  <2>1. /\ RenderOK(shot, S, b, last) /\ start.scene.shown \subseteq last.scene.shown
        /\ last.bodies = <<>>
    BY <1>7, RenderEnds
  <2> HIDE DEF last, scene
  <2>2. ToSet(last.bodies) = {}
    BY <2>1 DEF ToSet
  <2>3. /\ scene.shown = last.scene.shown /\ scene.marked = last.scene.marked
        /\ scene.offered = last.scene.offered /\ (scene.moreRoots <=> ~ root.ok)
    BY <1>3
  <2>4. \A d \in scene.shown \cap OpenDirectories(S) : Settled(S, scene, d)
    <3>1. \A d \in last.scene.shown \cap OpenDirectories(S) : Settled(S, last.scene, d)
      BY <2>1, <2>2 DEF RenderOK
    <3> QED
      BY <2>3, <3>1 DEF Settled
  <2>5. Root \in scene.shown \/ scene.moreRoots
    BY <1>4, <1>5, <2>1, <2>3
  <2>6. scene.shown \subseteq DOMAIN S /\ \A i \in scene.offered : Works(shot, i)
    BY <2>1, <2>3 DEF RenderOK, SceneOK
  <2> QED
    BY <2>4, <2>5, <2>6 DEF SceneComplete
<1>8. CASE root.ok /\ Root \in OpenDirectories(S)
  <2>1. start.bodies = <<body>>
    BY <1>4, <1>5, <1>8
  <2>2. /\ <<body>> \in Seq(Bodies(S)) /\ Len(<<body>>) = 1 /\ ToSet(<<body>>) = {body}
    BY <1>6, <1>8 DEF ToSet
  <2>3. RenderOK(shot, S, b, start)
    BY <1>4, <1>5, <1>6, <1>8, <2>1, <2>2 DEF RenderOK
  <2>4. Rank(b, start) <= N
    <3> DEFINE u == root.scene.used.nodes
               m == b.nodes
    <3>1. u \in Nat /\ 0 < u /\ m \in Nat
      BY <1>5, <1>8 DEF SceneOK, Usage
    <3>2. Rank(b, start) = 1 + 2 * (m - u) /\ N = 2 * m
      BY <1>4, <2>1, <2>2 DEF Rank, Renderings
    <3> HIDE DEF u, m, N
    <3> QED
      BY <3>1, <3>2
  <2> QED
    BY <2>3, <2>4, <1>7
<1>9. CASE ~ root.ok \/ Root \notin OpenDirectories(S)
  <2>1. start.bodies = <<>> /\ ToSet(<<>>) = {} /\ <<>> \in Seq(Bodies(S))
    BY <1>4, <1>5, <1>9 DEF ToSet
  <2>2. start.scene.shown \cap OpenDirectories(S) = {}
    BY <1>4, <1>5, <1>9
  <2>3. RenderOK(shot, S, b, start)
    BY <1>4, <1>5, <2>1, <2>2 DEF RenderOK
  <2> QED
    BY <2>1, <2>3, <1>7
<1> QED
  BY <1>8, <1>9

----------------------------------------------------------------------------
\* Every scene of a session's snapshot is complete in that sense.
LEMMA EveryEncodeCompletes ==
  ASSUME PagesTypeOK, NEW at \in Glimpses,
         NEW b \in RenderBudgets, NEW detail \in CellDetails
  PROVE  LET W == WorldNow(at)
             shot == Snapshot(W)
             S == SurfaceSnapshot(W, shot, detail)
         IN /\ FaithfulSnapshot(shot, S) /\ Depicts(W, S)
            /\ SceneComplete(shot, S, Encode(S, b))
<1>1. b.nodes \in Nat
  BY SurfaceAssumption
<1> DEFINE W == WorldNow(at)
           shot == Snapshot(W)
           S == SurfaceSnapshot(W, shot, detail)
<1>2. FaithfulSnapshot(shot, S) /\ Depicts(W, S)
  BY SnapshotIsFaithful
<1> HIDE DEF W, shot, S
<1>3. SceneComplete(shot, S, Encode(S, b))
  BY <1>1, <1>2, EncodeCompletes
<1> QED
  BY <1>2, <1>3 DEF W, shot, S

\* Nothing of an open directory is missing from a scene without a mark at the
\* directory, whatever cut it: the page, the subtree, the budget, the depth, a
\* name; and whenever, between its listing and that of the others, the tree
\* changed (scene.rs render_directory_body, session.rs directory_page).
THEOREM OmissionsAlwaysMarked == Spec => []OmissionsMarked
<1>1. PagesTypeOK => OmissionsMarked
  <2> SUFFICES ASSUME PagesTypeOK, NEW at \in Glimpses,
                      NEW b \in RenderBudgets, NEW detail \in CellDetails
               PROVE  LET W == WorldNow(at)
                          shot == Snapshot(W)
                          S == SurfaceSnapshot(W, shot, detail)
                          scene == Encode(S, b)
                      IN /\ Root \in scene.shown \/ scene.moreRoots
                         /\ \A d \in scene.shown \cap expanded \cap DOMAIN W.tree :
                              ~(ToSet(W.tree[d]) \subseteq scene.shown)
                                => d \in scene.marked
    BY DEF OmissionsMarked, EveryScene
  <2> DEFINE W == WorldNow(at)
             shot == Snapshot(W)
             S == SurfaceSnapshot(W, shot, detail)
             scene == Encode(S, b)
  <2>1. /\ FaithfulSnapshot(shot, S) /\ Depicts(W, S)
        /\ SceneComplete(shot, S, scene)
    BY EveryEncodeCompletes
  <2> HIDE DEF W, shot, S, scene
  <2>2. ASSUME NEW d \in scene.shown \cap expanded \cap DOMAIN W.tree,
               ~(ToSet(W.tree[d]) \subseteq scene.shown)
        PROVE  d \in scene.marked
    <3>1. d \in DOMAIN S
      BY <2>1 DEF SceneComplete
    <3>2. d \in OpenDirectories(S)
      BY <2>1, <3>1 DEF FaithfulSnapshot, Depicts, OpenDirectories
    <3>3. Settled(S, scene, d)
      BY <2>1, <3>2 DEF SceneComplete
    <3>4. S[d].tokens = {} => ToSet(W.tree[d]) \subseteq ToSet(S[d].nodes)
      BY <2>1, <3>1 DEF Depicts
    <3> QED
      BY <2>2, <3>3, <3>4 DEF Settled
  <2>3. Root \in scene.shown \/ scene.moreRoots
    BY <2>1 DEF SceneComplete
  <2> QED
    BY <2>2, <2>3 DEF W, shot, S, scene
<1> QED
  BY <1>1, PagesTyped, PTL

\* Whatever a scene offers, and what a host may send for what it shows, is
\* accepted by the session that answered it (intent.rs, operation.rs,
\* session.rs apply_surface_local, dispatch.rs).
THEOREM OfferedControlsAlwaysRun == Spec => []OfferedControlsRun
<1>1. PagesTypeOK => OfferedControlsRun
  <2> SUFFICES ASSUME PagesTypeOK, NEW at \in Glimpses,
                      NEW b \in RenderBudgets, NEW detail \in CellDetails
               PROVE  LET W == WorldNow(at)
                          shot == Snapshot(W)
                          S == SurfaceSnapshot(W, shot, detail)
                          scene == Encode(S, b)
                      IN \A i \in scene.offered \cup HostIntents(scene, S) : Works(shot, i)
    BY DEF OfferedControlsRun, EveryScene, Works, Runs
  <2> DEFINE W == WorldNow(at)
             shot == Snapshot(W)
             S == SurfaceSnapshot(W, shot, detail)
             scene == Encode(S, b)
  <2>1. SceneComplete(shot, S, scene)
    BY EveryEncodeCompletes
  <2> HIDE DEF W, shot, S, scene
  <2>2. \A i \in HostIntents(scene, S) : Works(shot, i)
    BY HostIntentsWork
  <2>3. \A i \in scene.offered \cup HostIntents(scene, S) : Works(shot, i)
    BY <2>1, <2>2 DEF SceneComplete
  <2> QED
    BY <2>3 DEF W, shot, S, scene
<1> QED
  BY <1>1, PagesTyped, PTL
=============================================================================
