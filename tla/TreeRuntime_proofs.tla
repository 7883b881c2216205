------------------------- MODULE TreeRuntime_proofs -------------------------
(***************************************************************************)
(* The live tree describes one tree: proofs, for every set of names,       *)
(* sources and backends and for every bound, that the five copies a        *)
(* TreeState keeps agree after every operation, refused or not.            *)
(***************************************************************************)
EXTENDS TreeRuntime, SequenceTheorems, TLAPS

PathNames == Names \cup ({"cell", "dir"} \X Nat)
Paths == Seq(PathNames)
DirIds == {"dir"} \X Nat
NodeIds == ({"cell"} \X Nat) \cup DirIds

\* The types of the namespace records, the listing and the id counters.
TreeTypeOK ==
  /\ DOMAIN entries \in SUBSET Paths
  /\ entries \in [DOMAIN entries -> NodeIds]
  /\ DOMAIN records \in SUBSET NodeIds
  /\ records = [r \in DOMAIN records |-> records[r]]
  /\ \A r \in DOMAIN records : records[r].parent \in DirIds
  /\ next_cell_id \in Nat /\ next_dir_id \in Nat

Cell == [id : NodeIds, source : Sources, revision : Nat]

\* The types of the other copies.
DataTypeOK ==
  /\ cells \in [DOMAIN cells -> Cell]
  /\ mounts \in [DOMAIN mounts -> [resource : Resources, backend : Backends]]
  /\ counters \in [DOMAIN counters -> Nat]
  /\ source_revision \in Nat

RuntimeTypeOK == TreeTypeOK /\ DataTypeOK

\* A node id, or the parent a record names, was handed out before.
IssuedBy(id, cell, dir) == id[2] <= IF id[1] = "cell" THEN cell ELSE dir
Issued(id) == IssuedBy(id, next_cell_id, next_dir_id)
IssuedNext(id) == IssuedBy(id, next_cell_id', next_dir_id')

IdsIssued == \A r \in DOMAIN records : Issued(r) /\ Issued(records[r].parent)

\* Every listed path is listed with all the directories above it.  It follows
\* from EntriesNamed by induction on the path; here every step keeps it.
PrefixesListed ==
  \A p \in DOMAIN entries : \A k \in 0 .. Len(p) : SubSeq(p, 1, k) \in DOMAIN entries

\* The inductive invariant of the listing and the records.
ListingInv == TreeTypeOK /\ IdsIssued /\ PrefixesListed /\ EntriesNamed

\* The root is never a mount, so no operation deletes it.
RootNotMounted == Root \notin DOMAIN mounts

TreeInv == ListingInv /\ DataTypeOK /\ RootNotMounted

----------------------------------------------------------------------------
(***************************************************************************)
(* Paths: a path is known by its length and its names.                     *)
(***************************************************************************)
LEMMA PathLen ==
  ASSUME NEW p \in Paths
  PROVE  Len(p) \in Nat /\ \A i \in 1 .. Len(p) : p[i] \in PathNames
  BY LenProperties, ElementOfSeq DEF Paths

LEMMA PathEqual ==
  ASSUME NEW p \in Paths, NEW q \in Paths, Len(p) = Len(q),
         \A i \in 1 .. Len(p) : p[i] = q[i]
  PROVE  p = q
  BY SeqEqual DEF Paths

LEMMA RootPath ==
  /\ Root \in Paths /\ Len(Root) = 0
  /\ \A p \in Paths : Len(p) = 0 => p = Root
<1>1. Root \in Paths /\ Len(Root) = 0
  BY EmptySeq DEF Root, Paths
<1>2. \A p \in Paths : Len(p) = 0 => p = Root
  BY EmptySeq DEF Root, Paths
<1> QED
  BY <1>1, <1>2

LEMMA SubPath ==
  ASSUME NEW p \in Paths, NEW m \in Nat, NEW n \in Nat,
         1 <= m, m <= n + 1, n <= Len(p)
  PROVE  /\ SubSeq(p, m, n) \in Paths
         /\ Len(SubSeq(p, m, n)) = n - m + 1
         /\ \A i \in 1 .. n - m + 1 : SubSeq(p, m, n)[i] = p[m + i - 1]
<1>1. \A i \in m .. n : p[i] \in PathNames
  BY PathLen
<1>2. /\ SubSeq(p, m, n) \in Seq(PathNames)
      /\ Len(SubSeq(p, m, n)) = IF m <= n THEN n - m + 1 ELSE 0
      /\ \A i \in 1 .. n - m + 1 : SubSeq(p, m, n)[i] = p[m + i - 1]
  BY <1>1, SubSeqProperties
<1> QED
  BY <1>2 DEF Paths

LEMMA PrefixPath ==
  ASSUME NEW p \in Paths, NEW k \in Nat, k <= Len(p)
  PROVE  /\ SubSeq(p, 1, k) \in Paths
         /\ Len(SubSeq(p, 1, k)) = k
         /\ \A i \in 1 .. k : SubSeq(p, 1, k)[i] = p[i]
<1>1. /\ SubSeq(p, 1, k) \in Paths
      /\ Len(SubSeq(p, 1, k)) = k - 1 + 1
      /\ \A i \in 1 .. k - 1 + 1 : SubSeq(p, 1, k)[i] = p[1 + i - 1]
  BY SubPath
<1> QED
  BY <1>1, PathLen

\* path_within, name by name.
LEMMA WithinNames ==
  ASSUME NEW a \in Paths, NEW p \in Paths
  PROVE  Within(a, p) <=> /\ Len(a) <= Len(p)
                          /\ \A i \in 1 .. Len(a) : p[i] = a[i]
<1>1. ASSUME Within(a, p)
      PROVE  Len(a) <= Len(p) /\ \A i \in 1 .. Len(a) : p[i] = a[i]
  BY <1>1, PathLen, PrefixPath DEF Within
<1>2. ASSUME Len(a) <= Len(p), \A i \in 1 .. Len(a) : p[i] = a[i]
      PROVE  Within(a, p)
  <2> DEFINE q == SubSeq(p, 1, Len(a))
  <2>1. q \in Paths /\ Len(q) = Len(a) /\ \A i \in 1 .. Len(a) : q[i] = p[i]
    BY <1>2, PathLen, PrefixPath
  <2> HIDE DEF q
  <2>2. q = a
    BY <1>2, <2>1, PathEqual
  <2> QED
    BY <1>2, <2>2 DEF Within, q
<1> QED
  BY <1>1, <1>2

\* Within is an order.
LEMMA WithinSelf ==
  ASSUME NEW p \in Paths
  PROVE  Within(p, p)
  BY WithinNames, PathLen

LEMMA WithinTransitive ==
  ASSUME NEW a \in Paths, NEW b \in Paths, NEW p \in Paths,
         Within(a, b), Within(b, p)
  PROVE  Within(a, p)
  BY WithinNames, PathLen

LEMMA WithinSameLength ==
  ASSUME NEW a \in Paths, NEW p \in Paths, Within(a, p), Len(p) <= Len(a)
  PROVE  a = p
  BY WithinNames, PathLen, PathEqual

\* Two paths above the same path are one above the other.
LEMMA WithinComparable ==
  ASSUME NEW a \in Paths, NEW b \in Paths, NEW p \in Paths,
         Within(a, p), Within(b, p), Len(a) <= Len(b)
  PROVE  Within(a, b)
  BY WithinNames, PathLen

LEMMA PrefixWithin ==
  ASSUME NEW p \in Paths, NEW k \in Nat, k <= Len(p)
  PROVE  Within(SubSeq(p, 1, k), p)
  BY PrefixPath, WithinNames, PathLen

LEMMA WithinIsPrefix ==
  ASSUME NEW a \in Paths, NEW p \in Paths, Within(a, p)
  PROVE  Len(a) \in 0 .. Len(p) /\ SubSeq(p, 1, Len(a)) = a
  BY PathLen DEF Within

\* split_path
LEMMA ParentPath ==
  ASSUME NEW p \in Paths, p # Root
  PROVE  /\ Len(p) >= 1 /\ Name(p) \in PathNames
         /\ Parent(p) \in Paths /\ Len(Parent(p)) = Len(p) - 1
         /\ \A i \in 1 .. Len(p) - 1 : Parent(p)[i] = p[i]
         /\ Within(Parent(p), p) /\ Parent(p) # p
<1>1. Len(p) \in Nat /\ Len(p) >= 1
  BY PathLen, RootPath
<1>2. Name(p) \in PathNames
  BY <1>1, PathLen DEF Name
<1>3. /\ Parent(p) \in Paths /\ Len(Parent(p)) = Len(p) - 1
      /\ \A i \in 1 .. Len(p) - 1 : Parent(p)[i] = p[i]
  <2> DEFINE k == Len(p) - 1
  <2>1. k \in Nat /\ k <= Len(p)
    BY <1>1
  <2> HIDE DEF k
  <2>2. /\ SubSeq(p, 1, k) \in Paths /\ Len(SubSeq(p, 1, k)) = k
        /\ \A i \in 1 .. k : SubSeq(p, 1, k)[i] = p[i]
    BY <2>1, PrefixPath
  <2> QED
    BY <2>2 DEF Parent, k
<1>4. Within(Parent(p), p)
  BY <1>1, <1>3, WithinNames
<1> QED
  BY <1>1, <1>2, <1>3, <1>4

\* What lies strictly below a path lies within it one name up.
LEMMA WithinParent ==
  ASSUME NEW a \in Paths, NEW p \in Paths, p # Root
  PROVE  /\ Within(a, p) /\ a # p => Within(a, Parent(p))
         /\ Within(a, Parent(p)) => Within(a, p) /\ a # p
<1>1. ASSUME Within(a, p), a # p
      PROVE  Within(a, Parent(p))
  <2>1. Len(a) <= Len(p) - 1
    BY <1>1, WithinSameLength, WithinNames, PathLen
  <2> QED
    BY <1>1, <2>1, ParentPath, WithinComparable
<1>2. ASSUME Within(a, Parent(p))
      PROVE  Within(a, p) /\ a # p
  BY <1>2, ParentPath, WithinTransitive, WithinNames, PathLen
<1> QED
  BY <1>1, <1>2

LEMMA AppendPath ==
  ASSUME NEW p \in Paths, NEW n \in PathNames
  PROVE  /\ Append(p, n) \in Paths /\ Append(p, n) # Root
         /\ Parent(Append(p, n)) = p /\ Name(Append(p, n)) = n
<1> DEFINE q == Append(p, n)
<1>1. /\ q \in Paths /\ q # Root /\ Len(q) = Len(p) + 1
      /\ \A i \in 1 .. Len(p) : q[i] = p[i]
      /\ q[Len(p) + 1] = n
  BY AppendProperties DEF Paths, Root
<1> HIDE DEF q
<1>2. Parent(q) = p
  <2>1. /\ Parent(q) \in Paths /\ Len(Parent(q)) = Len(q) - 1
        /\ \A i \in 1 .. Len(q) - 1 : Parent(q)[i] = q[i]
    BY <1>1, ParentPath
  <2>2. Len(Parent(q)) = Len(p) /\ \A i \in 1 .. Len(p) : Parent(q)[i] = p[i]
    BY <1>1, <2>1, PathLen
  <2> QED
    BY <2>1, <2>2, PathEqual
<1>3. Name(q) = n
  BY <1>1 DEF Name
<1> QED
  BY <1>1, <1>2, <1>3 DEF q

LEMMA AppendParent ==
  ASSUME NEW p \in Paths, p # Root
  PROVE  Append(Parent(p), Name(p)) = p
<1> DEFINE q == Append(Parent(p), Name(p))
<1>1. /\ q \in Paths /\ Len(q) = Len(p) - 1 + 1
      /\ \A i \in 1 .. Len(p) - 1 : q[i] = p[i]
      /\ q[Len(p) - 1 + 1] = Name(p)
  BY ParentPath, AppendProperties DEF Paths
<1> HIDE DEF q
<1>2. Len(q) = Len(p) /\ q[Len(p)] = p[Len(p)]
  BY <1>1, PathLen DEF Name
<1>3. q = p
  BY <1>1, <1>2, PathLen, PathEqual
<1> QED
  BY <1>3 DEF q

----------------------------------------------------------------------------
(***************************************************************************)
(* rekey_subtree: what lies within from is put within to.                  *)
(***************************************************************************)
LEMMA RekeyedNames ==
  ASSUME NEW from \in Paths, NEW to \in Paths, NEW p \in Paths, Within(from, p)
  PROVE  LET q == Rekeyed(p, from, to) IN
         /\ q \in Paths /\ Len(q) = Len(to) + Len(p) - Len(from)
         /\ \A i \in 1 .. Len(to) : q[i] = to[i]
         /\ \A i \in Len(from) + 1 .. Len(p) : q[Len(to) + i - Len(from)] = p[i]
<1> DEFINE rest == SubSeq(p, Len(from) + 1, Len(p))
           q == to \o rest
<1>1. Len(from) \in Nat /\ Len(p) \in Nat /\ Len(to) \in Nat /\ Len(from) <= Len(p)
  BY PathLen, WithinNames
<1>2. /\ rest \in Paths /\ Len(rest) = Len(p) - (Len(from) + 1) + 1
      /\ \A i \in 1 .. Len(p) - (Len(from) + 1) + 1 : rest[i] = p[Len(from) + 1 + i - 1]
  BY <1>1, SubPath
<1> HIDE DEF rest
<1>3. Len(rest) = Len(p) - Len(from)
      /\ \A i \in 1 .. Len(p) - Len(from) : rest[i] = p[Len(from) + i]
  BY <1>1, <1>2
<1>4. /\ q \in Paths /\ Len(q) = Len(to) + Len(rest)
      /\ \A i \in 1 .. Len(to) + Len(rest) :
           q[i] = IF i <= Len(to) THEN to[i] ELSE rest[i - Len(to)]
  BY <1>2, ConcatProperties DEF Paths
<1>5. Rekeyed(p, from, to) = q
  BY DEF Rekeyed, rest
<1> HIDE DEF q
<1>6. \A i \in 1 .. Len(to) : q[i] = to[i]
  BY <1>1, <1>3, <1>4
<1>7. ASSUME NEW i \in Len(from) + 1 .. Len(p)
      PROVE  q[Len(to) + i - Len(from)] = p[i]
  <2>1. q[Len(to) + i - Len(from)] = rest[i - Len(from)]
    <3> DEFINE j == Len(to) + i - Len(from)
    <3>1. j \in 1 .. Len(to) + Len(rest) /\ ~(j <= Len(to)) /\ j - Len(to) = i - Len(from)
      BY <1>1, <1>3
    <3> HIDE DEF j
    <3>2. q[j] = rest[j - Len(to)]
      BY <1>4, <3>1
    <3> QED
      BY <3>1, <3>2 DEF j
  <2>2. rest[i - Len(from)] = p[i]
    <3>1. i - Len(from) \in 1 .. Len(p) - Len(from) /\ Len(from) + (i - Len(from)) = i
      BY <1>1
    <3> QED
      BY <1>3, <3>1
  <2> QED
    BY <2>1, <2>2
<1> QED
  BY <1>1, <1>3, <1>4, <1>5, <1>6, <1>7

\* A path that is not within from keeps its name; one that is gets within to.
LEMMA RekeyedPath ==
  ASSUME NEW from \in Paths, NEW to \in Paths, NEW p \in Paths
  PROVE  /\ Rekeyed(p, from, to) \in Paths
         /\ ~Within(from, p) => Rekeyed(p, from, to) = p
         /\ Within(from, p) => Within(to, Rekeyed(p, from, to))
<1>1. CASE Within(from, p)
  <2> DEFINE q == Rekeyed(p, from, to)
  <2>1. /\ q \in Paths /\ Len(q) = Len(to) + Len(p) - Len(from)
        /\ \A i \in 1 .. Len(to) : q[i] = to[i]
    BY <1>1, RekeyedNames
  <2> HIDE DEF q
  <2>2. Within(to, q)
    BY <1>1, <2>1, WithinNames, PathLen
  <2> QED
    BY <1>1, <2>1, <2>2 DEF q
<1>2. CASE ~Within(from, p)
  BY <1>2 DEF Rekeyed
<1> QED
  BY <1>1, <1>2

LEMMA RekeyedSelf ==
  ASSUME NEW from \in Paths, NEW to \in Paths
  PROVE  Rekeyed(from, from, to) = to
<1> DEFINE q == Rekeyed(from, from, to)
<1>1. /\ q \in Paths /\ Len(q) = Len(to) + Len(from) - Len(from)
      /\ \A i \in 1 .. Len(to) : q[i] = to[i]
  BY WithinSelf, RekeyedNames
<1> HIDE DEF q
<1>2. q = to
  BY <1>1, PathLen, PathEqual
<1> QED
  BY <1>2 DEF q

\* No two paths within from get the same path.
LEMMA RekeyedCancel ==
  ASSUME NEW from \in Paths, NEW to \in Paths, NEW p \in Paths, NEW q \in Paths,
         Within(from, p), Within(from, q), Rekeyed(p, from, to) = Rekeyed(q, from, to)
  PROVE  p = q
<1> DEFINE r == Rekeyed(p, from, to)
<1>1. /\ Len(r) = Len(to) + Len(p) - Len(from)
      /\ \A i \in Len(from) + 1 .. Len(p) : r[Len(to) + i - Len(from)] = p[i]
  BY RekeyedNames
<1>2. /\ Len(r) = Len(to) + Len(q) - Len(from)
      /\ \A i \in Len(from) + 1 .. Len(q) : r[Len(to) + i - Len(from)] = q[i]
  <2> DEFINE t == Rekeyed(q, from, to)
  <2>1. /\ Len(t) = Len(to) + Len(q) - Len(from)
        /\ \A i \in Len(from) + 1 .. Len(q) : t[Len(to) + i - Len(from)] = q[i]
    BY RekeyedNames
  <2>2. r = t
    OBVIOUS
  <2> QED
    BY <2>1, <2>2
<1> HIDE DEF r
<1>3. Len(from) \in Nat /\ Len(to) \in Nat /\ Len(p) \in Nat /\ Len(q) \in Nat
  BY PathLen
<1>4. Len(p) = Len(q)
  BY <1>1, <1>2, <1>3
<1>5. ASSUME NEW i \in 1 .. Len(p)
      PROVE  p[i] = q[i]
  <2>1. CASE i <= Len(from)
    BY <1>3, <2>1, WithinNames
  <2>2. CASE i > Len(from)
    <3>1. i \in Len(from) + 1 .. Len(p) /\ i \in Len(from) + 1 .. Len(q)
      BY <1>3, <1>4, <2>2
    <3> QED
      BY <1>1, <1>2, <3>1
  <2> QED
    BY <1>3, <2>1, <2>2
<1> QED
  BY <1>4, <1>5, PathEqual

\* Below from, rekeying goes prefix by prefix.
LEMMA RekeyedPrefix ==
  ASSUME NEW from \in Paths, NEW to \in Paths, NEW p \in Paths, Within(from, p),
         NEW k \in Nat, Len(from) <= k, k <= Len(p)
  PROVE  /\ Within(from, SubSeq(p, 1, k))
         /\ Rekeyed(SubSeq(p, 1, k), from, to)
              = SubSeq(Rekeyed(p, from, to), 1, Len(to) + k - Len(from))
<1> DEFINE s == SubSeq(p, 1, k)
           r == Rekeyed(p, from, to)
           l == Len(to) + k - Len(from)
           t == SubSeq(r, 1, l)
           u == Rekeyed(s, from, to)
<1>1. Len(from) \in Nat /\ Len(to) \in Nat /\ Len(p) \in Nat
  BY PathLen
<1>2. s \in Paths /\ Len(s) = k /\ \A i \in 1 .. k : s[i] = p[i]
  BY PrefixPath
<1> HIDE DEF s
<1>3. Within(from, s)
  BY <1>1, <1>2, WithinNames
<1>4. /\ r \in Paths /\ Len(r) = Len(to) + Len(p) - Len(from)
      /\ \A i \in 1 .. Len(to) : r[i] = to[i]
      /\ \A i \in Len(from) + 1 .. Len(p) : r[Len(to) + i - Len(from)] = p[i]
  BY RekeyedNames
<1>5. /\ u \in Paths /\ Len(u) = Len(to) + Len(s) - Len(from)
      /\ \A i \in 1 .. Len(to) : u[i] = to[i]
      /\ \A i \in Len(from) + 1 .. Len(s) : u[Len(to) + i - Len(from)] = s[i]
  BY <1>2, <1>3, RekeyedNames
<1> HIDE DEF r, u
<1>6. l \in Nat /\ l <= Len(r) /\ Len(u) = l
  BY <1>1, <1>2, <1>4, <1>5
<1> HIDE DEF l
<1>7. t \in Paths /\ Len(t) = l /\ \A i \in 1 .. l : t[i] = r[i]
  BY <1>4, <1>6, PrefixPath
<1> HIDE DEF t
<1>8. ASSUME NEW i \in 1 .. l
      PROVE  u[i] = t[i]
  <2>1. CASE i <= Len(to)
    <3>1. i \in 1 .. Len(to)
      BY <1>1, <1>6, <2>1
    <3> QED
      BY <1>4, <1>5, <1>7, <3>1
  <2>2. CASE i > Len(to)
    <3> DEFINE j == i - Len(to) + Len(from)
    <3>1. /\ j \in Len(from) + 1 .. Len(s) /\ j \in Len(from) + 1 .. Len(p)
          /\ j \in 1 .. k /\ Len(to) + j - Len(from) = i
      BY <1>1, <1>2, <1>6, <2>2 DEF l
    <3> HIDE DEF j
    <3> QED
      BY <1>2, <1>4, <1>5, <1>7, <3>1
  <2> QED
    BY <1>1, <1>6, <2>1, <2>2
<1>9. u = t
  BY <1>5, <1>6, <1>7, <1>8, PathEqual
<1> QED
  BY <1>3, <1>9 DEF s, r, l, t, u

\* Below from, a moved path keeps its name and its parent is moved with it.
LEMMA RekeyedParent ==
  ASSUME NEW from \in Paths, NEW to \in Paths, NEW p \in Paths,
         Within(from, p), p # from
  PROVE  /\ p # Root /\ Within(from, Parent(p))
         /\ Rekeyed(p, from, to) # Root
         /\ Parent(Rekeyed(p, from, to)) = Rekeyed(Parent(p), from, to)
         /\ Name(Rekeyed(p, from, to)) = Name(p)
<1> DEFINE r == Rekeyed(p, from, to)
           k == Len(p) - 1
<1>1. Len(from) \in Nat /\ Len(to) \in Nat /\ Len(p) \in Nat
  BY PathLen
<1>2. Len(from) < Len(p)
  BY <1>1, WithinNames, WithinSameLength
<1>3. p # Root
  BY <1>1, <1>2, RootPath
<1>4. k \in Nat /\ Len(from) <= k /\ k <= Len(p)
  BY <1>1, <1>2
<1>5. /\ r \in Paths /\ Len(r) = Len(to) + Len(p) - Len(from)
      /\ \A i \in Len(from) + 1 .. Len(p) : r[Len(to) + i - Len(from)] = p[i]
  BY RekeyedNames
<1>6. /\ Within(from, SubSeq(p, 1, k))
      /\ Rekeyed(SubSeq(p, 1, k), from, to) = SubSeq(r, 1, Len(to) + k - Len(from))
  <2> HIDE DEF k
  <2> QED
    BY <1>4, RekeyedPrefix
<1> HIDE DEF r
<1>7. Len(to) + k - Len(from) = Len(r) - 1 /\ Len(r) > 0
  BY <1>1, <1>2, <1>5
<1>8. Parent(r) = Rekeyed(Parent(p), from, to) /\ Within(from, Parent(p))
  BY <1>6, <1>7 DEF Parent
<1>9. Name(r) = Name(p)
  <2>1. Len(p) \in Len(from) + 1 .. Len(p)
    BY <1>1, <1>2
  <2> QED
    BY <1>5, <2>1 DEF Name
<1>10. r # Root
  BY <1>7, RootPath
<1> QED
  BY <1>3, <1>8, <1>9, <1>10 DEF r

----------------------------------------------------------------------------
(***************************************************************************)
(* The steps, by what they do to the listing.                              *)
(***************************************************************************)
\* Listed paths are paths and their ids are node ids.
LEMMA ListedPath ==
  ASSUME TreeTypeOK, NEW p \in DOMAIN entries
  PROVE  p \in Paths /\ entries[p] \in NodeIds
  BY DEF TreeTypeOK

\* A path above a listed path is listed.
LEMMA AboveListed ==
  ASSUME TreeTypeOK, PrefixesListed, NEW p \in DOMAIN entries,
         NEW a \in Paths, Within(a, p)
  PROVE  a \in DOMAIN entries
<1>1. Len(a) \in 0 .. Len(p) /\ SubSeq(p, 1, Len(a)) = a
  BY ListedPath, WithinIsPrefix
<1> QED
  BY <1>1 DEF PrefixesListed

\* The record of a listed node.
LEMMA NamedEntry ==
  ASSUME ListingInv, NEW q \in DOMAIN entries, q # Root
  PROVE  /\ Parent(q) \in DOMAIN entries
         /\ entries[q] \in DOMAIN records
         /\ records[entries[q]] = [parent |-> entries[Parent(q)], name |-> Name(q)]
  BY DEF ListingInv, EntriesNamed

LEMMA OneNode ==
  ASSUME ListingInv, NEW p \in DOMAIN entries, NEW q \in DOMAIN entries,
         entries[p] = entries[q]
  PROVE  p = q
  BY DEF ListingInv, EntriesNamed

\* The directories above a listed path are directories.
LEMMA ParentsAreDirs ==
  ASSUME ListingInv, NEW p \in DOMAIN entries, p # Root
  PROVE  Parent(p) \in DOMAIN entries /\ entries[Parent(p)] \in DirIds
<1>1. /\ Parent(p) \in DOMAIN entries
      /\ entries[p] \in DOMAIN records
      /\ records[entries[p]] = [parent |-> entries[Parent(p)], name |-> Name(p)]
  BY DEF ListingInv, EntriesNamed
<1>2. entries[Parent(p)] = records[entries[p]].parent
  BY <1>1
<1> QED
  BY <1>1, <1>2 DEF ListingInv, TreeTypeOK

\* Nothing is listed below a cell.
LEMMA NothingBelowCell ==
  ASSUME ListingInv, NEW p \in DOMAIN entries, entries[p][1] = "cell",
         NEW q \in DOMAIN entries, Within(p, q)
  PROVE  q = p
<1> SUFFICES ASSUME q # p
             PROVE  FALSE
  OBVIOUS
<1>1. p \in Paths /\ q \in Paths
  BY ListedPath DEF ListingInv
<1> DEFINE k == Len(p) + 1
           c == SubSeq(q, 1, k)
<1>2. Len(p) \in Nat /\ Len(q) \in Nat /\ k \in 0 .. Len(q)
  BY <1>1, PathLen, WithinNames, WithinSameLength
<1>3. c \in DOMAIN entries
  BY <1>2 DEF ListingInv, PrefixesListed
<1>4. c \in Paths /\ Len(c) = k
  BY <1>1, <1>2, PrefixPath
<1>5. Within(c, q)
  BY <1>1, <1>2, PrefixWithin
<1> HIDE DEF c
<1>10. Within(p, c)
  BY <1>1, <1>2, <1>4, <1>5, WithinComparable
<1>6. c # Root /\ p # c
  BY <1>2, <1>4, RootPath
<1>7. Within(p, Parent(c)) /\ Parent(c) \in Paths /\ Len(Parent(c)) = Len(p)
  BY <1>1, <1>2, <1>4, <1>10, <1>6, WithinParent, ParentPath
<1>8. Parent(c) = p
  BY <1>1, <1>2, <1>7, WithinSameLength
<1>9. entries[p] \in DirIds
  BY <1>3, <1>6, <1>8, ParentsAreDirs
<1> QED
  BY <1>9 DEF DirIds

\* A free name under a listed directory is a path that is not listed.
LEMMA FreeIsUnlisted ==
  ASSUME ListingInv, NEW p \in DOMAIN entries, NEW name \in PathNames,
         ~Taken(entries[p], name)
  PROVE  /\ Append(p, name) \in Paths \ {Root}
         /\ Append(p, name) \notin DOMAIN entries
<1> DEFINE q == Append(p, name)
<1>1. q \in Paths /\ q # Root /\ Parent(q) = p /\ Name(q) = name
  BY ListedPath, AppendPath DEF ListingInv
<1> HIDE DEF q
<1>2. ASSUME q \in DOMAIN entries
      PROVE  FALSE
  <2>1. /\ entries[q] \in DOMAIN records
        /\ records[entries[q]] = [parent |-> entries[p], name |-> name]
    BY <1>1, <1>2 DEF ListingInv, EntriesNamed
  <2> QED
    BY <2>1 DEF Taken
<1> QED
  BY <1>1, <1>2 DEF q

\* The id of every listed node was issued.
LEMMA ListedIssued ==
  ASSUME ListingInv, NEW p \in DOMAIN entries
  PROVE  Issued(entries[p]) /\ (p # Root => entries[p] \in DOMAIN records)
<1>1. CASE p = Root
  BY <1>1 DEF ListingInv, EntriesNamed, TreeTypeOK, Issued, IssuedBy, RootId
<1>2. CASE p # Root
  BY <1>2 DEF ListingInv, EntriesNamed, IdsIssued
<1> QED
  BY <1>1, <1>2

----------------------------------------------------------------------------
\* Ids are handed out in order.
IdsGrow ==
  /\ next_cell_id' \in Nat /\ next_cell_id <= next_cell_id'
  /\ next_dir_id' \in Nat /\ next_dir_id <= next_dir_id'

\* A step that leaves the records and the listing alone.
Leaves == UNCHANGED <<records, entries>> /\ IdsGrow

\* A record for a new node under the listed directory p.
Records(p, name, id) ==
  /\ p \in DOMAIN entries /\ entries[p] \in DirIds
  /\ name \in PathNames /\ ~Taken(entries[p], name)
  /\ id \in NodeIds /\ ~Issued(id) /\ IssuedNext(id)
  /\ IdsGrow
  /\ records' = Put(records, id, [parent |-> entries[p], name |-> name])

\* The new node is recorded and listed, or recorded only.
Lists(p, name, id) ==
  Records(p, name, id) /\ entries' = Put(entries, Append(p, name), id)

RecordsOnly(p, name, id) == Records(p, name, id) /\ UNCHANGED entries

\* A node with nothing below it is forgotten.
Unlists(path) ==
  /\ path \in DOMAIN entries /\ path # Root
  /\ EnsureEmptyDir(path)
  /\ records' = Drop(records, entries[path])
  /\ entries' = Drop(entries, path)
  /\ UNCHANGED <<next_cell_id, next_dir_id>>

\* The entry from, with all that is below it, gets the path to.
Moves(from, to) ==
  /\ from \in DOMAIN entries /\ from # Root
  /\ to \in Paths /\ to # Root /\ to \notin DOMAIN entries
  /\ Parent(to) \in DOMAIN entries /\ entries[Parent(to)] \in DirIds
  /\ ~Within(from, Parent(to))
  /\ records' = [records EXCEPT ![entries[from]] =
                   [parent |-> entries[Parent(to)], name |-> Name(to)]]
  /\ entries' = Moved(entries, from, to)
  /\ UNCHANGED <<next_cell_id, next_dir_id>>

----------------------------------------------------------------------------
LEMMA IssuedGrows ==
  ASSUME TreeTypeOK, IdsGrow, NEW id \in NodeIds, Issued(id)
  PROVE  IssuedNext(id)
  BY DEF TreeTypeOK, IdsGrow, Issued, IssuedNext, IssuedBy, NodeIds, DirIds

LEMMA LeavesListing ==
  ASSUME ListingInv, Leaves
  PROVE  ListingInv'
<1>1. TreeTypeOK'
  BY DEF ListingInv, TreeTypeOK, Leaves, IdsGrow
<1>2. IdsIssued'
  <2>1. ASSUME NEW r \in DOMAIN records
        PROVE  IssuedNext(r) /\ IssuedNext(records[r].parent)
    BY IssuedGrows DEF ListingInv, TreeTypeOK, IdsIssued, Leaves, NodeIds
  <2> QED
    BY <2>1 DEF IdsIssued, Issued, IssuedNext, Leaves
<1>3. PrefixesListed' /\ EntriesNamed'
  BY DEF ListingInv, PrefixesListed, EntriesNamed, Leaves
<1> QED
  BY <1>1, <1>2, <1>3 DEF ListingInv

\* A new record keeps the types and the ids, and stands beside the others.
LEMMA RecordsKept ==
  ASSUME ListingInv, NEW p, NEW name, NEW id, Records(p, name, id)
  PROVE  /\ id \notin DOMAIN records
         /\ \A q \in DOMAIN entries : entries[q] # id
         /\ DOMAIN records' = DOMAIN records \cup {id}
         /\ records'[id] = [parent |-> entries[p], name |-> name]
         /\ \A r \in DOMAIN records : records'[r] = records[r]
         /\ IdsIssued'
<1>1. id \notin DOMAIN records /\ \A q \in DOMAIN entries : entries[q] # id
  BY ListedIssued DEF ListingInv, IdsIssued, Records
<1>2. /\ DOMAIN records' = DOMAIN records \cup {id}
      /\ records'[id] = [parent |-> entries[p], name |-> name]
      /\ \A r \in DOMAIN records : records'[r] = records[r]
  BY <1>1 DEF Records, Put
<1>3. /\ entries[p] \in NodeIds /\ Issued(entries[p])
      /\ TreeTypeOK /\ IdsGrow /\ IssuedNext(id)
  <2>1. p \in DOMAIN entries /\ IdsGrow /\ IssuedNext(id)
    BY DEF Records
  <2> QED
    BY <2>1, ListedIssued, ListedPath DEF ListingInv
<1>4. ASSUME NEW r \in DOMAIN records'
      PROVE  IssuedNext(r) /\ IssuedNext(records'[r].parent)
  <2>1. CASE r = id
    <3>1. records'[r].parent = entries[p]
      BY <1>2, <2>1
    <3>2. IssuedNext(entries[p])
      BY <1>3, IssuedGrows
    <3> QED
      BY <1>3, <2>1, <3>1, <3>2
  <2>2. CASE r # id
    <3>1. /\ r \in DOMAIN records /\ records'[r] = records[r] /\ r \in NodeIds
          /\ records[r].parent \in NodeIds
      BY <1>2, <1>3, <2>2 DEF TreeTypeOK, NodeIds
    <3>2. Issued(r) /\ Issued(records[r].parent)
      BY <3>1 DEF ListingInv, IdsIssued
    <3> QED
      BY <1>3, <3>1, <3>2, IssuedGrows
  <2> QED
    BY <2>1, <2>2
<1>5. IdsIssued'
  BY <1>4 DEF IdsIssued, Issued, IssuedNext
<1> QED
  BY <1>1, <1>2, <1>5

\* Types of the records after a new one.
LEMMA RecordsTyped ==
  ASSUME ListingInv, NEW p, NEW name, NEW id, Records(p, name, id)
  PROVE  /\ DOMAIN records' \in SUBSET NodeIds
         /\ records' = [r \in DOMAIN records' |-> records'[r]]
         /\ \A r \in DOMAIN records' : records'[r].parent \in DirIds
         /\ next_cell_id' \in Nat /\ next_dir_id' \in Nat
<1>1. /\ DOMAIN records' = DOMAIN records \cup {id}
      /\ records'[id] = [parent |-> entries[p], name |-> name]
      /\ \A r \in DOMAIN records : records'[r] = records[r]
  BY RecordsKept
<1>2. records' = [r \in DOMAIN records' |-> records'[r]]
  BY DEF Records, Put
<1>3. records'[id].parent \in DirIds
  BY <1>1 DEF Records
<1> QED
  BY <1>1, <1>2, <1>3 DEF Records, ListingInv, TreeTypeOK, IdsGrow

LEMMA RecordsOnlyListing ==
  ASSUME ListingInv, NEW p, NEW name, NEW id, RecordsOnly(p, name, id)
  PROVE  ListingInv'
<1>1. Records(p, name, id) /\ entries' = entries
  BY DEF RecordsOnly
<1>2. TreeTypeOK'
  BY <1>1, RecordsTyped DEF TreeTypeOK, ListingInv
<1>3. IdsIssued'
  BY <1>1, RecordsKept
<1>4. PrefixesListed'
  BY <1>1 DEF ListingInv, PrefixesListed
<1>5. EntriesNamed'
  <2>1. ASSUME NEW q \in DOMAIN entries, q # Root
        PROVE  /\ Parent(q) \in DOMAIN entries
               /\ entries[q] \in DOMAIN records'
               /\ records'[entries[q]] = [parent |-> entries[Parent(q)], name |-> Name(q)]
    BY <1>1, <2>1, NamedEntry, RecordsKept
  <2>2. Root \in DOMAIN entries /\ entries[Root] = RootId
    BY DEF ListingInv, EntriesNamed
  <2> QED
    BY <1>1, <2>1, <2>2, OneNode DEF EntriesNamed
<1> QED
  BY <1>2, <1>3, <1>4, <1>5 DEF ListingInv

\* What a newly listed node does to the listing.
LEMMA ListsEntry ==
  ASSUME ListingInv, NEW p, NEW name, NEW id, Lists(p, name, id)
  PROVE  LET path == Append(p, name) IN
         /\ path \in Paths \ {Root} /\ path \notin DOMAIN entries
         /\ Parent(path) = p /\ Name(path) = name
         /\ DOMAIN entries' = DOMAIN entries \cup {path}
         /\ entries'[path] = id
         /\ \A q \in DOMAIN entries : entries'[q] = entries[q]
<1> DEFINE path == Append(p, name)
<1>1. p \in DOMAIN entries /\ p \in Paths /\ name \in PathNames
  BY DEF Lists, Records, ListingInv, TreeTypeOK
<1>2. path \in Paths \ {Root} /\ path \notin DOMAIN entries
  BY <1>1, FreeIsUnlisted DEF Lists, Records
<1>3. Parent(path) = p /\ Name(path) = name
  BY <1>1, AppendPath
<1> HIDE DEF path
<1>4. /\ DOMAIN entries' = DOMAIN entries \cup {path}
      /\ entries'[path] = id
      /\ \A q \in DOMAIN entries : entries'[q] = entries[q]
  BY <1>2 DEF Lists, Put, path
<1> QED
  BY <1>2, <1>3, <1>4 DEF path

LEMMA ListsListing ==
  ASSUME ListingInv, NEW p, NEW name, NEW id, Lists(p, name, id)
  PROVE  ListingInv'
<1> DEFINE path == Append(p, name)
<1>1. Records(p, name, id)
  BY DEF Lists
<1>2. /\ path \in Paths \ {Root} /\ path \notin DOMAIN entries
      /\ Parent(path) = p /\ Name(path) = name
      /\ DOMAIN entries' = DOMAIN entries \cup {path}
      /\ entries'[path] = id
      /\ \A q \in DOMAIN entries : entries'[q] = entries[q]
  BY ListsEntry
<1>3. entries' = [q \in DOMAIN entries' |-> entries'[q]]
  BY DEF Lists, Put
<1> HIDE DEF path
<1>4. /\ p \in DOMAIN entries /\ id \in NodeIds
      /\ DOMAIN entries \in SUBSET Paths /\ entries \in [DOMAIN entries -> NodeIds]
  BY <1>1 DEF Records, ListingInv, TreeTypeOK
<1>5. TreeTypeOK'
  <2>1. entries' \in [DOMAIN entries' -> NodeIds] /\ DOMAIN entries' \in SUBSET Paths
    BY <1>2, <1>3, <1>4
  <2> QED
    BY <1>1, <2>1, RecordsTyped DEF TreeTypeOK
<1>6. IdsIssued'
  BY <1>1, RecordsKept
<1>7. PrefixesListed'
  <2>1. ASSUME NEW q \in DOMAIN entries', NEW k \in 0 .. Len(q)
        PROVE  SubSeq(q, 1, k) \in DOMAIN entries'
    <3>1. CASE q \in DOMAIN entries
      BY <1>2, <3>1 DEF ListingInv, PrefixesListed
    <3>2. CASE q = path
      <4> DEFINE a == SubSeq(path, 1, k)
      <4>1. a \in Paths /\ Within(a, path)
        BY <1>2, <3>2, PathLen, PrefixPath, PrefixWithin
      <4> HIDE DEF a
      <4>2. a = path \/ Within(a, p)
        BY <1>2, <4>1, WithinParent
      <4>3. Within(a, p) => a \in DOMAIN entries
        BY <1>4, <4>1, AboveListed DEF ListingInv
      <4> QED
        BY <1>2, <3>2, <4>2, <4>3 DEF a
    <3> QED
      BY <1>2, <3>1, <3>2
  <2> QED
    BY <2>1 DEF PrefixesListed
<1>8. EntriesNamed'
  <2>1. /\ id \notin DOMAIN records
        /\ \A q \in DOMAIN entries : entries[q] # id
        /\ DOMAIN records' = DOMAIN records \cup {id}
        /\ records'[id] = [parent |-> entries[p], name |-> name]
        /\ \A r \in DOMAIN records : records'[r] = records[r]
    BY <1>1, RecordsKept
  <2>2. Root \in DOMAIN entries' /\ entries'[Root] = RootId
    BY <1>2 DEF ListingInv, EntriesNamed
  <2>3. ASSUME NEW q \in DOMAIN entries' \ {Root}
        PROVE  /\ Parent(q) \in DOMAIN entries'
               /\ entries'[q] \in DOMAIN records'
               /\ records'[entries'[q]] = [parent |-> entries'[Parent(q)], name |-> Name(q)]
    <3>1. CASE q = path
      BY <1>2, <1>4, <2>1, <3>1
    <3>2. CASE q # path
      <4>1. q \in DOMAIN entries
        BY <1>2, <3>2
      <4> QED
        BY <1>2, <2>1, <4>1, NamedEntry
    <3> QED
      BY <3>1, <3>2
  <2>4. ASSUME NEW q \in DOMAIN entries', NEW r \in DOMAIN entries',
               entries'[q] = entries'[r]
        PROVE  q = r
    BY <1>2, <2>1, <2>4, OneNode
  <2> QED
    BY <2>2, <2>3, <2>4 DEF EntriesNamed
<1> QED
  BY <1>5, <1>6, <1>7, <1>8 DEF ListingInv

----------------------------------------------------------------------------
LEMMA UnlistsListing ==
  ASSUME ListingInv, NEW path, Unlists(path)
  PROVE  ListingInv'
<1>1. /\ path \in DOMAIN entries /\ path # Root /\ path \in Paths
      /\ DOMAIN entries' = DOMAIN entries \ {path}
      /\ \A q \in DOMAIN entries' : entries'[q] = entries[q]
      /\ entries' = [q \in DOMAIN entries' |-> entries'[q]]
      /\ DOMAIN records' = DOMAIN records \ {entries[path]}
      /\ \A r \in DOMAIN records' : records'[r] = records[r]
      /\ records' = [r \in DOMAIN records' |-> records'[r]]
      /\ next_cell_id' = next_cell_id /\ next_dir_id' = next_dir_id
  BY DEF Unlists, Drop, ListingInv, TreeTypeOK
<1>2. TreeTypeOK'
  BY <1>1 DEF ListingInv, TreeTypeOK
<1>3. IdsIssued'
  BY <1>1 DEF ListingInv, IdsIssued, Issued
<1>4. PrefixesListed'
  <2>1. ASSUME NEW q \in DOMAIN entries', NEW k \in 0 .. Len(q)
        PROVE  SubSeq(q, 1, k) \in DOMAIN entries'
    <3>1. q \in DOMAIN entries /\ q \in Paths /\ q # path
      BY <1>1 DEF ListingInv, TreeTypeOK
    <3>2. SubSeq(q, 1, k) \in DOMAIN entries
      BY <3>1 DEF ListingInv, PrefixesListed
    <3>3. Within(SubSeq(q, 1, k), q)
      BY <3>1, PathLen, PrefixWithin
    <3>4. SubSeq(q, 1, k) # path
      BY <3>1, <3>3 DEF Unlists, EnsureEmptyDir
    <3> QED
      BY <1>1, <3>2, <3>4
  <2> QED
    BY <2>1 DEF PrefixesListed
<1>5. EntriesNamed'
  <2>1. Root \in DOMAIN entries' /\ entries'[Root] = RootId
    BY <1>1 DEF ListingInv, EntriesNamed
  <2>2. ASSUME NEW q \in DOMAIN entries' \ {Root}
        PROVE  /\ Parent(q) \in DOMAIN entries'
               /\ entries'[q] \in DOMAIN records'
               /\ records'[entries'[q]] = [parent |-> entries'[Parent(q)], name |-> Name(q)]
    <3>1. q \in DOMAIN entries /\ q \in Paths /\ q # path /\ q # Root
      BY <1>1 DEF ListingInv, TreeTypeOK
    <3>2. /\ Parent(q) \in DOMAIN entries /\ entries[q] \in DOMAIN records
          /\ records[entries[q]] = [parent |-> entries[Parent(q)], name |-> Name(q)]
      BY <3>1, NamedEntry
    <3>3. Parent(q) # path
      BY <3>1, ParentPath DEF Unlists, EnsureEmptyDir
    <3>4. entries[q] # entries[path]
      BY <1>1, <3>1, OneNode
    <3> QED
      BY <1>1, <3>2, <3>3, <3>4
  <2>3. ASSUME NEW q \in DOMAIN entries', NEW r \in DOMAIN entries',
               entries'[q] = entries'[r]
        PROVE  q = r
    BY <1>1, <2>3, OneNode
  <2> QED
    BY <2>1, <2>2, <2>3 DEF EntriesNamed
<1> QED
  BY <1>2, <1>3, <1>4, <1>5 DEF ListingInv

----------------------------------------------------------------------------
\* The paths of S after a move.
Rekeys(S, from, to) == {Rekeyed(p, from, to) : p \in S}

\* A move gives every listed path a path of its own.
LEMMA RekeyedApart ==
  ASSUME ListingInv, NEW from, NEW to, Moves(from, to),
         NEW p \in DOMAIN entries, NEW q \in DOMAIN entries,
         Rekeyed(p, from, to) = Rekeyed(q, from, to)
  PROVE  p = q
<1>1. from \in Paths /\ to \in Paths /\ to \notin DOMAIN entries
      /\ p \in Paths /\ q \in Paths
  BY DEF Moves, ListingInv, TreeTypeOK
<1>2. ASSUME NEW a \in DOMAIN entries, NEW b \in DOMAIN entries, Within(from, a),
             ~Within(from, b), Rekeyed(a, from, to) = Rekeyed(b, from, to)
      PROVE  FALSE
  <2>1. a \in Paths /\ b \in Paths
    BY DEF ListingInv, TreeTypeOK
  <2>2. Within(to, b)
    BY <1>1, <1>2, <2>1, RekeyedPath
  <2> QED
    BY <1>1, <2>1, <2>2, AboveListed DEF ListingInv
<1>3. CASE Within(from, p) /\ Within(from, q)
  BY <1>1, <1>3, RekeyedCancel
<1>4. CASE ~Within(from, p) /\ ~Within(from, q)
  BY <1>1, <1>4, RekeyedPath
<1> QED
  BY <1>2, <1>3, <1>4

\* What a moved copy of the tree holds: at the new path of every listed path
\* what was at the old one, and nothing else.
LEMMA MovedCopy ==
  ASSUME ListingInv, NEW from, NEW to, Moves(from, to),
         NEW f, DOMAIN f \in SUBSET DOMAIN entries
  PROVE  /\ DOMAIN Moved(f, from, to) = Rekeys(DOMAIN f, from, to)
         /\ \A p \in DOMAIN f : Moved(f, from, to)[Rekeyed(p, from, to)] = f[p]
<1>1. DOMAIN Moved(f, from, to) = Rekeys(DOMAIN f, from, to)
  BY DEF Moved, Rekeys
<1>2. ASSUME NEW p \in DOMAIN f
      PROVE  Moved(f, from, to)[Rekeyed(p, from, to)] = f[p]
  <2> DEFINE r == Rekeyed(p, from, to)
             c == CHOOSE x \in DOMAIN f : Rekeyed(x, from, to) = r
  <2>1. c \in DOMAIN f /\ Rekeyed(c, from, to) = r
    OBVIOUS
  <2>2. c = p
    <3> HIDE DEF c
    <3> QED
      BY <2>1, RekeyedApart
  <2>3. Moved(f, from, to)[r] = f[c]
    BY DEF Moved
  <2> QED
    BY <2>2, <2>3
<1> QED
  BY <1>1, <1>2

\* What a move does to the listing and to the records.
LEMMA MovesEntries ==
  ASSUME ListingInv, NEW from, NEW to, Moves(from, to)
  PROVE  /\ from \in Paths /\ to \in Paths
         /\ DOMAIN entries' = Rekeys(DOMAIN entries, from, to)
         /\ \A p \in DOMAIN entries : entries'[Rekeyed(p, from, to)] = entries[p]
         /\ DOMAIN records' = DOMAIN records
         /\ records'[entries[from]] = [parent |-> entries[Parent(to)], name |-> Name(to)]
         /\ \A r \in DOMAIN records : r # entries[from] => records'[r] = records[r]
<1>1. from \in Paths /\ to \in Paths
  BY DEF Moves, ListingInv, TreeTypeOK
<1>2. /\ DOMAIN entries' = Rekeys(DOMAIN entries, from, to)
      /\ \A p \in DOMAIN entries : entries'[Rekeyed(p, from, to)] = entries[p]
  <2>1. entries' = Moved(entries, from, to)
    BY DEF Moves
  <2>2. /\ DOMAIN Moved(entries, from, to) = Rekeys(DOMAIN entries, from, to)
        /\ \A p \in DOMAIN entries :
             Moved(entries, from, to)[Rekeyed(p, from, to)] = entries[p]
    <3>1. DOMAIN entries \in SUBSET DOMAIN entries
      OBVIOUS
    <3> QED
      BY <3>1, MovedCopy
  <2> QED
    BY <2>1, <2>2
<1>3. entries[from] \in DOMAIN records
  BY NamedEntry DEF Moves
<1>4. /\ DOMAIN records' = DOMAIN records
      /\ records'[entries[from]] = [parent |-> entries[Parent(to)], name |-> Name(to)]
      /\ \A r \in DOMAIN records : r # entries[from] => records'[r] = records[r]
  BY <1>3 DEF Moves, ListingInv, TreeTypeOK
<1> QED
  BY <1>1, <1>2, <1>4

\* A move finds the parent of every moved path where the moved path says it is.
LEMMA MovedParents ==
  ASSUME ListingInv, NEW from, NEW to, Moves(from, to),
         NEW p \in DOMAIN entries, p # Root
  PROVE  LET q == Rekeyed(p, from, to) IN
         /\ q # Root
         /\ p = from => /\ q = to
                        /\ Parent(q) = Rekeyed(Parent(to), from, to)
         /\ p # from => /\ Parent(q) = Rekeyed(Parent(p), from, to)
                        /\ Name(q) = Name(p)
<1>1. /\ from \in Paths /\ to \in Paths /\ p \in Paths /\ to # Root
      /\ ~Within(from, Parent(to))
  BY DEF Moves, ListingInv, TreeTypeOK
<1>2. CASE p = from
  <2>1. Rekeyed(p, from, to) = to
    BY <1>1, <1>2, RekeyedSelf
  <2>2. Rekeyed(Parent(to), from, to) = Parent(to)
    BY <1>1, ParentPath, RekeyedPath
  <2> QED
    BY <1>1, <1>2, <2>1, <2>2
<1>3. CASE p # from /\ Within(from, p)
  BY <1>1, <1>3, RekeyedParent
<1>4. CASE p # from /\ ~Within(from, p)
  <2>1. ~Within(from, Parent(p)) /\ Parent(p) \in Paths
    BY <1>1, <1>4, WithinParent, ParentPath
  <2>2. Rekeyed(p, from, to) = p /\ Rekeyed(Parent(p), from, to) = Parent(p)
    BY <1>1, <1>4, <2>1, RekeyedPath
  <2> QED
    BY <1>4, <2>2
<1> QED
  BY <1>2, <1>3, <1>4

LEMMA MovesPrefixes ==
  ASSUME ListingInv, NEW from, NEW to, Moves(from, to)
  PROVE  PrefixesListed'
<1>1. /\ from \in Paths /\ to \in Paths /\ to # Root
      /\ Parent(to) \in DOMAIN entries /\ ~Within(from, Parent(to))
      /\ DOMAIN entries \in SUBSET Paths
      /\ TreeTypeOK /\ PrefixesListed
  BY DEF Moves, ListingInv, TreeTypeOK
<1>2. DOMAIN entries' = Rekeys(DOMAIN entries, from, to)
  BY MovesEntries
<1>3. ASSUME NEW a \in DOMAIN entries, ~Within(from, a)
      PROVE  a \in DOMAIN entries'
  <2>1. a = Rekeyed(a, from, to)
    BY <1>1, <1>3, RekeyedPath
  <2> QED
    BY <1>2, <2>1 DEF Rekeys
<1>4. ASSUME NEW p \in DOMAIN entries, NEW k \in 0 .. Len(Rekeyed(p, from, to))
      PROVE  SubSeq(Rekeyed(p, from, to), 1, k) \in DOMAIN entries'
  <2> DEFINE q == Rekeyed(p, from, to)
             a == SubSeq(q, 1, k)
  <2>1. p \in Paths /\ q \in Paths /\ Len(q) \in Nat /\ k \in Nat /\ k <= Len(q)
    <3>1. p \in Paths /\ q \in Paths
      BY <1>1, RekeyedPath
    <3> QED
      BY <3>1, PathLen
  <2>2. a \in Paths /\ Len(a) = k /\ Within(a, q)
    <3> HIDE DEF q
    <3> QED
      BY <2>1, PrefixPath, PrefixWithin
  <2>3. CASE ~Within(from, p)
    <3>1. q = p
      BY <1>1, <2>1, <2>3, RekeyedPath
    <3> HIDE DEF q, a
    <3>2. a \in DOMAIN entries
      BY <1>1, <2>2, <3>1, AboveListed
    <3>3. ~Within(from, a)
      BY <1>1, <2>1, <2>2, <2>3, <3>1, WithinTransitive
    <3>4. a \in DOMAIN entries'
      BY <1>3, <3>2, <3>3
    <3> QED
      BY <3>4 DEF q, a
  <2>4. CASE Within(from, p) /\ k < Len(to)
    <3>1. Within(to, q)
      BY <1>1, <2>1, <2>4, RekeyedPath
    <3> HIDE DEF q, a
    <3>2. Within(a, to) /\ a # to
      BY <1>1, <2>1, <2>2, <2>4, <3>1, PathLen, WithinComparable
    <3>3. Within(a, Parent(to)) /\ Parent(to) \in Paths
      BY <1>1, <2>2, <3>2, WithinParent
    <3>4. a \in DOMAIN entries
      BY <1>1, <2>2, <3>3, AboveListed
    <3>5. ~Within(from, a)
      BY <1>1, <2>2, <3>3, WithinTransitive
    <3>6. a \in DOMAIN entries'
      BY <1>3, <3>4, <3>5
    <3> QED
      BY <3>6 DEF q, a
  <2>5. CASE Within(from, p) /\ ~(k < Len(to))
    <3> DEFINE j == k - Len(to) + Len(from)
    <3>1. Len(q) = Len(to) + Len(p) - Len(from)
      BY <1>1, <2>1, <2>5, RekeyedNames
    <3>2. /\ j \in Nat /\ Len(from) <= j /\ j <= Len(p)
          /\ Len(to) + j - Len(from) = k
      <4> HIDE DEF q
      <4>1. Len(from) \in Nat /\ Len(to) \in Nat /\ Len(p) \in Nat
        BY <1>1, <2>1, PathLen
      <4> QED
        BY <2>1, <2>5, <3>1, <4>1
    <3> HIDE DEF j
    <3>3. Rekeyed(SubSeq(p, 1, j), from, to) = SubSeq(q, 1, Len(to) + j - Len(from))
      BY <1>1, <2>1, <2>5, <3>2, RekeyedPrefix
    <3>4. SubSeq(p, 1, j) \in DOMAIN entries
      <4>1. j \in 0 .. Len(p)
        BY <2>1, <3>2, PathLen
      <4> QED
        BY <1>1, <4>1 DEF PrefixesListed
    <3> QED
      BY <1>2, <3>2, <3>3, <3>4 DEF Rekeys
  <2> QED
    BY <2>3, <2>4, <2>5
<1> QED
  BY <1>2, <1>4 DEF PrefixesListed, Rekeys

LEMMA MovesNamed ==
  ASSUME ListingInv, NEW from, NEW to, Moves(from, to)
  PROVE  EntriesNamed'
<1> DEFINE R(p) == Rekeyed(p, from, to)
<1>1. /\ from \in Paths /\ to \in Paths
      /\ DOMAIN entries' = Rekeys(DOMAIN entries, from, to)
      /\ \A p \in DOMAIN entries : entries'[R(p)] = entries[p]
      /\ DOMAIN records' = DOMAIN records
      /\ records'[entries[from]] = [parent |-> entries[Parent(to)], name |-> Name(to)]
      /\ \A r \in DOMAIN records : r # entries[from] => records'[r] = records[r]
  BY MovesEntries
<1>0. \A q : q \in DOMAIN entries' <=> \E p \in DOMAIN entries : q = R(p)
  BY <1>1 DEF Rekeys
<1>2. /\ from \in DOMAIN entries /\ from # Root
      /\ Parent(to) \in DOMAIN entries
  BY DEF Moves
<1>3. Root \in DOMAIN entries' /\ entries'[Root] = RootId /\ R(Root) = Root
  <2>1. Root \in DOMAIN entries /\ entries[Root] = RootId
    BY DEF ListingInv, EntriesNamed
  <2>2. ~Within(from, Root)
    BY <1>1, <1>2, RootPath, PathLen, WithinNames
  <2>3. R(Root) = Root
    BY <1>1, <2>2, RootPath, RekeyedPath
  <2> HIDE DEF R
  <2> QED
    BY <1>0, <1>1, <2>1, <2>3
<1>4. ASSUME NEW p \in DOMAIN entries, p # Root
      PROVE  /\ Parent(R(p)) \in DOMAIN entries'
             /\ entries'[R(p)] \in DOMAIN records'
             /\ records'[entries'[R(p)]]
                  = [parent |-> entries'[Parent(R(p))], name |-> Name(R(p))]
  <2>1. /\ Parent(p) \in DOMAIN entries
        /\ entries[p] \in DOMAIN records
        /\ records[entries[p]] = [parent |-> entries[Parent(p)], name |-> Name(p)]
    BY <1>4, NamedEntry
  <2>2. /\ p = from => R(p) = to /\ Parent(R(p)) = R(Parent(to))
        /\ p # from => Parent(R(p)) = R(Parent(p)) /\ Name(R(p)) = Name(p)
    BY <1>4, MovedParents
  <2>3. p # from => entries[p] # entries[from]
    BY <1>2, OneNode
  <2> HIDE DEF R
  <2>4. CASE p = from
    BY <1>0, <1>1, <1>2, <2>1, <2>2, <2>4
  <2>5. CASE p # from
    BY <1>0, <1>1, <2>1, <2>2, <2>3, <2>5
  <2> QED
    BY <2>4, <2>5
<1>5. ASSUME NEW p \in DOMAIN entries, NEW q \in DOMAIN entries,
             entries'[R(p)] = entries'[R(q)]
      PROVE  R(p) = R(q)
  BY <1>1, <1>5, OneNode
<1> HIDE DEF R
<1>6. ASSUME NEW q \in DOMAIN entries' \ {Root}
      PROVE  /\ Parent(q) \in DOMAIN entries'
             /\ entries'[q] \in DOMAIN records'
             /\ records'[entries'[q]] = [parent |-> entries'[Parent(q)], name |-> Name(q)]
  <2>1. PICK p \in DOMAIN entries : q = R(p)
    BY <1>0
  <2>2. p # Root
    BY <1>3, <2>1
  <2> QED
    BY <1>4, <2>1, <2>2
<1>7. ASSUME NEW q \in DOMAIN entries', NEW r \in DOMAIN entries',
             entries'[q] = entries'[r]
      PROVE  q = r
  BY <1>0, <1>5, <1>7
<1> QED
  BY <1>3, <1>6, <1>7 DEF EntriesNamed

LEMMA MovesListing ==
  ASSUME ListingInv, NEW from, NEW to, Moves(from, to)
  PROVE  ListingInv'
<1> DEFINE R(p) == Rekeyed(p, from, to)
<1>1. /\ from \in Paths /\ to \in Paths
      /\ DOMAIN entries' = Rekeys(DOMAIN entries, from, to)
      /\ \A p \in DOMAIN entries : entries'[R(p)] = entries[p]
      /\ DOMAIN records' = DOMAIN records
      /\ records'[entries[from]] = [parent |-> entries[Parent(to)], name |-> Name(to)]
      /\ \A r \in DOMAIN records : r # entries[from] => records'[r] = records[r]
  BY MovesEntries
<1>0. \A q : q \in DOMAIN entries' <=> \E p \in DOMAIN entries : q = R(p)
  BY <1>1 DEF Rekeys
<1>2. /\ entries[Parent(to)] \in DirIds /\ Parent(to) \in DOMAIN entries
      /\ next_cell_id' = next_cell_id /\ next_dir_id' = next_dir_id
      /\ entries' = [q \in DOMAIN entries' |-> entries'[q]]
      /\ records' = [r \in DOMAIN records' |-> records'[r]]
  <2>1. entries' = [q \in DOMAIN entries' |-> entries'[q]]
    BY DEF Moves, Moved
  <2> QED
    BY <2>1 DEF Moves, ListingInv, TreeTypeOK
<1>3. \A p \in DOMAIN entries : R(p) \in Paths /\ entries[p] \in NodeIds
  BY <1>1, RekeyedPath DEF ListingInv, TreeTypeOK
<1> HIDE DEF R
<1>4. records'[entries[from]].parent = entries[Parent(to)]
  BY <1>1
<1>5. TreeTypeOK'
  <2>1. DOMAIN entries' \in SUBSET Paths
    BY <1>0, <1>3
  <2>2. entries' \in [DOMAIN entries' -> NodeIds]
    BY <1>0, <1>1, <1>2, <1>3
  <2>3. \A r \in DOMAIN records' : records'[r].parent \in DirIds
    BY <1>1, <1>2, <1>4 DEF ListingInv, TreeTypeOK
  <2> QED
    BY <1>1, <1>2, <2>1, <2>2, <2>3 DEF ListingInv, TreeTypeOK
<1>6. IdsIssued'
  <2>1. Issued(entries[Parent(to)])
    BY <1>2, ListedIssued
  <2>2. \A r \in DOMAIN records : Issued(r) /\ Issued(records'[r].parent)
    BY <1>1, <1>4, <2>1 DEF ListingInv, IdsIssued
  <2> QED
    BY <1>1, <1>2, <2>2 DEF IdsIssued, Issued
<1> QED
  BY <1>5, <1>6, MovesPrefixes, MovesNamed DEF ListingInv

----------------------------------------------------------------------------
(***************************************************************************)
(* Every operation is one of these steps.                                  *)
(***************************************************************************)
LEMMA NameReserved ==
  ASSUME DataTypeOK, NEW dir, NEW kind \in {"cell", "dir"},
         NEW choice \in Names \cup {Generate}
  PROVE  /\ ReservedName(dir, kind, choice) \in PathNames
         /\ Counted(dir, kind, choice) \in
              [DOMAIN Counted(dir, kind, choice) -> Nat]
<1>1. CounterOf(dir, kind) \in Nat
  BY DEF CounterOf, DataTypeOK
<1>2. ReservedName(dir, kind, choice) \in PathNames
  BY <1>1 DEF ReservedName, PathNames
<1>3. Put(counters, <<dir, kind>>, CounterOf(dir, kind) + 1)
        \in [DOMAIN Put(counters, <<dir, kind>>, CounterOf(dir, kind) + 1) -> Nat]
  BY <1>1 DEF Put, DataTypeOK
<1> QED
  BY <1>2, <1>3 DEF Counted, DataTypeOK

LEMMA DirectoryIds ==
  ASSUME TreeTypeOK, NEW p, IsDir(p)
  PROVE  p \in DOMAIN entries /\ p \in Paths /\ entries[p] \in DirIds
  BY DEF TreeTypeOK, IsDir, NodeIds, DirIds

\* The next id of a kind is new.
LEMMA NewIds ==
  ASSUME TreeTypeOK
  PROVE  /\ <<"cell", next_cell_id + 1>> \in NodeIds
         /\ ~Issued(<<"cell", next_cell_id + 1>>)
         /\ <<"dir", next_dir_id + 1>> \in NodeIds
         /\ ~Issued(<<"dir", next_dir_id + 1>>)
<1>1. next_cell_id + 1 \in Nat /\ ~(next_cell_id + 1 <= next_cell_id)
  BY DEF TreeTypeOK
<1>2. next_dir_id + 1 \in Nat /\ ~(next_dir_id + 1 <= next_dir_id)
  BY DEF TreeTypeOK
<1> QED
  BY <1>1, <1>2 DEF Issued, IssuedBy, NodeIds, DirIds

LEMMA NewCellRecords ==
  ASSUME TreeInv, NEW p, NEW choice \in Names \cup {Generate},
         BeginCell(p, choice), CreateCellRecord(p, choice)
  PROVE  /\ Records(p, ReservedName(entries[p], "cell", choice),
                    <<"cell", next_cell_id + 1>>)
         /\ next_cell_id' = next_cell_id + 1
<1>1. /\ TreeTypeOK /\ IsDir(p) /\ next_cell_id' = next_cell_id + 1
      /\ next_dir_id' = next_dir_id
      /\ next_cell_id \in Nat /\ next_dir_id \in Nat
  BY DEF TreeInv, ListingInv, TreeTypeOK, BeginCell
<1>2. IdsGrow
  BY <1>1 DEF IdsGrow
<1>3. IssuedNext(<<"cell", next_cell_id + 1>>)
  BY <1>1 DEF IssuedNext, IssuedBy
<1>4. p \in DOMAIN entries /\ entries[p] \in DirIds
  BY <1>1, DirectoryIds
<1>5. ReservedName(entries[p], "cell", choice) \in PathNames
  BY NameReserved DEF TreeInv
<1>6. /\ ~Taken(entries[p], ReservedName(entries[p], "cell", choice))
      /\ records' = Put(records, <<"cell", next_cell_id + 1>>,
                        [parent |-> entries[p],
                         name |-> ReservedName(entries[p], "cell", choice)])
  BY <1>1 DEF CreateCellRecord
<1> QED
  BY <1>1, <1>2, <1>3, <1>4, <1>5, <1>6, NewIds DEF Records

LEMMA NewCellLists ==
  ASSUME TreeInv, NEW p, NEW choice \in Names \cup {Generate}, NEW s,
         NewCell(p, choice, s)
  PROVE  Lists(p, ReservedName(entries[p], "cell", choice), <<"cell", next_cell_id + 1>>)
<1>1. BeginCell(p, choice) /\ CreateCellRecord(p, choice)
  BY DEF NewCell
<1> QED
  BY <1>1, NewCellRecords DEF NewCell, Lists

LEMMA OversizedRecords ==
  ASSUME TreeInv, NEW p, NEW choice \in Names \cup {Generate}, NEW s,
         NewCellOversized(p, choice, s)
  PROVE  RecordsOnly(p, ReservedName(entries[p], "cell", choice),
                     <<"cell", next_cell_id + 1>>)
<1>1. BeginCell(p, choice) /\ CreateCellRecord(p, choice)
  BY DEF NewCellOversized
<1> QED
  BY <1>1, NewCellRecords DEF NewCellOversized, RecordsOnly, runtime

LEMMA NewDirLists ==
  ASSUME TreeInv, NEW p, NEW choice \in Names \cup {Generate}, NEW mounting,
         BeginDir(p, choice, mounting), CreateDirRecord(p, choice)
  PROVE  Lists(p, ReservedName(entries[p], "dir", choice), <<"dir", next_dir_id + 1>>)
<1>1. /\ TreeTypeOK /\ IsDir(p) /\ next_dir_id' = next_dir_id + 1
      /\ next_cell_id' = next_cell_id
      /\ next_cell_id \in Nat /\ next_dir_id \in Nat
  BY DEF TreeInv, ListingInv, TreeTypeOK, BeginDir
<1>2. IdsGrow
  BY <1>1 DEF IdsGrow
<1>3. IssuedNext(<<"dir", next_dir_id + 1>>)
  BY <1>1 DEF IssuedNext, IssuedBy
<1>4. p \in DOMAIN entries /\ entries[p] \in DirIds
  BY <1>1, DirectoryIds
<1>5. ReservedName(entries[p], "dir", choice) \in PathNames
  BY NameReserved DEF TreeInv
<1>6. /\ ~Taken(entries[p], ReservedName(entries[p], "dir", choice))
      /\ records' = Put(records, <<"dir", next_dir_id + 1>>,
                        [parent |-> entries[p],
                         name |-> ReservedName(entries[p], "dir", choice)])
      /\ entries' = Put(entries, Append(p, ReservedName(entries[p], "dir", choice)),
                        <<"dir", next_dir_id + 1>>)
  BY <1>1 DEF CreateDirRecord
<1> QED
  BY <1>1, <1>2, <1>3, <1>4, <1>5, <1>6, NewIds DEF Lists, Records

\* A target is a spelled name under a listed directory.
LEMMA TargetPath ==
  ASSUME TreeTypeOK, NEW path \in Targets
  PROVE  /\ path \in Paths /\ path # Root
         /\ Parent(path) \in DOMAIN entries /\ IsDir(Parent(path))
         /\ Name(path) \in Names /\ Append(Parent(path), Name(path)) = path
<1>1. PICK p \in Directories, name \in Names : path = Append(p, name)
  BY DEF Targets
<1>2. p \in Paths /\ p \in DOMAIN entries /\ IsDir(p) /\ name \in PathNames
  BY DEF Directories, TreeTypeOK, PathNames
<1> QED
  BY <1>1, <1>2, AppendPath

LEMMA MountLists ==
  ASSUME TreeInv, NEW path \in Targets, NEW resource, NEW backend,
         Mount(path, resource, backend)
  PROVE  Lists(Parent(path), Name(path), <<"dir", next_dir_id + 1>>)
<1>1. Name(path) \in Names
  BY TargetPath DEF TreeInv, ListingInv
<1>2. ReservedName(entries[Parent(path)], "dir", Name(path)) = Name(path)
  BY <1>1, RuntimeAssumption DEF ReservedName
<1>3. BeginDir(Parent(path), Name(path), TRUE) /\ CreateDirRecord(Parent(path), Name(path))
  BY DEF Mount
<1> QED
  BY <1>1, <1>2, <1>3, NewDirLists

LEMMA TakenLeaves ==
  ASSUME TreeInv, NEW p, NEW choice,
         \/ NewCellTaken(p, choice)
         \/ \E mounting \in BOOLEAN : NewDirTaken(p, choice, mounting)
         \/ \E resource \in Resources : MountRefused(p, resource)
  PROVE  Leaves
<1>1. next_cell_id \in Nat /\ next_dir_id \in Nat
  BY DEF TreeInv, ListingInv, TreeTypeOK
<1>2. CASE NewCellTaken(p, choice)
  BY <1>1, <1>2 DEF NewCellTaken, BeginCell, Leaves, IdsGrow, runtime
<1>3. ASSUME NEW mounting \in BOOLEAN, NewDirTaken(p, choice, mounting)
      PROVE  Leaves
  BY <1>1, <1>3 DEF NewDirTaken, BeginDir, Leaves, IdsGrow
<1>4. ASSUME NEW resource \in Resources, MountRefused(p, resource)
      PROVE  Leaves
  BY <1>1, <1>4 DEF MountRefused, BeginDir, Leaves, IdsGrow
<1> QED
  BY <1>2, <1>3, <1>4

LEMMA UnmountUnlists ==
  ASSUME TreeInv, NEW path \in DOMAIN entries, Unmount(path)
  PROVE  Leaves \/ Unlists(path)
<1>1. path # Root /\ EnsureEmptyDir(path) /\ DeleteEmptyDir(path)
  BY DEF Unmount, TreeInv, RootNotMounted
<1>2. next_cell_id' = next_cell_id /\ next_dir_id' = next_dir_id
      /\ next_cell_id \in Nat /\ next_dir_id \in Nat
  BY DEF Unmount, TreeInv, ListingInv, TreeTypeOK
<1> QED
  BY <1>1, <1>2 DEF DeleteEmptyDir, Leaves, IdsGrow, Unlists

LEMMA DeleteCellUnlists ==
  ASSUME TreeInv, NEW path, DeleteCell(path)
  PROVE  Unlists(path)
<1>1. path \in DOMAIN entries /\ entries[path][1] = "cell"
  BY DEF DeleteCell
<1>2. path # Root
  BY <1>1 DEF TreeInv, ListingInv, EntriesNamed, RootId
<1>3. EnsureEmptyDir(path)
  BY <1>1, NothingBelowCell DEF EnsureEmptyDir, TreeInv
<1> QED
  BY <1>1, <1>2, <1>3 DEF DeleteCell, Unlists

LEMMA DeleteDirUnlists ==
  ASSUME NEW path, DeleteDir(path)
  PROVE  Unlists(path)
  BY DEF DeleteDir, DeleteEmptyDir, IsDir, Unlists

LEMMA MoveEntryMoves ==
  ASSUME TreeInv, NEW from \in DOMAIN entries, NEW to \in Targets, MoveEntry(from, to)
  PROVE  Moves(from, to)
<1>1. /\ TreeTypeOK /\ ListingInv
      /\ to \in Paths /\ to # Root /\ IsDir(Parent(to))
  BY TargetPath DEF TreeInv, ListingInv
<1>2. Parent(to) \in DOMAIN entries /\ entries[Parent(to)] \in DirIds
  BY <1>1, DirectoryIds
<1>3. ~Within(from, Parent(to))
  <2>1. entries[from][1] = "cell" \/ entries[from][1] = "dir"
    BY <1>1, ListedPath DEF NodeIds, DirIds
  <2>2. CASE entries[from][1] = "dir"
    BY <2>2 DEF MoveEntry
  <2>3. CASE entries[from][1] = "cell"
    <3> SUFFICES ASSUME Within(from, Parent(to))
                 PROVE  FALSE
      OBVIOUS
    <3>1. Parent(to) = from
      BY <1>1, <1>2, <2>3, NothingBelowCell
    <3> QED
      BY <1>2, <2>3, <3>1 DEF DirIds
  <2> QED
    BY <2>1, <2>2, <2>3
<1> QED
  BY <1>1, <1>2, <1>3 DEF MoveEntry, Moves

LEMMA SetExprLeaves ==
  ASSUME TreeInv, NEW path, NEW s, SetExpr(path, s)
  PROVE  Leaves
  BY DEF SetExpr, Leaves, IdsGrow, TreeInv, ListingInv, TreeTypeOK, namespace

\* The listing stays sound whatever the operation does with it.
LEMMA NextListing ==
  ASSUME TreeInv, [Next]_vars
  PROVE  ListingInv'
<1> USE DEF TreeInv
<1>1. ASSUME NEW p \in Directories, NEW choice \in Names \cup {Generate},
             NEW s \in Sources, NewCell(p, choice, s)
      PROVE  ListingInv'
  BY <1>1, NewCellLists, ListsListing
<1>2. ASSUME NEW p \in Directories, NEW choice \in Names \cup {Generate},
             NEW s \in Sources, NewCellOversized(p, choice, s)
      PROVE  ListingInv'
  BY <1>2, OversizedRecords, RecordsOnlyListing
<1>3. ASSUME NEW p \in Directories, NEW choice \in Names \cup {Generate}, NewDir(p, choice)
      PROVE  ListingInv'
  <2>1. BeginDir(p, choice, FALSE) /\ CreateDirRecord(p, choice)
    BY <1>3 DEF NewDir
  <2> QED
    BY <2>1, NewDirLists, ListsListing
<1>4. ASSUME NEW path \in Targets, NEW resource \in Resources, NEW backend \in Backends,
             Mount(path, resource, backend)
      PROVE  ListingInv'
  BY <1>4, MountLists, ListsListing
<1>5. ASSUME NEW path \in DOMAIN entries, Unmount(path)
      PROVE  ListingInv'
  BY <1>5, UnmountUnlists, UnlistsListing, LeavesListing
<1>6. ASSUME NEW from \in DOMAIN entries, NEW to \in Targets, MoveEntry(from, to)
      PROVE  ListingInv'
  BY <1>6, MoveEntryMoves, MovesListing
<1>7. ASSUME NEW path \in DOMAIN entries, DeleteCell(path) \/ DeleteDir(path)
      PROVE  ListingInv'
  BY <1>7, DeleteCellUnlists, DeleteDirUnlists, UnlistsListing
<1>8. ASSUME NEW path \in DOMAIN entries, NEW s \in Sources, SetExpr(path, s)
      PROVE  ListingInv'
  BY <1>8, SetExprLeaves, LeavesListing
<1>9. ASSUME NEW p, NEW choice,
             \/ NewCellTaken(p, choice)
             \/ \E mounting \in BOOLEAN : NewDirTaken(p, choice, mounting)
             \/ \E resource \in Resources : MountRefused(p, resource)
      PROVE  ListingInv'
  BY <1>9, TakenLeaves, LeavesListing
<1>10. CASE UNCHANGED vars
  <2>1. Leaves
    BY <1>10 DEF vars, namespace, runtime, Leaves, IdsGrow, ListingInv, TreeTypeOK
  <2> QED
    BY <2>1, LeavesListing
<1> QED
  BY <1>1, <1>2, <1>3, <1>4, <1>5, <1>6, <1>7, <1>8, <1>9, <1>10 DEF Next

----------------------------------------------------------------------------
\* Every value of a moved copy is a value of the copy.
LEMMA MovedValues ==
  ASSUME NEW f, NEW from, NEW to, NEW q \in DOMAIN Moved(f, from, to)
  PROVE  \E p \in DOMAIN f : Moved(f, from, to)[q] = f[p] /\ q = Rekeyed(p, from, to)
<1>1. \E p \in DOMAIN f : Rekeyed(p, from, to) = q
  BY DEF Moved
<1> DEFINE c == CHOOSE p \in DOMAIN f : Rekeyed(p, from, to) = q
<1>2. c \in DOMAIN f /\ Rekeyed(c, from, to) = q
  BY <1>1
<1>3. Moved(f, from, to)[q] = f[c]
  BY DEF Moved
<1> QED
  BY <1>2, <1>3

LEMMA NextData ==
  ASSUME TreeInv, [Next]_vars
  PROVE  DataTypeOK' /\ RootNotMounted'
<1> USE DEF TreeInv
<1>1. ASSUME NEW p \in Directories, NEW choice \in Names \cup {Generate},
             NEW s \in Sources, NewCell(p, choice, s)
      PROVE  DataTypeOK' /\ RootNotMounted'
  <2>1. /\ BeginCell(p, choice) /\ source_revision' = source_revision + 1
        /\ cells' = Put(cells, Append(p, ReservedName(entries[p], "cell", choice)),
                        [id |-> <<"cell", next_cell_id'>>, source |-> s,
                         revision |-> source_revision'])
    BY <1>1 DEF NewCell
  <2>2. next_cell_id' = next_cell_id + 1 /\ mounts' = mounts
        /\ counters' = Counted(entries[p], "cell", choice)
    BY <2>1 DEF BeginCell
  <2>3. [id |-> <<"cell", next_cell_id'>>, source |-> s,
         revision |-> source_revision'] \in Cell
    BY <2>1, <2>2, NewIds DEF ListingInv, DataTypeOK, Cell
  <2>4. cells' \in [DOMAIN cells' -> Cell]
    BY <2>1, <2>3 DEF Put, DataTypeOK
  <2> QED
    <3>1. counters' \in [DOMAIN counters' -> Nat]
      BY <2>2, NameReserved
    <3>2. source_revision' \in Nat
      BY <2>1 DEF DataTypeOK
    <3> QED
      BY <2>2, <2>4, <3>1, <3>2 DEF DataTypeOK, RootNotMounted
<1>2. ASSUME NEW p, NEW choice \in Names \cup {Generate}, BeginCell(p, choice),
             UNCHANGED <<cells, source_revision>>
      PROVE  DataTypeOK' /\ RootNotMounted'
  BY <1>2, NameReserved DEF BeginCell, DataTypeOK, RootNotMounted
<1>3. ASSUME NEW p, NEW choice \in Names \cup {Generate}, NEW mounting,
             BeginDir(p, choice, mounting), UNCHANGED mounts
      PROVE  DataTypeOK' /\ RootNotMounted'
  BY <1>3, NameReserved DEF BeginDir, DataTypeOK, RootNotMounted
<1>4. ASSUME NEW path \in Targets, NEW resource \in Resources, NEW backend \in Backends,
             Mount(path, resource, backend)
      PROVE  DataTypeOK' /\ RootNotMounted'
  <2>1. Name(path) \in Names /\ path # Root
    BY TargetPath DEF ListingInv
  <2>2. /\ counters' = Counted(entries[Parent(path)], "dir", Name(path))
        /\ cells' = cells /\ source_revision' = source_revision
        /\ mounts' = Put(mounts, path, [resource |-> resource, backend |-> backend])
    BY <1>4 DEF Mount, BeginDir
  <2>3. mounts' \in [DOMAIN mounts' -> [resource : Resources, backend : Backends]]
    BY <2>2 DEF Put, DataTypeOK
  <2>4. Root \notin DOMAIN mounts'
    BY <2>1, <2>2 DEF Put, RootNotMounted
  <2> QED
    BY <2>1, <2>2, <2>3, <2>4, NameReserved DEF DataTypeOK, RootNotMounted
<1>5. ASSUME NEW path \in Targets, NEW resource \in Resources, MountRefused(path, resource)
      PROVE  DataTypeOK' /\ RootNotMounted'
  <2>1. Name(path) \in Names
    BY TargetPath DEF ListingInv
  <2>2. BeginDir(Parent(path), Name(path), TRUE) /\ UNCHANGED mounts
    BY <1>5 DEF MountRefused
  <2> QED
    BY <1>3, <2>1, <2>2
<1>6. ASSUME NEW path, Unmount(path)
      PROVE  DataTypeOK' /\ RootNotMounted'
  BY <1>6 DEF Unmount, Drop, DataTypeOK, RootNotMounted
<1>7. ASSUME NEW from, NEW to, MoveEntry(from, to)
      PROVE  DataTypeOK' /\ RootNotMounted'
  <2>1. cells' = Moved(cells, from, to) /\ UNCHANGED <<mounts, counters, source_revision>>
    BY <1>7 DEF MoveEntry
  <2>2. \A q \in DOMAIN Moved(cells, from, to) : Moved(cells, from, to)[q] \in Cell
    BY MovedValues DEF DataTypeOK
  <2>3. cells' = [q \in DOMAIN cells' |-> cells'[q]]
    BY <2>1 DEF Moved
  <2>4. cells' \in [DOMAIN cells' -> Cell]
    BY <2>1, <2>2, <2>3
  <2> QED
    BY <2>1, <2>4 DEF DataTypeOK, RootNotMounted
<1>8. ASSUME NEW path, DeleteCell(path) \/ DeleteDir(path)
      PROVE  DataTypeOK' /\ RootNotMounted'
  BY <1>8 DEF DeleteCell, DeleteDir, Drop, DataTypeOK, RootNotMounted
<1>9. ASSUME NEW path, NEW s \in Sources, SetExpr(path, s)
      PROVE  DataTypeOK' /\ RootNotMounted'
  <2>1. /\ path \in DOMAIN cells
        /\ cells' = [cells EXCEPT ![path].source = s, ![path].revision = source_revision']
        /\ source_revision' = source_revision + 1
        /\ UNCHANGED <<mounts, counters>>
    BY <1>9 DEF SetExpr, namespace
  <2>2. source_revision' \in Nat /\ cells \in [DOMAIN cells -> Cell]
    BY <2>1 DEF DataTypeOK
  <2>3. cells' \in [DOMAIN cells -> Cell] /\ DOMAIN cells' = DOMAIN cells
    BY <2>1, <2>2 DEF Cell
  <2> QED
    BY <2>1, <2>2, <2>3 DEF DataTypeOK, RootNotMounted
<1>10. CASE UNCHANGED vars
  BY <1>10 DEF vars, namespace, runtime, DataTypeOK, RootNotMounted
<1>11. ASSUME NEW p \in Directories, NEW choice \in Names \cup {Generate},
              NEW s \in Sources, NewCellOversized(p, choice, s)
       PROVE  DataTypeOK' /\ RootNotMounted'
  BY <1>2, <1>11 DEF NewCellOversized, runtime
<1>12. ASSUME NEW p \in Directories, NEW choice \in Names \cup {Generate},
              NewCellTaken(p, choice)
       PROVE  DataTypeOK' /\ RootNotMounted'
  BY <1>2, <1>12 DEF NewCellTaken, runtime
<1>13. ASSUME NEW p \in Directories, NEW choice \in Names \cup {Generate},
              NewDir(p, choice) \/ \E mounting \in BOOLEAN : NewDirTaken(p, choice, mounting)
       PROVE  DataTypeOK' /\ RootNotMounted'
  BY <1>3, <1>13 DEF NewDir, NewDirTaken
<1> QED
  BY <1>1, <1>4, <1>5, <1>6, <1>7, <1>8, <1>9, <1>10, <1>11, <1>12, <1>13 DEF Next

\* The listing, the records and the types of the other copies, in every state.
LEMMA TreeInvariance == Spec => []TreeInv
<1>1. Init => TreeInv
  <2> SUFFICES ASSUME Init
               PROVE  TreeInv
    OBVIOUS
  <2>1. TreeTypeOK
    BY RootPath DEF Init, TreeTypeOK, RootId, NodeIds, DirIds
  <2>2. IdsIssued
    BY DEF Init, IdsIssued, Issued, IssuedBy, RootId
  <2>3. EntriesNamed
    BY DEF Init, EntriesNamed
  <2>4. PrefixesListed
    <3>1. DOMAIN entries = {Root} /\ Len(Root) = 0
      BY RootPath DEF Init
    <3>2. SubSeq(Root, 1, 0) = Root
      BY RootPath, PrefixPath
    <3> QED
      BY <3>1, <3>2 DEF PrefixesListed
  <2>5. DataTypeOK /\ RootNotMounted
    BY DEF Init, DataTypeOK, RootNotMounted
  <2> QED
    BY <2>1, <2>2, <2>3, <2>4, <2>5 DEF TreeInv, ListingInv
<1>2. TreeInv /\ [Next]_vars => TreeInv'
  BY NextListing, NextData DEF TreeInv
<1> QED
  BY <1>1, <1>2, PTL DEF Spec

\* The state of a live tree keeps its types: listed paths are paths of names,
\* and ids, cells and mounts are whole (runtime.rs TreeState).
THEOREM RuntimeTyped == Spec => []RuntimeTypeOK
<1>1. TreeInv => RuntimeTypeOK
  BY DEF TreeInv, ListingInv, RuntimeTypeOK
<1> QED
  BY <1>1, TreeInvariance, PTL

\* After every sequence of creations, moves, mounts, deletions and refused
\* operations, each listed path is spelled by the records of its node, and no
\* node is listed twice: rekey_subtree rewrites as many paths as the namespace
\* implies by the one record it changes.
THEOREM EntriesAreNamed == Spec => []EntriesNamed
<1>1. TreeInv => EntriesNamed
  BY DEF TreeInv, ListingInv
<1> QED
  BY <1>1, TreeInvariance, PTL

----------------------------------------------------------------------------
(***************************************************************************)
(* The mounts.                                                             *)
(***************************************************************************)
\* The listing keeps the nodes of the mounts.
MountsListed ==
  \A m \in DOMAIN mounts' : m \in DOMAIN entries' /\ entries'[m] = entries[m]

MountsSame == mounts' = mounts /\ calc_mounts' = calc_mounts

\* A mount is not rekeyed by a move that takes no mount along.
LEMMA MountNotMoved ==
  ASSUME ListingInv, NEW from, NEW to, Moves(from, to),
         NEW m \in DOMAIN entries, ~Within(from, m)
  PROVE  m \in DOMAIN entries' /\ entries'[m] = entries[m]
<1>1. /\ from \in Paths /\ to \in Paths
      /\ DOMAIN entries' = Rekeys(DOMAIN entries, from, to)
      /\ \A p \in DOMAIN entries : entries'[Rekeyed(p, from, to)] = entries[p]
      /\ DOMAIN records' = DOMAIN records
      /\ records'[entries[from]] = [parent |-> entries[Parent(to)], name |-> Name(to)]
      /\ \A r \in DOMAIN records : r # entries[from] => records'[r] = records[r]
  BY MovesEntries
<1>2. Rekeyed(m, from, to) = m
  BY <1>1, ListedPath, RekeyedPath DEF ListingInv
<1> QED
  BY <1>1, <1>2 DEF Rekeys

\* Every operation but Mount and Unmount leaves the mounts and their nodes alone.
LEMMA MountsStand ==
  ASSUME TreeInv, MountsSound, [Next]_vars
  PROVE  \/ MountsSame /\ MountsListed
         \/ \E path \in Targets, resource \in Resources, backend \in Backends :
              Mount(path, resource, backend)
         \/ \E path \in DOMAIN entries : Unmount(path)
<1> USE DEF TreeInv
<1>0. \A m \in DOMAIN mounts : m \in DOMAIN entries /\ entries[m][1] = "dir"
  BY DEF MountsSound, IsDir
<1>1. ASSUME MountsSame, NEW p, NEW name, NEW id, Lists(p, name, id)
      PROVE  MountsListed
  BY <1>0, <1>1, ListsEntry DEF MountsSame, MountsListed
<1>2. ASSUME MountsSame, entries' = entries
      PROVE  MountsListed
  BY <1>0, <1>2 DEF MountsSame, MountsListed
<1>3. ASSUME NEW p \in Directories, NEW choice \in Names \cup {Generate},
             NEW s \in Sources, NewCell(p, choice, s)
      PROVE  MountsSame /\ MountsListed
  <2>1. MountsSame
    BY <1>3 DEF NewCell, BeginCell, MountsSame
  <2> QED
    BY <1>1, <1>3, <2>1, NewCellLists
<1>4. ASSUME NEW p, NEW choice,
             NewCellTaken(p, choice) \/ \E s \in Sources : NewCellOversized(p, choice, s)
      PROVE  MountsSame /\ MountsListed
  BY <1>2, <1>4 DEF NewCellTaken, NewCellOversized, BeginCell, MountsSame, runtime
<1>5. ASSUME NEW p \in Directories, NEW choice \in Names \cup {Generate}, NewDir(p, choice)
      PROVE  MountsSame /\ MountsListed
  <2>1. MountsSame /\ BeginDir(p, choice, FALSE) /\ CreateDirRecord(p, choice)
    BY <1>5 DEF NewDir, MountsSame
  <2> QED
    BY <1>1, <2>1, NewDirLists
<1>6. ASSUME NEW p, NEW choice, NEW mounting, NewDirTaken(p, choice, mounting)
      PROVE  MountsSame /\ MountsListed
  BY <1>2, <1>6 DEF NewDirTaken, MountsSame
<1>7. ASSUME NEW path, NEW resource, MountRefused(path, resource)
      PROVE  MountsSame /\ MountsListed
  BY <1>2, <1>7 DEF MountRefused, MountsSame
<1>8. ASSUME NEW from \in DOMAIN entries, NEW to \in Targets, MoveEntry(from, to)
      PROVE  MountsSame /\ MountsListed
  <2>1. MountsSame /\ \A m \in DOMAIN mounts : ~Within(from, m)
    BY <1>8 DEF MoveEntry, MountsSame
  <2>2. Moves(from, to)
    BY <1>8, MoveEntryMoves
  <2>3. ASSUME NEW m \in DOMAIN mounts
        PROVE  m \in DOMAIN entries' /\ entries'[m] = entries[m]
    BY <1>0, <2>1, <2>2, MountNotMoved
  <2> QED
    BY <2>1, <2>3 DEF MountsSame, MountsListed
<1>9. ASSUME NEW path, DeleteCell(path) \/ DeleteDir(path)
      PROVE  MountsSame /\ MountsListed
  <2>1. MountsSame
    BY <1>9 DEF DeleteCell, DeleteDir, MountsSame, calc
  <2>2. path \notin DOMAIN mounts
    BY <1>0, <1>9 DEF DeleteCell, DeleteDir
  <2>3. entries' = Drop(entries, path)
    BY <1>9 DEF DeleteCell, DeleteDir, DeleteEmptyDir
  <2> QED
    BY <1>0, <2>1, <2>2, <2>3 DEF Drop, MountsSame, MountsListed
<1>10. ASSUME NEW path, NEW s, SetExpr(path, s)
       PROVE  MountsSame /\ MountsListed
  BY <1>2, <1>10 DEF SetExpr, MountsSame
<1>11. CASE UNCHANGED vars
  BY <1>2, <1>11 DEF vars, calc, runtime, MountsSame
<1> QED
  BY <1>3, <1>4, <1>5, <1>6, <1>7, <1>8, <1>9, <1>10, <1>11 DEF Next

\* The path of a new mount is not listed before, and nothing is listed below it.
LEMMA MountIsNew ==
  ASSUME TreeInv, NEW path \in Targets, NEW resource \in Resources,
         NEW backend \in Backends, Mount(path, resource, backend)
  PROVE  /\ path \in Paths /\ path # Root /\ path \notin DOMAIN entries
         /\ DOMAIN entries' = DOMAIN entries \cup {path}
         /\ entries'[path] = <<"dir", next_dir_id + 1>>
         /\ \A q \in DOMAIN entries : entries'[q] = entries[q] /\ ~Within(path, q)
<1> USE DEF TreeInv
<1>1. /\ path \in Paths /\ path # Root /\ Append(Parent(path), Name(path)) = path
      /\ TreeTypeOK /\ PrefixesListed
  BY TargetPath DEF ListingInv
<1>2. /\ path \notin DOMAIN entries
      /\ DOMAIN entries' = DOMAIN entries \cup {path}
      /\ entries'[path] = <<"dir", next_dir_id + 1>>
      /\ \A q \in DOMAIN entries : entries'[q] = entries[q]
  <2>1. Lists(Parent(path), Name(path), <<"dir", next_dir_id + 1>>)
    BY MountLists
  <2>2. LET q == Append(Parent(path), Name(path)) IN
        /\ q \notin DOMAIN entries
        /\ DOMAIN entries' = DOMAIN entries \cup {q}
        /\ entries'[q] = <<"dir", next_dir_id + 1>>
        /\ \A r \in DOMAIN entries : entries'[r] = entries[r]
    BY <2>1, ListsEntry
  <2> QED
    BY <1>1, <2>2
<1>3. \A q \in DOMAIN entries : ~Within(path, q)
  BY <1>1, <1>2, AboveListed
<1> QED
  BY <1>1, <1>2, <1>3

LEMMA NextMounts ==
  ASSUME TreeInv, MountsSound, [Next]_vars
  PROVE  MountsSound'
<1>0. /\ mounts = calc_mounts
      /\ \A m \in DOMAIN mounts : m \in DOMAIN entries /\ entries[m][1] = "dir"
      /\ \A m, n \in DOMAIN mounts :
           Within(m, n) /\ m # n => mounts[m].resource = "dir"
  BY DEF MountsSound, IsDir
<1>1. CASE MountsSame /\ MountsListed
  BY <1>0, <1>1 DEF MountsSound, IsDir, MountsSame, MountsListed
<1>2. ASSUME NEW path \in Targets, NEW resource \in Resources, NEW backend \in Backends,
             Mount(path, resource, backend)
      PROVE  MountsSound'
  <2> DEFINE new == [resource |-> resource, backend |-> backend]
  <2>1. /\ path \notin DOMAIN mounts
        /\ \A m \in DOMAIN mounts :
             /\ Within(m, path) => mounts[m].resource # "table"
             /\ Within(path, m) => resource # "table"
        /\ mounts' = Put(mounts, path, new)
        /\ calc_mounts' = Put(calc_mounts, path, mounts'[path])
    BY <1>2 DEF Mount, MountAllowed
  <2>2. /\ DOMAIN mounts' = DOMAIN mounts \cup {path}
        /\ mounts'[path] = new
        /\ \A m \in DOMAIN mounts : mounts'[m] = mounts[m]
    BY <2>1 DEF Put
  <2>3. calc_mounts' = mounts'
    BY <1>0, <2>1, <2>2
  <2>4. \A m \in DOMAIN mounts' : m \in DOMAIN entries' /\ entries'[m][1] = "dir"
    <3>1. /\ DOMAIN entries' = DOMAIN entries \cup {path}
          /\ entries'[path] = <<"dir", next_dir_id + 1>>
          /\ \A q \in DOMAIN entries : entries'[q] = entries[q]
      BY <1>2, MountIsNew
    <3> HIDE DEF new
    <3> QED
      BY <1>0, <2>2, <3>1
  <2>5. resource \in {"table", "dir"}
        /\ \A m \in DOMAIN mounts : mounts[m].resource \in {"table", "dir"}
    BY DEF Resources, TreeInv, DataTypeOK
  <2>6. new.resource = resource
    OBVIOUS
  <2> HIDE DEF new
  <2>7. ASSUME NEW m \in DOMAIN mounts', NEW n \in DOMAIN mounts',
               Within(m, n), m # n
        PROVE  mounts'[m].resource = "dir"
    BY <1>0, <2>1, <2>2, <2>5, <2>6, <2>7
  <2> QED
    BY <2>3, <2>4, <2>7 DEF MountsSound, IsDir
<1>3. ASSUME NEW path \in DOMAIN entries, Unmount(path)
      PROVE  MountsSound'
  <2>1. /\ mounts' = Drop(mounts, path) /\ calc_mounts' = Drop(calc_mounts, path)
        /\ entries' = entries \/ entries' = Drop(entries, path)
    BY <1>3 DEF Unmount, DeleteEmptyDir
  <2> QED
    BY <1>0, <2>1 DEF Drop, MountsSound, IsDir
<1> QED
  BY <1>1, <1>2, <1>3, MountsStand

\* The stores and the calculator hold the same mounts, every mount is a listed
\* directory, and none stands below a table mount, through every order of
\* mounting, refusing, moving, unmounting and deleting (ExprTreeStores::mount,
\* mount_resource, unmount).
THEOREM MountsAreSound == Spec => []MountsSound
<1>1. Init => MountsSound
  BY DEF Init, MountsSound
<1>2. TreeInv /\ MountsSound /\ [Next]_vars => MountsSound'
  BY NextMounts
<1> QED
  BY <1>1, <1>2, TreeInvariance, PTL DEF Spec

----------------------------------------------------------------------------
(***************************************************************************)
(* What is written below a read-only mount.                                *)
(***************************************************************************)
\* Nothing is listed below the directory m, and it has no recorded child.
Empty(m) == EnsureEmptyDir(m) /\ ~HasChildren(entries[m])

\* What keeps a mount: no operation adds a mount, or a child to this one.
LEMMA RecordsEmpty ==
  ASSUME ListingInv, NEW p, NEW name, NEW id, Records(p, name, id),
         NEW m \in DOMAIN entries, ~HasChildren(entries[m]), m # p
  PROVE  \A r \in DOMAIN records' : records'[r].parent # entries[m]
<1>1. /\ DOMAIN records' = DOMAIN records \cup {id}
      /\ records'[id] = [parent |-> entries[p], name |-> name]
      /\ \A r \in DOMAIN records : records'[r] = records[r]
  BY RecordsKept
<1>2. entries[p] # entries[m]
  BY OneNode DEF Records
<1>3. records'[id].parent = entries[p]
  BY <1>1
<1> QED
  BY <1>1, <1>2, <1>3 DEF HasChildren

LEMMA ListsEmpty ==
  ASSUME ListingInv, NEW p, NEW name, NEW id, Lists(p, name, id),
         NEW m \in DOMAIN entries, Empty(m), ~Within(m, p)
  PROVE  Empty(m)'
<1>1. /\ Records(p, name, id) /\ EnsureEmptyDir(m) /\ ~HasChildren(entries[m])
      /\ p \in DOMAIN entries /\ p \in Paths /\ m \in Paths
  BY ListedPath DEF Lists, Records, Empty, ListingInv
<1>2. p # m
  BY <1>1, WithinSelf
<1> DEFINE path == Append(p, name)
<1>3. /\ path \in Paths \ {Root} /\ path \notin DOMAIN entries
      /\ Parent(path) = p /\ Name(path) = name
      /\ DOMAIN entries' = DOMAIN entries \cup {path}
      /\ entries'[path] = id
      /\ \A q \in DOMAIN entries : entries'[q] = entries[q]
  BY ListsEntry
<1> HIDE DEF path
<1>4. ~Within(m, path)
  BY <1>1, <1>3, WithinParent
<1>5. \A q \in DOMAIN entries' : Within(m, q) => q = m
  BY <1>1, <1>3, <1>4 DEF EnsureEmptyDir
<1>6. \A r \in DOMAIN records' : records'[r].parent # entries'[m]
  BY <1>1, <1>2, <1>3, RecordsEmpty
<1> QED
  BY <1>5, <1>6 DEF Empty, EnsureEmptyDir, HasChildren

\* A move under Parent(to) adds nothing below m.
LEMMA MovesEmpty ==
  ASSUME ListingInv, NEW from, NEW to, Moves(from, to),
         NEW m \in DOMAIN entries, Empty(m), ~Within(from, m), ~Within(m, Parent(to))
  PROVE  Empty(m)'
<1> DEFINE R(p) == Rekeyed(p, from, to)
<1>1. /\ from \in Paths /\ to \in Paths
      /\ DOMAIN entries' = Rekeys(DOMAIN entries, from, to)
      /\ \A p \in DOMAIN entries : entries'[R(p)] = entries[p]
      /\ DOMAIN records' = DOMAIN records
      /\ records'[entries[from]] = [parent |-> entries[Parent(to)], name |-> Name(to)]
      /\ \A r \in DOMAIN records : r # entries[from] => records'[r] = records[r]
  BY MovesEntries
<1>2. /\ m \in Paths /\ EnsureEmptyDir(m) /\ ~HasChildren(entries[m])
      /\ TreeTypeOK /\ PrefixesListed
      /\ \A p \in DOMAIN entries : p \in Paths
  BY DEF Empty, ListingInv, TreeTypeOK
<1>3. /\ to \notin DOMAIN entries /\ to # Root
      /\ Parent(to) \in DOMAIN entries
  BY DEF Moves
<1>4. \A q : q \in DOMAIN entries' <=> \E p \in DOMAIN entries : q = R(p)
  BY <1>1 DEF Rekeys
<1>5. ASSUME NEW p \in DOMAIN entries, Within(m, R(p))
      PROVE  R(p) = m
  <2>1. CASE ~Within(from, p)
    <3>1. R(p) = p
      BY <1>1, <1>2, <2>1, RekeyedPath
    <3> HIDE DEF R
    <3> QED
      BY <1>2, <1>5, <3>1 DEF EnsureEmptyDir
  <2>2. CASE Within(from, p)
    <3>1. R(p) \in Paths /\ Within(to, R(p))
      BY <1>1, <1>2, <2>2, RekeyedPath
    <3> HIDE DEF R
    <3>2. Within(m, to) \/ Within(to, m)
      BY <1>1, <1>2, <1>5, <3>1, PathLen, WithinComparable
    <3>3. ~Within(to, m)
      BY <1>1, <1>2, <1>3, AboveListed
    <3>4. ~Within(m, to)
      BY <1>1, <1>2, <1>3, WithinParent
    <3> QED
      BY <3>2, <3>3, <3>4
  <2> QED
    BY <2>1, <2>2
<1> HIDE DEF R
<1>6. \A q \in DOMAIN entries' : Within(m, q) => q = m
  BY <1>4, <1>5
<1>7. entries'[m] = entries[m]
  BY MountNotMoved
<1>8. \A r \in DOMAIN records' : records'[r].parent # entries'[m]
  <2>1. entries[Parent(to)] # entries[m]
    BY <1>2, <1>3, OneNode, WithinSelf
  <2>2. records'[entries[from]].parent = entries[Parent(to)]
    BY <1>1
  <2> QED
    BY <1>1, <1>2, <1>7, <2>1, <2>2 DEF HasChildren
<1> QED
  BY <1>6, <1>8 DEF Empty, EnsureEmptyDir, HasChildren

LEMMA UnlistsEmpty ==
  ASSUME ListingInv, NEW path, Unlists(path), NEW m \in DOMAIN entries,
         Empty(m), m # path
  PROVE  Empty(m)'
<1>1. /\ entries' = Drop(entries, path)
      /\ records' = Drop(records, entries[path])
  BY DEF Unlists
<1> QED
  BY <1>1 DEF Drop, Empty, EnsureEmptyDir, HasChildren

\* A mount that is kept, and was empty, is left empty if the operation had to
\* find the place it writes to writable.
LEMMA ReadOnlyKept ==
  ASSUME TreeInv, MountsSound, [Next]_vars,
         NEW m \in DOMAIN mounts, mounts[m].backend = "read-only", Empty(m),
         m \in DOMAIN mounts'
  PROVE  Empty(m)'
<1>0. ListingInv /\ m \in DOMAIN entries /\ entries[m][1] = "dir" /\ m \in Paths
  BY ListedPath DEF TreeInv, ListingInv, MountsSound, IsDir
<1>1. \A p : EnsureWritable(p) => ~Within(m, p)
  BY DEF EnsureWritable
<1>2. ASSUME entries' = entries, records' = records
      PROVE  Empty(m)'
  BY <1>2 DEF Empty, EnsureEmptyDir, HasChildren
<1>3. ASSUME NEW p \in Directories, NEW choice \in Names \cup {Generate},
             NEW s \in Sources, NewCell(p, choice, s)
      PROVE  Empty(m)'
  <2>1. ~Within(m, p)
    BY <1>1, <1>3 DEF NewCell, BeginCell
  <2> QED
    BY <1>0, <1>3, <2>1, NewCellLists, ListsEmpty
<1>4. ASSUME NEW p \in Directories, NEW choice \in Names \cup {Generate},
             NEW s \in Sources, NewCellOversized(p, choice, s)
      PROVE  Empty(m)'
  <2> DEFINE name == ReservedName(entries[p], "cell", choice)
             id == <<"cell", next_cell_id + 1>>
  <2>1. ~Within(m, p)
    BY <1>1, <1>4 DEF NewCellOversized, BeginCell
  <2>2. RecordsOnly(p, name, id)
    BY <1>4, OversizedRecords
  <2> HIDE DEF name, id
  <2>3. Records(p, name, id) /\ entries' = entries /\ m # p
    BY <1>0, <2>1, <2>2, WithinSelf DEF RecordsOnly
  <2>4. \A r \in DOMAIN records' : records'[r].parent # entries[m]
    BY <1>0, <2>3, RecordsEmpty DEF Empty
  <2> QED
    BY <2>3, <2>4 DEF Empty, EnsureEmptyDir, HasChildren
<1>5. ASSUME NEW p \in Directories, NEW choice \in Names \cup {Generate}, NewDir(p, choice)
      PROVE  Empty(m)'
  <2>1. BeginDir(p, choice, FALSE) /\ CreateDirRecord(p, choice)
    BY <1>5 DEF NewDir
  <2>2. ~Within(m, p)
    BY <1>1, <2>1 DEF BeginDir
  <2> QED
    BY <1>0, <2>1, <2>2, NewDirLists, ListsEmpty
<1>6. ASSUME NEW path \in Targets, NEW resource \in Resources, NEW backend \in Backends,
             Mount(path, resource, backend)
      PROVE  Empty(m)'
  <2>1. ~Within(m, Parent(path))
    BY <1>1, <1>6 DEF Mount, BeginDir
  <2>2. Lists(Parent(path), Name(path), <<"dir", next_dir_id + 1>>)
    BY <1>6, MountLists
  <2> QED
    BY <1>0, <2>1, <2>2, ListsEmpty
<1>7. ASSUME NEW p, NEW choice,
             \/ NewCellTaken(p, choice)
             \/ \E mounting \in BOOLEAN : NewDirTaken(p, choice, mounting)
             \/ \E resource \in Resources : MountRefused(p, resource)
      PROVE  Empty(m)'
  BY <1>2, <1>7, TakenLeaves DEF Leaves
<1>8. ASSUME NEW path \in DOMAIN entries, Unmount(path)
      PROVE  Empty(m)'
  <2>1. m # path
    BY <1>8 DEF Unmount, Drop
  <2> QED
    BY <1>0, <1>2, <1>8, <2>1, UnmountUnlists, UnlistsEmpty DEF Leaves
<1>9. ASSUME NEW from \in DOMAIN entries, NEW to \in Targets, MoveEntry(from, to)
      PROVE  Empty(m)'
  <2>1. ~Within(from, m) /\ ~Within(m, Parent(to))
    BY <1>1, <1>9 DEF MoveEntry
  <2> QED
    BY <1>0, <1>9, <2>1, MoveEntryMoves, MovesEmpty
<1>10. ASSUME NEW path, DeleteCell(path) \/ DeleteDir(path)
       PROVE  Empty(m)'
  <2>1. m # path
    BY <1>0, <1>10 DEF DeleteCell, DeleteDir
  <2>2. Unlists(path)
    BY <1>10, DeleteCellUnlists, DeleteDirUnlists
  <2> QED
    BY <1>0, <2>1, <2>2, UnlistsEmpty
<1>11. ASSUME NEW path, NEW s, SetExpr(path, s)
       PROVE  Empty(m)'
  BY <1>2, <1>11, SetExprLeaves DEF Leaves
<1>12. CASE UNCHANGED vars
  BY <1>2, <1>12 DEF vars, namespace, runtime
<1> QED
  BY <1>3, <1>4, <1>5, <1>6, <1>7, <1>8, <1>9, <1>10, <1>11, <1>12 DEF Next

\* A new mount is empty: its path was not listed and its id not issued.
LEMMA MountEmpty ==
  ASSUME TreeInv, NEW path \in Targets, NEW resource \in Resources,
         NEW backend \in Backends, Mount(path, resource, backend)
  PROVE  Empty(path)'
<1> DEFINE id == <<"dir", next_dir_id + 1>>
           p == Parent(path)
           name == Name(path)
<1>1. /\ path \in Paths /\ path # Root /\ path \notin DOMAIN entries
      /\ DOMAIN entries' = DOMAIN entries \cup {path}
      /\ entries'[path] = id
      /\ \A q \in DOMAIN entries : entries'[q] = entries[q] /\ ~Within(path, q)
  BY MountIsNew
<1>2. Records(p, name, id)
  BY MountLists DEF Lists
<1>3. ListingInv
  BY DEF TreeInv
<1> HIDE DEF id, p, name
<1>4. /\ DOMAIN records' = DOMAIN records \cup {id}
      /\ records'[id] = [parent |-> entries[p], name |-> name]
      /\ \A r \in DOMAIN records : records'[r] = records[r]
  BY <1>2, <1>3, RecordsKept
<1>5. ~Issued(id) /\ Issued(entries[p])
  BY <1>2, <1>3, ListedIssued DEF Records
<1>6. \A r \in DOMAIN records : Issued(records[r].parent)
  BY <1>3 DEF ListingInv, IdsIssued
<1>7. records'[id].parent = entries[p]
  BY <1>4
<1>8. \A r \in DOMAIN records' : records'[r].parent # id
  BY <1>4, <1>5, <1>6, <1>7
<1>9. \A q \in DOMAIN entries' : Within(path, q) => q = path
  BY <1>1
<1> QED
  BY <1>1, <1>8, <1>9 DEF Empty, EnsureEmptyDir, HasChildren

LEMMA NextReadOnly ==
  ASSUME TreeInv, MountsSound, ReadOnlyUntouched, [Next]_vars
  PROVE  ReadOnlyUntouched'
<1>0. \A m \in DOMAIN mounts : mounts[m].backend = "read-only" => Empty(m)
  BY DEF ReadOnlyUntouched, Empty
<1>1. ASSUME NEW m \in DOMAIN mounts', mounts'[m].backend = "read-only",
             m \in DOMAIN mounts, mounts'[m] = mounts[m]
      PROVE  Empty(m)'
  BY <1>0, <1>1, ReadOnlyKept
<1>2. CASE MountsSame
  <2>1. ASSUME NEW m \in DOMAIN mounts', mounts'[m].backend = "read-only"
        PROVE  Empty(m)'
    BY <1>1, <1>2, <2>1 DEF MountsSame
  <2> QED
    BY <2>1 DEF ReadOnlyUntouched, Empty
<1>3. ASSUME NEW path \in Targets, NEW resource \in Resources, NEW backend \in Backends,
             Mount(path, resource, backend)
      PROVE  ReadOnlyUntouched'
  <2>1. mounts' = Put(mounts, path, [resource |-> resource, backend |-> backend])
    BY <1>3 DEF Mount
  <2>2. ASSUME NEW m \in DOMAIN mounts', mounts'[m].backend = "read-only"
        PROVE  Empty(m)'
    <3>1. CASE m = path
      BY <1>3, <3>1, MountEmpty
    <3>2. CASE m # path
      BY <1>1, <2>1, <2>2, <3>2 DEF Put
    <3> QED
      BY <3>1, <3>2
  <2> QED
    BY <2>2 DEF ReadOnlyUntouched, Empty
<1>4. ASSUME NEW path \in DOMAIN entries, Unmount(path)
      PROVE  ReadOnlyUntouched'
  <2>1. mounts' = Drop(mounts, path)
    BY <1>4 DEF Unmount
  <2>2. ASSUME NEW m \in DOMAIN mounts', mounts'[m].backend = "read-only"
        PROVE  Empty(m)'
    BY <1>1, <2>1, <2>2 DEF Drop
  <2> QED
    BY <2>2 DEF ReadOnlyUntouched, Empty
<1> QED
  BY <1>2, <1>3, <1>4, MountsStand

\* A read-only mount stays as it was mounted, with nothing listed or recorded
\* below it: the backend of the mounts above is asked before anything is
\* created, mounted, moved or deleted (ensure_writable), a move is judged by
\* where it goes as well as by where it comes from, and a source refused after
\* its record was made was refused below a writable directory.
THEOREM ReadOnlyStays == Spec => []ReadOnlyUntouched
<1>1. Init => ReadOnlyUntouched
  BY DEF Init, ReadOnlyUntouched
<1>2. TreeInv /\ MountsSound /\ ReadOnlyUntouched /\ [Next]_vars => ReadOnlyUntouched'
  BY NextReadOnly
<1> QED
  BY <1>1, <1>2, TreeInvariance, MountsAreSound, PTL DEF Spec

----------------------------------------------------------------------------
(***************************************************************************)
(* The authored sources.                                                   *)
(***************************************************************************)
IsCell(p) == p \in DOMAIN entries /\ entries[p][1] = "cell"

\* SourcesAgree, path by path.
CellsAre ==
  /\ \A p : p \in DOMAIN cells <=> IsCell(p)
  /\ \A p \in DOMAIN cells : cells[p].id = entries[p]

CopiesAgree ==
  /\ calc_cells = [p \in DOMAIN calc_cells |-> calc_cells[p]]
  /\ \A p : p \in DOMAIN calc_cells <=> p \in DOMAIN cells
  /\ \A p \in DOMAIN cells : calc_cells[p] = cells[p].source
  /\ \A c : c \in DOMAIN source <=> \E p \in DOMAIN cells : c = cells[p].id
  /\ \A p \in DOMAIN cells : source[cells[p].id] = cells[p].source

LEMMA SourcesByPath == SourcesAgree <=> CellsAre /\ CopiesAgree
<1>1. ASSUME SourcesAgree
      PROVE  CellsAre /\ CopiesAgree
  <2>1. CellsAre
    BY <1>1 DEF SourcesAgree, CellsAre, IsCell
  <2>2. /\ calc_cells = [p \in DOMAIN cells |-> cells[p].source]
        /\ DOMAIN source = {cells[p].id : p \in DOMAIN cells}
        /\ \A p \in DOMAIN cells : source[cells[p].id] = cells[p].source
    BY <1>1 DEF SourcesAgree
  <2>3. \A c : c \in DOMAIN source <=> \E p \in DOMAIN cells : c = cells[p].id
    BY <2>2
  <2>4. /\ DOMAIN calc_cells = DOMAIN cells
        /\ \A p \in DOMAIN cells : calc_cells[p] = cells[p].source
        /\ calc_cells = [p \in DOMAIN calc_cells |-> calc_cells[p]]
    BY <2>2
  <2> QED
    BY <2>1, <2>2, <2>3, <2>4 DEF CopiesAgree
<1>2. ASSUME CellsAre, CopiesAgree
      PROVE  SourcesAgree
  <2>1. DOMAIN cells = {p \in DOMAIN entries : entries[p][1] = "cell"}
    BY <1>2 DEF CellsAre, IsCell
  <2>2. DOMAIN source = {cells[p].id : p \in DOMAIN cells}
    BY <1>2 DEF CopiesAgree
  <2>3. calc_cells = [p \in DOMAIN cells |-> cells[p].source]
    BY <1>2 DEF CopiesAgree
  <2> QED
    BY <1>2, <2>1, <2>2, <2>3 DEF SourcesAgree, CellsAre, CopiesAgree
<1> QED
  BY <1>1, <1>2

SourcesInv == CellsAre /\ CopiesAgree

\* The listing keeps its cells, and every copy of the sources stands.
SourcesStand ==
  /\ UNCHANGED <<cells, source, calc_cells>>
  /\ \A p : p \in DOMAIN entries' /\ entries'[p][1] = "cell" <=> IsCell(p)
  /\ \A p : IsCell(p) => entries'[p] = entries[p]

LEMMA StandingSources ==
  ASSUME SourcesInv, SourcesStand
  PROVE  SourcesInv'
<1>1. CellsAre'
  BY DEF SourcesInv, SourcesStand, CellsAre, IsCell
<1>2. CopiesAgree'
  BY DEF SourcesInv, SourcesStand, CopiesAgree
<1> QED
  BY <1>1, <1>2 DEF SourcesInv

LEMMA NewCellSources ==
  ASSUME TreeInv, SourcesInv, NEW p \in Directories, NEW choice \in Names \cup {Generate},
         NEW s \in Sources, NewCell(p, choice, s)
  PROVE  SourcesInv'
<1> DEFINE name == ReservedName(entries[p], "cell", choice)
           path == Append(p, name)
           id == <<"cell", next_cell_id + 1>>
           cell == [id |-> id, source |-> s, revision |-> source_revision']
<1>1. /\ cells' = Put(cells, path, cell)
      /\ source' = Put(source, id, s)
      /\ calc_cells' = Put(calc_cells, path, s)
  BY DEF NewCell, BeginCell
<1>2. Lists(p, name, id) /\ id[1] = "cell"
  BY NewCellLists
<1>3. cell.id = id /\ cell.source = s
  OBVIOUS
<1>4. ListingInv
  BY DEF TreeInv
<1> HIDE DEF name, id, cell
<1>5. /\ path \notin DOMAIN entries
      /\ DOMAIN entries' = DOMAIN entries \cup {path}
      /\ entries'[path] = id
      /\ \A q \in DOMAIN entries : entries'[q] = entries[q]
  BY <1>2, <1>4, ListsEntry
<1>6. \A q \in DOMAIN entries : entries[q] # id
  BY <1>2, <1>4, RecordsKept DEF Lists
<1> HIDE DEF path
<1>7. /\ DOMAIN cells' = DOMAIN cells \cup {path}
      /\ cells'[path] = cell
      /\ path \notin DOMAIN cells
      /\ \A q \in DOMAIN cells : cells'[q] = cells[q]
      /\ \A q \in DOMAIN cells : q \in DOMAIN entries /\ cells[q].id = entries[q]
  BY <1>1, <1>5 DEF Put, SourcesInv, CellsAre, IsCell
<1>8. CellsAre'
  <2>1. \A q : q \in DOMAIN cells' <=> q \in DOMAIN entries' /\ entries'[q][1] = "cell"
    BY <1>2, <1>5, <1>7 DEF SourcesInv, CellsAre, IsCell
  <2>2. \A q \in DOMAIN cells' : cells'[q].id = entries'[q]
    BY <1>3, <1>5, <1>7
  <2> QED
    BY <2>1, <2>2 DEF CellsAre, IsCell
<1>9. CopiesAgree'
  <2>1. /\ calc_cells' = [q \in DOMAIN calc_cells' |-> calc_cells'[q]]
        /\ DOMAIN calc_cells' = DOMAIN calc_cells \cup {path}
        /\ calc_cells'[path] = s
        /\ \A q \in DOMAIN calc_cells : q # path => calc_cells'[q] = calc_cells[q]
    BY <1>1 DEF Put
  <2>2. /\ DOMAIN source' = DOMAIN source \cup {id}
        /\ source'[id] = s
        /\ \A c \in DOMAIN source : c # id => source'[c] = source[c]
    BY <1>1 DEF Put
  <2>3. /\ \A q : q \in DOMAIN calc_cells <=> q \in DOMAIN cells
        /\ \A q \in DOMAIN cells : calc_cells[q] = cells[q].source
        /\ \A c : c \in DOMAIN source <=> \E q \in DOMAIN cells : c = cells[q].id
        /\ \A q \in DOMAIN cells : source[cells[q].id] = cells[q].source
    BY DEF SourcesInv, CopiesAgree
  <2>4. \A q \in DOMAIN cells : cells[q].id # id
    BY <1>6, <1>7
  <2>5. \A c : c \in DOMAIN source' <=> \E q \in DOMAIN cells' : c = cells'[q].id
    BY <1>3, <1>7, <2>2, <2>3
  <2>6. \A q \in DOMAIN cells' : source'[cells'[q].id] = cells'[q].source
    BY <1>3, <1>7, <2>2, <2>3, <2>4
  <2>7. \A q \in DOMAIN cells' : calc_cells'[q] = cells'[q].source
    BY <1>3, <1>7, <2>1, <2>3
  <2> QED
    BY <1>7, <2>1, <2>3, <2>5, <2>6, <2>7 DEF CopiesAgree
<1> QED
  BY <1>8, <1>9 DEF SourcesInv

LEMMA DeleteCellSources ==
  ASSUME TreeInv, SourcesInv, NEW path, DeleteCell(path)
  PROVE  SourcesInv'
<1>1. /\ path \in DOMAIN cells /\ cells[path].id = entries[path]
      /\ \A q \in DOMAIN cells : q \in DOMAIN entries /\ cells[q].id = entries[q]
  BY DEF DeleteCell, SourcesInv, CellsAre, IsCell
<1>2. /\ entries' = Drop(entries, path) /\ cells' = Drop(cells, path)
      /\ calc_cells' = Drop(calc_cells, path)
      /\ source' = Drop(source, entries[path])
  BY DEF DeleteCell
<1>3. CellsAre'
  BY <1>2 DEF Drop, SourcesInv, CellsAre, IsCell
<1>4. \A q \in DOMAIN cells : q # path => cells[q].id # entries[path]
  BY <1>1, OneNode DEF TreeInv
<1>5. /\ DOMAIN cells' = DOMAIN cells \ {path}
      /\ \A q \in DOMAIN cells' : cells'[q] = cells[q]
      /\ DOMAIN calc_cells' = DOMAIN calc_cells \ {path}
      /\ \A q \in DOMAIN calc_cells' : calc_cells'[q] = calc_cells[q]
      /\ calc_cells' = [q \in DOMAIN calc_cells' |-> calc_cells'[q]]
      /\ DOMAIN source' = DOMAIN source \ {entries[path]}
      /\ \A c \in DOMAIN source' : source'[c] = source[c]
  BY <1>2 DEF Drop
<1>6. CopiesAgree'
  BY <1>1, <1>4, <1>5 DEF SourcesInv, CopiesAgree
<1> QED
  BY <1>3, <1>6 DEF SourcesInv

LEMMA SetExprSources ==
  ASSUME TreeInv, SourcesInv, NEW path, NEW s \in Sources, SetExpr(path, s)
  PROVE  SourcesInv'
<1>1. /\ path \in DOMAIN cells /\ entries' = entries
      /\ cells' = [cells EXCEPT ![path].source = s, ![path].revision = source_revision']
      /\ source' = Put(source, cells[path].id, s)
      /\ calc_cells' = Put(calc_cells, path, s)
  BY DEF SetExpr
<1>2. cells \in [DOMAIN cells -> Cell]
  BY DEF TreeInv, DataTypeOK
<1>3. /\ DOMAIN cells' = DOMAIN cells
      /\ \A q \in DOMAIN cells : q # path => cells'[q] = cells[q]
      /\ cells'[path].id = cells[path].id
      /\ cells'[path].source = s
  BY <1>1, <1>2 DEF Cell
<1>4. CellsAre'
  BY <1>1, <1>3 DEF SourcesInv, CellsAre, IsCell
<1>5. \A q \in DOMAIN cells : q # path => cells[q].id # cells[path].id
  <2>1. \A q \in DOMAIN cells : q \in DOMAIN entries /\ cells[q].id = entries[q]
    BY DEF SourcesInv, CellsAre, IsCell
  <2> QED
    BY <1>1, <2>1, OneNode DEF TreeInv
<1>6. /\ DOMAIN calc_cells' = DOMAIN calc_cells \cup {path}
      /\ calc_cells'[path] = s
      /\ \A q \in DOMAIN calc_cells : q # path => calc_cells'[q] = calc_cells[q]
      /\ calc_cells' = [q \in DOMAIN calc_cells' |-> calc_cells'[q]]
      /\ DOMAIN source' = DOMAIN source \cup {cells[path].id}
      /\ source'[cells[path].id] = s
      /\ \A c \in DOMAIN source : c # cells[path].id => source'[c] = source[c]
  BY <1>1 DEF Put
<1>7. CopiesAgree'
  <2>1. /\ \A q : q \in DOMAIN calc_cells <=> q \in DOMAIN cells
        /\ \A q \in DOMAIN cells : calc_cells[q] = cells[q].source
        /\ \A c : c \in DOMAIN source <=> \E q \in DOMAIN cells : c = cells[q].id
        /\ \A q \in DOMAIN cells : source[cells[q].id] = cells[q].source
    BY DEF SourcesInv, CopiesAgree
  <2>2. \A q \in DOMAIN cells : cells'[q].id = cells[q].id
    BY <1>3
  <2>3. \A c : c \in DOMAIN source' <=> \E q \in DOMAIN cells' : c = cells'[q].id
    BY <1>1, <1>3, <1>6, <2>1, <2>2
  <2>4. \A q \in DOMAIN cells' : source'[cells'[q].id] = cells'[q].source
    BY <1>3, <1>5, <1>6, <2>1, <2>2
  <2>5. \A q \in DOMAIN cells' : calc_cells'[q] = cells'[q].source
    BY <1>3, <1>6, <2>1
  <2> QED
    BY <1>1, <1>3, <1>6, <2>1, <2>3, <2>4, <2>5 DEF CopiesAgree
<1> QED
  BY <1>4, <1>7 DEF SourcesInv

LEMMA MoveSources ==
  ASSUME TreeInv, SourcesInv, NEW from \in DOMAIN entries, NEW to \in Targets,
         MoveEntry(from, to)
  PROVE  SourcesInv'
<1> DEFINE R(p) == Rekeyed(p, from, to)
<1>1. Moves(from, to) /\ ListingInv
  BY MoveEntryMoves DEF TreeInv
<1>2. /\ from \in Paths /\ to \in Paths
      /\ DOMAIN entries' = Rekeys(DOMAIN entries, from, to)
      /\ \A p \in DOMAIN entries : entries'[R(p)] = entries[p]
      /\ DOMAIN records' = DOMAIN records
      /\ records'[entries[from]] = [parent |-> entries[Parent(to)], name |-> Name(to)]
      /\ \A r \in DOMAIN records : r # entries[from] => records'[r] = records[r]
  BY <1>1, MovesEntries
<1>3. /\ \A p : p \in DOMAIN cells <=> IsCell(p)
      /\ \A p \in DOMAIN cells : cells[p].id = entries[p]
      /\ \A p : p \in DOMAIN calc_cells <=> p \in DOMAIN cells
      /\ \A p \in DOMAIN cells : calc_cells[p] = cells[p].source
      /\ \A c : c \in DOMAIN source <=> \E p \in DOMAIN cells : c = cells[p].id
      /\ \A p \in DOMAIN cells : source[cells[p].id] = cells[p].source
  BY DEF SourcesInv, CellsAre, CopiesAgree
<1>4. /\ DOMAIN cells \in SUBSET DOMAIN entries
      /\ DOMAIN calc_cells \in SUBSET DOMAIN entries
  BY <1>3 DEF IsCell
<1>5. /\ cells' = Moved(cells, from, to)
      /\ calc_cells' = Moved(calc_cells, from, to)
      /\ source' = source
  BY DEF MoveEntry
<1>6. /\ DOMAIN Moved(cells, from, to) = Rekeys(DOMAIN cells, from, to)
      /\ \A p \in DOMAIN cells : Moved(cells, from, to)[R(p)] = cells[p]
  BY <1>1, <1>4, MovedCopy
<1>7. /\ DOMAIN Moved(calc_cells, from, to) = Rekeys(DOMAIN calc_cells, from, to)
      /\ \A p \in DOMAIN calc_cells : Moved(calc_cells, from, to)[R(p)] = calc_cells[p]
  BY <1>1, <1>4, MovedCopy
<1>8. calc_cells' = [q \in DOMAIN calc_cells' |-> calc_cells'[q]]
  BY <1>5 DEF Moved
<1>9. /\ \A q : q \in DOMAIN entries' <=> \E p \in DOMAIN entries : q = R(p)
      /\ \A q : q \in DOMAIN cells' <=> \E p \in DOMAIN cells : q = R(p)
      /\ \A q : q \in DOMAIN calc_cells' <=> \E p \in DOMAIN calc_cells : q = R(p)
  BY <1>2, <1>5, <1>6, <1>7 DEF Rekeys
<1> HIDE DEF R
<1>10. \A p \in DOMAIN cells : cells'[R(p)] = cells[p] /\ calc_cells'[R(p)] = calc_cells[p]
  BY <1>3, <1>5, <1>6, <1>7
<1>11. CellsAre'
  <2>1. \A q : q \in DOMAIN cells' <=> q \in DOMAIN entries' /\ entries'[q][1] = "cell"
    BY <1>2, <1>3, <1>9 DEF IsCell
  <2>2. \A q \in DOMAIN cells' : cells'[q].id = entries'[q]
    BY <1>2, <1>3, <1>9, <1>10 DEF IsCell
  <2> QED
    BY <2>1, <2>2 DEF CellsAre, IsCell
<1>12. CopiesAgree'
  <2>1. \A q : q \in DOMAIN calc_cells' <=> q \in DOMAIN cells'
    BY <1>3, <1>9
  <2>2. \A q \in DOMAIN cells' : calc_cells'[q] = cells'[q].source
    BY <1>3, <1>9, <1>10
  <2>3. \A c : c \in DOMAIN source' <=> \E q \in DOMAIN cells' : c = cells'[q].id
    BY <1>3, <1>5, <1>9, <1>10
  <2>4. \A q \in DOMAIN cells' : source'[cells'[q].id] = cells'[q].source
    BY <1>3, <1>5, <1>9, <1>10
  <2> QED
    BY <1>8, <2>1, <2>2, <2>3, <2>4 DEF CopiesAgree
<1> QED
  BY <1>11, <1>12 DEF SourcesInv

LEMMA NextSources ==
  ASSUME TreeInv, MountsSound, SourcesInv, [Next]_vars
  PROVE  SourcesInv'
<1> USE DEF TreeInv
<1>1. ASSUME UNCHANGED <<entries, cells, source, calc_cells>>
      PROVE  SourcesInv'
  BY <1>1, StandingSources DEF SourcesStand, IsCell
<1>2. ASSUME UNCHANGED <<cells, source, calc_cells>>, NEW p, NEW name, NEW id,
             Lists(p, name, id), id[1] = "dir"
      PROVE  SourcesInv'
  <2> DEFINE path == Append(p, name)
  <2>1. /\ path \notin DOMAIN entries
        /\ DOMAIN entries' = DOMAIN entries \cup {path}
        /\ entries'[path] = id
        /\ \A q \in DOMAIN entries : entries'[q] = entries[q]
    BY <1>2, ListsEntry
  <2> HIDE DEF path
  <2> QED
    BY <1>2, <2>1, StandingSources DEF SourcesStand, IsCell
<1>3. ASSUME UNCHANGED <<cells, source, calc_cells>>, NEW path,
             entries[path][1] # "cell", entries' = Drop(entries, path)
      PROVE  SourcesInv'
  BY <1>3, StandingSources DEF SourcesStand, IsCell, Drop
<1>4. ASSUME NEW p, NEW choice,
             NewCellTaken(p, choice) \/ \E s \in Sources : NewCellOversized(p, choice, s)
      PROVE  SourcesInv'
  BY <1>1, <1>4 DEF NewCellTaken, NewCellOversized, runtime
<1>5. ASSUME NEW p \in Directories, NEW choice \in Names \cup {Generate}, NewDir(p, choice)
      PROVE  SourcesInv'
  <2>1. BeginDir(p, choice, FALSE) /\ CreateDirRecord(p, choice)
    BY <1>5 DEF NewDir
  <2>2. UNCHANGED <<cells, source, calc_cells>>
    BY <2>1 DEF BeginDir
  <2>3. Lists(p, ReservedName(entries[p], "dir", choice), <<"dir", next_dir_id + 1>>)
    BY <2>1, NewDirLists
  <2>4. <<"dir", next_dir_id + 1>>[1] = "dir"
    OBVIOUS
  <2> QED
    BY <1>2, <2>2, <2>3, <2>4
<1>6. ASSUME NEW p, NEW choice, NEW mounting, NewDirTaken(p, choice, mounting)
      PROVE  SourcesInv'
  BY <1>1, <1>6 DEF NewDirTaken, BeginDir
<1>7. ASSUME NEW path \in Targets, NEW resource \in Resources, NEW backend \in Backends,
             Mount(path, resource, backend)
      PROVE  SourcesInv'
  <2>1. UNCHANGED <<cells, source, calc_cells>>
    BY <1>7 DEF Mount, BeginDir
  <2> QED
    BY <1>2, <1>7, <2>1, MountLists
<1>8. ASSUME NEW path, NEW resource, MountRefused(path, resource)
      PROVE  SourcesInv'
  BY <1>1, <1>8 DEF MountRefused, BeginDir
<1>9. ASSUME NEW path \in DOMAIN entries, Unmount(path)
      PROVE  SourcesInv'
  <2>1. entries[path][1] = "dir"
    BY <1>9 DEF Unmount, MountsSound, IsDir
  <2>2. /\ UNCHANGED <<cells, source, calc_cells>>
        /\ entries' = entries \/ entries' = Drop(entries, path)
    BY <1>9 DEF Unmount, DeleteEmptyDir
  <2> QED
    BY <1>1, <1>3, <2>1, <2>2
<1>10. ASSUME NEW path, DeleteDir(path)
       PROVE  SourcesInv'
  BY <1>1, <1>3, <1>10 DEF DeleteDir, DeleteEmptyDir, IsDir, calc
<1>11. CASE UNCHANGED vars
  BY <1>1, <1>11 DEF vars, runtime, calc
<1> QED
  BY <1>4, <1>5, <1>6, <1>7, <1>8, <1>9, <1>10, <1>11,
     NewCellSources, DeleteCellSources, SetExprSources, MoveSources DEF Next

\* The listed cells, the source store and the calculator hold the same sources
\* for the same cells after every operation: a creation or an edit refused
\* half way wrote none of them, a move carries both path-keyed copies along,
\* and a deleted cell leaves none behind (TreeState::new_cell, set_expr,
\* move_entry, delete).
THEOREM SourcesAlwaysAgree == Spec => []SourcesAgree
<1>1. Init => SourcesInv
  BY DEF Init, SourcesInv, CellsAre, CopiesAgree, IsCell, RootId
<1>2. TreeInv /\ MountsSound /\ SourcesInv /\ [Next]_vars => SourcesInv'
  BY NextSources
<1>3. SourcesInv => SourcesAgree
  BY SourcesByPath DEF SourcesInv
<1> QED
  BY <1>1, <1>2, <1>3, TreeInvariance, MountsAreSound, PTL DEF Spec
=============================================================================
