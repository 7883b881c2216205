------------------------- MODULE Calculator_proofs -------------------------
(***************************************************************************)
(* Proofs about the calculator.                                            *)
(*                                                                         *)
(* Spec keeps its types and never leaves a blocked memo reusable           *)
(* (TypedAndBlocked), and every value the engine holds and need not        *)
(* evaluate again rests on what its memo observed and read (AllSound).     *)
(* A request is proved step by step: what one step of a verification may   *)
(* do is a relation (StepOf), the calls that have not returned are part    *)
(* of the invariant, and an edit must invalidate whatever it changes       *)
(* (Announced).  So the values it answers are those of a recalculation     *)
(* (Answering).                                                            *)
(*                                                                         *)
(* The last part is about a process that starts from the record of an      *)
(* earlier one (CalcRestart).                                              *)
(***************************************************************************)
EXTENDS CalcRestart, FiniteSetTheorems, SequenceTheorems, TLAPS

----------------------------------------------------------------------------
(***************************************************************************)
(* Types.                                                                  *)
(***************************************************************************)
Path == Seq(STRING)
QueryKinds == {"policy", "authority", "force", "codec", "cell", "list", "slot", "step",
               "mount", "lexical"}
Queries == QueryKinds \X Path
Kinds == {"value"} \cup Failures
Outs == [kind : Kinds, val : Seq(Texts)]
Memos == {NoMemo} \cup [out : Outs, obs : SUBSET Queries, reads : Seq(Cells)]

EngineTyped(m, p, d) ==
  m \in [Cells -> Memos] /\ p \subseteq Cells /\ d \subseteq Cells

SampleFields == {"epoch", "listing", "stamps"}
BackendTyped ==
  /\ DOMAIN backend = Mounts
  /\ \A m \in Mounts :
       /\ DOMAIN backend[m] = SampleFields
       /\ DOMAIN backend[m].stamps = {c \in Stored : IsPrefix(m, c)}
       /\ \A c \in DOMAIN backend[m].stamps : backend[m].stamps[c] \in Nat \ {0}

SourcesTyped ==
  /\ DOMAIN cells \subseteq Cells /\ cells \in [DOMAIN cells -> Seq(Atoms)]
  /\ DOMAIN bound \subseteq DOMAIN Bindings
  /\ \A n \in DOMAIN bound : bound[n] \in Seq(Texts)

MountsTyped ==
  /\ DOMAIN mounts \subseteq Mounts
  /\ refresh_sources \subseteq DOMAIN mounts
  /\ DOMAIN mounts \subseteq DOMAIN refresh_samples
  /\ \A m \in DOMAIN refresh_samples : DOMAIN refresh_samples[m] = SampleFields

StateTyped ==
  /\ SourcesTyped /\ BackendTyped /\ MountsTyped
  /\ DOMAIN authority_policies = Levels
  /\ registered \subseteq Cells

CalcTypeOK == StateTyped /\ EngineTyped(memo, pending, dirty)

----------------------------------------------------------------------------
(***************************************************************************)
(* What a memo that may be reused says.                                    *)
(***************************************************************************)
\* The cells whose value may be reused without looking at anything.
Clean(m, d) == {c \in Cells : c \notin d /\ m[c].out.kind = "value"}

\* The lookups whose answers decide a value.
Watched(at) == {q \in at.obs : q[1] \in {"list", "lexical"}}

\* An atom's value, when the backend holds its entry with stamp n.
Piece(m, c, atom, n) ==
  IF Resolved(c, atom).found # None THEN m[Resolved(c, atom).found].out.val
  ELSE IF atom.kind = "ext" THEN Entry(n)
  ELSE ImmediateValue(c, atom)

Pieces(m, c, n, k) == [i \in 1..k |-> Piece(m, c, cells[c][i], n)]

\* Reading the atom is no failure, and was observed.
AtomSeen(c, atom, obs, reads) ==
  /\ atom.kind # "fail"
  /\ Watched(Resolved(c, atom)) \subseteq obs
  /\ Resolved(c, atom).found \in ToSet(reads) \cup {None}

Supported(m, c, n) ==
  /\ \A x \in ToSet(m[c].reads) : m[x].out.kind = "value"
  /\ c \notin DOMAIN cells => m[c].out.val = <<"missing">>
  /\ c \in DOMAIN cells =>
       /\ Full!Capable(c)
       /\ \A k \in DOMAIN cells[c] : AtomSeen(c, cells[c][k], m[c].obs, m[c].reads)
       /\ m[c].out.val = FlattenSeq(Pieces(m, c, n, Len(cells[c])))

\* Whether an entry may have been read with stamp n since the last refresh, which
\* saw since; those of S may have been read past it.  The next refresh sees a
\* change of every other.
MayBe(S, since, c, n) == n = since \/ c \in S \/ (c \in Stored /\ since = 0)

ValuesSupported(S, m, p) ==
  \A c \in Cells \ p :
    m[c].out.kind = "value" => \E n : MayBe(S, Since(c), c, n) /\ Supported(m, c, n)

\* What a request that runs now may have read past the last refresh.
Read == ahead \cup {c \in Stored : Since(c) # Content[c]}

CleanClosed(m, d) == \A c \in Clean(m, d) : ToSet(m[c].reads) \subseteq Clean(m, d)

CleanGrounded(m, d) ==
  \A S \in SUBSET Clean(m, d) :
    S # {} => \E c \in S : ToSet(m[c].reads) \cap S = {}

EngineInv(m, p, d) ==
  /\ EngineTyped(m, p, d)
  /\ p \subseteq d
  /\ ValuesSupported(Read, m, p)
  /\ CleanClosed(m, d)
  /\ CleanGrounded(m, d)

----------------------------------------------------------------------------
\* Induction over the numbers of a set: the induction theorems of the library
\* take an operator, this one takes a set.
LEMMA SetInduction ==
  ASSUME NEW T, 0 \in T, \A n \in Nat : n \in T => n + 1 \in T
  PROVE  \A n \in Nat : n \in T
<1> SUFFICES ASSUME NEW n \in Nat, n \notin T PROVE FALSE
  OBVIOUS
<1> DEFINE F == {0 .. m : m \in Nat \ T}
           R == StrictSubsetOrdering(Nat)
           S == FiniteSubsetsOf(Nat)
<1>1. F \subseteq S /\ F # {}
  <2>1. \A m \in Nat : 0 .. m \subseteq Nat /\ IsFiniteSet(0 .. m)
    BY FS_Interval
  <2> QED
    BY <2>1 DEF FiniteSubsetsOf
<1>2. IsWellFoundedOn(R, S)
  BY FS_StrictSubsetOrderingWellFounded
<1>3. PICK x \in F : \A y \in F : ~ (<<y, x>> \in R)
  <2> HIDE DEF F, R, S
  <2> QED
    BY <1>1, <1>2, WFMin
<1>4. PICK m \in Nat \ T : x = 0 .. m
  OBVIOUS
<1>5. m - 1 \in Nat /\ m - 1 \notin T
  OBVIOUS
<1>6. 0 .. m - 1 \in F /\ 0 .. m - 1 \subseteq 0 .. m /\ m \in 0 .. m /\ m \notin 0 .. m - 1
  BY <1>5
<1>7. <<0 .. m - 1, 0 .. m>> \in R
  BY <1>5, <1>6 DEF StrictSubsetOrdering
<1> QED
  BY <1>3, <1>4, <1>6, <1>7

\* A set of numbers that is not empty has a least one.
LEMMA LeastOf ==
  ASSUME NEW H \in SUBSET Nat, H # {}
  PROVE  \E k \in H : \A j \in H : k <= j
<1> SUFFICES ASSUME \A k \in H : \E j \in H : j < k PROVE FALSE
  OBVIOUS
<1> DEFINE T == {n \in Nat : \A k \in 0 .. n : k \notin H}
<1>1. 0 \in T
  OBVIOUS
<1>2. ASSUME NEW n \in Nat, n \in T PROVE n + 1 \in T
  <2> SUFFICES ASSUME n + 1 \in H PROVE FALSE
    BY <1>2
  <2> PICK j \in H : j < n + 1
    OBVIOUS
  <2> QED
    BY <1>2
<1>3. \A n \in Nat : n \in T
  <2> HIDE DEF T
  <2> QED
    BY <1>1, <1>2, SetInduction
<1>4. PICK k : k \in H
  OBVIOUS
<1>5. k \in Nat /\ k \in T /\ k \in 0 .. k
  BY <1>3, <1>4
<1> QED
  BY <1>4, <1>5

----------------------------------------------------------------------------
(***************************************************************************)
(* Paths.                                                                  *)
(***************************************************************************)
\* Cells are paths, and no cell is None.
LEMMA CellPaths ==
  /\ Cells \subseteq Path
  /\ \A c \in Cells : c \in Path /\ c # <<>> /\ Len(c) \in Nat \ {0}
  /\ None \notin Cells
<1>1. \A c \in Cells : c \in Path /\ c # <<>>
  BY PathAssumption DEF Path
<1>2. \A c \in Cells : Len(c) \in Nat \ {0}
  <2> TAKE c \in Cells
  <2>1. c \in Seq(STRING) /\ c # <<>>
    BY <1>1 DEF Path
  <2> QED
    BY <2>1, EmptySeq, LenProperties
<1> QED
  BY <1>1, <1>2 DEF None

LEMMA ParentTyped ==
  ASSUME NEW p \in Path, Len(p) > 0
  PROVE  ParentPath(p) \in Path
BY SubSeqProperties DEF Path, ParentPath, Front

\* The candidates of a lookup: one per directory, the nearest first.
LEMMA CandidatesTyped ==
  ASSUME NEW c \in Cells, NEW name \in STRING
  PROVE  /\ DOMAIN Candidates(c, name) = 1 .. Len(c)
         /\ Len(Candidates(c, name)) = Len(c)
         /\ \A k \in 1 .. Len(c) :
              /\ Candidates(c, name)[k] = Append(SubSeq(c, 1, Len(c) - k), name)
              /\ Candidates(c, name)[k] \in Path
              /\ Candidates(c, name)[k] # None
              /\ Len(Candidates(c, name)[k]) = Len(c) - k + 1
<1>1. c \in Seq(STRING) /\ Len(c) \in Nat \ {0}
  BY CellPaths DEF Path
<1>2. DOMAIN Candidates(c, name) = 1 .. Len(c)
  BY DEF Candidates
<1>3. Len(Candidates(c, name)) = Len(c)
  BY <1>1 DEF Candidates
<1>4. ASSUME NEW k \in 1 .. Len(c)
      PROVE  /\ Candidates(c, name)[k] = Append(SubSeq(c, 1, Len(c) - k), name)
             /\ Candidates(c, name)[k] \in Path
             /\ Candidates(c, name)[k] # None
             /\ Len(Candidates(c, name)[k]) = Len(c) - k + 1
  <2> DEFINE s == SubSeq(c, 1, Len(c) - k)
  <2>1. Candidates(c, name)[k] = Append(s, name)
    BY DEF Candidates
  <2>2. s \in Seq(STRING) /\ Len(s) = Len(c) - k
    BY <1>1, SubSeqProperties
  <2> HIDE DEF s
  <2>3. /\ Append(s, name) \in Seq(STRING) /\ Append(s, name) # <<>>
        /\ Len(Append(s, name)) = Len(s) + 1
    BY <2>2, AppendProperties
  <2> QED
    BY <2>1, <2>2, <2>3 DEF Path, None, s
<1> QED
  BY <1>2, <1>3, <1>4

----------------------------------------------------------------------------
(***************************************************************************)
(* Lookups.                                                                *)
(***************************************************************************)
\* What a bare lookup finds: the nearest candidate that exists, with the
\* listings of all the directories up to there.
BareFound(E, c, name, k) ==
  /\ k \in 1 .. Len(c)
  /\ Candidates(c, name)[k] \in E
  /\ \A j \in 1 .. k - 1 : Candidates(c, name)[j] \notin E

BareMissing(E, c, name) == \A k \in 1 .. Len(c) : Candidates(c, name)[k] \notin E

BareUpTo(c, name, found, k) ==
  LET visited == {Candidates(c, name)[j] : j \in 1 .. k}
  IN [found |-> found,
      obs |-> {<<"list", ParentPath(p)>> : p \in visited}
                \cup (UNION {LookupSteps(p) : p \in visited})
                \cup {<<"slot", p>> : p \in visited \ {found}}]

LEMMA BareWhenFound ==
  ASSUME NEW c \in Cells, NEW name \in STRING, NEW E, NEW k, BareFound(E, c, name, k)
  PROVE  ResolveBare(E, c, name) = BareUpTo(c, name, Candidates(c, name)[k], k)
<1> DEFINE cands == Candidates(c, name)
           hits == {j \in DOMAIN cands : cands[j] \in E}
<1>1. DOMAIN cands = 1 .. Len(c) /\ Len(c) \in Nat
  BY CandidatesTyped, CellPaths
<1>2. k \in hits /\ \A j \in hits : k <= j
  <2>1. k \in 1 .. Len(c) /\ cands[k] \in E
    BY DEF BareFound
  <2>2. ASSUME NEW j \in hits, j < k PROVE FALSE
    <3>0. cands[j] \in E /\ j \in 1 .. Len(c) /\ k \in 1 .. Len(c) /\ Len(c) \in Nat
      BY <1>1, <2>1
    <3>1. j \in 1 .. k - 1 /\ cands[j] \in E
      <4> HIDE DEF cands
      <4> QED
        BY <2>2, <3>0
    <3> QED
      BY <3>1 DEF BareFound
  <2>3. k \in hits
    BY <1>1, <2>1
  <2>4. \A j \in hits : j \in Nat /\ k \in Nat
    BY <1>1, <2>1
  <2> HIDE DEF hits
  <2> QED
    BY <2>2, <2>3, <2>4
<1>3. (CHOOSE i \in hits : \A j \in hits : i <= j) = k
  <2> DEFINE m == CHOOSE i \in hits : \A j \in hits : i <= j
  <2> HIDE DEF cands
  <2>1. m \in hits /\ \A j \in hits : m <= j
    BY <1>2
  <2>2. m \in Nat /\ k \in Nat
    BY <2>1, <1>1, <1>2
  <2> QED
    BY <1>2, <2>1, <2>2
<1>4. hits # {}
  BY <1>2
<1> QED
  BY <1>3, <1>4 DEF ResolveBare, BareUpTo

LEMMA BareWhenMissing ==
  ASSUME NEW c \in Cells, NEW name \in STRING, NEW E, BareMissing(E, c, name)
  PROVE  ResolveBare(E, c, name) = BareUpTo(c, name, None, Len(c))
<1> DEFINE cands == Candidates(c, name)
           hits == {j \in DOMAIN cands : cands[j] \in E}
<1>1. DOMAIN cands = 1 .. Len(c) /\ Len(cands) = Len(c)
  BY CandidatesTyped
<1>2. hits = {}
  BY <1>1 DEF BareMissing
<1> QED
  BY <1>1, <1>2 DEF ResolveBare, BareUpTo

LEMMA BareCases ==
  ASSUME NEW c \in Cells, NEW name \in STRING, NEW E
  PROVE  BareMissing(E, c, name) \/ \E k \in 1 .. Len(c) : BareFound(E, c, name, k)
<1> SUFFICES ASSUME ~ BareMissing(E, c, name)
             PROVE  \E k \in 1 .. Len(c) : BareFound(E, c, name, k)
  OBVIOUS
<1> DEFINE H == {k \in 1 .. Len(c) : Candidates(c, name)[k] \in E}
<1>0. Len(c) \in Nat
  BY CellPaths
<1>1. H # {} /\ H \in SUBSET Nat
  <2>1. \E k \in 1 .. Len(c) : Candidates(c, name)[k] \in E
    BY DEF BareMissing
  <2>2. \A k \in 1 .. Len(c) : k \in Nat
    BY <1>0
  <2> QED
    BY <2>1, <2>2
<1>2. PICK k \in H : \A j \in H : k <= j
  <2> HIDE DEF H
  <2> QED
    BY <1>1, LeastOf
<1>3. BareFound(E, c, name, k)
  <2>1. k \in 1 .. Len(c) /\ Candidates(c, name)[k] \in E
    OBVIOUS
  <2>2. ASSUME NEW j \in 1 .. k - 1, Candidates(c, name)[j] \in E PROVE FALSE
    <3>1. j \in 1 .. Len(c) /\ j < k
      BY <1>0, <2>1
    <3>2. j \in H
      BY <2>2, <3>1
    <3>3. k <= j /\ j \in Nat /\ k \in Nat
      BY <1>1, <1>2, <3>2
    <3> QED
      BY <3>1, <3>3
  <2> QED
    BY <2>1, <2>2 DEF BareFound
<1> QED
  BY <1>3

\* A bare lookup observes the listing of every directory it looks into.
LEMMA BareListings ==
  ASSUME NEW c \in Cells, NEW name \in STRING, NEW found, NEW k \in 1 .. Len(c),
         NEW j \in 1 .. k
  PROVE  <<"list", ParentPath(Candidates(c, name)[j])>> \in BareUpTo(c, name, found, k).obs
BY DEF BareUpTo

\* A bare lookup depends on the listings it observed and on nothing else: cells
\* that come and go elsewhere do not change it.
THEOREM BareLookupDependsOnListings ==
  ASSUME NEW c \in Cells, NEW name \in STRING, NEW E, NEW F,
         \A p : (p \in E) # (p \in F)
                  => <<"list", ParentPath(p)>> \notin ResolveBare(E, c, name).obs
  PROVE  ResolveBare(F, c, name) = ResolveBare(E, c, name)
<1>0. Len(c) \in Nat \ {0}
  BY CellPaths
<1>1. CASE BareMissing(E, c, name)
  <2>1. ResolveBare(E, c, name) = BareUpTo(c, name, None, Len(c))
    BY <1>1, BareWhenMissing
  <2>2. ASSUME NEW j \in 1 .. Len(c) PROVE Candidates(c, name)[j] \notin F
    <3>1. <<"list", ParentPath(Candidates(c, name)[j])>> \in ResolveBare(E, c, name).obs
      BY <1>0, <2>1, BareListings
    <3> QED
      BY <1>1, <3>1 DEF BareMissing
  <2>3. BareMissing(F, c, name)
    BY <2>2 DEF BareMissing
  <2> QED
    BY <2>1, <2>3, BareWhenMissing
<1>2. ASSUME NEW k \in 1 .. Len(c), BareFound(E, c, name, k)
      PROVE  ResolveBare(F, c, name) = ResolveBare(E, c, name)
  <2>1. ResolveBare(E, c, name) = BareUpTo(c, name, Candidates(c, name)[k], k)
    BY <1>2, BareWhenFound
  <2>2. ASSUME NEW j \in 1 .. k
        PROVE  (Candidates(c, name)[j] \in F) = (Candidates(c, name)[j] \in E)
    <3>1. <<"list", ParentPath(Candidates(c, name)[j])>> \in ResolveBare(E, c, name).obs
      BY <2>1, BareListings
    <3> QED
      BY <3>1
  <2>3. BareFound(F, c, name, k)
    BY <1>0, <1>2, <2>2 DEF BareFound
  <2> QED
    BY <2>1, <2>3, BareWhenFound
<1> QED
  BY <1>1, <1>2, BareCases

----------------------------------------------------------------------------
(***************************************************************************)
(* Values: the concatenation of a sequence of sequences.                   *)
(***************************************************************************)
Flattening(s, f, n) == f = [i \in 1 .. n |-> IF i = 1 THEN s[i] ELSE f[i - 1] \o s[i]]

LEMMA FlatteningAt ==
  ASSUME NEW s, NEW f, NEW n \in Nat, Flattening(s, f, n), NEW j \in 1 .. n
  PROVE  f[j] = IF j = 1 THEN s[j] ELSE f[j - 1] \o s[j]
BY DEF Flattening

\* What FlattenSeq chooses exists, and is determined by what is flattened.
LEMMA FlatteningExists ==
  ASSUME NEW s, NEW n \in Nat
  PROVE  \E f : Flattening(s, f, n)
<1> DEFINE T == {m \in Nat : \E f : Flattening(s, f, m)}
<1>1. 0 \in T
  <2> DEFINE f == [i \in 1 .. 0 |-> s[i]]
  <2>1. Flattening(s, f, 0)
    BY DEF Flattening
  <2> QED
    BY <2>1
<1>2. ASSUME NEW m \in Nat, m \in T PROVE m + 1 \in T
  <2>1. PICK f : Flattening(s, f, m)
    BY <1>2
  <2> DEFINE last == IF m = 0 THEN s[1] ELSE f[m] \o s[m + 1]
             g == [i \in 1 .. m + 1 |-> IF i = m + 1 THEN last ELSE f[i]]
  <2>2. ASSUME NEW i \in 1 .. m + 1
        PROVE  g[i] = IF i = 1 THEN s[i] ELSE g[i - 1] \o s[i]
    <3>1. CASE i = m + 1 /\ m = 0
      BY <3>1
    <3>2. CASE i = m + 1 /\ m # 0
      <4>1. i - 1 = m /\ i - 1 \in 1 .. m + 1 /\ i - 1 # m + 1 /\ i # 1
        BY <3>2
      <4>2. g[i] = f[m] \o s[m + 1] /\ g[i - 1] = f[m]
        BY <3>2, <4>1
      <4> QED
        BY <3>2, <4>1, <4>2
    <3>3. CASE i # m + 1
      <4>1. i \in 1 .. m /\ g[i] = f[i]
        BY <3>3
      <4>2. f[i] = IF i = 1 THEN s[i] ELSE f[i - 1] \o s[i]
        BY <2>1, <4>1 DEF Flattening
      <4>3. i # 1 => i - 1 \in 1 .. m + 1 /\ i - 1 # m + 1
        BY <4>1
      <4>4. i # 1 => g[i - 1] = f[i - 1]
        BY <4>3
      <4> QED
        BY <4>1, <4>2, <4>4
    <3> QED
      BY <3>1, <3>2, <3>3
  <2>3. Flattening(s, g, m + 1)
    <3>1. g = [i \in 1 .. m + 1 |-> g[i]]
      OBVIOUS
    <3> HIDE DEF g
    <3> QED
      BY <2>2, <3>1 DEF Flattening
  <2> HIDE DEF g
  <2> QED
    BY <2>3
<1> HIDE DEF T
<1>3. n \in T
  BY <1>1, <1>2, SetInduction
<1> QED
  BY <1>3 DEF T

\* Two sequences begin alike.
Agree(s, t, n) == \A i \in 1 .. n : s[i] = t[i]

LEMMA FlatteningUnique ==
  ASSUME NEW s, NEW t, NEW n \in Nat, NEW m \in Nat, n <= m, Agree(s, t, n),
         NEW f, NEW g, Flattening(s, f, n), Flattening(t, g, m)
  PROVE  Agree(f, g, n)
<1> DEFINE T == {i \in Nat : i \in 1 .. n => f[i] = g[i]}
<1>1. 0 \in T
  OBVIOUS
<1>2. ASSUME NEW i \in Nat, i \in T PROVE i + 1 \in T
  <2> SUFFICES ASSUME i + 1 \in 1 .. n PROVE f[i + 1] = g[i + 1]
    OBVIOUS
  <2>1. i + 1 \in 1 .. m /\ i + 1 - 1 = i /\ (i + 1 # 1 => i \in 1 .. n)
    OBVIOUS
  <2>2. f[i + 1] = IF i + 1 = 1 THEN s[i + 1] ELSE f[i + 1 - 1] \o s[i + 1]
    BY FlatteningAt
  <2>3. g[i + 1] = IF i + 1 = 1 THEN t[i + 1] ELSE g[i + 1 - 1] \o t[i + 1]
    BY <2>1, FlatteningAt
  <2> QED
    BY <1>2, <2>1, <2>2, <2>3 DEF Agree
<1>3. \A i \in Nat : i \in T
  <2> HIDE DEF T
  <2> QED
    BY <1>1, <1>2, SetInduction
<1> QED
  BY <1>3 DEF Agree

LEMMA FlattenIs ==
  ASSUME NEW s, Len(s) \in Nat \ {0}
  PROVE  \E f : Flattening(s, f, Len(s)) /\ FlattenSeq(s) = f[Len(s)]
<1>1. \E f : Flattening(s, f, Len(s))
  BY FlatteningExists
<1> DEFINE f == CHOOSE f : Flattening(s, f, Len(s))
<1>2. Flattening(s, f, Len(s))
  BY <1>1
<1>3. FlattenSeq(s) = f[Len(s)]
  BY DEF FlattenSeq, Flattening
<1> QED
  BY <1>2, <1>3

\* One sequence more is one concatenation more.
LEMMA FlattenLonger ==
  ASSUME NEW s, NEW t, NEW n \in Nat, n # 0, NEW m \in Nat, m = n + 1,
         Len(s) = n, Len(t) = m, Agree(s, t, n)
  PROVE  FlattenSeq(t) = FlattenSeq(s) \o t[m]
<1>1. PICK g : Flattening(t, g, m) /\ FlattenSeq(t) = g[m]
  BY FlattenIs
<1>2. PICK f : Flattening(s, f, n) /\ FlattenSeq(s) = f[n]
  BY FlattenIs
<1>3. m \in 1 .. m /\ m - 1 = n /\ m # 1 /\ n \in 1 .. n /\ n <= m
  OBVIOUS
<1>4. g[m] = IF m = 1 THEN t[m] ELSE g[m - 1] \o t[m]
  BY <1>1, <1>3, FlatteningAt
<1>a. Flattening(s, f, n) /\ Flattening(t, g, m) /\ n <= m
  BY <1>1, <1>2, <1>3
<1>b. Agree(f, g, n)
  BY <1>a, FlatteningUnique, Zenon
<1>5. f[n] = g[n]
  BY <1>3, <1>b DEF Agree
<1>6. g[m - 1] = f[n]
  BY <1>3, <1>5
<1> QED
  BY <1>1, <1>2, <1>3, <1>4, <1>6

LEMMA FlattenNone ==
  ASSUME NEW s, Len(s) = 0, s = <<>>
  PROVE  FlattenSeq(s) = <<>>
BY DEF FlattenSeq

LEMMA FlattenTyped ==
  ASSUME NEW S, NEW s \in Seq(Seq(S))
  PROVE  FlattenSeq(s) \in Seq(S)
<1>1. CASE s = <<>>
  BY <1>1, FlattenNone, EmptySeq
<1>2. CASE s # <<>>
  <2>1. Len(s) \in Nat \ {0}
    BY <1>2, EmptySeq
  <2>2. PICK f : Flattening(s, f, Len(s)) /\ FlattenSeq(s) = f[Len(s)]
    BY <2>1, FlattenIs
  <2>3. \A i \in 1 .. Len(s) : s[i] \in Seq(S)
    OBVIOUS
  <2> DEFINE n == Len(s)
             T == {i \in Nat : i \in 1 .. n => f[i] \in Seq(S)}
  <2> HIDE DEF n
  <2>4. 0 \in T
    OBVIOUS
  <2>5. ASSUME NEW i \in Nat, i \in T PROVE i + 1 \in T
    <3> SUFFICES ASSUME i + 1 \in 1 .. n PROVE f[i + 1] \in Seq(S)
      OBVIOUS
    <3>1. f[i + 1] = IF i + 1 = 1 THEN s[i + 1] ELSE f[i + 1 - 1] \o s[i + 1]
      BY <2>2, FlatteningAt DEF n
    <3>2. s[i + 1] \in Seq(S)
      BY <2>3 DEF n
    <3>3. i + 1 - 1 = i /\ (i + 1 # 1 => i \in 1 .. n)
      BY <2>1 DEF n
    <3>4. i + 1 # 1 => f[i] \in Seq(S)
      BY <2>5, <3>3
    <3>5. i + 1 # 1 => f[i] \o s[i + 1] \in Seq(S)
      BY <3>2, <3>4, ConcatProperties
    <3> QED
      BY <3>1, <3>2, <3>3, <3>5
  <2>6. \A i \in Nat : i \in T
    <3> HIDE DEF T
    <3> QED
      BY <2>4, <2>5, SetInduction
  <2>7. n \in 1 .. n /\ n \in Nat
    BY <2>1 DEF n
  <2>8. f[n] \in Seq(S)
    BY <2>6, <2>7
  <2> QED
    BY <2>2, <2>8 DEF n
<1> QED
  BY <1>1, <1>2

\* One more piece.
LEMMA FlattenOneMore ==
  ASSUME NEW S, NEW s \in Seq(Seq(S)), NEW t \in Seq(Seq(S)), Len(t) = Len(s) + 1,
         \A i \in 1 .. Len(s) : s[i] = t[i]
  PROVE  FlattenSeq(t) = FlattenSeq(s) \o t[Len(t)]
<1>0. Len(s) \in Nat /\ Len(t) \in Nat \ {0}
  OBVIOUS
<1>1. PICK g : Flattening(t, g, Len(t)) /\ FlattenSeq(t) = g[Len(t)]
  BY <1>0, FlattenIs
<1>2. CASE s = <<>>
  <2>1. Len(t) = 1
    BY <1>2
  <2>2. g[1] = t[1]
    <3>1. 1 \in 1 .. Len(t)
      BY <2>1
    <3> QED
      BY <1>1, <3>1 DEF Flattening
  <2>3. FlattenSeq(s) = <<>>
    BY <1>2, FlattenNone
  <2>4. t[1] \in Seq(S)
    BY <2>1
  <2> QED
    BY <1>1, <2>1, <2>2, <2>3, <2>4, ConcatEmptySeq
<1>3. CASE s # <<>>
  <2>1. Len(s) \in Nat /\ Len(s) # 0 /\ Len(t) \in Nat
    BY <1>0, <1>3, EmptySeq
  <2> QED
    BY <2>1, FlattenLonger DEF Agree
<1> QED
  BY <1>2, <1>3

----------------------------------------------------------------------------
(***************************************************************************)
(* Authority: what the levels of a cell add up to.                         *)
(***************************************************************************)
LEMMA PrefixTyped ==
  ASSUME NEW c \in Cells, NEW k \in 0 .. Len(c)
  PROVE  /\ SubSeq(c, 1, k) \in Path
         /\ Len(SubSeq(c, 1, k)) = k
         /\ \A i \in 1 .. k : SubSeq(c, 1, k)[i] = c[i]
         /\ IsPrefix(SubSeq(c, 1, k), c)
<1> DEFINE p == SubSeq(c, 1, k)
<1>1. c \in Seq(STRING) /\ Len(c) \in Nat \ {0} /\ k \in Nat
  BY CellPaths DEF Path
<1>2. p \in Seq(STRING) /\ Len(p) = k /\ \A i \in 1 .. k : p[i] = c[i]
  BY <1>1, SubSeqProperties
<1>3. SubSeq(p, 1, Len(p)) = SubSeq(c, 1, Len(p))
  <2> HIDE DEF p
  <2>1. SubSeq(p, 1, Len(p)) = p
    BY <1>2
  <2> QED
    BY <1>2, <2>1 DEF p
<1>4. IsPrefix(p, c)
  BY <1>1, <1>2, <1>3 DEF IsPrefix
<1> QED
  BY <1>2, <1>4 DEF Path

LEMMA LevelsTyped ==
  ASSUME NEW c \in Cells
  PROVE  /\ LevelsOf(c) \in Seq(Levels)
         /\ \A l \in ToSet(LevelsOf(c)) : c \in Governed(l)
<1> DEFINE dirs == [k \in 1 .. Len(c) |-> DirLevel(SubSeq(c, 1, k - 1))]
           S == {l \in Levels : c \in Governed(l)}
<1>1. Len(c) \in Nat
  BY CellPaths
<1>2. dirs \in Seq(S)
  <2>1. ASSUME NEW k \in 1 .. Len(c) PROVE DirLevel(SubSeq(c, 1, k - 1)) \in S
    <3>1. k - 1 \in 0 .. Len(c) - 1 /\ k - 1 \in 0 .. Len(c)
      BY <1>1
    <3>2. IsPrefix(SubSeq(c, 1, k - 1), c)
      BY <3>1, PrefixTyped
    <3>3. SubSeq(c, 1, k - 1) \in Dirs
      BY <3>1 DEF Dirs
    <3> QED
      BY <3>2, <3>3 DEF Levels, DirLevel, Governed, IsDescendantOrSame
  <2> QED
    BY <1>1, <2>1
<1>3. <<TreeLevel>> \in Seq(S) /\ <<CellLevel(c)>> \in Seq(S)
  BY DEF TreeLevel, CellLevel, Levels, Governed
<1>4. LevelsOf(c) \in Seq(S)
  <2>1. LevelsOf(c) = <<TreeLevel>> \o dirs \o <<CellLevel(c)>>
    BY DEF LevelsOf
  <2> HIDE DEF dirs, S
  <2>2. <<TreeLevel>> \o dirs \in Seq(S)
    BY <1>2, <1>3, ConcatProperties
  <2> QED
    BY <1>3, <2>1, <2>2, ConcatProperties
<1>5. ToSet(LevelsOf(c)) \subseteq S
  <2> HIDE DEF S
  <2> QED
    BY <1>4 DEF ToSet
<1>6. Seq(S) \subseteq Seq(Levels)
  OBVIOUS
<1> QED
  BY <1>4, <1>5, <1>6

NoLevels == [capabilities |-> Ceiling, denied |-> {}, required |-> {}]
Deriving(policies, levels, f, n) ==
  f = [k \in 0 .. n |-> IF k = 0 THEN NoLevels ELSE Diminish(f[k - 1], policies[levels[k]])]

LEMMA DerivingAt ==
  ASSUME NEW policies, NEW levels, NEW f, NEW n \in Nat, Deriving(policies, levels, f, n)
  PROVE  /\ f[0] = NoLevels
         /\ \A j \in 1 .. n : f[j] = Diminish(f[j - 1], policies[levels[j]])
<1>1. \A j \in 0 .. n : f[j] = IF j = 0 THEN NoLevels
                               ELSE Diminish(f[j - 1], policies[levels[j]])
  BY DEF Deriving
<1> QED
  BY <1>1

LEMMA DerivingExists ==
  ASSUME NEW policies, NEW levels, NEW n \in Nat
  PROVE  \E f : Deriving(policies, levels, f, n)
<1> DEFINE T == {m \in Nat : \E f : Deriving(policies, levels, f, m)}
<1>1. 0 \in T
  <2> DEFINE f == [i \in 0 .. 0 |-> NoLevels]
  <2>1. Deriving(policies, levels, f, 0)
    BY DEF Deriving
  <2> QED
    BY <2>1
<1>2. ASSUME NEW m \in Nat, m \in T PROVE m + 1 \in T
  <2>1. PICK f : Deriving(policies, levels, f, m)
    BY <1>2
  <2> DEFINE last == Diminish(f[m], policies[levels[m + 1]])
             g == [i \in 0 .. m + 1 |-> IF i = m + 1 THEN last ELSE f[i]]
  <2>2. ASSUME NEW i \in 0 .. m + 1
        PROVE  g[i] = IF i = 0 THEN NoLevels ELSE Diminish(g[i - 1], policies[levels[i]])
    <3>1. CASE i = m + 1
      <4>1. i - 1 = m /\ i - 1 \in 0 .. m + 1 /\ i - 1 # m + 1 /\ i # 0
        BY <3>1
      <4>2. g[i] = last /\ g[i - 1] = f[m]
        BY <3>1, <4>1
      <4> QED
        BY <3>1, <4>1, <4>2
    <3>2. CASE i # m + 1
      <4>1. i \in 0 .. m /\ g[i] = f[i]
        BY <3>2
      <4>2. f[i] = IF i = 0 THEN NoLevels ELSE Diminish(f[i - 1], policies[levels[i]])
        BY <2>1, <4>1 DEF Deriving
      <4>3. i # 0 => i - 1 \in 0 .. m + 1 /\ i - 1 # m + 1
        BY <4>1
      <4>4. i # 0 => g[i - 1] = f[i - 1]
        BY <4>3
      <4> QED
        BY <4>1, <4>2, <4>4
    <3> QED
      BY <3>1, <3>2
  <2>3. Deriving(policies, levels, g, m + 1)
    <3>1. g = [i \in 0 .. m + 1 |-> g[i]]
      OBVIOUS
    <3> HIDE DEF g
    <3> QED
      BY <2>2, <3>1 DEF Deriving
  <2> HIDE DEF g
  <2> QED
    BY <2>3
<1> HIDE DEF T
<1>3. n \in T
  BY <1>1, <1>2, SetInduction
<1> QED
  BY <1>3 DEF T

\* What the first k levels leave.
Derived(policies, levels, a, k) ==
  /\ \A x : x \in a.required <=> \E j \in 1 .. k : x \in policies[levels[j]].required
  /\ \A x : x \in a.denied <=> \E j \in 1 .. k : x \in policies[levels[j]].deny
  /\ \A x : x \in a.capabilities
              <=> /\ x \in Ceiling
                  /\ \A j \in 1 .. k : /\ x \in policies[levels[j]].allow
                                       /\ x \notin policies[levels[j]].deny

LEMMA DerivedStep ==
  ASSUME NEW policies, NEW levels, NEW a, NEW k \in Nat, Derived(policies, levels, a, k)
  PROVE  Derived(policies, levels, Diminish(a, policies[levels[k + 1]]), k + 1)
<1> DEFINE m == k + 1
           p == policies[levels[m]]
           b == Diminish(a, p)
<1>1. /\ b.required = a.required \cup p.required
      /\ b.denied = a.denied \cup p.deny
      /\ b.capabilities = (a.capabilities \cap p.allow) \ b.denied
  BY DEF Diminish
<1>2. \A j : j \in 1 .. m <=> j \in 1 .. k \/ j = m
  OBVIOUS
<1>3. p = policies[levels[m]]
  OBVIOUS
<1> HIDE DEF m, b, p
<1>4. ASSUME NEW x
      PROVE  x \in b.required <=> \E j \in 1 .. m : x \in policies[levels[j]].required
  BY <1>1, <1>2, <1>3, Zenon DEF Derived
<1>5. ASSUME NEW x
      PROVE  x \in b.denied <=> \E j \in 1 .. m : x \in policies[levels[j]].deny
  BY <1>1, <1>2, <1>3, Zenon DEF Derived
<1>6. ASSUME NEW x
      PROVE  x \in b.capabilities
               <=> /\ x \in Ceiling
                   /\ \A j \in 1 .. m : /\ x \in policies[levels[j]].allow
                                        /\ x \notin policies[levels[j]].deny
  <2>1. x \in b.capabilities <=> x \in a.capabilities /\ x \in p.allow /\ x \notin b.denied
    BY <1>1
  <2>2. x \in a.capabilities
          <=> /\ x \in Ceiling
              /\ \A j \in 1 .. k : /\ x \in policies[levels[j]].allow
                                   /\ x \notin policies[levels[j]].deny
    BY DEF Derived
  <2> QED
    BY <1>2, <1>3, <1>5, <2>1, <2>2
<1> QED
  BY <1>4, <1>5, <1>6 DEF Derived, b, p, m

\* What EffectiveAuthority comes to after all the levels of a cell.
LEMMA AuthorityDerived ==
  ASSUME NEW policies, NEW c \in Cells
  PROVE  Derived(policies, LevelsOf(c), EffectiveAuthority(policies, c), Len(LevelsOf(c)))
<1> DEFINE levels == LevelsOf(c)
           n == Len(levels)
           f == CHOOSE f : Deriving(policies, levels, f, n)
<1>1. n \in Nat
  BY LevelsTyped
<1>2. Deriving(policies, levels, f, n)
  BY <1>1, DerivingExists
<1>3. EffectiveAuthority(policies, c) = f[n]
  BY DEF EffectiveAuthority, Deriving, NoLevels
<1> HIDE DEF f, n, levels
<1> DEFINE T == {k \in Nat : k <= n => Derived(policies, levels, f[k], k)}
<1>4. 0 \in T
  <2>1. f[0] = NoLevels
    BY <1>1, <1>2, DerivingAt
  <2>2. Derived(policies, levels, NoLevels, 0)
    BY DEF Derived, NoLevels
  <2> QED
    BY <2>1, <2>2
<1>5. ASSUME NEW k \in Nat, k \in T PROVE k + 1 \in T
  <2> SUFFICES ASSUME k + 1 <= n PROVE Derived(policies, levels, f[k + 1], k + 1)
    OBVIOUS
  <2>1. k + 1 \in 1 .. n /\ k + 1 - 1 = k /\ k <= n
    BY <1>1
  <2>2. f[k + 1] = Diminish(f[k + 1 - 1], policies[levels[k + 1]])
    BY <1>1, <1>2, <2>1, DerivingAt
  <2>3. f[k + 1] = Diminish(f[k], policies[levels[k + 1]])
    BY <2>1, <2>2
  <2>4. Derived(policies, levels, f[k], k)
    BY <1>5, <2>1
  <2> QED
    BY <2>3, <2>4, DerivedStep
<1>6. \A k \in Nat : k \in T
  <2> HIDE DEF T
  <2> QED
    BY <1>4, <1>5, SetInduction
<1>7. Derived(policies, levels, f[n], n)
  BY <1>1, <1>6
<1> QED
  BY <1>3, <1>7 DEF n, levels

\* The reference definition has names of its own for these.
LEMMA FullNames ==
  /\ \A s : Full!ToSet(s) = ToSet(s)
  /\ \A c : Full!LevelsOf(c) = LevelsOf(c)
  /\ \A n : Full!Entry(n) = Entry(n)
  /\ \A s : Full!FlattenSeq(s) = FlattenSeq(s)
  /\ Full!None = None
<1>1. \A s : Full!ToSet(s) = ToSet(s)
  BY DEF ToSet, Full!ToSet
<1>2. \A c : Full!LevelsOf(c) = LevelsOf(c)
  BY DEF LevelsOf, Full!LevelsOf, TreeLevel, Full!TreeLevel, DirLevel, Full!DirLevel,
     CellLevel, Full!CellLevel
<1>3. \A n : Full!Entry(n) = Entry(n)
  BY DEF Entry, Full!Entry
<1>4. \A s : Full!FlattenSeq(s) = FlattenSeq(s)
  BY DEF FlattenSeq, Full!FlattenSeq
<1>5. Full!None = None
  BY DEF None, Full!None
<1> QED
  BY <1>1, <1>2, <1>3, <1>4, <1>5

\* The requirement of the reference definition, level by level.
LEMMA CapableOf ==
  ASSUME NEW c
  PROVE  Full!Capable(c)
           <=> \A l \in ToSet(LevelsOf(c)) : \A cap \in authority_policies[l].required :
                 /\ cap \in Ceiling
                 /\ \A k \in ToSet(LevelsOf(c)) : /\ cap \in authority_policies[k].allow
                                                  /\ cap \notin authority_policies[k].deny
<1>1. Full!ToSet(Full!LevelsOf(c)) = ToSet(LevelsOf(c))
  BY FullNames
<1> QED
  BY <1>1, Zenon DEF Full!Capable

\* The authority the levels of a cell hand down one by one, and the one read off
\* all of them at once, agree on what a cell may do.
THEOREM AuthorityAtOnce ==
  ASSUME NEW c \in Cells
  PROVE  RequirementMissing(authority_policies, c) <=> ~ Full!Capable(c)
<1> DEFINE levels == LevelsOf(c)
           n == Len(levels)
           a == EffectiveAuthority(authority_policies, c)
           P(j) == authority_policies[levels[j]]
<1>1. Derived(authority_policies, levels, a, n)
  BY AuthorityDerived
<1>2. levels \in Seq(Levels)
  BY LevelsTyped
<1>3. ToSet(levels) = {levels[j] : j \in 1 .. n}
  BY <1>2 DEF ToSet
<1> DEFINE allowed == {cap \in Ceiling : \A j \in 1 .. n : cap \in P(j).allow /\ cap \notin P(j).deny}
<1>4. Full!Capable(c) <=> \A j \in 1 .. n : P(j).required \subseteq allowed
  BY <1>3, CapableOf
<1> HIDE DEF a, n, levels
<1>5. a.capabilities = allowed
  BY <1>1 DEF Derived
<1> HIDE DEF allowed
<1>6. a.required \subseteq a.capabilities <=> \A j \in 1 .. n : P(j).required \subseteq allowed
  BY <1>1, <1>5 DEF Derived
<1> QED
  BY <1>4, <1>6 DEF RequirementMissing, a

\* A patch at a level that does not govern a cell changes nothing of what the cell
\* may do.
THEOREM UnrelatedPatch ==
  ASSUME NEW c \in Cells, NEW level, c \notin Governed(level),
         DOMAIN authority_policies = Levels,
         authority_policies' = [authority_policies EXCEPT ![level] = authority_policies'[level]]
  PROVE  Full!Capable(c)' <=> Full!Capable(c)
<1>1. \A l \in ToSet(LevelsOf(c)) : l # level
  BY LevelsTyped
<1>2. \A l \in ToSet(LevelsOf(c)) : authority_policies'[l] = authority_policies[l]
  BY <1>1, LevelsTyped DEF ToSet
<1>3. (\A l \in ToSet(LevelsOf(c)) : \A cap \in authority_policies[l].required :
         /\ cap \in Ceiling
         /\ \A k \in ToSet(LevelsOf(c)) : /\ cap \in authority_policies[k].allow
                                          /\ cap \notin authority_policies[k].deny)'
      <=> Full!Capable(c)'
  BY CapableOf, PTL
<1> QED
  BY <1>2, <1>3, CapableOf

----------------------------------------------------------------------------
(***************************************************************************)
(* Atoms and what their lookups find.                                      *)
(***************************************************************************)
\* The six kinds of atoms and what their arguments are.
LEMMA AtomKinds ==
  ASSUME NEW atom \in Atoms
  PROVE  /\ atom.kind \in {"lit", "opaque", "sym", "ref", "ext", "fail"}
         /\ atom.kind \in {"lit", "opaque"} => atom.arg \in Seq(Texts)
         /\ atom.kind = "ref" => atom.arg \in Path
         /\ atom.kind = "sym" => atom.arg[1] \in STRING /\ atom.arg = <<atom.arg[1]>>
                                   /\ atom.arg \in Path
<1>1. CASE atom \in [kind : {"lit", "opaque"}, arg : Seq(Texts)]
  BY <1>1
<1>2. CASE atom \in [kind : {"sym"}, arg : [1..1 -> STRING]]
  <2>1. atom.kind = "sym" /\ atom.arg \in [1..1 -> STRING]
    BY <1>2
  <2>2. atom.arg[1] \in STRING /\ atom.arg = <<atom.arg[1]>> /\ <<atom.arg[1]>> \in Seq(STRING)
    <3>1. atom.arg[1] \in STRING
      BY <2>1
    <3> DEFINE x == atom.arg[1]
    <3>2. atom.arg = [i \in 1 .. 1 |-> x]
      BY <2>1
    <3> HIDE DEF x
    <3>3. <<x>> = [i \in 1 .. 1 |-> x]
      OBVIOUS
    <3> QED
      BY <3>1, <3>2, <3>3 DEF x
  <2> QED
    BY <2>1, <2>2 DEF Path
<1>3. CASE atom \in [kind : {"ref", "ext", "fail"}, arg : Seq(STRING)]
  BY <1>3 DEF Path
<1> QED
  BY <1>1, <1>2, <1>3 DEF Atoms

LEMMA ParentPathTyped ==
  ASSUME NEW p \in Path
  PROVE  ParentPath(p) \in Path
<1>1. p \in Seq(STRING) /\ Len(p) \in Nat
  BY DEF Path
<1>2. Len(p) - 1 \in Int /\ \A i \in 1 .. Len(p) - 1 : p[i] \in STRING
  BY <1>1
<1> QED
  BY <1>2, SubSeqProperties DEF ParentPath, Front, Path

LEMMA MountPaths == Mounts \subseteq Path
<1>1. ASSUME NEW d \in Dirs PROVE d \in Path
  <2>0. PICK c \in Cells : d \in {SubSeq(c, 1, k) : k \in 0 .. Len(c) - 1}
    BY DEF Dirs
  <2> PICK k \in 0 .. Len(c) - 1 : d = SubSeq(c, 1, k)
    BY <2>0
  <2>1. k \in 0 .. Len(c)
    BY CellPaths
  <2> QED
    BY <2>1, PrefixTyped
<1> QED
  BY <1>1, CalculatorAssumption

LEMMA LookupStepsTyped ==
  ASSUME NEW p \in Path
  PROVE  LookupSteps(p) \subseteq Queries
<1> SUFFICES ASSUME NEW k \in 0 .. Len(p) PROVE <<"step", SubSeq(p, 1, k)>> \in Queries
  BY DEF LookupSteps
<1>1. SubSeq(p, 1, k) \in Path
  BY SubSeqProperties DEF Path
<1> QED
  BY <1>1 DEF Queries, QueryKinds

LEMMA BareUpToTyped ==
  ASSUME NEW c \in Cells, NEW name \in STRING, NEW found, NEW k \in 0 .. Len(c)
  PROVE  BareUpTo(c, name, found, k).obs \subseteq Queries
<1> DEFINE visited == {Candidates(c, name)[j] : j \in 1 .. k}
<1>1. visited \subseteq Path
  <2>1. \A j \in 1 .. k : j \in 1 .. Len(c)
    BY CellPaths
  <2> QED
    BY <2>1, CandidatesTyped
<1> DEFINE A == {<<"list", ParentPath(p)>> : p \in visited}
           B == UNION {LookupSteps(p) : p \in visited}
           C == {<<"slot", p>> : p \in visited \ {found}}
<1>2. BareUpTo(c, name, found, k) = [found |-> found, obs |-> A \cup B \cup C]
  BY DEF BareUpTo
<1> HIDE DEF visited
<1>3. \A p \in visited : <<"list", ParentPath(p)>> \in Queries
  BY <1>1, ParentPathTyped DEF Queries, QueryKinds
<1>4. \A p \in visited : LookupSteps(p) \subseteq Queries
  BY <1>1, LookupStepsTyped
<1>5. \A p \in visited : <<"slot", p>> \in Queries
  BY <1>1 DEF Queries, QueryKinds
<1>6. A \subseteq Queries /\ B \subseteq Queries /\ C \subseteq Queries
  BY <1>3, <1>4, <1>5
<1> HIDE DEF A, B, C
<1> QED
  BY <1>2, <1>6

LEMMA BareTyped ==
  ASSUME NEW c \in Cells, NEW name \in STRING, NEW E
  PROVE  /\ ResolveBare(E, c, name).obs \subseteq Queries
         /\ ResolveBare(E, c, name).found \in E \cup {None}
<1>0. Len(c) \in 0 .. Len(c) /\ \A k \in 1 .. Len(c) : k \in 0 .. Len(c)
  BY CellPaths
<1>1. CASE BareMissing(E, c, name)
  <2>1. ResolveBare(E, c, name) = BareUpTo(c, name, None, Len(c))
    BY <1>1, BareWhenMissing
  <2>2. BareUpTo(c, name, None, Len(c)).found = None
    BY DEF BareUpTo
  <2> QED
    BY <1>0, <2>1, <2>2, BareUpToTyped
<1>2. ASSUME NEW k \in 1 .. Len(c), BareFound(E, c, name, k)
      PROVE  /\ ResolveBare(E, c, name).obs \subseteq Queries
             /\ ResolveBare(E, c, name).found \in E \cup {None}
  <2> DEFINE p == Candidates(c, name)[k]
  <2>1. ResolveBare(E, c, name) = BareUpTo(c, name, p, k)
    BY <1>2, BareWhenFound
  <2>2. BareUpTo(c, name, p, k).found = p
    BY DEF BareUpTo
  <2>3. p \in E
    BY <1>2 DEF BareFound
  <2> HIDE DEF p
  <2> QED
    BY <1>0, <2>1, <2>2, <2>3, BareUpToTyped
<1> QED
  BY <1>1, <1>2, BareCases

LEMMA TargetTyped ==
  ASSUME NEW E, NEW mounted \in SUBSET Path, NEW target \in Path
  PROVE  /\ ResolveTarget(E, mounted, target).obs \subseteq Queries
         /\ ResolveTarget(E, mounted, target).found \in E \cup {None}
<1> DEFINE R == ResolveTarget(E, mounted, target)
<1>1. R.found = IF target \in E THEN target ELSE None
  BY DEF ResolveTarget
<1>2. R.obs = {<<"list", ParentPath(target)>>} \cup LookupSteps(target)
                \cup {<<"mount", m>> : m \in {d \in mounted : IsPrefix(d, target)}}
                \cup IF R.found = None THEN {<<"slot", target>>} ELSE {}
  BY DEF ResolveTarget
<1> HIDE DEF R
<1>3. <<"list", ParentPath(target)>> \in Queries
  BY ParentPathTyped DEF Queries, QueryKinds
<1>4. \A m \in mounted : <<"mount", m>> \in Queries
  BY DEF Queries, QueryKinds
<1>5. <<"slot", target>> \in Queries
  BY DEF Queries, QueryKinds
<1>6. LookupSteps(target) \subseteq Queries
  BY LookupStepsTyped
<1> QED
  BY <1>1, <1>2, <1>3, <1>4, <1>5, <1>6 DEF R

ResolvedAs(c, atom) ==
  /\ atom.kind = "ref" =>
       Resolved(c, atom) = ResolveTarget(DOMAIN cells, DOMAIN mounts, atom.arg)
  /\ atom.kind = "sym" /\ atom.arg[1] \in DOMAIN bound =>
       /\ Resolved(c, atom).found = None
       /\ Resolved(c, atom).obs = {<<"lexical", atom.arg>>}
  /\ atom.kind = "sym" /\ atom.arg[1] \notin DOMAIN bound =>
       LET bare == ResolveBare(DOMAIN cells, c, atom.arg[1])
       IN /\ Resolved(c, atom).found = bare.found
          /\ Resolved(c, atom).obs = bare.obs \cup {<<"lexical", atom.arg>>}
  /\ atom.kind \notin {"ref", "sym"} =>
       Resolved(c, atom).found = None /\ Resolved(c, atom).obs = {}

LEMMA ResolvedCases ==
  ASSUME NEW c, NEW atom
  PROVE  ResolvedAs(c, atom)
<1>1. CASE atom.kind = "ref"
  BY <1>1 DEF Resolved, ResolvedAs
<1>2. CASE atom.kind = "sym" /\ atom.arg[1] \in DOMAIN bound
  BY <1>2 DEF Resolved, ResolvedAs
<1>3. CASE atom.kind = "sym" /\ atom.arg[1] \notin DOMAIN bound
  <2> DEFINE bare == ResolveBare(DOMAIN cells, c, atom.arg[1])
  <2>1. Resolved(c, atom) = [bare EXCEPT !.obs = @ \cup {<<"lexical", atom.arg>>}]
    BY <1>3 DEF Resolved
  <2>2. DOMAIN bare = {"found", "obs"}
    BY DEF ResolveBare
  <2> HIDE DEF bare, ResolvedAs
  <2>3. /\ Resolved(c, atom).found = bare.found
        /\ Resolved(c, atom).obs = bare.obs \cup {<<"lexical", atom.arg>>}
    BY <2>1, <2>2
  <2> QED
    BY <1>3, <2>3 DEF bare, ResolvedAs
<1>4. CASE atom.kind \notin {"ref", "sym"}
  BY <1>4 DEF Resolved, ResolvedAs
<1> QED
  BY <1>1, <1>2, <1>3, <1>4

\* Lookups observe queries and find cells that have a source.
LEMMA ResolvedTyped ==
  ASSUME SourcesTyped, MountsTyped, NEW c \in Cells, NEW atom \in Atoms
  PROVE  /\ Resolved(c, atom).obs \subseteq Queries
         /\ Resolved(c, atom).found \in DOMAIN cells \cup {None}
<1>1. CASE atom.kind = "ref"
  <2>1. atom.arg \in Path /\ DOMAIN mounts \in SUBSET Path
    BY <1>1, AtomKinds, MountPaths DEF MountsTyped
  <2>2. Resolved(c, atom) = ResolveTarget(DOMAIN cells, DOMAIN mounts, atom.arg)
    BY <1>1, ResolvedCases DEF ResolvedAs
  <2> QED
    BY <2>1, <2>2, TargetTyped
<1>2. CASE atom.kind = "sym"
  <2>1. atom.arg[1] \in STRING /\ atom.arg \in Path
    BY <1>2, AtomKinds
  <2>2. <<"lexical", atom.arg>> \in Queries
    BY <2>1 DEF Queries, QueryKinds
  <2>3. CASE atom.arg[1] \in DOMAIN bound
    BY <1>2, <2>2, <2>3, ResolvedCases DEF ResolvedAs
  <2>4. CASE atom.arg[1] \notin DOMAIN bound
    <3> DEFINE bare == ResolveBare(DOMAIN cells, c, atom.arg[1])
    <3>1. /\ Resolved(c, atom).found = bare.found
          /\ Resolved(c, atom).obs = bare.obs \cup {<<"lexical", atom.arg>>}
      BY <1>2, <2>4, ResolvedCases DEF ResolvedAs
    <3>2. bare.obs \subseteq Queries /\ bare.found \in DOMAIN cells \cup {None}
      BY <2>1, BareTyped
    <3> QED
      BY <2>2, <3>1, <3>2
  <2> QED
    BY <2>3, <2>4
<1>3. CASE atom.kind \notin {"ref", "sym"}
  BY <1>3, ResolvedCases DEF ResolvedAs
<1> QED
  BY <1>1, <1>2, <1>3

\* The atoms that stand for a cell: references, and names without a binding.
Refers(atom) ==
  \/ atom.kind = "ref"
  \/ atom.kind = "sym" /\ atom.arg[1] \notin DOMAIN bound

\* The lookup along the directories finds the cell that the reference definition
\* picks out of all the candidates at once.
LEMMA TargetFound ==
  ASSUME SourcesTyped, NEW c \in Cells, NEW atom \in Atoms, Refers(atom)
  PROVE  /\ Full!Target(c, atom) \in DOMAIN cells <=> Resolved(c, atom).found # None
         /\ Resolved(c, atom).found # None
              => /\ Resolved(c, atom).found = Full!Target(c, atom)
                 /\ Resolved(c, atom).found \in DOMAIN cells
<1>0. None \notin DOMAIN cells
  BY CellPaths DEF SourcesTyped
<1>1. CASE atom.kind = "ref"
  <2>1. Full!Target(c, atom) = atom.arg
    BY <1>1 DEF Full!Target
  <2>2. Resolved(c, atom).found = IF atom.arg \in DOMAIN cells THEN atom.arg ELSE None
    BY <1>1, ResolvedCases DEF ResolvedAs, ResolveTarget
  <2> QED
    BY <1>0, <2>1, <2>2
<1>2. CASE atom.kind = "sym" /\ atom.arg[1] \notin DOMAIN bound
  <2> DEFINE name == atom.arg[1]
             E == DOMAIN cells
             cands == Candidates(c, name)
             N == Len(c)
             names == {Append(SubSeq(c, 1, k), name) : k \in 0 .. Len(c) - 1}
             live == names \cap E
             bare == ResolveBare(E, c, name)
  <2>1. name \in STRING
    BY <1>2, AtomKinds
  <2>2. N \in Nat \ {0}
    BY CellPaths
  <2>3. Resolved(c, atom).found = bare.found
    BY <1>2, ResolvedCases DEF ResolvedAs
  <2>4. Full!Target(c, atom) = IF live = {} THEN None
                               ELSE CHOOSE p \in live : \A q \in live : Len(q) <= Len(p)
    <3>1. atom.kind # "ref"
      BY <1>2
    <3> QED
      BY <3>1 DEF Full!Target, Full!None, None
  <2>5. \A k \in 1 .. N : cands[k] = Append(SubSeq(c, 1, N - k), name)
                            /\ Len(cands[k]) = N - k + 1
    BY <2>1, CandidatesTyped
  <2>6. names = {cands[k] : k \in 1 .. N}
    <3>1. ASSUME NEW k \in 0 .. N - 1
          PROVE  \E j \in 1 .. N : Append(SubSeq(c, 1, k), name) = cands[j]
      <4>1. N - k \in 1 .. N /\ N - (N - k) = k
        BY <2>2
      <4> QED
        BY <2>5, <4>1
    <3>2. ASSUME NEW j \in 1 .. N
          PROVE  \E k \in 0 .. N - 1 : cands[j] = Append(SubSeq(c, 1, k), name)
      <4>1. N - j \in 0 .. N - 1
        BY <2>2
      <4> QED
        BY <2>5, <4>1
    <3> HIDE DEF cands
    <3> QED
      BY <3>1, <3>2
  <2>7. CASE BareMissing(E, c, name)
    <3>1. live = {}
      BY <2>6, <2>7 DEF BareMissing
    <3>2. bare.found = None
      <4>1. bare = BareUpTo(c, name, None, Len(c))
        BY <2>1, <2>7, BareWhenMissing
      <4> QED
        BY <4>1 DEF BareUpTo
    <3> QED
      BY <1>0, <2>3, <2>4, <3>1, <3>2
  <2>8. ASSUME NEW k \in 1 .. N, BareFound(E, c, name, k)
        PROVE  bare.found # None /\ bare.found \in E /\ bare.found = Full!Target(c, atom)
    <3>1. bare.found = cands[k]
      <4>1. bare = BareUpTo(c, name, cands[k], k)
        BY <2>1, <2>8, BareWhenFound
      <4> QED
        BY <4>1 DEF BareUpTo
    <3>2. cands[k] \in live /\ cands[k] \in E
      BY <2>6, <2>8 DEF BareFound
    <3>3. ASSUME NEW q \in live
          PROVE  \E j \in 1 .. N : q = cands[j] /\ k <= j /\ Len(q) = N - j + 1
      <4>1. PICK j \in 1 .. N : q = cands[j]
        BY <2>6
      <4>2. ~ (j \in 1 .. k - 1)
        BY <2>8, <3>3, <4>1 DEF BareFound
      <4>3. k <= j
        BY <2>2, <4>2
      <4> QED
        BY <2>5, <4>1, <4>3
    <3>4. Len(cands[k]) = N - k + 1
      BY <2>5
    <3> HIDE DEF cands, live, names, N
    <3>5. \A q \in live : Len(q) <= Len(cands[k])
      BY <2>2, <3>3, <3>4
    <3>6. ASSUME NEW p \in live, \A q \in live : Len(q) <= Len(p) PROVE p = cands[k]
      <4>1. PICK j \in 1 .. N : p = cands[j] /\ k <= j /\ Len(p) = N - j + 1
        BY <3>3
      <4>2. N - k + 1 <= N - j + 1
        BY <3>2, <3>4, <3>6, <4>1
      <4>3. j = k
        BY <2>2, <4>1, <4>2
      <4> QED
        BY <4>1, <4>3
    <3>7. (CHOOSE p \in live : \A q \in live : Len(q) <= Len(p)) = cands[k]
      BY <3>2, <3>5, <3>6
    <3>8. live # {}
      BY <3>2
    <3> QED
      BY <1>0, <2>4, <3>1, <3>2, <3>7, <3>8
  <2>9. BareMissing(E, c, name) \/ \E k \in 1 .. N : BareFound(E, c, name, k)
    BY <2>1, BareCases
  <2> QED
    <3> HIDE DEF cands, live, names, N, bare, E, name
    <3>1. CASE BareMissing(E, c, name)
      BY <2>7, <3>1
    <3>2. CASE \E k \in 1 .. N : BareFound(E, c, name, k)
      BY <2>3, <2>8, <3>2 DEF E
    <3> QED
      BY <2>9, <3>1, <3>2
<1> QED
  BY <1>1, <1>2 DEF Refers

----------------------------------------------------------------------------
\* Nothing an atom's lookups watch has changed.
Unwatched(c, atom, E, F) ==
  \A p : (p \in E) # (p \in F) => <<"list", ParentPath(p)>> \notin Resolved(c, atom).obs

UnwatchedNames(c, atom, b) ==
  \A n : \/ (n \in DOMAIN bound) # (n \in DOMAIN b)
         \/ n \in DOMAIN bound /\ bound[n] # b[n]
       => <<"lexical", <<n>>>> \notin Resolved(c, atom).obs

\* An atom keeps its meaning as long as nothing changes that its lookups watched.
LEMMA AtomStable ==
  ASSUME NEW c \in Cells, NEW atom \in Atoms,
         Unwatched(c, atom, DOMAIN cells, DOMAIN cells'), UnwatchedNames(c, atom, bound')
  PROVE  /\ (Resolved(c, atom).found)' = Resolved(c, atom).found
         /\ Watched(Resolved(c, atom))' \subseteq Watched(Resolved(c, atom))
         /\ atom.kind # "ext" => ImmediateValue(c, atom)' = ImmediateValue(c, atom)
<1>0. ResolvedAs(c, atom) /\ ResolvedAs(c, atom)'
  BY ResolvedCases, PTL
<1> DEFINE R == Resolved(c, atom)
           S == Resolved(c, atom)'
<1>1. CASE atom.kind = "ref"
  <2> DEFINE t == atom.arg
  <2>1. R = ResolveTarget(DOMAIN cells, DOMAIN mounts, t)
    BY <1>1, ResolvedCases DEF ResolvedAs
  <2>2. S = ResolveTarget(DOMAIN cells', DOMAIN mounts', t)
    BY <1>0, <1>1 DEF ResolvedAs
  <2>3. <<"list", ParentPath(t)>> \in R.obs
    BY <2>1 DEF ResolveTarget
  <2>4. (t \in DOMAIN cells) = (t \in DOMAIN cells')
    BY <2>3 DEF Unwatched
  <2>5. R.found = (IF t \in DOMAIN cells THEN t ELSE None)
    BY <2>1 DEF ResolveTarget
  <2>6. S.found = (IF t \in DOMAIN cells' THEN t ELSE None)
    BY <2>2 DEF ResolveTarget
  <2>7. ASSUME NEW q \in S.obs, q[1] \in {"list", "lexical"} PROVE q = <<"list", ParentPath(t)>>
    <3>1. S.obs = {<<"list", ParentPath(t)>>} \cup LookupSteps(t)
                \cup {<<"mount", m>> : m \in {d \in DOMAIN mounts' : IsPrefix(d, t)}}
                \cup IF S.found = None THEN {<<"slot", t>>} ELSE {}
      BY <2>2 DEF ResolveTarget
    <3>2. \A x \in LookupSteps(t) : x[1] = "step"
      BY DEF LookupSteps
    <3> HIDE DEF S, t
    <3> QED
      BY <2>7, <3>1, <3>2
  <2>8. \A q \in S.obs : q[1] \in {"list", "lexical"} => q \in R.obs
    BY <2>3, <2>7
  <2>9. Watched(R)' \subseteq Watched(R)
    BY <2>8 DEF Watched
  <2>10. ImmediateValue(c, atom)' = ImmediateValue(c, atom)
    BY <1>1 DEF ImmediateValue
  <2> QED
    BY <2>4, <2>5, <2>6, <2>9, <2>10
<1>2. CASE atom.kind = "sym"
  <2> DEFINE n == atom.arg[1]
  <2>1. n \in STRING /\ atom.arg = <<n>>
    BY <1>2, AtomKinds
  <2>2. <<"lexical", <<n>>>> \in R.obs
    <3>1. <<"lexical", atom.arg>> \in R.obs
      BY <1>2, ResolvedCases DEF ResolvedAs
    <3> QED
      BY <2>1, <3>1
  <2>3. /\ (n \in DOMAIN bound) = (n \in DOMAIN bound')
        /\ n \in DOMAIN bound => bound[n] = bound'[n]
    BY <2>2 DEF UnwatchedNames
  <2>4. ImmediateValue(c, atom)' = ImmediateValue(c, atom)
    BY <1>2, <2>3 DEF ImmediateValue
  <2>5. CASE n \in DOMAIN bound
    <3>1. R.found = None /\ S.found = None /\ S.obs = R.obs
      BY <1>0, <1>2, <2>3, <2>5 DEF ResolvedAs
    <3>2. Watched(R)' \subseteq Watched(R)
      BY <3>1 DEF Watched
    <3> QED
      BY <2>4, <3>1, <3>2
  <2>6. CASE n \notin DOMAIN bound
    <3> DEFINE old == ResolveBare(DOMAIN cells, c, n)
               new == ResolveBare(DOMAIN cells', c, n)
    <3>1. R.found = old.found /\ R.obs = old.obs \cup {<<"lexical", atom.arg>>}
      BY <1>2, <2>6, ResolvedCases DEF ResolvedAs
    <3>2. S.found = new.found /\ S.obs = new.obs \cup {<<"lexical", atom.arg>>}
      BY <1>0, <1>2, <2>3, <2>6 DEF ResolvedAs
    <3>3. \A p : (p \in DOMAIN cells) # (p \in DOMAIN cells')
                   => <<"list", ParentPath(p)>> \notin old.obs
      BY <3>1 DEF Unwatched
    <3>4. new = old
      BY <2>1, <3>3, BareLookupDependsOnListings
    <3>5. S.found = R.found /\ S.obs = R.obs
      BY <3>1, <3>2, <3>4
    <3>6. Watched(R)' \subseteq Watched(R)
      BY <3>5 DEF Watched
    <3> QED
      BY <2>4, <3>5, <3>6
  <2> QED
    BY <2>5, <2>6
<1>3. CASE atom.kind \notin {"ref", "sym"}
  <2>1. R.found = None /\ S.found = None /\ S.obs = {}
    BY <1>0, <1>3 DEF ResolvedAs
  <2>2. Watched(R)' \subseteq Watched(R)
    BY <2>1 DEF Watched
  <2>3. atom.kind # "ext" => ImmediateValue(c, atom)' = ImmediateValue(c, atom)
    BY <1>3 DEF ImmediateValue
  <2> QED
    BY <2>1, <2>2, <2>3
<1> QED
  BY <1>1, <1>2, <1>3

----------------------------------------------------------------------------
(***************************************************************************)
(* One step of a verification, as a relation between what a request        *)
(* threads before and after it.                                            *)
(***************************************************************************)
WorkFields == {"memo", "pending", "dirty", "tokens", "current", "failed", "receipts", "queue",
               "restored", "cancel", "answer", "fuel", "attempts", "calls", "out", "halted"}
IsWork(w) == DOMAIN w = WorkFields

\* What a verification has no hand in.
Aside(w) == <<w.queue, w.answer, w.tokens, w.restored>>

ReturnCalls(calls, out) ==
  LET rest == Tail(calls)
  IN IF rest # <<>> /\ Head(rest).running
       THEN <<Taken(Head(rest), out)>> \o Tail(rest) ELSE rest

EngineKept(w, r) == r.memo = w.memo /\ r.pending = w.pending /\ r.dirty = w.dirty
CallsOnly(w, r) ==
  /\ EngineKept(w, r) /\ r.out = w.out /\ r.attempts = w.attempts /\ r.cancel = w.cancel
  /\ Aside(r) = Aside(w)

LEMMA ReturnedFields ==
  ASSUME NEW w, IsWork(w)
  PROVE  /\ IsWork(Returned(w)) /\ CallsOnly(w, Returned(w))
         /\ Returned(w).calls = ReturnCalls(w.calls, w.out)
<1> DEFINE new == ReturnCalls(w.calls, w.out)
<1>1. Returned(w) = [w EXCEPT !.calls = new]
  BY DEF Returned, ReturnCalls
<1> HIDE DEF new
<1> QED
  BY <1>1 DEF IsWork, WorkFields, CallsOnly, EngineKept, Aside, new

\* What a cell's run leaves behind.
FinalOut(c, kind, val) ==
  IF kind = "value" THEN Outcome(kind, val) ELSE Outcome(CycleApplied(c, kind), <<>>)
StaleReaders(m, c, out) ==
  IF out = m[c].out /\ ~ Volatile(out) THEN {} ELSE ReadersOf(m, {c})

Ran(w, r, c, kind, frame) ==
  /\ r.out = FinalOut(c, kind, frame.val)
  /\ r.memo = [w.memo EXCEPT ![c] = [out |-> r.out, obs |-> frame.obs, reads |-> frame.reads]]
  /\ r.pending = (w.pending \cup StaleReaders(w.memo, c, r.out)) \ {c}
  /\ r.dirty = (w.dirty \cup StaleReaders(w.memo, c, r.out)) \ {c}
  /\ r.attempts = Append(w.attempts, [cell |-> c, outcome |-> r.out.kind])
  /\ r.cancel = w.cancel /\ Aside(r) = Aside(w)

LEMMA AttemptedFields ==
  ASSUME NEW w, IsWork(w), NEW c, NEW kind
  PROVE  LET r == Attempted(w, c, kind)
         IN /\ IsWork(r) /\ EngineKept(w, r) /\ r.out = w.out /\ r.cancel = w.cancel
            /\ r.calls = w.calls /\ Aside(r) = Aside(w)
            /\ r.attempts = Append(w.attempts, [cell |-> c, outcome |-> kind])
<1> DEFINE new == Append(w.attempts, [cell |-> c, outcome |-> kind])
           r == Attempted(w, c, kind)
<1>1. r = [w EXCEPT !.attempts = new]
  BY DEF Attempted
<1> HIDE DEF new, r
<1> QED
  BY <1>1 DEF IsWork, WorkFields, EngineKept, Aside, new, r

LEMMA FinishedFields ==
  ASSUME NEW w, IsWork(w), NEW c, NEW kind, NEW frame
  PROVE  LET r == Finished(w, c, kind, frame)
         IN IsWork(r) /\ Ran(w, r, c, kind, frame) /\ r.calls = w.calls
<1> DEFINE out == FinalOut(c, kind, frame.val)
           stale == StaleReaders(w.memo, c, out)
           entry == [out |-> out, obs |-> frame.obs, reads |-> frame.reads]
           a == Attempted(w, c, out.kind)
           r == Finished(w, c, kind, frame)
<1>1. r = [a EXCEPT !.memo[c] = entry, !.pending = (@ \cup stale) \ {c},
                    !.dirty = (@ \cup stale) \ {c}, !.out = out]
  BY DEF Finished, FinalOut, StaleReaders
<1>2. /\ IsWork(a) /\ EngineKept(w, a) /\ a.cancel = w.cancel /\ a.calls = w.calls
      /\ Aside(a) = Aside(w)
      /\ a.attempts = Append(w.attempts, [cell |-> c, outcome |-> out.kind])
  BY AttemptedFields
<1> DEFINE m == [a.memo EXCEPT ![c] = entry]
           p == (a.pending \cup stale) \ {c}
           d == (a.dirty \cup stale) \ {c}
<1> HIDE DEF a, out, stale, entry, r
<1>3. r = [a EXCEPT !.memo = m, !.pending = p, !.dirty = d, !.out = out]
  BY <1>1
<1> HIDE DEF m, p, d
<1>4. /\ IsWork(r) /\ r.memo = m /\ r.pending = p /\ r.dirty = d /\ r.out = out
      /\ r.attempts = a.attempts /\ r.cancel = a.cancel /\ r.calls = a.calls
      /\ Aside(r) = Aside(a)
  BY <1>2, <1>3 DEF IsWork, WorkFields, Aside
<1>5. m = [w.memo EXCEPT ![c] = entry] /\ p = (w.pending \cup stale) \ {c}
        /\ d = (w.dirty \cup stale) \ {c}
  BY <1>2 DEF EngineKept, m, p, d
<1>6. r.out = FinalOut(c, kind, frame.val)
  BY <1>4 DEF out
<1>7. r.memo = [w.memo EXCEPT ![c] = [out |-> r.out, obs |-> frame.obs, reads |-> frame.reads]]
  BY <1>4, <1>5 DEF entry
<1>8. /\ r.pending = (w.pending \cup StaleReaders(w.memo, c, r.out)) \ {c}
      /\ r.dirty = (w.dirty \cup StaleReaders(w.memo, c, r.out)) \ {c}
  BY <1>4, <1>5 DEF stale
<1>9. r.attempts = Append(w.attempts, [cell |-> c, outcome |-> r.out.kind])
  BY <1>2, <1>4
<1> QED
  BY <1>2, <1>4, <1>6, <1>7, <1>8, <1>9 DEF Ran, r

----------------------------------------------------------------------------
\* The ways the innermost call, of a cell c, may go on.
Stopped(w, r, c) ==
  /\ EngineKept(w, r) /\ r.out.kind \in Stops /\ Aside(r) = Aside(w)
  /\ r.out = w.out \/ r.out = Outcome(r.out.kind, <<>>)
  /\ \/ r.attempts = w.attempts
     \/ r.attempts = Append(w.attempts, [cell |-> c, outcome |-> r.out.kind])
  /\ r.cancel = w.cancel \/ r.cancel = FALSE
  /\ r.calls = ReturnCalls(w.calls, r.out)

RanHere(w, r, c, kind, frame) ==
  Ran(w, r, c, kind, frame) /\ r.calls = ReturnCalls(w.calls, r.out)

Reused(w, r, c) ==
  /\ r.memo = w.memo /\ r.pending = w.pending /\ r.dirty = w.dirty \ {c} /\ Aside(r) = Aside(w)
  /\ r.out = w.memo[c].out /\ r.attempts = w.attempts /\ r.cancel = w.cancel
  /\ r.calls = ReturnCalls(w.calls, r.out)

Circular(w, r, c) ==
  /\ r.memo = w.memo /\ r.pending = w.pending \cup {c} /\ r.dirty = w.dirty /\ Aside(r) = Aside(w)
  /\ r.out = w.out /\ r.attempts = w.attempts /\ r.cancel = w.cancel /\ r.calls = w.calls

Replaced(w, r, next) ==
  CallsOnly(w, r) /\ r.calls = <<next>> \o Tail(w.calls)

Descended(w, r, next, d) ==
  /\ EngineKept(w, r) /\ r.attempts = w.attempts /\ r.cancel = w.cancel /\ Aside(r) = Aside(w)
  /\ r.out = w.memo[d].out
  /\ r.calls = <<Verification(w, d)>> \o (<<next>> \o Tail(w.calls))

NoFrame == [obs |-> {}, reads |-> <<>>, val |-> <<>>]

\* The frame after its first atom was looked up, before it has the value.
Seen(call) ==
  LET at == Resolved(call.cell, Head(call.left))
  IN [call EXCEPT !.left = Tail(@), !.obs = @ \cup at.obs,
                  !.reads = IF at.found = None THEN @ ELSE Append(@, at.found)]

VerifyStep(w, r, call) ==
  LET c == call.cell
  IN \/ Stopped(w, r, c)
     \/ MustRun(w, c) /\ RanHere(w, r, c, "blocked", NoFrame)
     \/ /\ MustRun(w, c) /\ ~ RequirementMissing(authority_policies, c)
        /\ Replaced(w, r, Evaluation(c))
     \/ /\ ~ MustRun(w, c) /\ w.out.kind \notin Stops
        /\ \/ call.left = <<>> /\ Reused(w, r, c)
           \/ call.left # <<>> /\ Circular(w, r, c)
           \/ /\ call.left # <<>> /\ Head(call.left) \notin Active(w)
              /\ Descended(w, r, [call EXCEPT !.left = Tail(@)], Head(call.left))

EvaluateStep(w, r, call) ==
  LET c == call.cell
  IN \/ Stopped(w, r, c)
     \/ /\ call.fail \notin Stops /\ (call.left = <<>> \/ call.fail # "")
        /\ RanHere(w, r, c, IF call.fail = "" THEN "value" ELSE call.fail, call)
     \/ /\ call.left # <<>> /\ call.fail = ""
        /\ \/ \E f \in {"failed", "cycle"} : Replaced(w, r, [Seen(call) EXCEPT !.fail = f])
           \/ Replaced(w, r, [call EXCEPT !.fail = "exhausted"])
           \/ /\ Head(call.left).kind # "fail"
              /\ Resolved(c, Head(call.left)).found = None
              /\ Replaced(w, r, [Seen(call) EXCEPT
                                   !.val = @ \o ImmediateValue(c, Head(call.left))])
           \/ /\ Head(call.left).kind # "fail"
              /\ Resolved(c, Head(call.left)).found # None
              /\ Resolved(c, Head(call.left)).found \notin Active(w)
              /\ Descended(w, r, Seen(call), Resolved(c, Head(call.left)).found)

StepOf(w, r) ==
  /\ IsWork(r)
  /\ IF Head(w.calls).running THEN EvaluateStep(w, r, Head(w.calls))
                              ELSE VerifyStep(w, r, Head(w.calls))

LEMMA ReplacedFields ==
  ASSUME NEW w, IsWork(w), NEW next
  PROVE  LET r == [w EXCEPT !.calls = <<next>> \o Tail(@)]
         IN IsWork(r) /\ Replaced(w, r, next)
<1> DEFINE new == <<next>> \o Tail(w.calls)
           r == [w EXCEPT !.calls = new]
<1> HIDE DEF new
<1>1. IsWork(r) /\ CallsOnly(w, r) /\ r.calls = new
  BY DEF IsWork, WorkFields, CallsOnly, EngineKept, Aside
<1> QED
  BY <1>1 DEF Replaced, new

LEMMA BurntFields ==
  ASSUME NEW w, IsWork(w), NEW next
  PROVE  LET r == [w EXCEPT !.fuel = @ - 1, !.calls = <<next>> \o Tail(@)]
         IN IsWork(r) /\ Replaced(w, r, next)
<1> DEFINE new == <<next>> \o Tail(w.calls)
           less == w.fuel - 1
           r == [w EXCEPT !.fuel = less, !.calls = new]
<1> HIDE DEF new, less
<1>1. IsWork(r) /\ CallsOnly(w, r) /\ r.calls = new
  BY DEF IsWork, WorkFields, CallsOnly, EngineKept, Aside
<1> USE DEF less
<1> QED
  BY <1>1 DEF Replaced, new

LEMMA VerifyFields ==
  ASSUME NEW w, NEW v, NEW next, IsWork(v), Replaced(w, v, next), NEW d
  PROVE  IsWork(Verify(v, d)) /\ Descended(w, Verify(v, d), next, d)
<1> DEFINE new == <<Verification(v, d)>> \o v.calls
           out == v.memo[d].out
           r == [v EXCEPT !.calls = new, !.out = out]
<1>1. Verify(v, d) = r
  BY DEF Verify
<1>2. Verification(v, d) = Verification(w, d)
  BY DEF Replaced, CallsOnly, EngineKept, Verification, MustRun
<1>3. new = <<Verification(w, d)>> \o (<<next>> \o Tail(w.calls))
  BY <1>2 DEF Replaced
<1>4. out = w.memo[d].out
  BY DEF Replaced, CallsOnly, EngineKept
<1> HIDE DEF new, out
<1>5. /\ IsWork(r) /\ r.memo = v.memo /\ r.pending = v.pending /\ r.dirty = v.dirty
      /\ r.attempts = v.attempts /\ r.cancel = v.cancel /\ r.out = out /\ r.calls = new
      /\ Aside(r) = Aside(v)
  BY DEF IsWork, WorkFields, Aside
<1> HIDE DEF r
<1> QED
  BY <1>1, <1>3, <1>4, <1>5 DEF Descended, EngineKept, Replaced, CallsOnly

LEMMA VerifyStepOf ==
  ASSUME NEW w, IsWork(w), NEW request, NEW call, call = Head(w.calls), ~ call.running
  PROVE  IsWork(CheckReads(w, call, request)) /\ VerifyStep(w, CheckReads(w, call, request), call)
<1> DEFINE c == call.cell
           d == Head(call.left)
           r == CheckReads(w, call, request)
<1>1. CASE MustRun(w, c)
  <2>0. r = Run(w, c, request)
    BY <1>1 DEF CheckReads
  <2>1. CASE w.cancel
    <3> DEFINE out == Outcome("cancelled", <<>>)
               v == [w EXCEPT !.cancel = FALSE, !.out = out]
    <3>1. r = Returned(v)
      BY <2>0, <2>1 DEF Run
    <3>2. out.kind \in Stops /\ out = Outcome(out.kind, <<>>)
      BY DEF Outcome, Stops
    <3> HIDE DEF out
    <3>3. /\ IsWork(v) /\ EngineKept(w, v) /\ v.out = out /\ v.attempts = w.attempts
          /\ v.cancel = FALSE /\ v.calls = w.calls /\ Aside(v) = Aside(w)
      BY DEF IsWork, WorkFields, EngineKept, Aside
    <3> HIDE DEF v
    <3>4. IsWork(r) /\ CallsOnly(v, r) /\ r.calls = ReturnCalls(v.calls, v.out)
      BY <3>1, <3>3, ReturnedFields
    <3>5. Stopped(w, r, c)
      BY <3>2, <3>3, <3>4 DEF Stopped, CallsOnly, EngineKept
    <3> QED
      BY <3>4, <3>5 DEF VerifyStep
  <2>2. CASE ~ w.cancel /\ (BlockedByTrigger(c, request)
                              \/ RequirementMissing(authority_policies, c))
    <3> DEFINE frame == [obs |-> {}, reads |-> <<>>]
               v == Finished(w, c, "blocked", frame)
    <3>1. r = Returned(v)
      BY <2>0, <2>2 DEF Run
    <3>2. IsWork(v) /\ Ran(w, v, c, "blocked", frame) /\ v.calls = w.calls
      BY FinishedFields
    <3> HIDE DEF v
    <3>3. Ran(w, v, c, "blocked", NoFrame)
      <4>1. FinalOut(c, "blocked", frame.val) = FinalOut(c, "blocked", NoFrame.val)
        BY DEF FinalOut
      <4>2. frame.obs = NoFrame.obs /\ frame.reads = NoFrame.reads
        BY DEF NoFrame
      <4> HIDE DEF frame
      <4> QED
        BY <3>2, <4>1, <4>2 DEF Ran
    <3>4. IsWork(r) /\ CallsOnly(v, r) /\ r.calls = ReturnCalls(v.calls, v.out)
      BY <3>1, <3>2, ReturnedFields
    <3>5. RanHere(w, r, c, "blocked", NoFrame)
      BY <3>2, <3>3, <3>4 DEF RanHere, Ran, CallsOnly, EngineKept
    <3> QED
      BY <1>1, <3>4, <3>5 DEF VerifyStep
  <2>3. CASE ~ w.cancel /\ ~ (BlockedByTrigger(c, request)
                                \/ RequirementMissing(authority_policies, c))
    <3>1. r = [w EXCEPT !.calls = <<Evaluation(c)>> \o Tail(@)]
      BY <2>0, <2>3 DEF Run
    <3>2. IsWork(r) /\ Replaced(w, r, Evaluation(c))
      BY <3>1, ReplacedFields
    <3> QED
      BY <1>1, <2>3, <3>2 DEF VerifyStep
  <2> QED
    BY <2>1, <2>2, <2>3
<1>2. CASE ~ MustRun(w, c) /\ w.out.kind \in Stops
  <2>1. r = Returned(w)
    BY <1>2 DEF CheckReads
  <2>2. IsWork(r) /\ CallsOnly(w, r) /\ r.calls = ReturnCalls(w.calls, w.out)
    BY <2>1, ReturnedFields
  <2>3. Stopped(w, r, c)
    BY <1>2, <2>2 DEF Stopped, CallsOnly
  <2> QED
    BY <2>2, <2>3 DEF VerifyStep
<1>3. CASE ~ MustRun(w, c) /\ w.out.kind \notin Stops /\ call.left = <<>>
  <2> DEFINE e == w.dirty \ {c}
             out == w.memo[c].out
             v == [w EXCEPT !.dirty = e, !.out = out]
  <2>1. r = Returned(v)
    BY <1>3 DEF CheckReads
  <2> HIDE DEF e, out
  <2>2. /\ IsWork(v) /\ v.memo = w.memo /\ v.pending = w.pending /\ v.dirty = e /\ v.out = out
        /\ v.attempts = w.attempts /\ v.cancel = w.cancel /\ v.calls = w.calls
        /\ Aside(v) = Aside(w)
    BY DEF IsWork, WorkFields, Aside
  <2> HIDE DEF v
  <2>3. IsWork(r) /\ CallsOnly(v, r) /\ r.calls = ReturnCalls(v.calls, v.out)
    BY <2>1, <2>2, ReturnedFields
  <2>4. Reused(w, r, c)
    BY <2>2, <2>3 DEF Reused, CallsOnly, EngineKept, e, out
  <2> QED
    BY <1>3, <2>3, <2>4 DEF VerifyStep
<1>4. CASE ~ MustRun(w, c) /\ w.out.kind \notin Stops /\ call.left # <<>> /\ d \in Active(w)
  <2> DEFINE p == w.pending \cup {c}
  <2>1. r = [w EXCEPT !.pending = p]
    BY <1>4 DEF CheckReads
  <2> HIDE DEF p, r
  <2>2. IsWork(r) /\ Circular(w, r, c)
    BY <2>1 DEF IsWork, WorkFields, Circular, Aside, p
  <2> QED
    BY <1>4, <2>2 DEF VerifyStep, r
<1>5. CASE ~ MustRun(w, c) /\ w.out.kind \notin Stops /\ call.left # <<>> /\ d \notin Active(w)
  <2> DEFINE next == [call EXCEPT !.left = Tail(@)]
             v == [w EXCEPT !.calls = <<next>> \o Tail(@)]
  <2>1. r = Verify(v, d)
    BY <1>5 DEF CheckReads
  <2>2. IsWork(v) /\ Replaced(w, v, next)
    <3> HIDE DEF next
    <3> QED
      BY ReplacedFields
  <2>3. IsWork(r) /\ Descended(w, r, next, d)
    <3> HIDE DEF next, v
    <3> QED
      BY <2>1, <2>2, VerifyFields
  <2> QED
    BY <1>5, <2>3 DEF VerifyStep
<1> QED
  BY <1>1, <1>2, <1>3, <1>4, <1>5

\* The frame that an atom leaves behind.
LEMMA EvaluateAtomOf ==
  ASSUME NEW w, IsWork(w), NEW call, call.left # <<>>, call.fail = "", call.running
  PROVE  IsWork(EvaluateAtom(w, call)) /\ EvaluateStep(w, EvaluateAtom(w, call), call)
<1> DEFINE c == call.cell
           atom == Head(call.left)
           at == Resolved(c, atom)
           seen == Seen(call)
           Goes(next) == [w EXCEPT !.fuel = @ - 1, !.calls = <<next>> \o Tail(@)]
           r == EvaluateAtom(w, call)
<1>1. r = IF w.fuel = 0
            THEN [w EXCEPT !.calls = <<[call EXCEPT !.fail = "exhausted"]>> \o Tail(@)]
          ELSE IF atom.kind = "fail" THEN Goes([seen EXCEPT !.fail = "failed"])
          ELSE IF at.found = None
            THEN Goes([seen EXCEPT !.val = @ \o ImmediateValue(c, atom)])
          ELSE IF at.found \in Active(w) THEN Goes([seen EXCEPT !.fail = "cycle"])
          ELSE Verify(Goes(seen), at.found)
  BY DEF EvaluateAtom, Seen
<1>2. \A next : IsWork(Goes(next)) /\ Replaced(w, Goes(next), next)
  BY BurntFields
<1> HIDE DEF seen, at, atom, r
<1>3. CASE w.fuel = 0
  <2> DEFINE next == [call EXCEPT !.fail = "exhausted"]
  <2>1. r = [w EXCEPT !.calls = <<next>> \o Tail(@)]
    BY <1>1, <1>3
  <2> HIDE DEF next
  <2>2. IsWork(r) /\ Replaced(w, r, next)
    BY <2>1, ReplacedFields
  <2> QED
    BY <2>2 DEF EvaluateStep, next, r
<1>4. CASE w.fuel # 0 /\ atom.kind = "fail"
  <2> DEFINE next == [seen EXCEPT !.fail = "failed"]
  <2>1. r = Goes(next)
    BY <1>1, <1>4
  <2>2. IsWork(r) /\ Replaced(w, r, next)
    <3> HIDE DEF next, Goes
    <3> QED
      BY <2>1, <1>2
  <2> HIDE DEF Goes
  <2>3. EvaluateStep(w, r, call)
    BY <2>2 DEF EvaluateStep, seen
  <2> QED
    BY <2>2, <2>3 DEF r
<1>5. CASE w.fuel # 0 /\ atom.kind # "fail" /\ at.found = None
  <2> DEFINE next == [seen EXCEPT !.val = @ \o ImmediateValue(c, atom)]
  <2>1. r = Goes(next)
    BY <1>1, <1>5
  <2>2. IsWork(r) /\ Replaced(w, r, next)
    <3> HIDE DEF next, Goes
    <3> QED
      BY <2>1, <1>2
  <2> HIDE DEF Goes
  <2>3. EvaluateStep(w, r, call)
    BY <1>5, <2>2 DEF EvaluateStep, seen, at, atom
  <2> QED
    BY <2>2, <2>3 DEF r
<1>6. CASE w.fuel # 0 /\ atom.kind # "fail" /\ at.found # None /\ at.found \in Active(w)
  <2> DEFINE next == [seen EXCEPT !.fail = "cycle"]
  <2>1. r = Goes(next)
    BY <1>1, <1>6
  <2>2. IsWork(r) /\ Replaced(w, r, next)
    <3> HIDE DEF next, Goes
    <3> QED
      BY <2>1, <1>2
  <2> HIDE DEF Goes
  <2>3. EvaluateStep(w, r, call)
    BY <2>2 DEF EvaluateStep, seen
  <2> QED
    BY <2>2, <2>3 DEF r
<1>7. CASE w.fuel # 0 /\ atom.kind # "fail" /\ at.found # None /\ at.found \notin Active(w)
  <2>1. r = Verify(Goes(seen), at.found)
    BY <1>1, <1>7
  <2>2. IsWork(Goes(seen)) /\ Replaced(w, Goes(seen), seen)
    BY <1>2
  <2> HIDE DEF Goes
  <2>3. IsWork(r) /\ Descended(w, r, seen, at.found)
    BY <2>1, <2>2, VerifyFields
  <2>4. EvaluateStep(w, r, call)
    BY <1>7, <2>3 DEF EvaluateStep, seen, at, atom
  <2> QED
    BY <2>3, <2>4 DEF r
<1> QED
  BY <1>3, <1>4, <1>5, <1>6, <1>7

LEMMA EvaluatedOf ==
  ASSUME NEW w, IsWork(w), NEW call, call.left = <<>> \/ call.fail # "", call.running
  PROVE  IsWork(Evaluated(w, call)) /\ EvaluateStep(w, Evaluated(w, call), call)
<1> DEFINE c == call.cell
           r == Evaluated(w, call)
<1>1. CASE call.fail \in Stops
  <2> DEFINE a == Attempted(w, c, call.fail)
             out == Outcome(call.fail, <<>>)
             v == [a EXCEPT !.out = out]
  <2>1. r = Returned(v)
    BY <1>1 DEF Evaluated
  <2>2. /\ IsWork(a) /\ EngineKept(w, a) /\ a.cancel = w.cancel /\ a.calls = w.calls
        /\ Aside(a) = Aside(w)
        /\ a.attempts = Append(w.attempts, [cell |-> c, outcome |-> call.fail])
    <3> DEFINE kind == call.fail
    <3> HIDE DEF c, kind
    <3>1. /\ IsWork(Attempted(w, c, kind)) /\ EngineKept(w, Attempted(w, c, kind))
          /\ Attempted(w, c, kind).cancel = w.cancel /\ Attempted(w, c, kind).calls = w.calls
          /\ Aside(Attempted(w, c, kind)) = Aside(w)
          /\ Attempted(w, c, kind).attempts
               = Append(w.attempts, [cell |-> c, outcome |-> kind])
      BY AttemptedFields
    <3> QED
      BY <3>1 DEF kind
  <2>3. out.kind = call.fail /\ out = Outcome(out.kind, <<>>)
    BY DEF Outcome
  <2> HIDE DEF a, out
  <2>4. /\ IsWork(v) /\ EngineKept(a, v) /\ v.out = out /\ v.attempts = a.attempts
        /\ v.cancel = a.cancel /\ v.calls = a.calls /\ Aside(v) = Aside(a)
    BY <2>2 DEF IsWork, WorkFields, EngineKept, Aside
  <2> HIDE DEF v
  <2>5. IsWork(r) /\ CallsOnly(v, r) /\ r.calls = ReturnCalls(v.calls, v.out)
    BY <2>1, <2>4, ReturnedFields
  <2>6. Stopped(w, r, c)
    BY <1>1, <2>2, <2>3, <2>4, <2>5 DEF Stopped, CallsOnly, EngineKept
  <2> QED
    BY <2>5, <2>6 DEF EvaluateStep
<1>2. CASE call.fail \notin Stops
  <2> DEFINE kind == IF call.fail = "" THEN "value" ELSE call.fail
             v == Finished(w, c, kind, call)
  <2>1. r = Returned(v)
    BY <1>2 DEF Evaluated
  <2>2. IsWork(v) /\ Ran(w, v, c, kind, call) /\ v.calls = w.calls
    <3> HIDE DEF kind, c
    <3> QED
      BY FinishedFields, ZenonT(40)
  <2> HIDE DEF v, kind
  <2>3. IsWork(r) /\ CallsOnly(v, r) /\ r.calls = ReturnCalls(v.calls, v.out)
    BY <2>1, <2>2, ReturnedFields
  <2>4. RanHere(w, r, c, kind, call)
    BY <2>2, <2>3 DEF RanHere, Ran, CallsOnly, EngineKept
  <2> QED
    BY <1>2, <2>3, <2>4 DEF EvaluateStep, kind
<1> QED
  BY <1>1, <1>2

\* A verification goes on by a step.
LEMMA GoOnOf ==
  ASSUME NEW w, IsWork(w), Head(w.calls).running \in BOOLEAN, NEW request
  PROVE  StepOf(w, GoOn(w, request))
<1> DEFINE call == Head(w.calls)
           r == GoOn(w, request)
<1>1. CASE ~ call.running
  <2>1. r = CheckReads(w, call, request)
    BY <1>1 DEF GoOn
  <2>2. IsWork(r) /\ VerifyStep(w, r, call)
    BY <1>1, <2>1, VerifyStepOf
  <2> QED
    BY <1>1, <2>2 DEF StepOf
<1>2. CASE call.running /\ (call.left = <<>> \/ call.fail # "")
  <2>1. r = Evaluated(w, call)
    BY <1>2 DEF GoOn
  <2>2. IsWork(r) /\ EvaluateStep(w, r, call)
    BY <1>2, <2>1, EvaluatedOf
  <2> QED
    BY <1>2, <2>2 DEF StepOf
<1>3. CASE call.running /\ ~ (call.left = <<>> \/ call.fail # "")
  <2>1. r = EvaluateAtom(w, call)
    BY <1>3 DEF GoOn
  <2>2. IsWork(r) /\ EvaluateStep(w, r, call)
    BY <1>3, <2>1, EvaluateAtomOf
  <2> QED
    BY <1>3, <2>2 DEF StepOf
<1> QED
  BY <1>1, <1>2, <1>3

----------------------------------------------------------------------------
(***************************************************************************)
(* Types of what a request threads.                                        *)
(***************************************************************************)
Frame(running, lefts) ==
  [cell : Cells, running : {running}, left : Seq(lefts), val : Seq(Texts),
   fail : {""} \cup Failures \cup Stops, obs : SUBSET Queries, reads : Seq(Cells)]
Frames == Frame(TRUE, Atoms) \cup Frame(FALSE, Cells)
Results == [kind : Kinds \cup Stops, val : Seq(Texts)]
Attempts == [cell : Cells, outcome : Kinds \cup Stops]

WorkTyped(w) ==
  /\ IsWork(w) /\ EngineTyped(w.memo, w.pending, w.dirty)
  /\ w.out \in Results /\ w.attempts \in Seq(Attempts)
CallsTyped(w) == w.calls \in Seq(Frames)

LEMMA ContentTyped ==
  ASSUME BackendTyped, NEW c \in Cells
  PROVE  Content[c] \in Nat /\ (c \in Stored => Content[c] # 0)
<1>1. CASE c \in Stored
  <2> DEFINE m == CHOOSE m \in Mounts : IsPrefix(m, c)
  <2>1. \E m0 \in Mounts : IsPrefix(m0, c)
    BY <1>1, CalculatorAssumption
  <2>2. m \in Mounts /\ IsPrefix(m, c)
    BY <2>1
  <2>3. Content[c] = backend[m].stamps[c]
    BY <1>1 DEF Content, MountOf
  <2> HIDE DEF m
  <2>4. c \in DOMAIN backend[m].stamps
    BY <1>1, <2>2 DEF BackendTyped
  <2> QED
    BY <2>2, <2>3, <2>4 DEF BackendTyped
<1>2. CASE c \notin Stored
  BY <1>2 DEF Content
<1> QED
  BY <1>1, <1>2

\* What is read now is a stamp that an entry may have been read with.
LEMMA ReadNow ==
  ASSUME NEW c \in Cells
  PROVE  MayBe(Read, Since(c), c, Content[c])
<1>1. c \notin Stored => Content[c] = 0 /\ Since(c) = 0
  BY DEF Content, Since
<1>2. c \in Stored /\ Content[c] # Since(c) => c \in Read
  BY DEF Read
<1> QED
  BY <1>1, <1>2 DEF MayBe

LEMMA EntryTyped ==
  ASSUME NEW n \in Nat
  PROVE  Entry(n) \in Seq(Texts)
<1>1. "entry" \in Texts
  BY ExpressionAssumption
<1> QED
  BY <1>1 DEF Entry

LEMMA ImmediateTyped ==
  ASSUME SourcesTyped, BackendTyped, NEW c \in Cells, NEW atom \in Atoms
  PROVE  ImmediateValue(c, atom) \in Seq(Texts)
<1>1. <<"missing">> \in Seq(Texts)
  BY ExpressionAssumption
<1>2. CASE atom.kind \in {"lit", "opaque"}
  BY <1>2, AtomKinds DEF ImmediateValue
<1>3. CASE atom.kind = "ext"
  <2>1. ImmediateValue(c, atom) = Entry(Content[c])
    BY <1>3 DEF ImmediateValue
  <2> QED
    BY <2>1, ContentTyped, EntryTyped
<1>4. CASE atom.kind = "sym" /\ atom.arg[1] \in DOMAIN bound
  BY <1>4 DEF ImmediateValue, SourcesTyped
<1>5. CASE atom.kind \notin {"lit", "opaque", "ext"}
             /\ ~ (atom.kind = "sym" /\ atom.arg[1] \in DOMAIN bound)
  BY <1>1, <1>5 DEF ImmediateValue
<1> QED
  BY <1>2, <1>3, <1>4, <1>5

LEMMA MemoOut ==
  ASSUME NEW m, NEW p, NEW d, EngineTyped(m, p, d), NEW c \in Cells
  PROVE  m[c].out \in Results /\ m[c].reads \in Seq(Cells) /\ m[c].obs \subseteq Queries
<1>1. m[c] \in Memos
  BY DEF EngineTyped
<1>2. CASE m[c] = NoMemo
  BY <1>2, EmptySeq DEF NoMemo, Unknown, Outcome, Results, Stops
<1>3. CASE m[c] \in [out : Outs, obs : SUBSET Queries, reads : Seq(Cells)]
  BY <1>3 DEF Outs, Results
<1> QED
  BY <1>1, <1>2, <1>3 DEF Memos

LEMMA TakenTyped ==
  ASSUME NEW f \in Frames, f.running, NEW out \in Results
  PROVE  Taken(f, out) \in Frames /\ Taken(f, out).cell = f.cell
<1>1. f \in Frame(TRUE, Atoms)
  BY DEF Frames, Frame
<1> DEFINE v == f.val \o out.val
           x == IF out.kind = "value" THEN "" ELSE out.kind
<1>2. v \in Seq(Texts) /\ x \in {""} \cup Failures \cup Stops
  <2>1. f.val \in Seq(Texts)
    BY <1>1 DEF Frame
  <2>2. out.kind \in Kinds \cup Stops /\ out.val \in Seq(Texts)
    BY DEF Results
  <2>3. f.val \o out.val \in Seq(Texts)
    BY <2>1, <2>2
  <2> HIDE DEF v
  <2>4. x \in {""} \cup Failures \cup Stops
    BY <2>2 DEF Kinds
  <2> QED
    BY <2>3, <2>4 DEF v
<1>3. Taken(f, out) = [f EXCEPT !.val = v, !.fail = x]
  BY DEF Taken
<1> HIDE DEF v, x
<1> QED
  BY <1>1, <1>2, <1>3 DEF Frame, Frames

LEMMA ReturnCallsTyped ==
  ASSUME NEW calls \in Seq(Frames), calls # <<>>, NEW out \in Results
  PROVE  ReturnCalls(calls, out) \in Seq(Frames)
<1> DEFINE rest == Tail(calls)
<1>1. rest \in Seq(Frames)
  OBVIOUS
<1>2. CASE rest # <<>> /\ Head(rest).running
  <2>1. Head(rest) \in Frames /\ Tail(rest) \in Seq(Frames)
    BY <1>1, <1>2
  <2>2. Taken(Head(rest), out) \in Frames
    BY <1>2, <2>1, TakenTyped
  <2> QED
    BY <1>2, <2>1, <2>2 DEF ReturnCalls
<1>3. CASE ~ (rest # <<>> /\ Head(rest).running)
  BY <1>1, <1>3 DEF ReturnCalls
<1> QED
  BY <1>2, <1>3

LEMMA VerificationTyped ==
  ASSUME NEW w, EngineTyped(w.memo, w.pending, w.dirty), NEW c \in Cells
  PROVE  Verification(w, c) \in Frames
<1> DEFINE left == IF MustRun(w, c) \/ c \notin w.dirty THEN <<>> ELSE w.memo[c].reads
<1>1. left \in Seq(Cells)
  BY MemoOut, EmptySeq
<1> HIDE DEF left
<1> QED
  BY <1>1, EmptySeq DEF Verification, Frames, Frame, left

LEMMA EvaluationTyped ==
  ASSUME SourcesTyped, NEW c \in Cells
  PROVE  Evaluation(c) \in Frames
<1> DEFINE left == IF c \in DOMAIN cells THEN cells[c] ELSE <<>>
           val == IF c \in DOMAIN cells THEN <<>> ELSE <<"missing">>
<1>1. left \in Seq(Atoms)
  BY EmptySeq DEF SourcesTyped
<1>2. val \in Seq(Texts)
  BY ExpressionAssumption
<1> HIDE DEF left, val
<1> QED
  BY <1>1, <1>2, EmptySeq DEF Evaluation, Frames, Frame, left, val

LEMMA SeenTyped ==
  ASSUME StateTyped, NEW f \in Frame(TRUE, Atoms), f.left # <<>>
  PROVE  /\ Seen(f) \in Frame(TRUE, Atoms)
         /\ Head(f.left) \in Atoms /\ f.cell \in Cells
         /\ Seen(f).cell = f.cell /\ Seen(f).left = Tail(f.left)
         /\ Seen(f).val = f.val /\ Seen(f).fail = f.fail
         /\ Seen(f).obs = f.obs \cup Resolved(f.cell, Head(f.left)).obs
         /\ Seen(f).reads = IF Resolved(f.cell, Head(f.left)).found = None THEN f.reads
                            ELSE Append(f.reads, Resolved(f.cell, Head(f.left)).found)
         /\ Resolved(f.cell, Head(f.left)).found \in Cells \cup {None}
<1> DEFINE at == Resolved(f.cell, Head(f.left))
           obs == f.obs \cup at.obs
           reads == IF at.found = None THEN f.reads ELSE Append(f.reads, at.found)
           left == Tail(f.left)
<1>0. f.left \in Seq(Atoms) /\ f.cell \in Cells /\ f.obs \subseteq Queries /\ f.reads \in Seq(Cells)
  BY DEF Frame
<1>1. Head(f.left) \in Atoms /\ left \in Seq(Atoms)
  BY <1>0
<1>2. at.obs \subseteq Queries /\ at.found \in DOMAIN cells \cup {None}
  BY <1>0, <1>1, ResolvedTyped DEF StateTyped
<1>3. at.found \in Cells \cup {None}
  BY <1>2 DEF StateTyped, SourcesTyped
<1> HIDE DEF at
<1>4. obs \subseteq Queries /\ reads \in Seq(Cells)
  BY <1>0, <1>2, <1>3
<1>5. Seen(f) = [f EXCEPT !.left = left, !.obs = obs, !.reads = reads]
  BY DEF Seen, at
<1> HIDE DEF left, obs, reads
<1>6. /\ Seen(f) \in Frame(TRUE, Atoms) /\ Seen(f).left = left /\ Seen(f).obs = obs
      /\ Seen(f).reads = reads /\ Seen(f).cell = f.cell /\ Seen(f).val = f.val
      /\ Seen(f).fail = f.fail
  BY <1>1, <1>4, <1>5 DEF Frame
<1> QED
  BY <1>0, <1>1, <1>3, <1>6 DEF left, obs, reads, at

----------------------------------------------------------------------------
(***************************************************************************)
(* Types are kept, and a blocked memo is pending or has its attempt.       *)
(***************************************************************************)
BlockedAttempt(c) == [cell |-> c, outcome |-> "blocked"]
BlockedMarked(w) ==
  \A c \in Cells : w.memo[c].out.kind = "blocked"
                     => c \in w.pending \/ BlockedAttempt(c) \in ToSet(w.attempts)

GoodWork(w) == WorkTyped(w) /\ BlockedMarked(w)
GoodCalls(w) == GoodWork(w) /\ CallsTyped(w)

LEMMA ToSetAppend ==
  ASSUME NEW S, NEW s \in Seq(S), NEW x \in S
  PROVE  Append(s, x) \in Seq(S) /\ ToSet(Append(s, x)) = ToSet(s) \cup {x}
<1>1. /\ Append(s, x) \in Seq(S) /\ Len(s) \in Nat /\ Len(Append(s, x)) = Len(s) + 1
      /\ \A i \in 1 .. Len(s) : Append(s, x)[i] = s[i]
      /\ Append(s, x)[Len(s) + 1] = x
  OBVIOUS
<1>2. DOMAIN s = 1 .. Len(s) /\ DOMAIN Append(s, x) = 1 .. Len(s) + 1
  BY <1>1
<1> QED
  BY <1>1, <1>2 DEF ToSet

\* A call that stops without an answer leaves no memo behind.
LEMMA StoppedGood ==
  ASSUME NEW w, NEW r, NEW c \in Cells, GoodWork(w), IsWork(r), Stopped(w, r, c)
  PROVE  GoodWork(r)
<1>1. r.out.kind \in Kinds \cup Stops /\ r.out.kind \in Stops
  BY DEF Stopped
<1>2. r.out \in Results
  <2>0. w.out \in Results
    BY DEF GoodWork, WorkTyped
  <2>1. CASE r.out = w.out
    BY <2>0, <2>1
  <2>2. CASE r.out # w.out
    <3> DEFINE k == r.out.kind
    <3>1. r.out = Outcome(k, <<>>)
      BY <2>2 DEF Stopped
    <3>2. k \in Kinds \cup Stops
      BY <1>1
    <3> HIDE DEF k
    <3>3. Outcome(k, <<>>) \in Results
      BY <3>2, EmptySeq DEF Outcome, Results
    <3> QED
      BY <3>1, <3>3
  <2> QED
    BY <2>1, <2>2
<1>3. r.attempts \in Seq(Attempts) /\ ToSet(w.attempts) \subseteq ToSet(r.attempts)
  <2>1. w.attempts \in Seq(Attempts)
    BY DEF GoodWork, WorkTyped
  <2>2. CASE r.attempts = w.attempts
    BY <2>1, <2>2
  <2>3. CASE r.attempts # w.attempts
    <3> DEFINE x == [cell |-> c, outcome |-> r.out.kind]
    <3>1. x \in Attempts
      BY <1>1 DEF Attempts
    <3>2. r.attempts = Append(w.attempts, x)
      BY <2>3 DEF Stopped
    <3> HIDE DEF x
    <3> QED
      BY <2>1, <3>1, <3>2, ToSetAppend
  <2> QED
    BY <2>2, <2>3
<1>4. r.memo = w.memo /\ r.pending = w.pending /\ r.dirty = w.dirty
  BY DEF Stopped, EngineKept
<1>5. WorkTyped(r)
  BY <1>2, <1>3, <1>4 DEF GoodWork, WorkTyped
<1>6. BlockedMarked(r)
  BY <1>3, <1>4 DEF GoodWork, BlockedMarked
<1> QED
  BY <1>5, <1>6 DEF GoodWork

LEMMA FinalOutTyped ==
  ASSUME NEW c, NEW kind \in Kinds, NEW val \in Seq(Texts)
  PROVE  FinalOut(c, kind, val) \in Outs
<1>1. CASE kind = "value"
  BY <1>1 DEF FinalOut, Outcome, Outs
<1>2. CASE kind # "value"
  <2>1. CycleApplied(c, kind) \in Kinds
    BY DEF CycleApplied, Kinds, Failures
  <2> QED
    BY <1>2, <2>1, EmptySeq DEF FinalOut, Outcome, Outs
<1> QED
  BY <1>1, <1>2

LEMMA RanGood ==
  ASSUME NEW w, NEW r, NEW c \in Cells, NEW kind \in Kinds, NEW frame,
         frame.val \in Seq(Texts), frame.obs \subseteq Queries, frame.reads \in Seq(Cells),
         GoodWork(w), IsWork(r), Ran(w, r, c, kind, frame)
  PROVE  GoodWork(r)
<1>0. EngineTyped(w.memo, w.pending, w.dirty) /\ w.attempts \in Seq(Attempts)
  BY DEF GoodWork, WorkTyped
<1>1. r.out \in Outs
  BY FinalOutTyped DEF Ran
<1>2. r.out \in Results
  BY <1>1 DEF Outs, Results
<1> DEFINE entry == [out |-> r.out, obs |-> frame.obs, reads |-> frame.reads]
<1>3. entry \in Memos
  BY <1>1 DEF Memos
<1>4. r.memo = [w.memo EXCEPT ![c] = entry]
  BY DEF Ran
<1>5. entry.out = r.out
  OBVIOUS
<1> HIDE DEF entry
<1>6. r.memo \in [Cells -> Memos] /\ r.memo[c].out = r.out
        /\ \A x \in Cells : x # c => r.memo[x] = w.memo[x]
  BY <1>0, <1>3, <1>4, <1>5 DEF EngineTyped
<1>7. r.pending \subseteq Cells /\ r.dirty \subseteq Cells
        /\ \A x \in w.pending : x # c => x \in r.pending
  BY <1>0 DEF EngineTyped, Ran, StaleReaders, ReadersOf
<1> DEFINE x0 == [cell |-> c, outcome |-> r.out.kind]
<1>8. x0 \in Attempts
  BY <1>2 DEF Attempts, Results
<1>9. r.attempts = Append(w.attempts, x0)
  BY DEF Ran
<1>10. x0 = [cell |-> c, outcome |-> r.out.kind]
  OBVIOUS
<1> HIDE DEF x0
<1>11. r.attempts \in Seq(Attempts) /\ ToSet(r.attempts) = ToSet(w.attempts) \cup {x0}
  BY <1>0, <1>8, <1>9, ToSetAppend
<1>12. WorkTyped(r)
  BY <1>2, <1>6, <1>7, <1>11 DEF WorkTyped, EngineTyped
<1>13. BlockedMarked(r)
  <2> SUFFICES ASSUME NEW x \in Cells, r.memo[x].out.kind = "blocked"
               PROVE  x \in r.pending \/ BlockedAttempt(x) \in ToSet(r.attempts)
    BY DEF BlockedMarked
  <2>1. CASE x = c
    BY <1>6, <1>10, <1>11, <2>1 DEF BlockedAttempt
  <2>2. CASE x # c
    BY <1>6, <1>7, <1>11, <2>2 DEF GoodWork, BlockedMarked
  <2> QED
    BY <2>1, <2>2
<1> QED
  BY <1>12, <1>13 DEF GoodWork

LEMMA KeptGood ==
  ASSUME NEW w, NEW r, GoodWork(w), IsWork(r), r.out \in Results, r.memo = w.memo,
         w.pending \subseteq r.pending, r.pending \subseteq Cells, r.dirty \subseteq Cells,
         r.attempts = w.attempts
  PROVE  GoodWork(r)
BY DEF GoodWork, WorkTyped, BlockedMarked, EngineTyped

LEMMA ReplacedTyped ==
  ASSUME NEW calls \in Seq(Frames), calls # <<>>, NEW next \in Frames
  PROVE  <<next>> \o Tail(calls) \in Seq(Frames)
OBVIOUS

LEMMA VerifyGood ==
  ASSUME StateTyped, NEW w, NEW r, GoodCalls(w), w.calls # <<>>, IsWork(r),
         NEW f \in Frame(FALSE, Cells), f = Head(w.calls), VerifyStep(w, r, f)
  PROVE  GoodCalls(r)
<1> DEFINE c == f.cell
<1>0. /\ GoodWork(w) /\ w.calls \in Seq(Frames) /\ c \in Cells /\ w.out \in Results
      /\ EngineTyped(w.memo, w.pending, w.dirty)
      /\ w.pending \subseteq Cells /\ w.dirty \subseteq Cells
  BY DEF GoodCalls, GoodWork, WorkTyped, CallsTyped, Frame, EngineTyped
<1>1. ASSUME GoodWork(r), r.calls = ReturnCalls(w.calls, r.out) PROVE GoodCalls(r)
  <2>1. r.out \in Results
    BY <1>1 DEF GoodWork, WorkTyped
  <2> QED
    BY <1>0, <1>1, <2>1, ReturnCallsTyped DEF GoodCalls, CallsTyped
<1>2. CASE Stopped(w, r, c)
  <2>1. GoodWork(r)
    BY <1>0, <1>2, StoppedGood
  <2> QED
    BY <1>1, <1>2, <2>1 DEF Stopped
<1>3. CASE RanHere(w, r, c, "blocked", NoFrame)
  <2>1. NoFrame.val \in Seq(Texts) /\ NoFrame.obs \subseteq Queries /\ NoFrame.reads \in Seq(Cells)
    BY EmptySeq DEF NoFrame
  <2>2. "blocked" \in Kinds
    BY DEF Kinds, Failures
  <2>3. Ran(w, r, c, "blocked", NoFrame)
    BY <1>3 DEF RanHere
  <2>4. GoodWork(r)
    <3> HIDE DEF c
    <3> QED
      BY <1>0, <2>1, <2>2, <2>3, RanGood
  <2> QED
    BY <1>1, <1>3, <2>4 DEF RanHere
<1>4. CASE Replaced(w, r, Evaluation(c))
  <2>1. Evaluation(c) \in Frames
    BY <1>0, EvaluationTyped DEF StateTyped
  <2>2. GoodWork(r)
    BY <1>0, <1>4, KeptGood DEF Replaced, CallsOnly, EngineKept
  <2> QED
    BY <1>0, <1>4, <2>1, <2>2, ReplacedTyped DEF GoodCalls, CallsTyped, Replaced
<1>5. CASE Reused(w, r, c)
  <2>1. r.out \in Results
    BY <1>0, <1>5, MemoOut DEF Reused
  <2>2. GoodWork(r)
    BY <1>0, <1>5, <2>1, KeptGood DEF Reused
  <2> QED
    BY <1>1, <1>5, <2>2 DEF Reused
<1>6. CASE Circular(w, r, c)
  <2>1. GoodWork(r)
    BY <1>0, <1>6, KeptGood DEF Circular
  <2> QED
    BY <1>0, <1>6, <2>1 DEF GoodCalls, CallsTyped, Circular
<1>7. CASE f.left # <<>> /\ Descended(w, r, [f EXCEPT !.left = Tail(@)], Head(f.left))
  <2> DEFINE next == [f EXCEPT !.left = Tail(@)]
             d == Head(f.left)
  <2>1. f.left \in Seq(Cells)
    BY DEF Frame
  <2>2. d \in Cells /\ Tail(f.left) \in Seq(Cells)
    BY <1>7, <2>1
  <2>3. next \in Frames
    BY <2>2 DEF Frame, Frames
  <2> HIDE DEF next, d
  <2>4. Descended(w, r, next, d)
    BY <1>7 DEF next, d
  <2>5. r.out \in Results
    BY <1>0, <2>2, <2>4, MemoOut DEF Descended
  <2>6. GoodWork(r)
    BY <1>0, <2>4, <2>5, KeptGood DEF Descended, EngineKept
  <2>7. Verification(w, d) \in Frames
    BY <1>0, <2>2, VerificationTyped
  <2>8. r.calls \in Seq(Frames)
    <3>1. <<next>> \o Tail(w.calls) \in Seq(Frames)
      BY <1>0, <2>3, ReplacedTyped
    <3> QED
      BY <2>4, <2>7, <3>1 DEF Descended
  <2> QED
    BY <2>6, <2>8 DEF GoodCalls, CallsTyped
<1> QED
  BY <1>2, <1>3, <1>4, <1>5, <1>6, <1>7 DEF VerifyStep

LEMMA EvaluateGood ==
  ASSUME StateTyped, NEW w, NEW r, GoodCalls(w), w.calls # <<>>, IsWork(r),
         NEW f \in Frame(TRUE, Atoms), f = Head(w.calls), EvaluateStep(w, r, f)
  PROVE  GoodCalls(r)
<1> DEFINE c == f.cell
           atom == Head(f.left)
           at == Resolved(c, atom)
<1>0. /\ GoodWork(w) /\ w.calls \in Seq(Frames) /\ c \in Cells /\ w.out \in Results
      /\ EngineTyped(w.memo, w.pending, w.dirty)
      /\ w.pending \subseteq Cells /\ w.dirty \subseteq Cells
  BY DEF GoodCalls, GoodWork, WorkTyped, CallsTyped, Frame, EngineTyped
<1>1. ASSUME GoodWork(r), r.calls = ReturnCalls(w.calls, r.out) PROVE GoodCalls(r)
  <2>1. r.out \in Results
    BY <1>1 DEF GoodWork, WorkTyped
  <2> QED
    BY <1>0, <1>1, <2>1, ReturnCallsTyped DEF GoodCalls, CallsTyped
<1>2. CASE Stopped(w, r, c)
  <2>1. GoodWork(r)
    BY <1>0, <1>2, StoppedGood
  <2> QED
    BY <1>1, <1>2, <2>1 DEF Stopped
<1>3. CASE f.fail \notin Stops
             /\ RanHere(w, r, c, IF f.fail = "" THEN "value" ELSE f.fail, f)
  <2> DEFINE kind == IF f.fail = "" THEN "value" ELSE f.fail
  <2>1. f.val \in Seq(Texts) /\ f.obs \subseteq Queries /\ f.reads \in Seq(Cells)
          /\ f.fail \in {""} \cup Failures \cup Stops
    BY DEF Frame
  <2>2. kind \in Kinds
    BY <1>3, <2>1 DEF Kinds
  <2>3. Ran(w, r, c, kind, f)
    BY <1>3 DEF RanHere
  <2>4. GoodWork(r)
    <3> HIDE DEF c, kind
    <3> QED
      BY <1>0, <2>1, <2>2, <2>3, RanGood
  <2> QED
    BY <1>1, <1>3, <2>4 DEF RanHere
<1>4. ASSUME NEW next \in Frames, Replaced(w, r, next) PROVE GoodCalls(r)
  <2>1. GoodWork(r)
    BY <1>0, <1>4, KeptGood DEF Replaced, CallsOnly, EngineKept
  <2> QED
    BY <1>0, <1>4, <2>1, ReplacedTyped DEF GoodCalls, CallsTyped, Replaced
<1>5. ASSUME f.left # <<>>
      PROVE  Seen(f) \in Frame(TRUE, Atoms) /\ atom \in Atoms /\ at.found \in Cells \cup {None}
  BY <1>5, SeenTyped
<1>6. CASE f.left # <<>> /\ \E x \in {"failed", "cycle"} : Replaced(w, r, [Seen(f) EXCEPT !.fail = x])
  <2> PICK x \in {"failed", "cycle"} : Replaced(w, r, [Seen(f) EXCEPT !.fail = x])
    BY <1>6
  <2>1. [Seen(f) EXCEPT !.fail = x] \in Frames
    BY <1>5, <1>6 DEF Frame, Frames, Failures
  <2> QED
    BY <1>4, <2>1
<1>7. CASE Replaced(w, r, [f EXCEPT !.fail = "exhausted"])
  <2>1. [f EXCEPT !.fail = "exhausted"] \in Frames
    BY DEF Frame, Frames, Stops
  <2> QED
    BY <1>4, <1>7, <2>1
<1>8. CASE f.left # <<>> /\ Replaced(w, r, [Seen(f) EXCEPT !.val = @ \o ImmediateValue(c, atom)])
  <2> DEFINE val == Seen(f).val \o ImmediateValue(c, atom)
  <2>1. val \in Seq(Texts)
    <3>1. Seen(f).val \in Seq(Texts)
      BY <1>5, <1>8 DEF Frame
    <3>2. ImmediateValue(c, atom) \in Seq(Texts)
      BY <1>0, <1>5, <1>8, ImmediateTyped DEF StateTyped
    <3> QED
      BY <3>1, <3>2
  <2>2. Replaced(w, r, [Seen(f) EXCEPT !.val = val])
    BY <1>8
  <2> HIDE DEF val
  <2>3. [Seen(f) EXCEPT !.val = val] \in Frames
    BY <1>5, <1>8, <2>1 DEF Frame, Frames
  <2> QED
    BY <1>4, <2>2, <2>3
<1>9. CASE f.left # <<>> /\ at.found # None /\ Descended(w, r, Seen(f), at.found)
  <2> DEFINE d == at.found
             next == Seen(f)
  <2>1. d \in Cells /\ next \in Frames
    BY <1>5, <1>9 DEF Frames
  <2>2. Descended(w, r, next, d)
    BY <1>9
  <2> HIDE DEF d, next
  <2>5. r.out \in Results
    BY <1>0, <2>1, <2>2, MemoOut DEF Descended
  <2>6. GoodWork(r)
    BY <1>0, <2>2, <2>5, KeptGood DEF Descended, EngineKept
  <2>7. Verification(w, d) \in Frames
    BY <1>0, <2>1, VerificationTyped
  <2>8. r.calls \in Seq(Frames)
    <3>1. <<next>> \o Tail(w.calls) \in Seq(Frames)
      BY <1>0, <2>1, ReplacedTyped
    <3> QED
      BY <2>2, <2>7, <3>1 DEF Descended
  <2> QED
    BY <2>6, <2>8 DEF GoodCalls, CallsTyped
<1> QED
  BY <1>2, <1>3, <1>6, <1>7, <1>8, <1>9 DEF EvaluateStep

LEMMA StepGood ==
  ASSUME StateTyped, NEW w, NEW request, GoodCalls(w), w.calls # <<>>
  PROVE  GoodCalls(GoOn(w, request))
<1> DEFINE f == Head(w.calls)
           r == GoOn(w, request)
<1>0. f \in Frames /\ IsWork(w)
  BY DEF GoodCalls, CallsTyped, GoodWork, WorkTyped
<1>1. f.running \in BOOLEAN
  BY <1>0 DEF Frames, Frame
<1>2. StepOf(w, r)
  BY <1>0, <1>1, GoOnOf
<1> HIDE DEF r
<1>3. CASE f.running
  <2>1. f \in Frame(TRUE, Atoms)
    BY <1>0, <1>3 DEF Frames, Frame
  <2>2. IsWork(r) /\ EvaluateStep(w, r, f)
    BY <1>2, <1>3 DEF StepOf
  <2> HIDE DEF f
  <2>3. f = Head(w.calls)
    BY DEF f
  <2> QED
    BY <2>1, <2>2, <2>3, EvaluateGood DEF r
<1>4. CASE ~ f.running
  <2>1. f \in Frame(FALSE, Cells)
    BY <1>0, <1>4 DEF Frames, Frame
  <2>2. IsWork(r) /\ VerifyStep(w, r, f)
    BY <1>2, <1>4 DEF StepOf
  <2> HIDE DEF f
  <2>3. f = Head(w.calls)
    BY DEF f
  <2> QED
    BY <2>1, <2>2, <2>3, VerifyGood DEF r
<1> QED
  BY <1>3, <1>4 DEF r

----------------------------------------------------------------------------
(***************************************************************************)
(* A verification and the roots of a request, step by step.                *)
(***************************************************************************)
Begin(w, root) == Verify([w EXCEPT !.calls = <<>>], root)
Stepping(w, root, request, f, n) ==
  f = [k \in 0 .. n |-> IF k = 0 THEN Begin(w, root) ELSE Continued(f[k - 1], request)]

\* The recursive function of Steps exists, and obeys its equation.
LEMMA SteppingExists ==
  ASSUME NEW w, NEW root, NEW request, NEW n \in Nat
  PROVE  \E f : Stepping(w, root, request, f, n)
<1> DEFINE T == {m \in Nat : \E f : Stepping(w, root, request, f, m)}
           start == Begin(w, root)
<1>1. 0 \in T
  <2> DEFINE f == [i \in 0 .. 0 |-> start]
  <2>1. Stepping(w, root, request, f, 0)
    <3> HIDE DEF start
    <3>1. f = [k \in 0 .. 0 |-> IF k = 0 THEN start ELSE Continued(f[k - 1], request)]
      OBVIOUS
    <3> QED
      BY <3>1 DEF Stepping, start
  <2> HIDE DEF f
  <2> QED
    BY <2>1
<1>2. ASSUME NEW m \in Nat, m \in T PROVE m + 1 \in T
  <2>1. PICK f : Stepping(w, root, request, f, m)
    BY <1>2
  <2> DEFINE last == Continued(f[m], request)
             g == [i \in 0 .. m + 1 |-> IF i = m + 1 THEN last ELSE f[i]]
  <2>2. ASSUME NEW i \in 0 .. m + 1
        PROVE  g[i] = IF i = 0 THEN start ELSE Continued(g[i - 1], request)
    <3> HIDE DEF start
    <3>1. CASE i = m + 1
      <4>1. i - 1 = m /\ i - 1 \in 0 .. m + 1 /\ i - 1 # m + 1 /\ i # 0
        BY <3>1
      <4>2. g[i] = last /\ g[i - 1] = f[m]
        BY <3>1, <4>1
      <4> QED
        BY <3>1, <4>1, <4>2
    <3>2. CASE i # m + 1
      <4>1. i \in 0 .. m /\ g[i] = f[i]
        BY <3>2
      <4>2. f[i] = IF i = 0 THEN start ELSE Continued(f[i - 1], request)
        BY <2>1, <4>1 DEF Stepping, start
      <4>3. i # 0 => i - 1 \in 0 .. m + 1 /\ i - 1 # m + 1
        BY <4>1
      <4>4. i # 0 => g[i - 1] = f[i - 1]
        BY <4>3
      <4> QED
        BY <4>1, <4>2, <4>4
    <3> QED
      BY <3>1, <3>2
  <2>3. Stepping(w, root, request, g, m + 1)
    <3>1. g = [i \in 0 .. m + 1 |-> g[i]]
      OBVIOUS
    <3> HIDE DEF g
    <3>2. g = [i \in 0 .. m + 1 |-> IF i = 0 THEN start ELSE Continued(g[i - 1], request)]
      <4> HIDE DEF start
      <4> QED
        BY <2>2, <3>1
    <3> QED
      BY <3>2 DEF Stepping, start
  <2> HIDE DEF g
  <2> QED
    BY <2>3
<1> HIDE DEF T
<1>3. n \in T
  BY <1>1, <1>2, SetInduction
<1> QED
  BY <1>3 DEF T

LEMMA StepsAt ==
  ASSUME NEW w, NEW root, NEW request
  PROVE  /\ Steps(w, root, request)[0] = Begin(w, root)
         /\ \A k \in Nat : k + 1 <= MaxCalls =>
              Steps(w, root, request)[k + 1] = Continued(Steps(w, root, request)[k], request)
<1> DEFINE f == CHOOSE f : Stepping(w, root, request, f, MaxCalls)
<1>0. MaxCalls \in Nat
  BY CalculatorAssumption
<1>1. Stepping(w, root, request, f, MaxCalls)
  BY <1>0, SteppingExists
<1>2. Steps(w, root, request) = f
  BY DEF Steps, Stepping, Begin
<1> HIDE DEF f
<1>3. \A k \in 0 .. MaxCalls :
        f[k] = IF k = 0 THEN Begin(w, root) ELSE Continued(f[k - 1], request)
  BY <1>1 DEF Stepping
<1>4. f[0] = Begin(w, root)
  BY <1>0, <1>3
<1>5. ASSUME NEW k \in Nat, k + 1 <= MaxCalls PROVE f[k + 1] = Continued(f[k], request)
  <2>1. k + 1 \in 0 .. MaxCalls /\ k + 1 # 0 /\ (k + 1) - 1 = k
    BY <1>0, <1>5
  <2> QED
    BY <1>3, <2>1
<1> QED
  BY <1>2, <1>4, <1>5

\* What one root of a request adds.
Directed(roots, request, limit, w, c) ==
  IF c \notin roots \/ w.halted THEN w
  ELSE FailingFast(ExecuteRoot(w, c, c, request, limit), c)
Rooting(roots, request, limit, start, f, n) ==
  f = [k \in 0 .. n |-> IF k = 0 THEN start
                        ELSE Directed(roots, request, limit, f[k - 1], CellOrder[k])]

\* The recursive function of RootsUpTo exists, and obeys its equation.
LEMMA RootingExists ==
  ASSUME NEW roots, NEW request, NEW limit, NEW start, NEW n \in Nat
  PROVE  \E f : Rooting(roots, request, limit, start, f, n)
<1> DEFINE T == {m \in Nat : \E f : Rooting(roots, request, limit, start, f, m)}
<1>1. 0 \in T
  <2> DEFINE f == [i \in 0 .. 0 |-> start]
  <2>1. Rooting(roots, request, limit, start, f, 0)
    <3>1. f = [k \in 0 .. 0 |-> IF k = 0 THEN start
                 ELSE Directed(roots, request, limit, f[k - 1], CellOrder[k])]
      OBVIOUS
    <3> QED
      BY <3>1 DEF Rooting
  <2> HIDE DEF f
  <2> QED
    BY <2>1
<1>2. ASSUME NEW m \in Nat, m \in T PROVE m + 1 \in T
  <2>1. PICK f : Rooting(roots, request, limit, start, f, m)
    BY <1>2
  <2> DEFINE last == Directed(roots, request, limit, f[m], CellOrder[m + 1])
             g == [i \in 0 .. m + 1 |-> IF i = m + 1 THEN last ELSE f[i]]
  <2>2. ASSUME NEW i \in 0 .. m + 1
        PROVE  g[i] = IF i = 0 THEN start
                      ELSE Directed(roots, request, limit, g[i - 1], CellOrder[i])
    <3>1. CASE i = m + 1
      <4>1. i - 1 = m /\ i - 1 \in 0 .. m + 1 /\ i - 1 # m + 1 /\ i # 0
        BY <3>1
      <4>2. g[i] = last /\ g[i - 1] = f[m]
        BY <3>1, <4>1
      <4> QED
        BY <3>1, <4>1, <4>2
    <3>2. CASE i # m + 1
      <4>1. i \in 0 .. m /\ g[i] = f[i]
        BY <3>2
      <4>2. f[i] = IF i = 0 THEN start
                   ELSE Directed(roots, request, limit, f[i - 1], CellOrder[i])
        BY <2>1, <4>1 DEF Rooting
      <4>3. i # 0 => i - 1 \in 0 .. m + 1 /\ i - 1 # m + 1
        BY <4>1
      <4>4. i # 0 => g[i - 1] = f[i - 1]
        BY <4>3
      <4> QED
        BY <4>1, <4>2, <4>4
    <3> QED
      BY <3>1, <3>2
  <2>3. Rooting(roots, request, limit, start, g, m + 1)
    <3>1. g = [i \in 0 .. m + 1 |-> g[i]]
      OBVIOUS
    <3> HIDE DEF g
    <3> QED
      BY <2>2, <3>1 DEF Rooting
  <2> HIDE DEF g
  <2> QED
    BY <2>3
<1> HIDE DEF T
<1>3. n \in T
  BY <1>1, <1>2, SetInduction
<1> QED
  BY <1>3 DEF T

LEMMA RootsAt ==
  ASSUME NEW roots, NEW request, NEW limit, NEW start
  PROVE  /\ RootsUpTo(roots, request, limit, start)[0] = start
         /\ \A k \in Nat : k + 1 <= Len(CellOrder) =>
              RootsUpTo(roots, request, limit, start)[k + 1]
                = Directed(roots, request, limit, RootsUpTo(roots, request, limit, start)[k],
                           CellOrder[k + 1])
<1> DEFINE n == Len(CellOrder)
           f == CHOOSE f : Rooting(roots, request, limit, start, f, n)
<1>0. n \in Nat
  BY CalculatorAssumption
<1>1. Rooting(roots, request, limit, start, f, n)
  BY <1>0, RootingExists
<1>2. RootsUpTo(roots, request, limit, start) = f
  BY DEF RootsUpTo, Rooting, Directed
<1> HIDE DEF f
<1>3. \A k \in 0 .. n :
        f[k] = IF k = 0 THEN start
               ELSE Directed(roots, request, limit, f[k - 1], CellOrder[k])
  BY <1>1 DEF Rooting
<1>4. f[0] = start
  BY <1>0, <1>3
<1>5. ASSUME NEW k \in Nat, k + 1 <= n
      PROVE  f[k + 1] = Directed(roots, request, limit, f[k], CellOrder[k + 1])
  <2>1. k + 1 \in 0 .. n /\ k + 1 # 0 /\ (k + 1) - 1 = k
    BY <1>0, <1>5
  <2> QED
    BY <1>3, <2>1
<1> QED
  BY <1>2, <1>4, <1>5

LEMMA VerificationGood ==
  ASSUME StateTyped, NEW w, NEW root \in Cells, NEW request, GoodWork(w)
  PROVE  GoodCalls(Begin(w, root)) /\ \A k \in Nat : k <= MaxCalls =>
              GoodCalls(Steps(w, root, request)[k])
<1>0. MaxCalls \in Nat
  BY CalculatorAssumption
<1>1. GoodCalls(Begin(w, root))
  <2> DEFINE v == [w EXCEPT !.calls = <<>>]
  <2>1. /\ IsWork(v) /\ v.memo = w.memo /\ v.pending = w.pending /\ v.dirty = w.dirty
        /\ v.out = w.out /\ v.attempts = w.attempts /\ v.calls = <<>>
    BY DEF GoodWork, WorkTyped, IsWork, WorkFields
  <2> DEFINE new == <<Verification(v, root)>> \o v.calls
             out == v.memo[root].out
             r == [v EXCEPT !.calls = new, !.out = out]
  <2>2. Begin(w, root) = r
    BY DEF Begin, Verify
  <2>3. EngineTyped(v.memo, v.pending, v.dirty)
    BY <2>1 DEF GoodWork, WorkTyped
  <2>4. out \in Results /\ Verification(v, root) \in Frames
    <3> HIDE DEF v
    <3> QED
      BY <2>3, MemoOut, VerificationTyped
  <2>5. new \in Seq(Frames)
    BY <2>1, <2>4, EmptySeq
  <2> HIDE DEF new, out, v
  <2>6. /\ IsWork(r) /\ r.memo = v.memo /\ r.pending = v.pending /\ r.dirty = v.dirty
        /\ r.attempts = v.attempts /\ r.out = out /\ r.calls = new
    BY <2>1 DEF IsWork, WorkFields
  <2> HIDE DEF r
  <2>7. GoodWork(r)
    BY <2>1, <2>4, <2>6 DEF GoodWork, WorkTyped, BlockedMarked
  <2> QED
    BY <2>2, <2>5, <2>6, <2>7 DEF GoodCalls, CallsTyped
<1> DEFINE s == Steps(w, root, request)
           T == {k \in Nat : k <= MaxCalls => GoodCalls(s[k])}
<1>2. 0 \in T
  BY <1>1, StepsAt
<1>3. ASSUME NEW k \in Nat, k \in T PROVE k + 1 \in T
  <2> SUFFICES ASSUME k + 1 <= MaxCalls PROVE GoodCalls(s[k + 1])
    OBVIOUS
  <2>1. s[k + 1] = Continued(s[k], request)
    BY StepsAt
  <2>2. GoodCalls(s[k])
    BY <1>0, <1>3
  <2> DEFINE v == s[k]
  <2> HIDE DEF s, v
  <2>3. GoodCalls(v)
    BY <2>2 DEF v
  <2>4. CASE v.calls = <<>>
    BY <2>1, <2>3, <2>4 DEF Continued, v
  <2>5. CASE v.calls # <<>>
    <3>1. GoodCalls(GoOn(v, request))
      BY <2>3, <2>5, StepGood
    <3> QED
      BY <2>1, <2>5, <3>1 DEF Continued, v
  <2> QED
    BY <2>4, <2>5
<1> HIDE DEF T, s
<1>4. \A k \in Nat : k \in T
  BY <1>2, <1>3, SetInduction
<1> QED
  BY <1>1, <1>4 DEF T, s

\* What the engine returned; its outcome may be one that no request allows.
Returning(w) ==
  /\ IsWork(w) /\ EngineTyped(w.memo, w.pending, w.dirty)
  /\ w.attempts \in Seq(Attempts) /\ BlockedMarked(w)

\* A verification that has ended, or ran out of MaxCalls steps.
LEMMA VerifiedGood ==
  ASSUME StateTyped, NEW w, NEW root \in Cells, NEW request, GoodWork(w)
  PROVE  Returning(Verified(w, root, request))
<1> DEFINE done == Steps(w, root, request)[MaxCalls]
<1>0. MaxCalls \in Nat /\ MaxCalls <= MaxCalls
  BY CalculatorAssumption
<1>1. GoodCalls(done)
  BY <1>0, VerificationGood
<1>2. Returning(done)
  BY <1>1 DEF GoodCalls, GoodWork, WorkTyped, Returning
<1>3. CASE done.calls = <<>>
  BY <1>2, <1>3 DEF Verified
<1>4. CASE done.calls # <<>>
  <2> DEFINE out == Outcome("unfinished", <<>>)
             r == [done EXCEPT !.out = out]
  <2>1. Verified(w, root, request) = r
    BY <1>4 DEF Verified
  <2> HIDE DEF done, out
  <2>2. /\ IsWork(r) /\ r.memo = done.memo /\ r.pending = done.pending /\ r.dirty = done.dirty
        /\ r.attempts = done.attempts
    BY <1>2 DEF Returning, IsWork, WorkFields
  <2> HIDE DEF r
  <2>3. Returning(r)
    BY <1>2, <2>2 DEF Returning, BlockedMarked
  <2> QED
    BY <2>1, <2>3
<1> QED
  BY <1>3, <1>4

\* Queries Q are invalidated in an engine.
Invalidating(w, r, Q) ==
  /\ r.memo = w.memo
  /\ r.pending = w.pending \cup Observers(w.memo, Q)
  /\ r.dirty = w.dirty \cup Readers(w.memo, Observers(w.memo, Q))

LEMMA InvalidatedFields ==
  ASSUME NEW w, IsWork(w), NEW Q
  PROVE  IsWork(Invalidated(w, Q)) /\ Invalidating(w, Invalidated(w, Q), Q)
<1> DEFINE p == w.pending \cup Observers(w.memo, Q)
           d == w.dirty \cup Readers(w.memo, Observers(w.memo, Q))
           r == [w EXCEPT !.pending = p, !.dirty = d]
<1>1. Invalidated(w, Q) = r
  BY DEF Invalidated
<1> HIDE DEF p, d
<1>2. IsWork(r) /\ r.memo = w.memo /\ r.pending = p /\ r.dirty = d
  BY DEF IsWork, WorkFields
<1> HIDE DEF r
<1> QED
  BY <1>1, <1>2 DEF Invalidating, p, d

LEMMA InvalidatingTyped ==
  ASSUME NEW w, NEW r, NEW Q, EngineTyped(w.memo, w.pending, w.dirty), Invalidating(w, r, Q)
  PROVE  EngineTyped(r.memo, r.pending, r.dirty)
BY DEF EngineTyped, Invalidating, Observers, Readers

\* Numbering continuations leaves the engine and the answers alone.
LEMMA NumberedFields ==
  ASSUME NEW w, IsWork(w), NEW r \in Numbered(w)
  PROVE  IsWork(r) /\ EngineKept(w, r) /\ r.answer = w.answer
<1>1. PICK more : r = [w EXCEPT !.tokens = more]
  <2> DEFINE exhausted == {c \in DOMAIN w.answer : w.answer[c].kind = "exhausted"}
             known == restored_continuations \ DOMAIN tokens
  <2>1. PICK issued \in UNION {Injection(S, exhausted) : S \in SUBSET known} :
          r = [w EXCEPT !.tokens = Joined(issued, @)]
    BY DEF Numbered
  <2> QED
    BY <2>1
<1> QED
  BY <1>1 DEF IsWork, WorkFields, EngineKept

LEMMA RequeuedFields ==
  ASSUME NEW w, IsWork(w), NEW c, NEW root, NEW r \in Requeued(w, c, root)
  PROVE  IsWork(r) /\ EngineKept(w, r) /\ r.answer = w.answer
<1>1. CASE w.out.kind # "exhausted"
  BY <1>1 DEF Requeued, EngineKept
<1>2. CASE w.out.kind = "exhausted"
  <2>1. PICK more, number : r = [w EXCEPT !.queue = more,
                                          !.tokens = With(Held(w), number, root)]
    BY <1>2 DEF Requeued
  <2> DEFINE toks == With(Held(w), number, root)
  <2> HIDE DEF toks
  <2>2. r = [w EXCEPT !.queue = more, !.tokens = toks]
    BY <2>1 DEF toks
  <2> QED
    BY <2>2 DEF IsWork, WorkFields, EngineKept
<1> QED
  BY <1>1, <1>2

\* A root is concluded: what its attempts forget is invalidated.
LEMMA ConcludedFields ==
  ASSUME NEW w, Returning(w), NEW key \in Cells, NEW root
  PROVE  /\ IsWork(Concluded(w, key, root))
         /\ \E Q : /\ Invalidating(w, Concluded(w, key, root), Q)
                   /\ \A c \in Cells : BlockedAttempt(c) \in ToSet(w.attempts)
                                         => <<"force", c>> \in Q
<1> DEFINE a == StoppedRootAttempt(w, key)
           Q == BlockedQueries(a, key)
<1>1. /\ IsWork(a) /\ EngineKept(w, a) /\ ToSet(w.attempts) \subseteq ToSet(a.attempts)
  <2>0. IsWork(w) /\ w.attempts \in Seq(Attempts)
    BY DEF Returning
  <2>1. CASE a = w
    BY <2>0, <2>1 DEF EngineKept
  <2>2. CASE a # w
    <3> DEFINE kind == w.out.kind
    <3>1. a = Attempted(w, key, kind) /\ kind \in Stops
      BY <2>2 DEF StoppedRootAttempt
    <3>2. [cell |-> key, outcome |-> kind] \in Attempts
      BY <3>1 DEF Attempts
    <3> DEFINE x == [cell |-> key, outcome |-> kind]
    <3> HIDE DEF kind, a
    <3>3. IsWork(a) /\ EngineKept(w, a) /\ a.attempts = Append(w.attempts, x)
      BY <2>0, <3>1, AttemptedFields
    <3> HIDE DEF x
    <3>4. x \in Attempts
      BY <3>2 DEF x
    <3> QED
      BY <2>0, <3>3, <3>4, ToSetAppend
  <2> QED
    BY <2>1, <2>2
<1>2. ASSUME NEW c \in Cells, BlockedAttempt(c) \in ToSet(w.attempts)
      PROVE  <<"force", c>> \in Q
  <2>1. BlockedAttempt(c) \in {y \in ToSet(a.attempts) : y.outcome = "blocked"}
    BY <1>1, <1>2 DEF BlockedAttempt
  <2>2. BlockedAttempt(c).cell = c
    BY DEF BlockedAttempt
  <2> HIDE DEF a
  <2> QED
    BY <2>1, <2>2 DEF BlockedQueries
<1> HIDE DEF a, Q
<1>3. PICK rec : CommitReceipts(a, key) = Invalidated([a EXCEPT !.receipts = rec], Q)
  BY DEF CommitReceipts, Q
<1> DEFINE b == [a EXCEPT !.receipts = rec]
           done == CommitReceipts(a, key)
<1>4. IsWork(b) /\ EngineKept(a, b)
  BY <1>1 DEF IsWork, WorkFields, EngineKept
<1> HIDE DEF b
<1>5. IsWork(done) /\ Invalidating(b, done, Q)
  BY <1>3, <1>4, InvalidatedFields DEF b
<1> DEFINE q == Pruned(done.queue, done.dirty)
           e == [done EXCEPT !.queue = q]
           cur == With(e.current, key, w.out)
           ans == With(e.answer, root, w.out)
           fail == IF w.out.kind = "value" THEN e.failed \ {key} ELSE e.failed \cup {key}
           r == [e EXCEPT !.current = cur, !.answer = ans, !.failed = fail]
<1>6. Concluded(w, key, root) = r
  BY DEF Concluded, CommitCurrent, a
<1> HIDE DEF done, q
<1>7. IsWork(e) /\ EngineKept(done, e)
  BY <1>5 DEF IsWork, WorkFields, EngineKept
<1> HIDE DEF e, cur, ans, fail
<1>8. IsWork(r) /\ EngineKept(e, r)
  BY <1>7 DEF IsWork, WorkFields, EngineKept
<1> HIDE DEF r
<1>9. Invalidating(w, r, Q)
  BY <1>1, <1>4, <1>5, <1>7, <1>8 DEF Invalidating, EngineKept
<1> QED
  BY <1>2, <1>6, <1>8, <1>9

\* Between roots a blocked memo is pending.
BlockedPending(m, p) == \A c \in Cells : m[c].out.kind = "blocked" => c \in p
Ready(w) ==
  IsWork(w) /\ EngineTyped(w.memo, w.pending, w.dirty) /\ BlockedPending(w.memo, w.pending)

\* execute_root invalidates every blocked attempt it made: no blocked memo is
\* left that is not pending.
LEMMA ConcludedReady ==
  ASSUME NEW w, Returning(w), NEW key \in Cells, NEW root
  PROVE  Ready(Concluded(w, key, root))
<1> DEFINE r == Concluded(w, key, root)
<1>1. PICK Q : /\ Invalidating(w, r, Q)
               /\ \A c \in Cells : BlockedAttempt(c) \in ToSet(w.attempts)
                                     => <<"force", c>> \in Q
  BY ConcludedFields
<1>2. IsWork(r)
  BY ConcludedFields
<1> HIDE DEF r
<1>3. EngineTyped(r.memo, r.pending, r.dirty)
  BY <1>1, InvalidatingTyped DEF Returning
<1>4. BlockedPending(r.memo, r.pending)
  <2> SUFFICES ASSUME NEW c \in Cells, r.memo[c].out.kind = "blocked" PROVE c \in r.pending
    BY DEF BlockedPending
  <2>1. w.memo[c].out.kind = "blocked"
    BY <1>1 DEF Invalidating
  <2>2. w.memo[c] # NoMemo
    BY <2>1 DEF NoMemo, Unknown, Outcome
  <2>3. <<"force", c>> \in RuntimeContext(c)
    BY DEF RuntimeContext
  <2>4. CASE c \in w.pending
    BY <1>1, <2>4 DEF Invalidating
  <2>5. CASE BlockedAttempt(c) \in ToSet(w.attempts)
    <3>1. <<"force", c>> \in Q
      BY <1>1, <2>5
    <3>2. c \in Observers(w.memo, Q)
      BY <2>2, <2>3, <3>1 DEF Observers
    <3> QED
      BY <1>1, <3>2 DEF Invalidating
  <2> QED
    BY <2>1, <2>4, <2>5 DEF Returning, BlockedMarked
<1> QED
  BY <1>2, <1>3, <1>4 DEF Ready, r

LEMMA ExecuteRootReady ==
  ASSUME StateTyped, NEW w, Ready(w), NEW key \in Cells, NEW root, NEW request, NEW limit
  PROVE  Ready(ExecuteRoot(w, key, root, request, limit))
<1> DEFINE fuel == Fuel(key, limit)
           begun == [w EXCEPT !.fuel = fuel, !.attempts = <<>>, !.out = Unknown]
           v == IF root \in registered THEN Verified(begun, root, request) ELSE begun
<1>1. ExecuteRoot(w, key, root, request, limit) = Concluded(v, key, root)
  BY DEF ExecuteRoot
<1> HIDE DEF fuel
<1>2. /\ IsWork(begun) /\ EngineKept(w, begun) /\ begun.attempts = <<>> /\ begun.out = Unknown
  BY DEF Ready, IsWork, WorkFields, EngineKept
<1> HIDE DEF begun
<1>3. GoodWork(begun)
  <2>1. Unknown \in Results /\ <<>> \in Seq(Attempts)
    BY EmptySeq DEF Unknown, Outcome, Results, Stops
  <2> QED
    BY <1>2, <2>1 DEF Ready, GoodWork, WorkTyped, BlockedMarked, BlockedPending, EngineKept
<1>4. Returning(v)
  <2>1. CASE root \in registered
    <3>1. root \in Cells
      BY <2>1 DEF StateTyped
    <3> QED
      BY <1>3, <2>1, <3>1, VerifiedGood
  <2>2. CASE root \notin registered
    BY <1>3, <2>2 DEF GoodWork, WorkTyped, Returning
  <2> QED
    BY <2>1, <2>2
<1> HIDE DEF v
<1> QED
  BY <1>1, <1>4, ConcludedReady

LEMMA DirectedReady ==
  ASSUME StateTyped, NEW roots, NEW request, NEW limit, NEW w, Ready(w), NEW c \in Cells
  PROVE  Ready(Directed(roots, request, limit, w, c))
<1>1. CASE c \notin roots \/ w.halted
  BY <1>1 DEF Directed
<1>2. CASE ~ (c \notin roots \/ w.halted)
  <2> DEFINE v == ExecuteRoot(w, c, c, request, limit)
             h == /\ v.out.kind # "value"
                  /\ EffectivePolicy(calc_policies, c)["error_mode"] = "fail-fast"
             r == [v EXCEPT !.halted = h]
  <2>1. Directed(roots, request, limit, w, c) = r
    BY <1>2 DEF Directed, FailingFast
  <2>2. Ready(v)
    BY ExecuteRootReady
  <2> HIDE DEF v, h
  <2>3. IsWork(r) /\ EngineKept(v, r)
    BY <2>2 DEF Ready, IsWork, WorkFields, EngineKept
  <2> HIDE DEF r
  <2>4. Ready(r)
    BY <2>2, <2>3 DEF Ready, EngineKept
  <2> QED
    BY <2>1, <2>4
<1> QED
  BY <1>1, <1>2

LEMMA RootsReady ==
  ASSUME StateTyped, NEW roots, NEW request, NEW limit, NEW start, Ready(start)
  PROVE  Ready(RootsUpTo(roots, request, limit, start)[Len(CellOrder)])
<1> DEFINE n == Len(CellOrder)
           s == RootsUpTo(roots, request, limit, start)
           T == {k \in Nat : k <= n => Ready(s[k])}
<1>0. n \in Nat /\ \A k \in 1 .. n : CellOrder[k] \in Cells
  BY CalculatorAssumption
<1>1. 0 \in T
  BY RootsAt
<1>2. ASSUME NEW k \in Nat, k \in T PROVE k + 1 \in T
  <2> SUFFICES ASSUME k + 1 <= n PROVE Ready(s[k + 1])
    OBVIOUS
  <2>1. s[k + 1] = Directed(roots, request, limit, s[k], CellOrder[k + 1])
    BY RootsAt
  <2>2. Ready(s[k])
    BY <1>0, <1>2
  <2>3. CellOrder[k + 1] \in Cells
    BY <1>0
  <2> DEFINE v == s[k]
             c == CellOrder[k + 1]
  <2> HIDE DEF s, v, c
  <2>4. Ready(v) /\ c \in Cells
    BY <2>2, <2>3 DEF v, c
  <2>5. Ready(Directed(roots, request, limit, v, c))
    BY <2>4, DirectedReady
  <2> QED
    BY <2>1, <2>5 DEF v, c
<1> HIDE DEF T, s
<1>3. n \in T
  BY <1>0, <1>1, <1>2, SetInduction
<1>4. n <= n
  BY <1>0
<1> QED
  BY <1>3, <1>4 DEF T, s

----------------------------------------------------------------------------
(***************************************************************************)
(* The inductive invariant of types and of blocked memos.                  *)
(***************************************************************************)
EngineReady == EngineTyped(memo, pending, dirty) /\ BlockedPending(memo, pending)
TypedAndBlocked == StateTyped /\ EngineReady

LEMMA InvalidateReady ==
  ASSUME NEW Q, EngineReady, Invalidate(Q), memo' = memo
  PROVE  EngineReady'
BY DEF EngineReady, EngineTyped, BlockedPending, Invalidate, Observers, Readers

LEMMA CommitReady ==
  ASSUME NEW w, Ready(w), StateTyped, Commit(w)
  PROVE  StateTyped' /\ EngineReady'
<1>1. EngineReady'
  BY DEF Commit, Ready, EngineReady, EngineTyped, BlockedPending
<1>2. StateTyped'
  BY DEF Commit, StateTyped, SourcesTyped, BackendTyped, MountsTyped, inputVars, backendVars
<1> QED
  BY <1>1, <1>2

LEMMA StartReady ==
  ASSUME EngineReady
  PROVE  Ready(Start)
<1>1. /\ IsWork(Start) /\ Start.memo = memo /\ Start.pending = pending /\ Start.dirty = dirty
  BY DEF Start, IsWork, WorkFields
<1> QED
  BY <1>1 DEF Ready, EngineReady

LEMMA InitGood == Init => TypedAndBlocked
<1> SUFFICES ASSUME Init PROVE TypedAndBlocked
  OBVIOUS
<1>1. SourcesTyped
  <2>1. DOMAIN cells \subseteq Cells /\ cells \in [DOMAIN cells -> Seq(Atoms)]
    BY ExpressionAssumption DEF Init
  <2>2. DOMAIN bound = {}
    BY DEF Init
  <2> QED
    BY <2>1, <2>2 DEF SourcesTyped
<1>2. BackendTyped
  <2>1. backend = Backend0
    BY DEF Init
  <2>2. ASSUME NEW m \in Mounts
        PROVE  /\ DOMAIN Backend0[m] = SampleFields
               /\ DOMAIN Backend0[m].stamps = {c \in Stored : IsPrefix(m, c)}
               /\ \A c \in DOMAIN Backend0[m].stamps : Backend0[m].stamps[c] \in Nat \ {0}
    BY DEF Backend0, SampleFields
  <2>3. DOMAIN Backend0 = Mounts
    BY DEF Backend0
  <2> QED
    BY <2>1, <2>2, <2>3 DEF BackendTyped
<1>3. MountsTyped
  BY DEF Init, MountsTyped, EpochOnly, SampleFields
<1>4. DOMAIN authority_policies = Levels /\ registered \subseteq Cells
  BY <1>1 DEF Init, SourcesTyped
<1>5. EngineReady
  <2>1. memo = [c \in Cells |-> NoMemo] /\ pending \subseteq Cells /\ dirty \subseteq Cells
    BY <1>1 DEF Init, SourcesTyped
  <2>2. NoMemo \in Memos /\ NoMemo.out.kind # "blocked"
    BY DEF Memos, NoMemo, Unknown, Outcome
  <2> QED
    BY <2>1, <2>2 DEF EngineReady, EngineTyped, BlockedPending
<1> QED
  BY <1>1, <1>2, <1>3, <1>4, <1>5 DEF TypedAndBlocked, StateTyped

LEMMA SourceEditedGood ==
  ASSUME NEW Q, NEW gone, TypedAndBlocked, SourceEdited(Q, gone),
         DOMAIN cells' \subseteq Cells, cells' \in [DOMAIN cells' -> Seq(Atoms)],
         registered' \subseteq Cells
  PROVE  TypedAndBlocked'
<1>1. EngineReady'
  BY InvalidateReady DEF TypedAndBlocked, SourceEdited
<1>2. StateTyped'
  BY DEF TypedAndBlocked, StateTyped, SourcesTyped, BackendTyped, MountsTyped, SourceEdited,
         backendVars
<1> QED
  BY <1>1, <1>2 DEF TypedAndBlocked

LEMMA EditGood == TypedAndBlocked /\ Edit => TypedAndBlocked'
<1> SUFFICES ASSUME TypedAndBlocked, Edit PROVE TypedAndBlocked'
  OBVIOUS
<1>0. /\ DOMAIN cells \subseteq Cells /\ cells \in [DOMAIN cells -> Seq(Atoms)]
      /\ registered \subseteq Cells
  BY DEF TypedAndBlocked, StateTyped, SourcesTyped
<1>1. ASSUME NEW c \in DOMAIN Sources, NEW e \in Sources[c], SetCell(c, e)
      PROVE  TypedAndBlocked'
  <2>1. c \in Cells /\ e \in Seq(Atoms)
    BY <1>1, ExpressionAssumption
  <2>2. cells' = [z \in DOMAIN cells \cup {c} |-> IF z = c THEN e ELSE cells[z]]
    BY <1>1 DEF SetCell, With
  <2>3. DOMAIN cells' \subseteq Cells /\ cells' \in [DOMAIN cells' -> Seq(Atoms)]
    BY <1>0, <2>1, <2>2
  <2>4. registered' \subseteq Cells
    BY <1>0, <1>1, <2>1 DEF SetCell
  <2> QED
    BY <1>1, <2>3, <2>4, SourceEditedGood DEF SetCell
<1>2. ASSUME NEW c \in Cells, RemoveCell(c) PROVE TypedAndBlocked'
  <2>1. cells' = [z \in DOMAIN cells \ {c} |-> cells[z]]
    BY <1>2 DEF RemoveCell, Without
  <2>2. DOMAIN cells' \subseteq Cells /\ cells' \in [DOMAIN cells' -> Seq(Atoms)]
    BY <1>0, <2>1
  <2>3. registered' \subseteq Cells
    BY <1>0, <1>2 DEF RemoveCell
  <2> QED
    BY <1>2, <2>2, <2>3, SourceEditedGood DEF RemoveCell
<1>3. ASSUME NEW c \in Cells, NEW d \in Cells, MoveCell(c, d) PROVE TypedAndBlocked'
  <2>1. cells' = IF c \in DOMAIN cells THEN Without(With(cells, d, cells[c]), {c}) ELSE cells
    BY <1>3 DEF MoveCell
  <2>2. DOMAIN cells' \subseteq Cells /\ cells' \in [DOMAIN cells' -> Seq(Atoms)]
    <3>1. CASE c \in DOMAIN cells
      <4> DEFINE f == [z \in DOMAIN cells \cup {d} |-> IF z = d THEN cells[c] ELSE cells[z]]
      <4>1. cells' = [z \in DOMAIN f \ {c} |-> f[z]]
        BY <2>1, <3>1 DEF With, Without
      <4>2. DOMAIN f \subseteq Cells /\ \A z \in DOMAIN f : f[z] \in Seq(Atoms)
        BY <1>0, <3>1
      <4> HIDE DEF f
      <4> QED
        BY <4>1, <4>2
    <3>2. CASE c \notin DOMAIN cells
      BY <1>0, <2>1, <3>2
    <3> QED
      BY <3>1, <3>2
  <2>3. registered' \subseteq Cells
    BY <1>0, <1>3 DEF MoveCell
  <2> QED
    BY <1>3, <2>2, <2>3, SourceEditedGood DEF MoveCell
<1>4. ASSUME NEW n \in DOMAIN Bindings, BindValue(n) PROVE TypedAndBlocked'
  <2>1. EngineReady'
    BY <1>4, InvalidateReady DEF TypedAndBlocked, BindValue
  <2>2. bound' = [z \in DOMAIN bound \cup {n} |-> IF z = n THEN Bindings[n] ELSE bound[z]]
    BY <1>4 DEF BindValue, With
  <2>3. SourcesTyped'
    BY <1>4, <2>2, ExpressionAssumption DEF TypedAndBlocked, StateTyped, SourcesTyped, BindValue
  <2>4. StateTyped'
    BY <1>4, <2>3 DEF TypedAndBlocked, StateTyped, BackendTyped, MountsTyped, BindValue,
                      backendVars
  <2> QED
    BY <2>1, <2>4 DEF TypedAndBlocked
<1>5. ASSUME NEW Q, PolicyEdited(Q), DOMAIN authority_policies' = Levels PROVE TypedAndBlocked'
  <2>1. EngineReady'
    BY <1>5, InvalidateReady DEF TypedAndBlocked, PolicyEdited
  <2>2. StateTyped'
    BY <1>5 DEF TypedAndBlocked, StateTyped, SourcesTyped, BackendTyped, MountsTyped,
                PolicyEdited, backendVars
  <2> QED
    BY <2>1, <2>2 DEF TypedAndBlocked
<1>6. ASSUME NEW x \in CalcPatches, SetCalcPolicy(x[1], x[2]) PROVE TypedAndBlocked'
  BY <1>5, <1>6 DEF SetCalcPolicy, TypedAndBlocked, StateTyped
<1>7. ASSUME NEW x \in AuthorityPatches, SetAuthorityPolicy(x[1], x[2]) PROVE TypedAndBlocked'
  BY <1>5, <1>7 DEF SetAuthorityPolicy, TypedAndBlocked, StateTyped
<1>8. CASE SetCodecRegistryRevision
  <2>1. EngineReady'
    BY <1>8, InvalidateReady DEF TypedAndBlocked, SetCodecRegistryRevision, ControlEdited
  <2>2. StateTyped'
    BY <1>8 DEF TypedAndBlocked, StateTyped, SourcesTyped, BackendTyped, MountsTyped,
                SetCodecRegistryRevision, ControlEdited
  <2> QED
    BY <2>1, <2>2 DEF TypedAndBlocked
<1> QED
  BY <1>1, <1>2, <1>3, <1>4, <1>6, <1>7, <1>8 DEF Edit

LEMMA MountStep ==
  ASSUME NEW Q, EngineReady, StateTyped, Invalidate(Q), MountsTyped', BackendTyped',
         UNCHANGED <<cells, bound, authority_policies, registered, memo>>
  PROVE  TypedAndBlocked'
<1>1. EngineReady'
  BY InvalidateReady
<1>2. StateTyped'
  BY DEF StateTyped, SourcesTyped
<1> QED
  BY <1>1, <1>2 DEF TypedAndBlocked

LEMMA BackendsGood == TypedAndBlocked /\ Backends => TypedAndBlocked'
<1> SUFFICES ASSUME TypedAndBlocked, Backends PROVE TypedAndBlocked'
  OBVIOUS
<1>0. StateTyped /\ EngineReady /\ MountsTyped /\ BackendTyped
  BY DEF TypedAndBlocked, StateTyped
<1>1. ASSUME NEW m \in Mounts, Mount(m, 1) PROVE TypedAndBlocked'
  <2>1. /\ mounts' = [z \in DOMAIN mounts \cup {m} |-> IF z = m THEN 1 ELSE mounts[z]]
        /\ refresh_samples' = [z \in DOMAIN refresh_samples \cup {m} |->
                                 IF z = m THEN EpochOnly(1) ELSE refresh_samples[z]]
        /\ refresh_sources' = refresh_sources
    BY <1>1 DEF Mount, With
  <2>2. DOMAIN EpochOnly(1) = SampleFields
    BY DEF EpochOnly, SampleFields
  <2>3. MountsTyped'
    BY <1>0, <2>1, <2>2 DEF MountsTyped
  <2>4. BackendTyped'
    BY <1>0, <1>1 DEF Mount, ControlEdited, BackendTyped
  <2> QED
    BY <1>0, <1>1, <2>3, <2>4, MountStep DEF Mount, ControlEdited
<1>2. ASSUME NEW m \in Mounts, ObserveMountEpoch(m, 2) PROVE TypedAndBlocked'
  <2> DEFINE before == IF m \in DOMAIN refresh_samples THEN refresh_samples[m] ELSE EpochOnly(2)
             after == [before EXCEPT !.epoch = 2]
  <2>1. /\ DOMAIN mounts' = DOMAIN mounts
        /\ refresh_samples' = [z \in DOMAIN refresh_samples \cup {m} |->
                                 IF z = m THEN after ELSE refresh_samples[z]]
        /\ refresh_sources' = refresh_sources
    BY <1>2 DEF ObserveMountEpoch, With
  <2>2. DOMAIN after = SampleFields
    BY <1>0 DEF EpochOnly, SampleFields, MountsTyped
  <2> HIDE DEF after
  <2>3. MountsTyped'
    BY <1>0, <2>1, <2>2 DEF MountsTyped
  <2>4. BackendTyped'
    BY <1>0, <1>2 DEF ObserveMountEpoch, BackendTyped
  <2> QED
    BY <1>0, <1>2, <2>3, <2>4, MountStep DEF ObserveMountEpoch
<1>3. ASSUME NEW m \in Mounts, Unmount(m) PROVE TypedAndBlocked'
  <2>1. /\ mounts' = [z \in DOMAIN mounts \ {m} |-> mounts[z]]
        /\ refresh_samples' = [z \in DOMAIN refresh_samples \ {m} |-> refresh_samples[z]]
        /\ refresh_sources' = refresh_sources \ {m}
    BY <1>3 DEF Unmount, Without
  <2>3. MountsTyped'
    BY <1>0, <2>1 DEF MountsTyped
  <2>4. BackendTyped'
    BY <1>0, <1>3 DEF Unmount, ControlEdited, BackendTyped
  <2> QED
    BY <1>0, <1>3, <2>3, <2>4, MountStep DEF Unmount, ControlEdited
<1>4. ASSUME NEW m \in Mounts, AttachRefreshSource(m) \/ DetachRefreshSource(m)
      PROVE  TypedAndBlocked'
  <2>1. MountsTyped'
    BY <1>0, <1>4 DEF AttachRefreshSource, DetachRefreshSource, MountsTyped, inputVars
  <2> QED
    BY <1>0, <1>4, <2>1 DEF AttachRefreshSource, DetachRefreshSource, inputVars, engineVars,
         TypedAndBlocked, StateTyped, SourcesTyped, BackendTyped, EngineReady, EngineTyped,
         BlockedPending
<1>5. ASSUME NEW m \in Mounts, NEW c \in DOMAIN backend[m].stamps, BackendWrite(m, c)
      PROVE  TypedAndBlocked'
  <2> PICK stamp \in 1 .. MaxStamp, wide \in {backend[m].epoch, 2} :
        backend' = [backend EXCEPT ![m].epoch = wide, ![m].listing = wide, ![m].stamps[c] = stamp]
    BY <1>5 DEF BackendWrite
  <2>0. stamp \in Nat \ {0}
    BY CalculatorAssumption
  <2> DEFINE stamps == [backend[m].stamps EXCEPT ![c] = stamp]
  <2>1. backend' = [backend EXCEPT ![m] = [backend[m] EXCEPT !.epoch = wide, !.listing = wide,
                                                            !.stamps = stamps]]
    BY <1>0 DEF BackendTyped, SampleFields
  <2>2. /\ DOMAIN stamps = {d \in Stored : IsPrefix(m, d)}
        /\ \A d \in DOMAIN stamps : stamps[d] \in Nat \ {0}
    BY <1>0, <2>0 DEF BackendTyped
  <2> HIDE DEF stamps
  <2>3. BackendTyped'
    BY <1>0, <2>1, <2>2 DEF BackendTyped, SampleFields
  <2> QED
    BY <1>0, <1>5, <2>3 DEF BackendWrite, inputVars, engineVars,
         TypedAndBlocked, StateTyped, SourcesTyped, MountsTyped, EngineReady, EngineTyped,
         BlockedPending
<1>6. ASSUME NEW changed \in SUBSET Mounts, Refresh(changed) PROVE TypedAndBlocked'
  <2> DEFINE queries == UNION {RefreshQueries(m) : m \in changed}
  <2>1. /\ mounts' = [m \in DOMAIN mounts |->
                        IF m \in changed THEN backend[m].epoch ELSE mounts[m]]
        /\ refresh_samples' = [m \in DOMAIN refresh_samples |->
                        IF m \in changed THEN backend[m] ELSE refresh_samples[m]]
        /\ refresh_sources' = refresh_sources /\ Invalidate(queries)
    BY <1>6 DEF Refresh
  <2>2. MountsTyped'
    BY <1>0, <2>1 DEF MountsTyped, BackendTyped
  <2>3. BackendTyped'
    BY <1>0, <1>6 DEF Refresh, BackendTyped
  <2> HIDE DEF queries
  <2> QED
    BY <1>0, <1>6, <2>1, <2>2, <2>3, MountStep DEF Refresh
<1> QED
  BY <1>1, <1>2, <1>3, <1>4, <1>5, <1>6 DEF Backends

\* A request, of the host or of the automatic queue.
LEMMA RequestGood == TypedAndBlocked /\ Request => TypedAndBlocked'
<1> SUFFICES ASSUME TypedAndBlocked, Request PROVE TypedAndBlocked'
  OBVIOUS
<1>0. StateTyped /\ EngineReady /\ Ready(Start)
  BY StartReady DEF TypedAndBlocked
<1>1. ASSUME NEW roots, NEW mode, NEW limit, Calculate(roots, mode, limit) PROVE TypedAndBlocked'
  <2> DEFINE Q == {<<"force", c>> : c \in Forced(roots, mode)}
             start == Invalidated(Start, Q)
             request == [automatic |-> FALSE, directed |-> roots \cup Forced(roots, mode)]
             w == RootsUpTo(roots, request, limit, start)[Len(CellOrder)]
  <2>1. PICK x \in Numbered(w) : Commit(x)
    BY <1>1 DEF Calculate
  <2> HIDE DEF Q, request
  <2>2. IsWork(start) /\ Invalidating(Start, start, Q)
    BY <1>0, InvalidatedFields DEF Ready
  <2> HIDE DEF start
  <2>3. Ready(start)
    <3>1. EngineTyped(start.memo, start.pending, start.dirty)
      BY <1>0, <2>2, InvalidatingTyped DEF Ready
    <3>2. BlockedPending(start.memo, start.pending)
      BY <1>0, <2>2 DEF Ready, BlockedPending, Invalidating
    <3> QED
      BY <2>2, <3>1, <3>2 DEF Ready
  <2>4. Ready(w)
    BY <1>0, <2>3, RootsReady
  <2> HIDE DEF w
  <2>5. Ready(x)
    BY <2>4, NumberedFields DEF Ready, EngineKept
  <2> QED
    BY <1>0, <2>1, <2>5, CommitReady DEF TypedAndBlocked
<1>2. ASSUME NEW c \in Cells, NEW limit, RunAutomatic(c, limit) PROVE TypedAndBlocked'
  <2> DEFINE q == Without(queue, {c})
             left == IF queue[c] \in DOMAIN tokens THEN restored_continuations
                     ELSE restored_continuations \ {queue[c]}
             toks == Without(tokens, {queue[c]})
             begun == [Start EXCEPT !.queue = q, !.tokens = toks, !.restored = left]
             request == [automatic |-> TRUE, directed |-> {}]
             root == QueuedRoot(c)
             v == ExecuteRoot(begun, c, root, request, limit)
  <2>1. PICK w \in Requeued(v, c, root) : Commit(w)
    BY <1>2 DEF RunAutomatic, Start
  <2> HIDE DEF q, toks, left, request, root
  <2>2. IsWork(begun) /\ EngineKept(Start, begun)
    BY <1>0 DEF Ready, IsWork, WorkFields, EngineKept
  <2> HIDE DEF begun
  <2>3. Ready(begun)
    BY <1>0, <2>2 DEF Ready, EngineKept
  <2>4. Ready(v)
    BY <1>0, <2>3, ExecuteRootReady
  <2> HIDE DEF v
  <2>5. Ready(w)
    BY <2>4, RequeuedFields DEF Ready, EngineKept
  <2> QED
    BY <1>0, <2>1, <2>5, CommitReady DEF TypedAndBlocked
<1> QED
  BY <1>1, <1>2 DEF Request

LEMMA NextGood == TypedAndBlocked /\ [Next]_vars => TypedAndBlocked'
<1> SUFFICES ASSUME TypedAndBlocked, [Next]_vars PROVE TypedAndBlocked'
  OBVIOUS
<1> USE DEF TypedAndBlocked, StateTyped, SourcesTyped, BackendTyped, MountsTyped, EngineReady,
            EngineTyped, BlockedPending
<1>1. CASE Cancellation
  BY <1>1 DEF Cancellation, CancelRequest, RequestCancellation, inputVars, backendVars, engineVars
<1>2. CASE UNCHANGED vars
  BY <1>2 DEF vars, inputVars, backendVars, engineVars
<1> QED
  BY <1>1, <1>2, EditGood, BackendsGood, RequestGood DEF Next

\* Types: what the calculator keeps is what the lookups and the evaluation expect.
THEOREM CalcTyped == Spec => []CalcTypeOK
<1>1. Init => TypedAndBlocked
  BY InitGood
<1>2. TypedAndBlocked /\ [Next]_vars => TypedAndBlocked'
  BY NextGood
<1>3. TypedAndBlocked => CalcTypeOK
  BY DEF TypedAndBlocked, EngineReady, CalcTypeOK
<1> QED
  BY <1>1, <1>2, <1>3, PTL DEF Spec

\* BlockedNeverReused: whatever requests were refused, by triggers, requirements
\* or cycles, no memo that says so survives the request as reusable.
THEOREM BlockedNotReused == Spec => []BlockedNeverReused
<1>1. Init => TypedAndBlocked
  BY InitGood
<1>2. TypedAndBlocked /\ [Next]_vars => TypedAndBlocked'
  BY NextGood
<1>3. TypedAndBlocked => BlockedNeverReused
  BY DEF TypedAndBlocked, EngineReady, BlockedPending, BlockedNeverReused
<1> QED
  BY <1>1, <1>2, <1>3, PTL DEF Spec

----------------------------------------------------------------------------
(***************************************************************************)
(* What the engine holds stays sound when a cell has run, and when queries *)
(* are invalidated.                                                        *)
(***************************************************************************)
SameOuts(m, o, X) == \A x \in X : o[x].out = m[x].out
FoundIn(c, j, X) == \A k \in 1 .. j : Resolved(c, cells[c][k]).found \in X \cup {None}
AllSeen(c, j, obs, reads) == \A k \in 1 .. j : AtomSeen(c, cells[c][k], obs, reads)

LEMMA PiecesAgree ==
  ASSUME NEW m, NEW o, NEW X, SameOuts(m, o, X), NEW c, NEW j, FoundIn(c, j, X), NEW n
  PROVE  Pieces(o, c, n, j) = Pieces(m, c, n, j)
<1>1. ASSUME NEW k \in 1 .. j
      PROVE  Piece(o, c, cells[c][k], n) = Piece(m, c, cells[c][k], n)
  BY DEF Piece, SameOuts, FoundIn
<1> QED
  BY <1>1 DEF Pieces

\* Support, said of every atom up to the last.
LEMMA SupportedBySeen ==
  ASSUME SourcesTyped, NEW m, NEW c, NEW n
  PROVE  Supported(m, c, n) <=>
           /\ \A x \in ToSet(m[c].reads) : m[x].out.kind = "value"
           /\ c \notin DOMAIN cells => m[c].out.val = <<"missing">>
           /\ c \in DOMAIN cells =>
                /\ Full!Capable(c)
                /\ AllSeen(c, Len(cells[c]), m[c].obs, m[c].reads)
                /\ m[c].out.val = FlattenSeq(Pieces(m, c, n, Len(cells[c])))
<1>1. c \in DOMAIN cells => DOMAIN cells[c] = 1 .. Len(cells[c])
  <2>1. c \in DOMAIN cells => cells[c] \in Seq(Atoms)
    BY DEF SourcesTyped
  <2> QED
    BY <2>1
<1> QED
  BY <1>1 DEF Supported, AllSeen

LEMMA SeenFound ==
  ASSUME NEW c, NEW j, NEW obs, NEW reads, AllSeen(c, j, obs, reads)
  PROVE  FoundIn(c, j, ToSet(reads))
BY DEF AllSeen, FoundIn, AtomSeen

\* Support depends on the outcomes of what was read, and on the memo itself.
LEMMA SupportedKept ==
  ASSUME SourcesTyped, NEW m, NEW o, NEW c, NEW n, Supported(m, c, n), o[c] = m[c],
         SameOuts(m, o, ToSet(m[c].reads))
  PROVE  Supported(o, c, n)
<1>1. \A x \in ToSet(o[c].reads) : o[x].out.kind = "value"
  BY DEF Supported, SameOuts
<1>2. ASSUME c \in DOMAIN cells
      PROVE  Pieces(o, c, n, Len(cells[c])) = Pieces(m, c, n, Len(cells[c]))
  <2>1. AllSeen(c, Len(cells[c]), m[c].obs, m[c].reads)
    BY <1>2, SupportedBySeen
  <2>2. FoundIn(c, Len(cells[c]), ToSet(m[c].reads))
    BY <2>1, SeenFound
  <2> QED
    BY <2>2, PiecesAgree
<1> QED
  BY <1>1, <1>2, SupportedBySeen

\* What a run found out about a cell, when the cells it read are clean.
Grounds(m, d, c, obs, reads, val) ==
  /\ ToSet(reads) \subseteq Clean(m, d)
  /\ c \notin DOMAIN cells => val = <<"missing">>
  /\ c \in DOMAIN cells =>
       /\ Full!Capable(c)
       /\ AllSeen(c, Len(cells[c]), obs, reads)
       /\ val = FlattenSeq(Pieces(m, c, Content[c], Len(cells[c])))

\* The engine after a cell's run left the memo e.
RanTo(m, p, d, c, e, o, q, f) ==
  /\ m[c] = NoMemo \/ c \in p
  /\ e.out.kind = "value" => Grounds(m, d, c, e.obs, e.reads, e.out.val)
  /\ o = [m EXCEPT ![c] = e]
  /\ q = (p \cup StaleReaders(m, c, e.out)) \ {c}
  /\ f = (d \cup StaleReaders(m, c, e.out)) \ {c}

\* A run replaces a memo that was not clean; what was clean stays so, and the
\* cells that read the replaced value are stale.
LEMMA RanEngine ==
  ASSUME StateTyped, NEW m, NEW p, NEW d, EngineInv(m, p, d),
         NEW c \in Cells, NEW e \in Memos, NEW o, NEW q, NEW f, RanTo(m, p, d, c, e, o, q, f)
  PROVE  /\ EngineInv(o, q, f)
         /\ Clean(m, d) \subseteq Clean(o, f) /\ c \notin Clean(m, d)
         /\ e.out.kind = "value" => c \in Clean(o, f)
<1> DEFINE stale == StaleReaders(m, c, e.out)
<1>. /\ m[c] = NoMemo \/ c \in p
     /\ e.out.kind = "value" => Grounds(m, d, c, e.obs, e.reads, e.out.val)
     /\ o = [m EXCEPT ![c] = e]
     /\ q = (p \cup StaleReaders(m, c, e.out)) \ {c}
     /\ f = (d \cup StaleReaders(m, c, e.out)) \ {c}
  BY DEF RanTo
<1>0. EngineTyped(m, p, d) /\ p \subseteq d /\ SourcesTyped
  BY DEF EngineInv, StateTyped
<1>1. stale \subseteq ReadersOf(m, {c}) /\ ReadersOf(m, {c}) \subseteq Cells
  BY DEF StaleReaders, ReadersOf
<1>2. EngineTyped(o, q, f)
  BY <1>0, <1>1 DEF EngineTyped
<1>3. o[c] = e /\ \A x \in Cells : x # c => o[x] = m[x]
  BY <1>0 DEF EngineTyped
<1>4. c \notin Clean(m, d)
  BY <1>0 DEF Clean, NoMemo, Unknown, Outcome
<1>5. stale \cap Clean(m, d) = {}
  <2> SUFFICES ASSUME NEW x \in stale, x \in Clean(m, d) PROVE FALSE
    OBVIOUS
  <2>1. c \in ToSet(m[x].reads)
    BY <1>1 DEF ReadersOf
  <2> QED
    BY <1>4, <2>1 DEF EngineInv, CleanClosed
<1> HIDE DEF stale
<1>6. q = (p \cup stale) \ {c} /\ f = (d \cup stale) \ {c}
  BY DEF stale
<1>7. Clean(m, d) \subseteq Clean(o, f)
  BY <1>3, <1>4, <1>5, <1>6 DEF Clean
<1>8. Clean(o, f) \subseteq Clean(m, d) \cup {c}
  BY <1>3, <1>6 DEF Clean
<1>9. c \in Clean(o, f) <=> e.out.kind = "value"
  BY <1>3, <1>6 DEF Clean
<1>10. c \in Clean(o, f) => ToSet(o[c].reads) \subseteq Clean(m, d)
  BY <1>3, <1>9 DEF Grounds
<1>11. \A x \in Clean(m, d) : x \in Cells /\ o[x] = m[x] /\ ToSet(m[x].reads) \subseteq Clean(m, d)
  BY <1>3, <1>4 DEF EngineInv, CleanClosed, Clean
<1>12. CleanClosed(o, f)
  BY <1>7, <1>8, <1>10, <1>11 DEF CleanClosed
<1>13. CleanGrounded(o, f)
  <2> SUFFICES ASSUME NEW S \in SUBSET Clean(o, f), S # {}
               PROVE  \E x \in S : ToSet(o[x].reads) \cap S = {}
    BY DEF CleanGrounded
  <2>1. CASE S \ {c} = {}
    <3>1. S = {c} /\ c \in Clean(o, f)
      BY <2>1
    <3> QED
      BY <1>4, <1>10, <3>1
  <2>2. CASE S \ {c} # {}
    <3>1. S \ {c} \in SUBSET Clean(m, d)
      BY <1>8
    <3>2. PICK x \in S \ {c} : ToSet(m[x].reads) \cap (S \ {c}) = {}
      BY <2>2, <3>1 DEF EngineInv, CleanGrounded
    <3> QED
      BY <1>4, <1>11, <3>1, <3>2
  <2> QED
    BY <2>1, <2>2
<1>14. ValuesSupported(Read, o, q)
  <2> SUFFICES ASSUME NEW x \in Cells \ q, o[x].out.kind = "value"
               PROVE  \E n : MayBe(Read, Since(x), x, n) /\ Supported(o, x, n)
    BY DEF ValuesSupported
  <2>1. CASE x = c
    <3>1. Grounds(m, d, c, e.obs, e.reads, e.out.val)
      BY <1>3, <2>1
    <3>2. SameOuts(m, o, Clean(m, d))
      BY <1>11 DEF SameOuts
    <3>3. \A y \in ToSet(o[c].reads) : o[y].out.kind = "value"
      BY <1>3, <1>7, <3>1 DEF Grounds, Clean
    <3>4. ASSUME c \in DOMAIN cells
          PROVE  Pieces(o, c, Content[c], Len(cells[c])) = Pieces(m, c, Content[c], Len(cells[c]))
      <4>1. AllSeen(c, Len(cells[c]), e.obs, e.reads) /\ ToSet(e.reads) \subseteq Clean(m, d)
        BY <3>1, <3>4 DEF Grounds
      <4>2. FoundIn(c, Len(cells[c]), ToSet(e.reads))
        BY <4>1, SeenFound
      <4>3. FoundIn(c, Len(cells[c]), Clean(m, d))
        BY <4>1, <4>2 DEF FoundIn
      <4> QED
        BY <3>2, <4>3, PiecesAgree
    <3>5. Supported(o, c, Content[c])
      <4>1. ASSUME c \in DOMAIN cells
            PROVE  /\ Full!Capable(c)
                   /\ AllSeen(c, Len(cells[c]), o[c].obs, o[c].reads)
                   /\ o[c].out.val = FlattenSeq(Pieces(o, c, Content[c], Len(cells[c])))
        <5>1. o[c] = e
          BY <1>3
        <5>2. e.out.val = FlattenSeq(Pieces(m, c, Content[c], Len(cells[c])))
          BY <3>1, <4>1 DEF Grounds
        <5> QED
          BY <3>1, <3>4, <4>1, <5>1, <5>2 DEF Grounds
      <4>2. ASSUME c \notin DOMAIN cells PROVE o[c].out.val = <<"missing">>
        BY <1>3, <3>1, <4>2 DEF Grounds
      <4> QED
        BY <1>0, <3>3, <4>1, <4>2, SupportedBySeen
    <3>6. MayBe(Read, Since(c), c, Content[c])
      BY ReadNow
    <3> QED
      BY <2>1, <3>5, <3>6
  <2>2. CASE x # c
    <3>1. x \notin p /\ x \notin stale /\ o[x] = m[x]
      BY <1>3, <1>6, <2>2
    <3>2. PICK n : MayBe(Read, Since(x), x, n) /\ Supported(m, x, n)
      BY <3>1 DEF EngineInv, ValuesSupported
    <3>3. m[x].reads \in Seq(Cells)
      BY <1>0, MemoOut
    <3>4. ToSet(m[x].reads) \subseteq Cells
      BY <3>3 DEF ToSet
    <3>5. c \in ToSet(m[x].reads) => e.out = m[c].out
      BY <3>1 DEF stale, StaleReaders, ReadersOf
    <3>6. SameOuts(m, o, ToSet(m[x].reads))
      BY <1>3, <3>4, <3>5 DEF SameOuts
    <3>7. Supported(o, x, n)
      BY <1>0, <3>1, <3>2, <3>6, SupportedKept
    <3> QED
      BY <3>2, <3>7
  <2> QED
    BY <2>1, <2>2
<1>15. q \subseteq f
  BY <1>0, <1>6
<1> QED
  BY <1>2, <1>4, <1>7, <1>9, <1>12, <1>13, <1>14, <1>15 DEF EngineInv

\* A memo whose reads turned out clean is clean itself.
LEMMA ReusedEngine ==
  ASSUME StateTyped, NEW m, NEW p, NEW d, EngineInv(m, p, d), NEW c \in Cells, c \notin p,
         m[c].out.kind = "value" => ToSet(m[c].reads) \subseteq Clean(m, d),
         NEW f, f = d \ {c}
  PROVE  /\ EngineInv(m, p, f) /\ Clean(m, d) \subseteq Clean(m, f)
         /\ m[c].out.kind = "value" => c \in Clean(m, f)
<1>1. EngineTyped(m, p, f) /\ p \subseteq f /\ ValuesSupported(Read, m, p)
  BY DEF EngineInv, EngineTyped
<1>2. Clean(m, d) \subseteq Clean(m, f) /\ Clean(m, f) \subseteq Clean(m, d) \cup {c}
  BY DEF Clean
<1>3. c \in Clean(m, f) <=> m[c].out.kind = "value"
  BY DEF Clean
<1>4. CleanClosed(m, f)
  BY <1>2, <1>3 DEF EngineInv, CleanClosed
<1>5. CleanGrounded(m, f)
  <2> SUFFICES ASSUME NEW S \in SUBSET Clean(m, f), S # {}
               PROVE  \E x \in S : ToSet(m[x].reads) \cap S = {}
    BY DEF CleanGrounded
  <2>1. CASE S \subseteq Clean(m, d)
    BY <2>1 DEF EngineInv, CleanGrounded
  <2>2. CASE ~ S \subseteq Clean(m, d)
    <3>1. c \in S /\ c \notin Clean(m, d)
      BY <1>2, <2>2
    <3>2. CASE S \ {c} = {}
      <4>1. S = {c} /\ ToSet(m[c].reads) \subseteq Clean(m, d)
        BY <1>3, <3>1, <3>2
      <4> QED
        BY <3>1, <4>1
    <3>3. CASE S \ {c} # {}
      <4>1. S \ {c} \in SUBSET Clean(m, d)
        BY <1>2
      <4>2. PICK x \in S \ {c} : ToSet(m[x].reads) \cap (S \ {c}) = {}
        BY <3>3, <4>1 DEF EngineInv, CleanGrounded
      <4>3. ToSet(m[x].reads) \subseteq Clean(m, d)
        BY <4>1, <4>2 DEF EngineInv, CleanClosed
      <4> QED
        BY <3>1, <4>2, <4>3
    <3> QED
      BY <3>2, <3>3
  <2> QED
    BY <2>1, <2>2
<1> QED
  BY <1>1, <1>2, <1>3, <1>4, <1>5 DEF EngineInv

\* Invalidating queries makes a set of cells dirty that is closed under reading.
InvalidTo(m, p, d, Q, q, f) ==
  q = p \cup Observers(m, Q) /\ f = d \cup Readers(m, Observers(m, Q))

\* Readers is closed: who reads a dirty cell is dirty.
LEMMA ReadersClosed ==
  ASSUME NEW m, NEW S \in SUBSET Cells
  PROVE  /\ S \subseteq Readers(m, S) /\ Readers(m, S) \subseteq Cells
         /\ \A x \in Cells : \A y \in ToSet(m[x].reads) :
              y \in Readers(m, S) => x \in Readers(m, S)
<1>1. S \subseteq Readers(m, S) /\ Readers(m, S) \subseteq Cells
  BY DEF Readers
<1>2. ASSUME NEW x \in Cells, NEW y \in ToSet(m[x].reads), y \in Readers(m, S)
      PROVE  x \in Readers(m, S)
  <2> SUFFICES ASSUME NEW T \in SUBSET Cells, S \cup ReadersOf(m, T) \subseteq T PROVE x \in T
    BY <1>2 DEF Readers
  <2>1. y \in T
    BY <1>2 DEF Readers
  <2>2. x \in ReadersOf(m, T)
    BY <1>2, <2>1 DEF ReadersOf
  <2> QED
    BY <2>2
<1> QED
  BY <1>1, <1>2

\* Invalidation takes a set closed under reading out of the clean cells.
LEMMA InvalidEngine ==
  ASSUME NEW m, NEW p, NEW d, EngineTyped(m, p, d), p \subseteq d, CleanClosed(m, d),
         CleanGrounded(m, d), NEW Q, NEW q, NEW f, InvalidTo(m, p, d, Q, q, f)
  PROVE  /\ EngineTyped(m, q, f) /\ q \subseteq f /\ CleanClosed(m, f) /\ CleanGrounded(m, f)
<1> DEFINE S == Observers(m, Q)
<1>0. S \in SUBSET Cells
  BY DEF Observers
<1> HIDE DEF S
<1>1. q = p \cup S /\ f = d \cup Readers(m, S)
  BY DEF InvalidTo, S
<1>2. /\ S \subseteq Readers(m, S) /\ Readers(m, S) \subseteq Cells
      /\ \A x \in Cells : \A y \in ToSet(m[x].reads) :
           y \in Readers(m, S) => x \in Readers(m, S)
  BY <1>0, ReadersClosed
<1> DEFINE R == Readers(m, S)
<1> HIDE DEF R
<1>3. EngineTyped(m, q, f) /\ q \subseteq f
  BY <1>0, <1>1, <1>2 DEF EngineTyped
<1>4. Clean(m, f) = Clean(m, d) \ R
  BY <1>1 DEF Clean, R
<1>5. CleanClosed(m, f)
  <2> SUFFICES ASSUME NEW x \in Clean(m, f), NEW y \in ToSet(m[x].reads) PROVE y \in Clean(m, f)
    BY DEF CleanClosed
  <2>1. x \in Cells /\ x \in Clean(m, d) /\ x \notin R
    BY <1>4 DEF Clean
  <2>2. y \in Clean(m, d)
    BY <2>1 DEF CleanClosed
  <2>3. y \notin R
    BY <1>2, <2>1 DEF R
  <2> QED
    BY <1>4, <2>2, <2>3
<1>6. CleanGrounded(m, f)
  BY <1>4 DEF CleanGrounded
<1> QED
  BY <1>3, <1>5, <1>6

----------------------------------------------------------------------------
(***************************************************************************)
(* What the calls that have not returned know.  above is the cell of the   *)
(* call that one waits for, None for the innermost.                        *)
(***************************************************************************)
CleanIn(w) == Clean(w.memo, w.dirty)

\* Of the expression i atoms were looked up and the values of j taken.
ReadTo(w, f, above, i, j) ==
  /\ f.left = SubSeq(cells[f.cell], i + 1, Len(cells[f.cell]))
  /\ f.fail = "" =>
       /\ AllSeen(f.cell, i, f.obs, f.reads)
       /\ FoundIn(f.cell, j, CleanIn(w))
       /\ f.val = FlattenSeq(Pieces(w.memo, f.cell, Content[f.cell], j))
       /\ IF above = None THEN i = j
          ELSE i = j + 1 /\ above = Resolved(f.cell, cells[f.cell][i]).found

RunningOK(w, f, above) ==
  /\ MustRun(w, f.cell)
  /\ above # None => f.fail = ""
  /\ f.fail = "" => ToSet(f.reads) \subseteq CleanIn(w) \cup {above}
  /\ f.cell \notin DOMAIN cells => f.left = <<>> /\ f.val = <<"missing">> /\ above = None
  /\ f.cell \in DOMAIN cells =>
       /\ Full!Capable(f.cell)
       /\ \E i, j \in 0 .. Len(cells[f.cell]) : ReadTo(w, f, above, i, j)

VerifyingOK(w, f, above) ==
  /\ f.left # <<>> \/ above # None => f.cell \in w.dirty
  /\ /\ ~ MustRun(w, f.cell) /\ w.memo[f.cell].out.kind = "value"
     /\ above = None => w.out.kind \notin Stops
     => ToSet(w.memo[f.cell].reads) \subseteq ToSet(f.left) \cup CleanIn(w) \cup {above}

FrameOK(w, f, above) ==
  IF f.running THEN RunningOK(w, f, above) ELSE VerifyingOK(w, f, above)

Above(calls, i) == IF i = 1 THEN None ELSE calls[i - 1].cell

Distinct(calls) ==
  \A i, j \in 1 .. Len(calls) : i # j => calls[i].cell # calls[j].cell
StackOK(w) ==
  /\ Distinct(w.calls)
  /\ \A i \in 1 .. Len(w.calls) : FrameOK(w, w.calls[i], Above(w.calls, i))

Sound(w) == GoodCalls(w) /\ EngineInv(w.memo, w.pending, w.dirty) /\ StackOK(w)

----------------------------------------------------------------------------
\* What may happen while a call waits, by the calls of another cell.
Advances(w, r, c) ==
  /\ \A x \in Cells : x # c => /\ r.memo[x] = w.memo[x]
                               /\ MustRun(w, x) => MustRun(r, x)
                               /\ x \in w.dirty => x \in r.dirty
  /\ CleanIn(w) \subseteq CleanIn(r)
  /\ SameOuts(w.memo, r.memo, CleanIn(w))

LEMMA ReadToKept ==
  ASSUME NEW w, NEW r, NEW c, Advances(w, r, c), NEW f, NEW above, NEW i, NEW j,
         ReadTo(w, f, above, i, j)
  PROVE  ReadTo(r, f, above, i, j)
<1>1. ASSUME f.fail = ""
      PROVE  /\ FoundIn(f.cell, j, CleanIn(r))
             /\ f.val = FlattenSeq(Pieces(r.memo, f.cell, Content[f.cell], j))
  <2>1. FoundIn(f.cell, j, CleanIn(w))
          /\ f.val = FlattenSeq(Pieces(w.memo, f.cell, Content[f.cell], j))
    BY <1>1 DEF ReadTo
  <2>2. FoundIn(f.cell, j, CleanIn(r))
    BY <2>1 DEF FoundIn, Advances
  <2>3. SameOuts(w.memo, r.memo, CleanIn(w))
    BY DEF Advances
  <2>4. Pieces(r.memo, f.cell, Content[f.cell], j) = Pieces(w.memo, f.cell, Content[f.cell], j)
    BY <2>1, <2>3, PiecesAgree
  <2> QED
    BY <2>1, <2>2, <2>4
<1> QED
  BY <1>1 DEF ReadTo

\* A waiting call keeps what it knows while the calls of other cells go on.
LEMMA WaitingKept ==
  ASSUME NEW w, NEW r, NEW c, Advances(w, r, c), NEW f, f.cell \in Cells, f.cell # c,
         NEW above, above # None, FrameOK(w, f, above)
  PROVE  FrameOK(r, f, above)
<1>1. /\ r.memo[f.cell] = w.memo[f.cell]
      /\ MustRun(w, f.cell) => MustRun(r, f.cell)
      /\ f.cell \in w.dirty => f.cell \in r.dirty
      /\ CleanIn(w) \subseteq CleanIn(r)
  BY DEF Advances
<1>2. CASE f.running
  <2>1. RunningOK(w, f, above)
    BY <1>2 DEF FrameOK
  <2>2. f.cell \in DOMAIN cells => \E i, j \in 0 .. Len(cells[f.cell]) : ReadTo(r, f, above, i, j)
    BY <2>1, ReadToKept DEF RunningOK
  <2>3. RunningOK(r, f, above)
    BY <1>1, <2>1, <2>2 DEF RunningOK
  <2> QED
    BY <1>2, <2>3 DEF FrameOK
<1>3. CASE ~ f.running
  <2>1. VerifyingOK(w, f, above)
    BY <1>3 DEF FrameOK
  <2>2. VerifyingOK(r, f, above)
    BY <1>1, <2>1 DEF VerifyingOK
  <2> QED
    BY <1>3, <2>2 DEF FrameOK
<1> QED
  BY <1>2, <1>3

\* The call that waited for c goes on with what c returned.
Answered(r, c) == r.out.kind \notin Stops => c \notin r.dirty /\ r.memo[c].out = r.out
Back(f, out) == IF f.running THEN Taken(f, out) ELSE f

LEMMA TakenFields ==
  ASSUME NEW f \in Frame(TRUE, Atoms), NEW out
  PROVE  /\ Taken(f, out).cell = f.cell /\ Taken(f, out).running /\ Taken(f, out).left = f.left
         /\ Taken(f, out).obs = f.obs /\ Taken(f, out).reads = f.reads
         /\ Taken(f, out).val = f.val \o out.val
         /\ Taken(f, out).fail = IF out.kind = "value" THEN "" ELSE out.kind
<1> DEFINE v == f.val \o out.val
           x == IF out.kind = "value" THEN "" ELSE out.kind
<1>1. Taken(f, out) = [f EXCEPT !.val = v, !.fail = x]
  BY DEF Taken
<1> HIDE DEF v, x
<1>2. /\ Taken(f, out).cell = f.cell /\ Taken(f, out).running /\ Taken(f, out).left = f.left
      /\ Taken(f, out).obs = f.obs /\ Taken(f, out).reads = f.reads
      /\ Taken(f, out).val = v /\ Taken(f, out).fail = x
  BY <1>1 DEF Frame
<1> QED
  BY <1>2 DEF v, x

LEMMA PiecesTyped ==
  ASSUME StateTyped, NEW m, NEW p, NEW d, EngineTyped(m, p, d), NEW c \in DOMAIN cells,
         NEW n \in Nat, NEW j \in 0 .. Len(cells[c])
  PROVE  /\ Pieces(m, c, n, j) \in Seq(Seq(Texts)) /\ Len(Pieces(m, c, n, j)) = j
         /\ \A k \in 1 .. j : Pieces(m, c, n, j)[k] = Piece(m, c, cells[c][k], n)
<1>0. c \in Cells /\ cells[c] \in Seq(Atoms) /\ DOMAIN cells \subseteq Cells
  BY DEF StateTyped, SourcesTyped
<1>1. ASSUME NEW k \in 1 .. j PROVE Piece(m, c, cells[c][k], n) \in Seq(Texts)
  <2> DEFINE atom == cells[c][k]
  <2>1. atom \in Atoms
    BY <1>0
  <2>2. Resolved(c, atom).found \in DOMAIN cells \cup {None}
    BY <1>0, <2>1, ResolvedTyped DEF StateTyped
  <2>3. CASE Resolved(c, atom).found # None
    <3>1. Resolved(c, atom).found \in Cells
      BY <1>0, <2>2, <2>3
    <3>2. m[Resolved(c, atom).found].out \in Results
      BY <3>1, MemoOut
    <3> QED
      BY <2>3, <3>2 DEF Piece, Results
  <2>4. CASE Resolved(c, atom).found = None
    <3>1. ImmediateValue(c, atom) \in Seq(Texts) /\ Entry(n) \in Seq(Texts)
      BY <1>0, <2>1, ImmediateTyped, EntryTyped DEF StateTyped
    <3> QED
      BY <2>4, <3>1 DEF Piece
  <2> QED
    BY <2>3, <2>4
<1>2. Pieces(m, c, n, j) = [k \in 1 .. j |-> Piece(m, c, cells[c][k], n)]
  BY DEF Pieces
<1>3. j \in Nat
  BY <1>0
<1> QED
  BY <1>1, <1>2, <1>3

\* One more value.
LEMMA PiecesOneMore ==
  ASSUME StateTyped, NEW m, NEW p, NEW d, EngineTyped(m, p, d), NEW c \in DOMAIN cells,
         NEW n \in Nat, NEW j \in Nat, NEW i, i = j + 1, i <= Len(cells[c])
  PROVE  FlattenSeq(Pieces(m, c, n, i))
           = FlattenSeq(Pieces(m, c, n, j)) \o Piece(m, c, cells[c][i], n)
<1>0. Len(cells[c]) \in Nat
  BY DEF StateTyped, SourcesTyped
<1>1. j \in 0 .. Len(cells[c]) /\ i \in 0 .. Len(cells[c]) /\ i \in 1 .. i
  BY <1>0
<1> DEFINE s == Pieces(m, c, n, j)
           t == Pieces(m, c, n, i)
<1>2. /\ s \in Seq(Seq(Texts)) /\ Len(s) = j
      /\ \A k \in 1 .. j : s[k] = Piece(m, c, cells[c][k], n)
  BY <1>1, PiecesTyped
<1>3. /\ t \in Seq(Seq(Texts)) /\ Len(t) = i
      /\ \A k \in 1 .. i : t[k] = Piece(m, c, cells[c][k], n)
  BY <1>1, PiecesTyped
<1>4. Len(t) = Len(s) + 1 /\ \A k \in 1 .. Len(s) : s[k] = t[k]
  BY <1>2, <1>3
<1> HIDE DEF s, t
<1>5. FlattenSeq(t) = FlattenSeq(s) \o t[Len(t)]
  BY <1>2, <1>3, <1>4, FlattenOneMore
<1>6. t[Len(t)] = Piece(m, c, cells[c][i], n)
  BY <1>1, <1>3
<1> QED
  BY <1>5, <1>6 DEF s, t

\* A waiting call takes what it waited for.
LEMMA BackOK ==
  ASSUME StateTyped, NEW w, NEW r, NEW c \in Cells, Advances(w, r, c), Answered(r, c),
         EngineInv(r.memo, r.pending, r.dirty), r.out \in Results,
         NEW f \in Frames, f.cell # c, FrameOK(w, f, c)
  PROVE  FrameOK(r, Back(f, r.out), None)
<1>0. /\ f.cell \in Cells /\ c # None /\ f.running \in BOOLEAN
      /\ f.running => f \in Frame(TRUE, Atoms)
  BY CellPaths DEF Frames, Frame
<1>1. /\ r.memo[f.cell] = w.memo[f.cell]
      /\ MustRun(w, f.cell) => MustRun(r, f.cell)
      /\ f.cell \in w.dirty => f.cell \in r.dirty
      /\ CleanIn(w) \subseteq CleanIn(r)
  BY <1>0 DEF Advances
<1>2. r.out.kind = "value" => c \in CleanIn(r)
  <2>1. "value" \notin Stops
    BY DEF Stops
  <2> QED
    BY <2>1 DEF Answered, CleanIn, Clean
<1>3. CASE f.running
  <2> DEFINE g == Taken(f, r.out)
  <2>0. RunningOK(w, f, c)
    BY <1>3 DEF FrameOK
  <2>1. /\ g.cell = f.cell /\ g.running /\ g.left = f.left /\ g.obs = f.obs /\ g.reads = f.reads
        /\ g.val = f.val \o r.out.val
        /\ g.fail = IF r.out.kind = "value" THEN "" ELSE r.out.kind
    BY <1>0, <1>3, TakenFields
  <2>2. g.fail = "" <=> r.out.kind = "value"
    <3>1. r.out.kind # ""
      BY DEF Results, Kinds, Failures, Stops
    <3> QED
      BY <2>1, <3>1
  <2>3. f.fail = "" /\ f.cell \in DOMAIN cells
    BY <1>0, <2>0 DEF RunningOK
  <2> HIDE DEF g
  <2>4. PICK i \in 0 .. Len(cells[f.cell]), j \in 0 .. Len(cells[f.cell]) : ReadTo(w, f, c, i, j)
    BY <2>0, <2>3 DEF RunningOK
  <2>5. ReadTo(r, f, c, i, j)
    BY <2>4, ReadToKept
  <2>6. i = j + 1 /\ c = Resolved(f.cell, cells[f.cell][i]).found
    BY <1>0, <2>3, <2>5 DEF ReadTo
  <2>7. ReadTo(r, g, None, i, i)
    <3>1. g.left = SubSeq(cells[g.cell], i + 1, Len(cells[g.cell]))
      BY <2>1, <2>5 DEF ReadTo
    <3>2. ASSUME g.fail = ""
          PROVE  /\ AllSeen(g.cell, i, g.obs, g.reads) /\ FoundIn(g.cell, i, CleanIn(r))
                 /\ g.val = FlattenSeq(Pieces(r.memo, g.cell, Content[g.cell], i))
      <4>1. c \in CleanIn(r) /\ r.memo[c].out = r.out
        <5>1. r.out.kind = "value" /\ "value" \notin Stops
          BY <2>2, <3>2 DEF Stops
        <5> QED
          BY <1>2, <5>1 DEF Answered
      <4>2. AllSeen(g.cell, i, g.obs, g.reads)
        BY <2>1, <2>3, <2>5 DEF ReadTo
      <4>3. FoundIn(f.cell, j, CleanIn(r))
        BY <2>3, <2>5 DEF ReadTo
      <4>4. FoundIn(f.cell, i, CleanIn(r))
        <5>1. ASSUME NEW k \in 1 .. i PROVE k \in 1 .. j \/ k = i
          BY <2>6
        <5> QED
          BY <2>6, <4>1, <4>3, <5>1 DEF FoundIn
      <4>5. Piece(r.memo, f.cell, cells[f.cell][i], Content[f.cell]) = r.out.val
        BY <1>0, <2>6, <4>1 DEF Piece
      <4>6. f.val = FlattenSeq(Pieces(r.memo, f.cell, Content[f.cell], j))
        BY <2>3, <2>5 DEF ReadTo
      <4>7. FlattenSeq(Pieces(r.memo, f.cell, Content[f.cell], i))
              = FlattenSeq(Pieces(r.memo, f.cell, Content[f.cell], j))
                  \o Piece(r.memo, f.cell, cells[f.cell][i], Content[f.cell])
        <5>1. Content[f.cell] \in Nat
          BY <1>0, ContentTyped DEF StateTyped
        <5>2. Len(cells[f.cell]) \in Nat
          <6>1. cells[f.cell] \in Seq(Atoms)
            BY <2>3 DEF StateTyped, SourcesTyped
          <6> QED
            BY <6>1
        <5>3. j \in Nat /\ i <= Len(cells[f.cell])
          BY <5>2
        <5>4. EngineTyped(r.memo, r.pending, r.dirty)
          BY DEF EngineInv
        <5> DEFINE x == f.cell
                   n == Content[x]
        <5>5. x \in DOMAIN cells /\ n \in Nat /\ i <= Len(cells[x])
          BY <2>3, <5>1, <5>3
        <5> HIDE DEF x, n
        <5>6. FlattenSeq(Pieces(r.memo, x, n, i))
                = FlattenSeq(Pieces(r.memo, x, n, j)) \o Piece(r.memo, x, cells[x][i], n)
          BY <2>6, <5>3, <5>4, <5>5, PiecesOneMore
        <5> QED
          BY <5>6 DEF x, n
      <4>8. g.val = FlattenSeq(Pieces(r.memo, f.cell, Content[f.cell], i))
        BY <2>1, <4>5, <4>6, <4>7
      <4> QED
        BY <2>1, <4>2, <4>4, <4>8
    <3> QED
      BY <3>1, <3>2 DEF ReadTo
  <2>8. g.fail = "" => ToSet(g.reads) \subseteq CleanIn(r) \cup {None}
    <3>1. ToSet(f.reads) \subseteq CleanIn(w) \cup {c}
      BY <2>0, <2>3 DEF RunningOK
    <3>2. g.fail = "" => c \in CleanIn(r)
      BY <1>2, <2>2
    <3>3. g.reads = f.reads
      BY <2>1
    <3>4. CleanIn(w) \subseteq CleanIn(r)
      BY <1>1
    <3> DEFINE old == CleanIn(w)
               new == CleanIn(r)
    <3> HIDE DEF old, new
    <3>5. g.fail = "" => ToSet(f.reads) \subseteq new \cup {None}
      BY <3>1, <3>2, <3>4 DEF old, new
    <3> QED
      BY <3>3, <3>5 DEF new
  <2>9. RunningOK(r, g, None)
    BY <1>1, <2>0, <2>1, <2>3, <2>7, <2>8 DEF RunningOK
  <2> QED
    BY <1>3, <2>1, <2>9 DEF FrameOK, Back, g
<1>4. CASE ~ f.running
  <2>0. VerifyingOK(w, f, c)
    BY <1>4 DEF FrameOK
  <2>1. f.left # <<>> => f.cell \in r.dirty
    BY <1>1, <2>0 DEF VerifyingOK
  <2>2. ASSUME ~ MustRun(r, f.cell), r.memo[f.cell].out.kind = "value", r.out.kind \notin Stops
        PROVE  ToSet(r.memo[f.cell].reads) \subseteq ToSet(f.left) \cup CleanIn(r) \cup {None}
    <3>1. ToSet(r.memo[f.cell].reads) \subseteq ToSet(f.left) \cup CleanIn(r) \cup {c}
      BY <1>0, <1>1, <2>0, <2>2 DEF VerifyingOK
    <3>2. f.cell \notin r.pending
      BY <2>2 DEF MustRun
    <3>3. PICK n : MayBe(Read, Since(f.cell), f.cell, n) /\ Supported(r.memo, f.cell, n)
      BY <1>0, <2>2, <3>2 DEF EngineInv, ValuesSupported
    <3>4. c \in ToSet(r.memo[f.cell].reads) => r.memo[c].out.kind = "value"
      BY <3>3 DEF Supported
    <3>5. c \in ToSet(r.memo[f.cell].reads) => c \in CleanIn(r)
      BY <2>2, <3>4 DEF Answered, CleanIn, Clean
    <3> QED
      BY <3>1, <3>5
  <2>3. VerifyingOK(r, f, None)
    BY <2>1, <2>2 DEF VerifyingOK
  <2> QED
    BY <1>4, <2>3 DEF FrameOK, Back
<1> QED
  BY <1>0, <1>3, <1>4

----------------------------------------------------------------------------
(***************************************************************************)
(* Calls are pushed, replaced and popped.                                  *)
(***************************************************************************)
LEMMA TailAt ==
  ASSUME NEW S, NEW s \in Seq(S), s # <<>>
  PROVE  /\ Len(s) \in Nat \ {0} /\ Tail(s) \in Seq(S) /\ Len(Tail(s)) = Len(s) - 1
         /\ \A i \in 1 .. Len(s) - 1 : Tail(s)[i] = s[i + 1]
         /\ Head(s) = s[1] /\ Head(s) \in S
OBVIOUS

LEMMA PushedAt ==
  ASSUME NEW S, NEW s \in Seq(S), NEW x \in S
  PROVE  /\ <<x>> \o s \in Seq(S) /\ Len(<<x>> \o s) = Len(s) + 1
         /\ (<<x>> \o s)[1] = x /\ <<x>> \o s # <<>>
         /\ \A i \in 1 .. Len(s) : (<<x>> \o s)[i + 1] = s[i]
OBVIOUS

LEMMA ReplacedAt ==
  ASSUME NEW S, NEW s \in Seq(S), s # <<>>, NEW x \in S
  PROVE  /\ <<x>> \o Tail(s) \in Seq(S) /\ Len(<<x>> \o Tail(s)) = Len(s)
         /\ (<<x>> \o Tail(s))[1] = x /\ <<x>> \o Tail(s) # <<>>
         /\ \A i \in 2 .. Len(s) : (<<x>> \o Tail(s))[i] = s[i]
<1> DEFINE t == Tail(s)
<1>1. /\ Len(s) \in Nat \ {0} /\ t \in Seq(S) /\ Len(t) = Len(s) - 1
      /\ \A i \in 1 .. Len(s) - 1 : t[i] = s[i + 1]
  BY TailAt
<1> HIDE DEF t
<1>2. /\ <<x>> \o t \in Seq(S) /\ Len(<<x>> \o t) = Len(t) + 1
      /\ (<<x>> \o t)[1] = x /\ <<x>> \o t # <<>>
      /\ \A i \in 1 .. Len(t) : (<<x>> \o t)[i + 1] = t[i]
  BY <1>1, PushedAt
<1>3. ASSUME NEW i \in 2 .. Len(s) PROVE (<<x>> \o t)[i] = s[i]
  <2>1. i - 1 \in 1 .. Len(t) /\ (i - 1) + 1 = i /\ i - 1 \in 1 .. Len(s) - 1
    BY <1>1
  <2>2. (<<x>> \o t)[(i - 1) + 1] = t[i - 1] /\ t[i - 1] = s[(i - 1) + 1]
    BY <1>1, <1>2, <2>1
  <2> QED
    BY <2>1, <2>2
<1> QED
  BY <1>1, <1>2, <1>3 DEF t

\* Calls other than the innermost are untouched.
SameBelow(calls, new) ==
  /\ Len(new) = Len(calls) /\ new[1].cell = calls[1].cell
  /\ \A i \in 2 .. Len(calls) : new[i] = calls[i]

LEMMA StackReplaced ==
  ASSUME NEW w, NEW r, CallsTyped(w), CallsTyped(r), w.calls # <<>>, StackOK(w),
         SameBelow(w.calls, r.calls),
         Advances(w, r, w.calls[1].cell), FrameOK(r, r.calls[1], None)
  PROVE  StackOK(r)
<1> DEFINE s == w.calls
           t == r.calls
           n == Len(s)
<1>1. n \in Nat \ {0} /\ s \in Seq(Frames) /\ Len(t) = n /\ t[1].cell = s[1].cell
        /\ \A i \in 2 .. n : t[i] = s[i]
  BY TailAt DEF CallsTyped, SameBelow
<1> HIDE DEF n
<1>2. \A i \in 1 .. n : t[i].cell = s[i].cell /\ s[i].cell \in Cells /\ s[i] \in Frames
  <2> TAKE i \in 1 .. n
  <2>1. s[i] \in Frames
    BY <1>1 DEF n
  <2>2. s[i].cell \in Cells
    BY <2>1 DEF Frames, Frame
  <2>3. i = 1 \/ i \in 2 .. n
    BY <1>1
  <2> QED
    BY <1>1, <2>1, <2>2, <2>3
<1>3. Distinct(t)
  BY <1>1, <1>2 DEF StackOK, Distinct, n
<1>4. ASSUME NEW i \in 1 .. n PROVE FrameOK(r, t[i], Above(t, i))
  <2>1. CASE i = 1
    BY <2>1 DEF Above
  <2>2. CASE i # 1
    <3> DEFINE a == s[i - 1].cell
    <3>1. i \in 2 .. n /\ i - 1 \in 1 .. n /\ 1 \in 1 .. n
      BY <1>1, <2>2
    <3>2. Above(s, i) = a /\ Above(t, i) = a /\ t[i] = s[i]
      BY <1>1, <1>2, <2>2, <3>1 DEF Above
    <3>3. a \in Cells /\ a # None
      BY <1>2, <3>1, CellPaths
    <3>4. s[i].cell # s[1].cell
      BY <2>2, <3>1 DEF StackOK, Distinct, n
    <3>5. FrameOK(w, s[i], a)
      BY <3>2 DEF StackOK, n
    <3> DEFINE f == s[i]
               c == s[1].cell
    <3>6. f.cell \in Cells /\ f.cell # c /\ Advances(w, r, c) /\ FrameOK(w, f, a)
      BY <1>2, <3>4, <3>5
    <3> HIDE DEF f, c, a
    <3>7. FrameOK(r, f, a)
      BY <3>3, <3>6, WaitingKept
    <3> QED
      BY <3>2, <3>7 DEF f
  <2> QED
    BY <2>1, <2>2
<1> QED
  BY <1>1, <1>3, <1>4 DEF StackOK

LEMMA StackPushed ==
  ASSUME NEW w, NEW r, CallsTyped(w), w.calls # <<>>, StackOK(w),
         NEW next \in Frames, next.cell = w.calls[1].cell, NEW top \in Frames,
         r.calls = <<top>> \o (<<next>> \o Tail(w.calls)), top.cell \notin Active(w),
         Advances(w, r, w.calls[1].cell), FrameOK(r, next, top.cell), FrameOK(r, top, None)
  PROVE  StackOK(r)
<1> DEFINE s == w.calls
           u == <<next>> \o Tail(s)
           t == <<top>> \o u
           n == Len(s)
<1>1. s \in Seq(Frames) /\ n \in Nat \ {0}
  BY TailAt DEF CallsTyped
<1>2. /\ u \in Seq(Frames) /\ Len(u) = n /\ u[1] = next /\ \A i \in 2 .. n : u[i] = s[i]
  BY <1>1, ReplacedAt
<1> HIDE DEF u
<1>3. /\ Len(t) = n + 1 /\ t[1] = top /\ \A i \in 1 .. n : t[i + 1] = u[i]
  BY <1>2, PushedAt
<1>4. r.calls = t
  BY DEF u
<1> HIDE DEF t, n
<1>5. \A i \in 1 .. n : u[i].cell = s[i].cell /\ s[i].cell \in Cells
  <2> TAKE i \in 1 .. n
  <2>1. s[i] \in Frames
    BY <1>1 DEF n
  <2>2. s[i].cell \in Cells
    BY <2>1 DEF Frames, Frame
  <2>3. i = 1 \/ i \in 2 .. n
    BY <1>1
  <2> QED
    BY <1>2, <2>2, <2>3
<1>6. \A i \in 2 .. n + 1 : i - 1 \in 1 .. n /\ t[i] = u[i - 1]
  <2> TAKE i \in 2 .. n + 1
  <2>1. i - 1 \in 1 .. n /\ (i - 1) + 1 = i
    BY <1>1
  <2>2. t[(i - 1) + 1] = u[i - 1]
    BY <1>3, <2>1
  <2> QED
    BY <2>1, <2>2
<1>7. \A i \in 1 .. n : s[i].cell # top.cell
  BY <1>1 DEF Active, ToSet, n
<1>8. Distinct(t)
  <2> SUFFICES ASSUME NEW i \in 1 .. n + 1, NEW j \in 1 .. n + 1, i # j
               PROVE  t[i].cell # t[j].cell
    BY <1>3 DEF Distinct
  <2>0. \A k \in 1 .. n + 1 : k = 1 \/ k \in 2 .. n + 1
    BY <1>1
  <2>00. ASSUME NEW k \in 2 .. n + 1 PROVE t[k].cell # top.cell
    <3>1. k - 1 \in 1 .. n /\ t[k] = u[k - 1]
      BY <1>6
    <3> QED
      BY <1>5, <1>7, <3>1
  <2>1. CASE i = 1
    <3>1. j \in 2 .. n + 1
      BY <2>0, <2>1
    <3> QED
      BY <1>3, <2>00, <2>1, <3>1
  <2>2. CASE j = 1
    <3>1. i \in 2 .. n + 1
      BY <2>0, <2>2
    <3> QED
      BY <1>3, <2>00, <2>2, <3>1
  <2>3. CASE i # 1 /\ j # 1
    <3>1. i - 1 \in 1 .. n /\ j - 1 \in 1 .. n /\ t[i] = u[i - 1] /\ t[j] = u[j - 1]
      BY <1>6, <2>0, <2>3
    <3>2. i - 1 # j - 1
      BY <1>1
    <3>3. s[i - 1].cell # s[j - 1].cell
      BY <3>1, <3>2 DEF StackOK, Distinct, n
    <3> QED
      BY <1>5, <3>1, <3>3
  <2> QED
    BY <2>1, <2>2, <2>3
<1>9. ASSUME NEW i \in 1 .. n + 1 PROVE FrameOK(r, t[i], Above(t, i))
  <2>1. CASE i = 1
    BY <1>3, <2>1 DEF Above
  <2>2. CASE i = 2
    <3>1. t[2] = next
      <4>1. 2 \in 2 .. n + 1 /\ 2 - 1 = 1
        BY <1>1
      <4> QED
        BY <1>2, <1>6, <4>1
    <3>2. Above(t, 2) = top.cell
      BY <1>3 DEF Above
    <3> QED
      BY <2>2, <3>1, <3>2
  <2>3. CASE i \notin {1, 2}
    <3> DEFINE k == i - 1
               a == s[k - 1].cell
    <3>1. k \in 2 .. n /\ k \in 1 .. n /\ k - 1 \in 1 .. n /\ k # 1 /\ 1 \in 1 .. n
            /\ i \in 2 .. n + 1 /\ k \in 2 .. n + 1 /\ i # 1
      BY <1>1, <2>3
    <3>2. t[i] = s[k]
      BY <1>2, <1>6, <3>1
    <3>3. Above(t, i) = t[k].cell /\ Above(s, k) = a
      BY <3>1 DEF Above
    <3>4. t[k].cell = a
      BY <1>5, <1>6, <3>1
    <3>5. a \in Cells /\ a # None
      BY <1>5, <3>1, CellPaths
    <3>6. s[k].cell # s[1].cell
      BY <3>1 DEF StackOK, Distinct, n
    <3>7. FrameOK(w, s[k], a)
      BY <3>1, <3>3 DEF StackOK, n
    <3> DEFINE f == s[k]
               c == s[1].cell
    <3>8. f.cell \in Cells /\ f.cell # c /\ Advances(w, r, c) /\ FrameOK(w, f, a)
      BY <1>5, <3>1, <3>6, <3>7
    <3> HIDE DEF f, c, a, k
    <3>9. FrameOK(r, f, a)
      BY <3>5, <3>8, WaitingKept
    <3> QED
      BY <3>2, <3>3, <3>4, <3>9 DEF f
  <2> QED
    BY <2>1, <2>2, <2>3
<1> QED
  BY <1>3, <1>4, <1>8, <1>9 DEF StackOK

\* A call returns to the one below it.
LEMMA StackPopped ==
  ASSUME StateTyped, NEW w, NEW r, CallsTyped(w), w.calls # <<>>, StackOK(w),
         NEW c, c = w.calls[1].cell, r.calls = ReturnCalls(w.calls, r.out),
         EngineInv(r.memo, r.pending, r.dirty), r.out \in Results,
         Advances(w, r, c), Answered(r, c)
  PROVE  StackOK(r)
<1> DEFINE s == w.calls
           rest == Tail(s)
           n == Len(s)
           m == n - 1
           t == ReturnCalls(s, r.out)
<1>1. s \in Seq(Frames) /\ n \in Nat \ {0} /\ rest \in Seq(Frames) /\ Len(rest) = n - 1
        /\ \A i \in 1 .. n - 1 : rest[i] = s[i + 1]
  BY TailAt DEF CallsTyped
<1>2. \A i \in 1 .. n : s[i] \in Frames /\ s[i].cell \in Cells
  <2> TAKE i \in 1 .. n
  <2>1. s[i] \in Frames
    BY <1>1
  <2> QED
    BY <2>1 DEF Frames, Frame
<1>3. m \in Nat /\ 1 \in 1 .. n
  BY <1>1
<1>4. /\ Len(t) = m
      /\ m # 0 => t[1] = Back(s[2], r.out)
      /\ \A i \in 2 .. m : t[i] = s[i + 1]
  <2>1. CASE rest = <<>>
    <3>1. t = <<>>
      BY <2>1 DEF ReturnCalls
    <3>2. Len(t) = 0 /\ m = 0
      BY <1>1, <2>1, <3>1
    <3> QED
      BY <3>2
  <2>2. CASE rest # <<>>
    <3>0. Head(rest) = rest[1] /\ Len(rest) \in Nat \ {0}
      <4>1. rest \in Seq(Frames) /\ rest # <<>>
        BY <1>1, <2>2
      <4> HIDE DEF rest
      <4> QED
        BY <4>1
    <3>1. Head(rest) = s[2] /\ s[2] \in Frames /\ 2 \in 1 .. n
      <4>1. 1 \in 1 .. n - 1 /\ 1 + 1 = 2 /\ 2 \in 1 .. n
        <5> DEFINE l == Len(rest)
        <5>1. l = n - 1 /\ l \in Nat \ {0} /\ n \in Nat
          BY <1>1, <3>0
        <5> HIDE DEF l, n
        <5> QED
          BY <5>1
      <4> QED
        BY <1>1, <1>2, <3>0, <4>1
    <3>2. CASE s[2].running
      <4> DEFINE x == Taken(s[2], r.out)
      <4>1. x \in Frames
        BY <3>1, <3>2, TakenTyped
      <4>2. t = <<x>> \o Tail(rest) /\ x = Back(s[2], r.out)
        BY <2>2, <3>1, <3>2 DEF ReturnCalls, Back
      <4> HIDE DEF x, rest, t
      <4>3. /\ Len(t) = Len(rest) /\ t[1] = x /\ \A i \in 2 .. Len(rest) : t[i] = rest[i]
        BY <1>1, <2>2, <4>1, <4>2, ReplacedAt
      <4>4. \A i \in 2 .. m : i \in 1 .. n - 1 /\ i \in 2 .. Len(rest)
        BY <1>1
      <4> QED
        BY <1>1, <4>2, <4>3, <4>4
    <3>3. CASE ~ s[2].running
      <4>1. t = rest
        BY <3>1, <3>3 DEF ReturnCalls
      <4>2. Back(s[2], r.out) = s[2]
        BY <3>3 DEF Back
      <4>3. \A i \in 2 .. m : i \in 1 .. n - 1
        BY <1>1
      <4> QED
        BY <1>1, <3>0, <3>1, <4>1, <4>2, <4>3
    <3> QED
      BY <3>2, <3>3
  <2> QED
    BY <2>1, <2>2
<1>5. r.calls = t
  OBVIOUS
<1> HIDE DEF t, rest
<1>6. \A i \in 1 .. m : i + 1 \in 1 .. n /\ i + 1 # 1 /\ t[i].cell = s[i + 1].cell
  <2> TAKE i \in 1 .. m
  <2>1. i + 1 \in 1 .. n /\ i + 1 # 1
    BY <1>1
  <2>2. CASE i = 1
    <3>1. t[1] = Back(s[2], r.out) /\ s[2] \in Frames
      <4>1. m # 0 /\ 2 \in 1 .. n
        BY <1>1, <2>2
      <4> QED
        BY <1>2, <1>4, <4>1
    <3>2. Back(s[2], r.out).cell = s[2].cell
      BY <3>1, TakenTyped DEF Back
    <3> QED
      BY <2>1, <2>2, <3>1, <3>2
  <2>3. CASE i # 1
    <3>1. i \in 2 .. m
      BY <1>3, <2>3
    <3> QED
      BY <1>4, <2>1, <3>1
  <2> QED
    BY <2>2, <2>3
<1>7. Distinct(t)
  <2> SUFFICES ASSUME NEW i \in 1 .. m, NEW j \in 1 .. m, i # j PROVE t[i].cell # t[j].cell
    BY <1>4 DEF Distinct
  <2>1. i + 1 # j + 1 /\ i + 1 \in 1 .. n /\ j + 1 \in 1 .. n
    BY <1>6
  <2>2. s[i + 1].cell # s[j + 1].cell
    BY <2>1 DEF StackOK, Distinct
  <2> QED
    BY <1>6, <2>2
<1>8. ASSUME NEW i \in 1 .. m PROVE FrameOK(r, t[i], Above(t, i))
  <2> DEFINE f == s[i + 1]
             a == s[i].cell
  <2>0. i + 1 \in 1 .. n /\ i + 1 # 1 /\ i \in 1 .. n /\ (i + 1) - 1 = i
    BY <1>1
  <2>1. f \in Frames /\ f.cell \in Cells /\ f.cell # c /\ a \in Cells /\ a # None
    <3>1. f \in Frames /\ f.cell \in Cells /\ a \in Cells
      BY <1>2, <2>0
    <3>2. f.cell # c
      BY <1>3, <2>0 DEF StackOK, Distinct
    <3> QED
      BY <3>1, <3>2, CellPaths
  <2>2. FrameOK(w, f, a)
    <3>1. Above(s, i + 1) = a
      BY <2>0 DEF Above
    <3>2. FrameOK(w, s[i + 1], Above(s, i + 1))
      BY <2>0 DEF StackOK
    <3> QED
      BY <3>1, <3>2
  <2>3. CASE i = 1
    <3>1. t[1] = Back(f, r.out) /\ Above(t, 1) = None
      <4>1. m # 0
        <5> HIDE DEF m
        <5> QED
          BY <2>3, <1>3
      <4> QED
        BY <1>4, <2>3, <4>1 DEF Above
    <3>2. FrameOK(w, f, c) /\ c \in Cells
      BY <2>1, <2>2, <2>3
    <3> HIDE DEF f, a
    <3>3. FrameOK(r, Back(f, r.out), None)
      BY <2>1, <3>2, BackOK
    <3> QED
      BY <2>3, <3>1, <3>3
  <2>4. CASE i # 1
    <3>1. i \in 2 .. m /\ i - 1 \in 1 .. m /\ (i - 1) + 1 = i
      BY <1>3, <2>4
    <3>2. t[i] = f /\ Above(t, i) = a
      BY <1>4, <1>6, <2>4, <3>1 DEF Above
    <3> HIDE DEF f, a
    <3>3. FrameOK(r, f, a)
      BY <2>1, <2>2, WaitingKept
    <3> QED
      BY <3>2, <3>3
  <2> QED
    BY <2>3, <2>4
<1> QED
  BY <1>4, <1>5, <1>7, <1>8 DEF StackOK

----------------------------------------------------------------------------
(***************************************************************************)
(* Every step of a verification leaves the engine and its calls sound.     *)
(***************************************************************************)
LEMMA KeptAdvances ==
  ASSUME NEW w, NEW r, r.memo = w.memo, w.pending \subseteq r.pending, r.dirty = w.dirty, NEW c
  PROVE  Advances(w, r, c)
BY DEF Advances, MustRun, CleanIn, SameOuts

LEMMA TopOf ==
  ASSUME NEW w, CallsTyped(w), w.calls # <<>>, StackOK(w), NEW f, f = Head(w.calls)
  PROVE  /\ f \in Frames /\ f.cell \in Cells /\ f = w.calls[1] /\ f.cell = w.calls[1].cell
         /\ FrameOK(w, f, None) /\ Len(w.calls) \in Nat \ {0}
<1>1. f \in Frames /\ f = w.calls[1] /\ Len(w.calls) \in Nat \ {0}
  BY TailAt DEF CallsTyped
<1>2. 1 \in 1 .. Len(w.calls) /\ Above(w.calls, 1) = None
  BY <1>1 DEF Above
<1> QED
  BY <1>1, <1>2 DEF StackOK, Frames, Frame

\* A run ends with a value or a failure, and its memo is replaced.
LEMMA RanSound ==
  ASSUME StateTyped, NEW w, NEW r, Sound(w), w.calls # <<>>, GoodCalls(r),
         NEW c \in Cells, c = w.calls[1].cell, MustRun(w, c), NEW kind \in Kinds, NEW frame,
         frame.val \in Seq(Texts), frame.obs \subseteq Queries, frame.reads \in Seq(Cells),
         RanHere(w, r, c, kind, frame),
         kind = "value" => Grounds(w.memo, w.dirty, c, frame.obs, frame.reads, frame.val)
  PROVE  Sound(r)
<1> DEFINE e == [out |-> r.out, obs |-> frame.obs, reads |-> frame.reads]
<1>1. r.out = FinalOut(c, kind, frame.val) /\ r.out \in Outs
  BY FinalOutTyped DEF RanHere, Ran
<1>2. e \in Memos /\ e.out = r.out /\ e.obs = frame.obs /\ e.reads = frame.reads
  BY <1>1 DEF Memos
<1>3. /\ r.memo = [w.memo EXCEPT ![c] = e]
      /\ r.pending = (w.pending \cup StaleReaders(w.memo, c, e.out)) \ {c}
      /\ r.dirty = (w.dirty \cup StaleReaders(w.memo, c, e.out)) \ {c}
      /\ r.calls = ReturnCalls(w.calls, r.out)
  BY <1>2 DEF RanHere, Ran
<1> HIDE DEF e
<1>4. e.out.kind = "value" => Grounds(w.memo, w.dirty, c, e.obs, e.reads, e.out.val)
  <2>1. CASE kind = "value"
    <3>1. r.out.val = frame.val
      BY <1>1, <2>1 DEF FinalOut, Outcome
    <3> QED
      BY <1>2, <2>1, <3>1
  <2>2. CASE kind # "value"
    <3>1. r.out.kind = CycleApplied(c, kind)
      BY <1>1, <2>2 DEF FinalOut, Outcome
    <3>2. r.out.kind # "value"
      BY <2>2, <3>1 DEF CycleApplied
    <3> QED
      BY <1>2, <3>2
  <2> QED
    BY <2>1, <2>2
<1>5. EngineInv(w.memo, w.pending, w.dirty) /\ EngineTyped(w.memo, w.pending, w.dirty)
  BY DEF Sound, EngineInv
<1>6. w.memo[c] = NoMemo \/ c \in w.pending
  BY DEF MustRun
<1>7. /\ EngineInv(r.memo, r.pending, r.dirty)
      /\ CleanIn(w) \subseteq CleanIn(r) /\ c \notin CleanIn(w)
  <2> DEFINE m == w.memo
             p == w.pending
             d == w.dirty
             o == r.memo
             q == r.pending
             f == r.dirty
  <2>1. EngineInv(m, p, d) /\ RanTo(m, p, d, c, e, o, q, f)
    BY <1>3, <1>4, <1>5, <1>6 DEF RanTo
  <2> HIDE DEF m, p, d, o, q, f
  <2>2. EngineInv(o, q, f) /\ Clean(m, d) \subseteq Clean(o, f) /\ c \notin Clean(m, d)
    BY <1>2, <2>1, RanEngine
  <2> QED
    BY <2>2 DEF CleanIn, m, p, d, o, q, f
<1>8. r.memo[c] = e /\ \A x \in Cells : x # c => r.memo[x] = w.memo[x]
  BY <1>3, <1>5 DEF EngineTyped
<1>9. Advances(w, r, c)
  <2>1. \A x \in Cells : x # c => /\ MustRun(w, x) => MustRun(r, x)
                                  /\ x \in w.dirty => x \in r.dirty
    BY <1>3, <1>8 DEF MustRun
  <2>2. \A x \in CleanIn(w) : x \in Cells /\ x # c
    BY <1>7 DEF CleanIn, Clean
  <2>3. SameOuts(w.memo, r.memo, CleanIn(w))
    BY <1>8, <2>2 DEF SameOuts
  <2> QED
    BY <1>7, <1>8, <2>1, <2>3 DEF Advances
<1>10. Answered(r, c)
  BY <1>2, <1>3, <1>8 DEF Answered
<1>11. CallsTyped(w) /\ StackOK(w) /\ r.out \in Results
  BY DEF Sound, GoodCalls, GoodWork, WorkTyped
<1>12. StackOK(r)
  BY <1>3, <1>7, <1>9, <1>10, <1>11, StackPopped
<1> QED
  BY <1>7, <1>12 DEF Sound

\* A run or a check stops without an answer.
LEMMA StoppedSound ==
  ASSUME StateTyped, NEW w, NEW r, Sound(w), w.calls # <<>>, GoodCalls(r),
         NEW c \in Cells, c = w.calls[1].cell, Stopped(w, r, c)
  PROVE  Sound(r)
<1>1. r.memo = w.memo /\ r.pending = w.pending /\ r.dirty = w.dirty
        /\ r.calls = ReturnCalls(w.calls, r.out) /\ r.out.kind \in Stops
  BY DEF Stopped, EngineKept
<1>2. EngineInv(r.memo, r.pending, r.dirty)
  BY <1>1 DEF Sound
<1>3. Advances(w, r, c)
  BY <1>1, KeptAdvances
<1>4. Answered(r, c)
  BY <1>1 DEF Answered
<1>5. CallsTyped(w) /\ StackOK(w) /\ r.out \in Results
  BY DEF Sound, GoodCalls, GoodWork, WorkTyped
<1>6. StackOK(r)
  BY <1>1, <1>2, <1>3, <1>4, <1>5, StackPopped
<1> QED
  BY <1>2, <1>6 DEF Sound

\* The innermost call is replaced, with the engine as it was.
LEMMA ReplacedSound ==
  ASSUME StateTyped, NEW w, NEW r, Sound(w), w.calls # <<>>, GoodCalls(r),
         NEW next \in Frames, next.cell = w.calls[1].cell, Replaced(w, r, next),
         FrameOK(w, next, None)
  PROVE  Sound(r)
<1>1. /\ r.memo = w.memo /\ r.pending = w.pending /\ r.dirty = w.dirty /\ r.out = w.out
      /\ r.calls = <<next>> \o Tail(w.calls)
  BY DEF Replaced, CallsOnly, EngineKept
<1>2. EngineInv(r.memo, r.pending, r.dirty)
  BY <1>1 DEF Sound
<1> DEFINE c == w.calls[1].cell
<1>3. Advances(w, r, c)
  BY <1>1, KeptAdvances
<1>4. FrameOK(r, next, None)
  <2>1. MustRun(r, next.cell) = MustRun(w, next.cell) /\ CleanIn(r) = CleanIn(w)
    BY <1>1 DEF MustRun, CleanIn
  <2>2. CASE next.running
    <3>1. RunningOK(w, next, None)
      BY <2>2 DEF FrameOK
    <3>2. next.cell \in DOMAIN cells =>
            \E i, j \in 0 .. Len(cells[next.cell]) : ReadTo(r, next, None, i, j)
      BY <1>3, <3>1, ReadToKept DEF RunningOK
    <3>3. RunningOK(r, next, None)
      BY <2>1, <3>1, <3>2 DEF RunningOK
    <3> QED
      BY <2>2, <3>3 DEF FrameOK
  <2>3. CASE ~ next.running
    <3>1. VerifyingOK(w, next, None)
      BY <2>3 DEF FrameOK
    <3>2. VerifyingOK(r, next, None)
      BY <1>1, <2>1, <3>1 DEF VerifyingOK
    <3> QED
      BY <2>3, <3>2 DEF FrameOK
  <2> QED
    BY <2>2, <2>3
<1>5. w.calls \in Seq(Frames) /\ CallsTyped(w) /\ CallsTyped(r) /\ StackOK(w)
  BY DEF Sound, GoodCalls, CallsTyped
<1>6. SameBelow(w.calls, r.calls) /\ r.calls[1] = next
  <2> DEFINE s == w.calls
             t == <<next>> \o Tail(s)
  <2>1. s \in Seq(Frames) /\ s # <<>>
    BY <1>5
  <2> HIDE DEF s
  <2>2. Len(t) = Len(s) /\ t[1] = next /\ \A i \in 2 .. Len(s) : t[i] = s[i]
    BY <2>1, ReplacedAt
  <2>3. r.calls = t /\ next.cell = s[1].cell
    BY <1>1 DEF s
  <2> HIDE DEF t
  <2>4. SameBelow(s, t)
    BY <2>2, <2>3 DEF SameBelow
  <2> QED
    BY <2>2, <2>3, <2>4 DEF s
<1>7. FrameOK(r, r.calls[1], None)
  BY <1>4, <1>6
<1> HIDE DEF c
<1>8. StackOK(r)
  BY <1>3, <1>5, <1>6, <1>7, StackReplaced DEF c
<1> QED
  BY <1>2, <1>8 DEF Sound

\* A call descends to another cell.
LEMMA DescendedSound ==
  ASSUME StateTyped, NEW w, NEW r, Sound(w), w.calls # <<>>, GoodCalls(r),
         NEW next \in Frames, next.cell = w.calls[1].cell, NEW d \in Cells,
         d \notin Active(w), Descended(w, r, next, d), FrameOK(w, next, d)
  PROVE  Sound(r)
<1> DEFINE top == Verification(w, d)
           c == w.calls[1].cell
<1>1. /\ r.memo = w.memo /\ r.pending = w.pending /\ r.dirty = w.dirty
      /\ r.out = w.memo[d].out
      /\ r.calls = <<top>> \o (<<next>> \o Tail(w.calls))
  BY DEF Descended, EngineKept
<1>2. EngineInv(r.memo, r.pending, r.dirty)
  BY <1>1 DEF Sound
<1>3. Advances(w, r, c)
  BY <1>1, KeptAdvances
<1>4. CallsTyped(w) /\ StackOK(w) /\ EngineTyped(w.memo, w.pending, w.dirty)
  BY DEF Sound, GoodCalls, EngineInv
<1>5. top \in Frames
  BY <1>4, VerificationTyped
<1>6. top.cell = d /\ ~ top.running
        /\ top.left = IF MustRun(w, d) \/ d \notin w.dirty THEN <<>> ELSE w.memo[d].reads
  BY DEF Verification
<1>7. CleanIn(r) = CleanIn(w) /\ (MustRun(r, d) <=> MustRun(w, d))
  BY <1>1 DEF CleanIn, MustRun
<1> HIDE DEF top
<1>8. VerifyingOK(r, top, None)
  <2>1. top.left # <<>> => d \in r.dirty
    BY <1>1, <1>6
  <2>2. ASSUME ~ MustRun(r, d), r.memo[d].out.kind = "value"
        PROVE  ToSet(r.memo[d].reads) \subseteq ToSet(top.left) \cup CleanIn(r) \cup {None}
    <3>1. CASE d \in w.dirty
      BY <1>1, <1>6, <1>7, <2>2, <3>1
    <3>2. CASE d \notin w.dirty
      <4>1. d \in Clean(w.memo, w.dirty)
        BY <1>1, <2>2, <3>2 DEF Clean
      <4>2. ToSet(w.memo[d].reads) \subseteq CleanIn(w)
        BY <4>1 DEF Sound, EngineInv, CleanClosed, CleanIn
      <4> QED
        BY <1>1, <1>7, <4>2
    <3> QED
      BY <3>1, <3>2
  <2> QED
    BY <1>6, <2>1, <2>2 DEF VerifyingOK
<1>9. FrameOK(r, top, None)
  BY <1>6, <1>8 DEF FrameOK
<1>10. FrameOK(r, next, d)
  <2>1. d # None
    BY CellPaths
  <2>2. CASE next.running
    <3>1. RunningOK(w, next, d)
      BY <2>2 DEF FrameOK
    <3>2. next.cell \in DOMAIN cells =>
            \E i, j \in 0 .. Len(cells[next.cell]) : ReadTo(r, next, d, i, j)
      BY <1>3, <3>1, ReadToKept DEF RunningOK
    <3>3. MustRun(r, next.cell) = MustRun(w, next.cell)
      BY <1>1 DEF MustRun
    <3>4. RunningOK(r, next, d)
      BY <1>7, <3>1, <3>2, <3>3 DEF RunningOK
    <3> QED
      BY <2>2, <3>4 DEF FrameOK
  <2>3. CASE ~ next.running
    <3>1. VerifyingOK(w, next, d)
      BY <2>3 DEF FrameOK
    <3>2. MustRun(r, next.cell) = MustRun(w, next.cell)
      BY <1>1 DEF MustRun
    <3>3. VerifyingOK(r, next, d)
      BY <1>1, <1>7, <2>1, <3>1, <3>2 DEF VerifyingOK
    <3> QED
      BY <2>3, <3>3 DEF FrameOK
  <2> QED
    BY <2>2, <2>3
<1>11. StackOK(r)
  BY <1>1, <1>3, <1>4, <1>5, <1>6, <1>9, <1>10, StackPushed
<1> QED
  BY <1>2, <1>11 DEF Sound

----------------------------------------------------------------------------
LEMMA NoPieces ==
  ASSUME NEW m, NEW c, NEW n
  PROVE  FlattenSeq(Pieces(m, c, n, 0)) = <<>>
<1>1. Pieces(m, c, n, 0) = <<>> /\ Len(Pieces(m, c, n, 0)) = 0
  BY DEF Pieces
<1> QED
  BY <1>1, FlattenNone

\* An evaluation begins knowing nothing.
LEMMA EvaluationOK ==
  ASSUME StateTyped, NEW w, NEW c \in Cells, MustRun(w, c),
         ~ RequirementMissing(authority_policies, c)
  PROVE  FrameOK(w, Evaluation(c), None)
<1> DEFINE f == Evaluation(c)
<1>1. /\ f.cell = c /\ f.running /\ f.left = (IF c \in DOMAIN cells THEN cells[c] ELSE <<>>)
      /\ f.val = (IF c \in DOMAIN cells THEN <<>> ELSE <<"missing">>)
      /\ f.fail = "" /\ f.obs = {} /\ f.reads = <<>>
  BY DEF Evaluation
<1> HIDE DEF f
<1>2. ToSet(f.reads) \subseteq CleanIn(w) \cup {None}
  <2>1. ToSet(<<>>) = {}
    BY DEF ToSet
  <2> QED
    BY <1>1, <2>1
<1>3. ASSUME c \in DOMAIN cells
      PROVE  /\ Full!Capable(c)
             /\ \E i, j \in 0 .. Len(cells[c]) : ReadTo(w, f, None, i, j)
  <2>1. Full!Capable(c)
    BY AuthorityAtOnce
  <2>2. cells[c] \in Seq(Atoms)
    BY <1>3 DEF StateTyped, SourcesTyped
  <2>3. 0 \in 0 .. Len(cells[c]) /\ cells[c] = SubSeq(cells[c], 0 + 1, Len(cells[c]))
    BY <2>2
  <2>4. AllSeen(c, 0, f.obs, f.reads) /\ FoundIn(c, 0, CleanIn(w))
    BY DEF AllSeen, FoundIn
  <2>5. f.val = FlattenSeq(Pieces(w.memo, c, Content[c], 0))
    BY <1>1, <1>3, NoPieces
  <2>6. ReadTo(w, f, None, 0, 0)
    BY <1>1, <1>3, <2>3, <2>4, <2>5 DEF ReadTo
  <2> QED
    BY <2>1, <2>3, <2>6
<1>4. RunningOK(w, f, None)
  BY <1>1, <1>2, <1>3 DEF RunningOK
<1> QED
  BY <1>1, <1>4 DEF FrameOK, f

\* A memo is reused after all it read turned out the same: it becomes clean.
LEMMA ReusedSound ==
  ASSUME StateTyped, NEW w, NEW r, Sound(w), w.calls # <<>>, GoodCalls(r),
         NEW c \in Cells, c = w.calls[1].cell, ~ w.calls[1].running, w.calls[1].left = <<>>,
         ~ MustRun(w, c), w.out.kind \notin Stops, Reused(w, r, c)
  PROVE  Sound(r)
<1>1. /\ r.memo = w.memo /\ r.pending = w.pending /\ r.dirty = w.dirty \ {c}
      /\ r.out = w.memo[c].out /\ r.calls = ReturnCalls(w.calls, r.out)
  BY DEF Reused
<1>2. CallsTyped(w) /\ StackOK(w) /\ r.out \in Results
        /\ EngineInv(w.memo, w.pending, w.dirty)
  BY DEF Sound, GoodCalls, GoodWork, WorkTyped
<1>3. c \notin w.pending
  BY DEF MustRun
<1> DEFINE f == Head(w.calls)
<1>4. f = w.calls[1] /\ FrameOK(w, f, None)
  BY <1>2, TopOf
<1>5. VerifyingOK(w, f, None)
  BY <1>4 DEF FrameOK
<1>6. w.memo[c].out.kind = "value" => ToSet(w.memo[c].reads) \subseteq CleanIn(w)
  <2>1. w.memo[c].out.kind = "value"
           => ToSet(w.memo[c].reads) \subseteq ToSet(<<>>) \cup CleanIn(w) \cup {None}
    BY <1>4, <1>5 DEF VerifyingOK
  <2>2. ToSet(<<>>) = {}
    BY DEF ToSet
  <2>3. ToSet(w.memo[c].reads) \subseteq Cells
    <3>1. w.memo[c].reads \in Seq(Cells)
      BY <1>2, MemoOut DEF EngineInv
    <3> QED
      BY <3>1 DEF ToSet
  <2>4. None \notin Cells
    BY CellPaths
  <2> QED
    BY <2>1, <2>2, <2>3, <2>4
<1> DEFINE m == w.memo
           p == w.pending
           d == w.dirty
           q == r.dirty
<1>7. EngineInv(m, p, q) /\ Clean(m, d) \subseteq Clean(m, q)
  <2>1. q = d \ {c} /\ EngineInv(m, p, d) /\ c \notin p
    BY <1>1, <1>2, <1>3
  <2>2. m[c].out.kind = "value" => ToSet(m[c].reads) \subseteq Clean(m, d)
    BY <1>6 DEF CleanIn
  <2> HIDE DEF m, p, d, q
  <2> QED
    BY <2>1, <2>2, ReusedEngine
<1>8. EngineInv(r.memo, r.pending, r.dirty) /\ CleanIn(w) \subseteq CleanIn(r)
  BY <1>1, <1>7 DEF CleanIn
<1>9. Advances(w, r, c)
  BY <1>1, <1>8 DEF Advances, MustRun, SameOuts
<1>10. Answered(r, c)
  BY <1>1 DEF Answered
<1>11. StackOK(r)
  BY <1>1, <1>2, <1>8, <1>9, <1>10, StackPopped
<1> QED
  BY <1>8, <1>11 DEF Sound

\* A check that meets an active cell gives up and runs.
LEMMA CircularSound ==
  ASSUME StateTyped, NEW w, NEW r, Sound(w), w.calls # <<>>, GoodCalls(r),
         NEW c \in Cells, c = w.calls[1].cell, ~ w.calls[1].running, w.calls[1].left # <<>>,
         Circular(w, r, c)
  PROVE  Sound(r)
<1>1. /\ r.memo = w.memo /\ r.pending = w.pending \cup {c} /\ r.dirty = w.dirty
      /\ r.calls = w.calls
  BY DEF Circular
<1>2. /\ CallsTyped(w) /\ CallsTyped(r) /\ StackOK(w)
      /\ EngineInv(w.memo, w.pending, w.dirty)
  BY DEF Sound, GoodCalls, GoodWork, WorkTyped
<1> DEFINE f == Head(w.calls)
<1>3. f = w.calls[1] /\ FrameOK(w, f, None)
  BY <1>2, TopOf
<1>4. c \in w.dirty
  BY <1>3 DEF FrameOK, VerifyingOK
<1>5. EngineInv(r.memo, r.pending, r.dirty)
  <2>1. EngineTyped(r.memo, r.pending, r.dirty) /\ r.pending \subseteq r.dirty
    BY <1>1, <1>2, <1>4 DEF EngineInv, EngineTyped
  <2>2. ValuesSupported(Read, r.memo, r.pending)
    BY <1>1, <1>2 DEF EngineInv, ValuesSupported
  <2> QED
    BY <1>1, <1>2, <2>1, <2>2 DEF EngineInv
<1>6. Advances(w, r, c)
  BY <1>1, KeptAdvances
<1>7. MustRun(r, c)
  BY <1>1 DEF MustRun
<1>8. FrameOK(r, r.calls[1], None)
  BY <1>1, <1>4, <1>7 DEF FrameOK, VerifyingOK
<1>9. SameBelow(w.calls, r.calls)
  BY <1>1 DEF SameBelow
<1>10. StackOK(r)
  BY <1>2, <1>6, <1>8, <1>9, StackReplaced
<1> QED
  BY <1>5, <1>10 DEF Sound

\* One step of a call that checks its reads.
LEMMA VerifySound ==
  ASSUME StateTyped, NEW w, NEW r, Sound(w), w.calls # <<>>, GoodCalls(r),
         NEW f \in Frame(FALSE, Cells), f = Head(w.calls), VerifyStep(w, r, f)
  PROVE  Sound(r)
<1> DEFINE c == f.cell
<1>1. CallsTyped(w) /\ StackOK(w)
  BY DEF Sound, GoodCalls
<1>2. f \in Frames /\ c \in Cells /\ f = w.calls[1] /\ c = w.calls[1].cell /\ FrameOK(w, f, None)
        /\ ~ f.running
  BY <1>1, TopOf DEF Frame
<1>3. CASE Stopped(w, r, c)
  <2> HIDE DEF c
  <2> QED
    BY <1>2, <1>3, StoppedSound
<1>4. CASE MustRun(w, c) /\ RanHere(w, r, c, "blocked", NoFrame)
  <2>1. NoFrame.val \in Seq(Texts) /\ NoFrame.obs \subseteq Queries /\ NoFrame.reads \in Seq(Cells)
    BY EmptySeq DEF NoFrame
  <2> DEFINE kind == "blocked"
  <2>2. kind \in Kinds /\ kind # "value"
    BY DEF Kinds, Failures
  <2>3. RanHere(w, r, c, kind, NoFrame)
    BY <1>4
  <2> HIDE DEF c, kind
  <2> QED
    BY <1>2, <1>4, <2>1, <2>2, <2>3, RanSound
<1>5. CASE MustRun(w, c) /\ ~ RequirementMissing(authority_policies, c)
             /\ Replaced(w, r, Evaluation(c))
  <2> DEFINE next == Evaluation(c)
  <2>1. next \in Frames
    BY <1>2, EvaluationTyped DEF StateTyped
  <2>2. next.cell = w.calls[1].cell
    BY <1>2 DEF Evaluation
  <2>3. FrameOK(w, next, None)
    <3> HIDE DEF c
    <3> QED
      BY <1>2, <1>5, EvaluationOK
  <2>4. Replaced(w, r, next)
    BY <1>5
  <2> HIDE DEF next
  <2> QED
    BY <2>1, <2>2, <2>3, <2>4, ReplacedSound
<1>6. CASE ~ MustRun(w, c) /\ w.out.kind \notin Stops /\ f.left = <<>> /\ Reused(w, r, c)
  <2> HIDE DEF c
  <2> QED
    BY <1>2, <1>6, ReusedSound
<1>7. CASE f.left # <<>> /\ Circular(w, r, c)
  <2> HIDE DEF c
  <2> QED
    BY <1>2, <1>7, CircularSound
<1>8. CASE /\ ~ MustRun(w, c) /\ w.out.kind \notin Stops /\ f.left # <<>>
           /\ Head(f.left) \notin Active(w)
           /\ Descended(w, r, [f EXCEPT !.left = Tail(@)], Head(f.left))
  <2> DEFINE rest == Tail(f.left)
             next == [f EXCEPT !.left = rest]
             d == Head(f.left)
  <2>1. f.left \in Seq(Cells)
    BY DEF Frame
  <2>2. d \in Cells /\ rest \in Seq(Cells)
    BY <1>8, <2>1
  <2>3. ToSet(f.left) = {d} \cup ToSet(rest)
    <3> DEFINE s == f.left
    <3>1. s \in Seq(Cells) /\ s # <<>>
      BY <1>8, <2>1
    <3> HIDE DEF s
    <3>2. /\ Len(s) \in Nat \ {0} /\ Len(Tail(s)) = Len(s) - 1 /\ Head(s) = s[1]
          /\ \A i \in 1 .. Len(s) - 1 : Tail(s)[i] = s[i + 1]
      BY <3>1, TailAt
    <3>3. /\ DOMAIN s = 1 .. Len(s) /\ DOMAIN Tail(s) = 1 .. Len(s) - 1
      BY <3>1, <3>2, TailAt
    <3>4. ASSUME NEW i \in 2 .. Len(s) PROVE i - 1 \in 1 .. Len(s) - 1 /\ s[i] = Tail(s)[i - 1]
      BY <3>2
    <3>5. ToSet(s) \subseteq {Head(s)} \cup ToSet(Tail(s))
      <4> SUFFICES ASSUME NEW x \in ToSet(s), x # Head(s) PROVE x \in ToSet(Tail(s))
        OBVIOUS
      <4>1. PICK i \in 1 .. Len(s) : s[i] = x
        BY <3>3 DEF ToSet
      <4>2. i \in 2 .. Len(s)
        BY <3>2, <4>1
      <4> QED
        BY <3>3, <3>4, <4>1, <4>2 DEF ToSet
    <3>6. {Head(s)} \cup ToSet(Tail(s)) \subseteq ToSet(s)
      <4>1. ASSUME NEW i \in 1 .. Len(s) - 1 PROVE Tail(s)[i] \in ToSet(s)
        <5>1. i + 1 \in 1 .. Len(s) /\ Tail(s)[i] = s[i + 1]
          BY <3>2
        <5> QED
          BY <3>3, <5>1 DEF ToSet
      <4>2. 1 \in DOMAIN s
        BY <3>2, <3>3
      <4>3. Head(s) \in ToSet(s)
        BY <3>2, <4>2 DEF ToSet
      <4> QED
        BY <3>3, <4>1, <4>3 DEF ToSet
    <3> QED
      BY <3>5, <3>6 DEF s
  <2> HIDE DEF rest, d
  <2>4. next \in Frames /\ next.cell = c /\ ~ next.running /\ next.left = rest
    BY <1>2, <2>2 DEF Frame, Frames
  <2>5. Descended(w, r, next, d) /\ d \notin Active(w)
    BY <1>8 DEF rest, d
  <2> HIDE DEF next
  <2>6. VerifyingOK(w, next, d)
    <3>1. VerifyingOK(w, f, None)
      BY <1>2 DEF FrameOK
    <3>2. c \in w.dirty
      BY <1>8, <3>1 DEF VerifyingOK
    <3>3. ASSUME w.memo[c].out.kind = "value"
          PROVE  ToSet(w.memo[c].reads) \subseteq ToSet(rest) \cup CleanIn(w) \cup {d}
      <4>1. ToSet(w.memo[c].reads) \subseteq ToSet(f.left) \cup CleanIn(w) \cup {None}
        BY <1>8, <3>1, <3>3 DEF VerifyingOK
      <4>2. EngineTyped(w.memo, w.pending, w.dirty)
        BY DEF Sound, EngineInv
      <4>3. w.memo[c].reads \in Seq(Cells)
        BY <1>2, <4>2, MemoOut
      <4>4. ToSet(w.memo[c].reads) \subseteq Cells
        BY <4>3 DEF ToSet
      <4>5. None \notin Cells
        BY CellPaths
      <4> DEFINE X == ToSet(w.memo[c].reads)
                 Y == ToSet(rest)
                 Z == CleanIn(w)
      <4> HIDE DEF X, Y, Z
      <4>6. X \subseteq ({d} \cup Y) \cup Z \cup {None} /\ X \subseteq Cells
        BY <2>3, <4>1, <4>4 DEF X, Y, Z
      <4>7. X \subseteq Y \cup Z \cup {d}
        BY <4>5, <4>6
      <4> QED
        BY <4>7 DEF X, Y, Z
    <3>4. d # None
      BY <2>2, CellPaths
    <3> QED
      BY <2>4, <3>2, <3>3, <3>4 DEF VerifyingOK
  <2>7. FrameOK(w, next, d)
    BY <2>4, <2>6 DEF FrameOK
  <2>8. next.cell = w.calls[1].cell
    BY <1>2, <2>4
  <2> QED
    BY <2>2, <2>4, <2>5, <2>7, <2>8, DescendedSound
<1> QED
  BY <1>3, <1>4, <1>5, <1>6, <1>7, <1>8 DEF VerifyStep

----------------------------------------------------------------------------
LEMMA ToSetTyped ==
  ASSUME NEW S, NEW s \in Seq(S)
  PROVE  ToSet(s) \subseteq S
BY DEF ToSet

LEMMA FromZero ==
  ASSUME NEW n \in Nat, NEW k \in 1 .. n
  PROVE  k \in 0 .. n
OBVIOUS

LEMMA LenTyped ==
  ASSUME NEW S, NEW s \in Seq(S)
  PROVE  Len(s) \in Nat
OBVIOUS

\* What is left of a sequence after its first i members.
LeftOf(s, n, i, t) == n = Len(s) /\ i \in 0 .. n /\ t = SubSeq(s, i + 1, n)

NextOf(s, n, i, t) ==
  /\ i + 1 \in 1 .. n /\ Head(t) = s[i + 1]
  /\ Tail(t) = SubSeq(s, (i + 1) + 1, n)

LEMMA RestOf ==
  ASSUME NEW S, NEW s \in Seq(S), NEW n, NEW i, NEW t, LeftOf(s, n, i, t)
  PROVE  /\ t = <<>> => i = n
         /\ t # <<>> => NextOf(s, n, i, t)
<1> n = Len(s) /\ i \in 0 .. n /\ t = SubSeq(s, i + 1, n)
  BY DEF LeftOf
<1>1. n \in Nat
  OBVIOUS
<1>2. t \in Seq(S) /\ Len(t) = n - i /\ \A k \in 1 .. n - i : t[k] = s[i + k]
  BY <1>1
<1>3. t = <<>> => i = n
  <2>1. Len(<<>>) = 0
    OBVIOUS
  <2>2. t = <<>> => n - i = 0
    BY <1>2, <2>1
  <2> QED
    BY <1>1, <2>2
<1>4. ASSUME t # <<>>
      PROVE  /\ i + 1 \in 1 .. n /\ Head(t) = s[i + 1]
             /\ Tail(t) = SubSeq(s, (i + 1) + 1, n)
  <2>1. i + 1 \in 1 .. n
    BY <1>1, <1>2, <1>4
  <2>2. Head(t) = s[i + 1] /\ Head(t) = t[1]
    BY <1>2, <1>4, <2>1
  <2>3. /\ Tail(t) \in Seq(S) /\ Len(Tail(t)) = n - i - 1
        /\ \A k \in 1 .. n - i - 1 : Tail(t)[k] = s[i + 1 + k]
    <3>1. /\ Len(t) \in Nat \ {0} /\ Tail(t) \in Seq(S) /\ Len(Tail(t)) = Len(t) - 1
          /\ \A k \in 1 .. Len(t) - 1 : Tail(t)[k] = t[k + 1]
      BY <1>2, <1>4, TailAt
    <3>2. Len(t) - 1 = n - i - 1
      BY <1>1, <1>2
    <3>3. ASSUME NEW k \in 1 .. n - i - 1 PROVE t[k + 1] = s[i + 1 + k]
      <4>1. k + 1 \in 1 .. n - i /\ i + (k + 1) = i + 1 + k
        BY <1>1
      <4> QED
        BY <1>2, <4>1
    <3> QED
      BY <3>1, <3>2, <3>3
  <2> DEFINE u == SubSeq(s, (i + 1) + 1, n)
  <2>4. /\ u \in Seq(S) /\ Len(u) = n - i - 1
        /\ \A k \in 1 .. n - i - 1 : u[k] = s[i + 1 + k]
    BY <1>1, <2>1
  <2> DEFINE v == Tail(t)
             m == n - i - 1
  <2>5. v \in Seq(S) /\ u \in Seq(S) /\ Len(v) = m /\ Len(u) = m /\ \A k \in 1 .. m : v[k] = u[k]
    BY <2>3, <2>4
  <2> HIDE DEF u, v, m
  <2>6. v = u
    BY <2>5, SeqEqual
  <2> QED
    BY <2>1, <2>2, <2>6 DEF u, v
<1> QED
  BY <1>3, <1>4 DEF NextOf

LEMMA SeenMore ==
  ASSUME NEW c, NEW i \in Nat, NEW f, NEW next, AllSeen(c, i, f.obs, f.reads),
         f.obs \subseteq next.obs, ToSet(f.reads) \subseteq ToSet(next.reads),
         AtomSeen(c, cells[c][i + 1], next.obs, next.reads)
  PROVE  AllSeen(c, i + 1, next.obs, next.reads)
<1> SUFFICES ASSUME NEW k \in 1 .. i + 1
             PROVE  AtomSeen(c, cells[c][k], next.obs, next.reads)
  BY DEF AllSeen
<1>1. CASE k = i + 1
  BY <1>1
<1>2. CASE k # i + 1
  <2>1. k \in 1 .. i
    BY <1>2
  <2>2. AtomSeen(c, cells[c][k], f.obs, f.reads)
    BY <2>1 DEF AllSeen
  <2> QED
    BY <2>2 DEF AtomSeen
<1> QED
  BY <1>1, <1>2

\* The innermost evaluation: what it knows of its expression.
Reading(w, f, i) ==
  /\ f.cell \in DOMAIN cells /\ cells[f.cell] \in Seq(Atoms) /\ Full!Capable(f.cell)
  /\ i \in 0 .. Len(cells[f.cell]) /\ Len(cells[f.cell]) \in Nat
  /\ ReadTo(w, f, None, i, i)

LEMMA ReadingOf ==
  ASSUME StateTyped, NEW w, NEW f, RunningOK(w, f, None), f.fail = "", f.cell \in DOMAIN cells
  PROVE  \E i : Reading(w, f, i)
<1>1. cells[f.cell] \in Seq(Atoms)
  BY DEF StateTyped, SourcesTyped
<1>2. Len(cells[f.cell]) \in Nat
  <2> DEFINE s == cells[f.cell]
  <2>1. s \in Seq(Atoms)
    BY <1>1
  <2> HIDE DEF s
  <2>2. Len(s) \in Nat
    BY <2>1, LenTyped
  <2> QED
    BY <2>2 DEF s
<1>3. PICK i \in 0 .. Len(cells[f.cell]), j \in 0 .. Len(cells[f.cell]) : ReadTo(w, f, None, i, j)
  BY DEF RunningOK
<1>4. ReadTo(w, f, None, i, i)
  BY <1>3 DEF ReadTo
<1> QED
  BY <1>1, <1>2, <1>3, <1>4 DEF RunningOK, Reading

\* The last atom has its value.
LEMMA GroundsOf ==
  ASSUME StateTyped, NEW w, NEW f \in Frame(TRUE, Atoms), RunningOK(w, f, None),
         f.fail = "", f.left = <<>>
  PROVE  Grounds(w.memo, w.dirty, f.cell, f.obs, f.reads, f.val)
<1>1. ToSet(f.reads) \subseteq CleanIn(w)
  <2>1. ToSet(f.reads) \subseteq Cells
    <3> DEFINE reads == f.reads
    <3>1. reads \in Seq(Cells)
      BY DEF Frame
    <3> HIDE DEF reads
    <3>2. ToSet(reads) \subseteq Cells
      BY <3>1, ToSetTyped
    <3> QED
      BY <3>2 DEF reads
  <2> QED
    BY <2>1, CellPaths DEF RunningOK
<1>2. ASSUME f.cell \in DOMAIN cells
      PROVE  /\ Full!Capable(f.cell)
             /\ AllSeen(f.cell, Len(cells[f.cell]), f.obs, f.reads)
             /\ f.val = FlattenSeq(Pieces(w.memo, f.cell, Content[f.cell], Len(cells[f.cell])))
  <2>1. PICK i : Reading(w, f, i)
    BY <1>2, ReadingOf
  <2>2. i = Len(cells[f.cell])
    <3> DEFINE s == cells[f.cell]
               n == Len(s)
               t == f.left
    <3>1. s \in Seq(Atoms) /\ LeftOf(s, n, i, t) /\ t = <<>>
      BY <2>1 DEF Reading, ReadTo, LeftOf
    <3> HIDE DEF s, n, t
    <3>2. i = n
      BY <3>1, RestOf
    <3> QED
      BY <3>2 DEF n, s
  <2> QED
    BY <2>1, <2>2 DEF Reading, ReadTo
<1>3. f.cell \notin DOMAIN cells => f.val = <<"missing">>
  BY DEF RunningOK
<1> QED
  BY <1>1, <1>2, <1>3 DEF Grounds, CleanIn

\* Another atom was looked up.
Looked(w, f, next, i) ==
  /\ Reading(w, f, i) /\ f.left # <<>>
  /\ i + 1 \in 1 .. Len(cells[f.cell]) /\ Head(f.left) = cells[f.cell][i + 1]
  /\ next.left = SubSeq(cells[f.cell], (i + 1) + 1, Len(cells[f.cell]))

LEMMA LookedAt ==
  ASSUME StateTyped, NEW w, NEW f \in Frame(TRUE, Atoms), RunningOK(w, f, None),
         f.fail = "", f.left # <<>>, NEW next, next.left = Tail(f.left)
  PROVE  \E i : Looked(w, f, next, i)
<1>1. f.cell \in DOMAIN cells
  BY DEF RunningOK
<1>2. PICK i : Reading(w, f, i)
  BY <1>1, ReadingOf
<1> DEFINE s == cells[f.cell]
           n == Len(s)
           t == f.left
<1>3. s \in Seq(Atoms) /\ LeftOf(s, n, i, t) /\ t # <<>>
  BY <1>2 DEF Reading, ReadTo, LeftOf
<1> HIDE DEF s, n, t
<1>4. NextOf(s, n, i, t)
  BY <1>3, RestOf
<1> QED
  BY <1>2, <1>4 DEF Looked, NextOf, s, n, t

\* A call that failed.
LEMMA FailedOK ==
  ASSUME NEW w, NEW f, RunningOK(w, f, None), NEW next, next.cell = f.cell, next.running,
         next.fail # "", f.left # <<>>, f.fail = "", NEW i, Reading(w, f, i),
         \/ next.left = f.left
         \/ Looked(w, f, next, i)
  PROVE  FrameOK(w, next, None)
<1>1. f.cell \in DOMAIN cells /\ MustRun(w, f.cell) /\ Full!Capable(f.cell)
  BY DEF RunningOK
<1>2. \E k \in 0 .. Len(cells[f.cell]) : ReadTo(w, next, None, k, k)
  <2>1. CASE next.left = f.left
    <3>1. i \in 0 .. Len(cells[f.cell]) /\ ReadTo(w, next, None, i, i)
      BY <2>1 DEF ReadTo, Reading
    <3> QED
      BY <3>1
  <2>2. CASE Looked(w, f, next, i)
    <3>1. ReadTo(w, next, None, i + 1, i + 1)
      BY <2>2 DEF ReadTo, Looked
    <3>2. i + 1 \in 0 .. Len(cells[f.cell])
      <4> DEFINE n == Len(cells[f.cell])
                 k == i + 1
      <4>1. k \in 1 .. n /\ n \in Nat
        BY <2>2 DEF Looked, Reading
      <4> HIDE DEF n, k
      <4>2. k \in 0 .. n
        BY <4>1, FromZero
      <4> QED
        BY <4>2 DEF n, k
    <3> QED
      BY <3>1, <3>2
  <2> QED
    BY <2>1, <2>2
<1>3. RunningOK(w, next, None)
  BY <1>1, <1>2 DEF RunningOK
<1> QED
  BY <1>3 DEF FrameOK

----------------------------------------------------------------------------
LEMMA OneMore ==
  ASSUME NEW n \in Nat, NEW i \in Nat, NEW k, k = i + 1, k \in 1 .. n
  PROVE  k \in 0 .. n /\ k <= n /\ k \in Nat /\ \A x \in 1 .. k : x \in 1 .. i \/ x = k
OBVIOUS

\* The atom looked up is the one after the first i.
LookedUp(w, f, next, i, k) ==
  /\ i \in Nat /\ k \in Nat /\ k = i + 1 /\ i \in 0 .. Len(cells[f.cell])
  /\ k \in 1 .. Len(cells[f.cell]) /\ k \in 0 .. Len(cells[f.cell]) /\ k <= Len(cells[f.cell])
  /\ \A x \in 1 .. k : x \in 1 .. i \/ x = k
  /\ f.cell \in DOMAIN cells /\ Full!Capable(f.cell)
  /\ Head(f.left) = cells[f.cell][k]
  /\ next.left = SubSeq(cells[f.cell], k + 1, Len(cells[f.cell]))
  /\ ReadTo(w, f, None, i, i)

LEMMA LookedIs ==
  ASSUME NEW w, NEW f, NEW next, NEW i, Looked(w, f, next, i)
  PROVE  \E k : LookedUp(w, f, next, i, k)
<1> DEFINE n == Len(cells[f.cell])
           k == i + 1
<1>1. /\ i \in 0 .. n /\ n \in Nat /\ k \in 1 .. n
      /\ f.cell \in DOMAIN cells /\ Full!Capable(f.cell)
      /\ Head(f.left) = cells[f.cell][k]
      /\ next.left = SubSeq(cells[f.cell], k + 1, n)
      /\ ReadTo(w, f, None, i, i)
  BY DEF Looked, Reading
<1>2. k = i + 1
  OBVIOUS
<1> HIDE DEF n, k
<1>3. i \in Nat
  BY <1>1
<1>4. k \in 0 .. n /\ k <= n /\ k \in Nat /\ \A x \in 1 .. k : x \in 1 .. i \/ x = k
  BY <1>1, <1>2, <1>3, OneMore
<1>5. LookedUp(w, f, next, i, k)
  BY <1>1, <1>2, <1>3, <1>4 DEF LookedUp, n
<1> QED
  BY <1>5

\* The atom has a value of its own.
Valued(f, next) ==
  /\ Head(f.left).kind # "fail" /\ Resolved(f.cell, Head(f.left)).found = None
  /\ next.cell = f.cell /\ next.running /\ next.fail = "" /\ next.reads = f.reads
  /\ next.obs = f.obs \cup Resolved(f.cell, Head(f.left)).obs
  /\ next.val = f.val \o ImmediateValue(f.cell, Head(f.left))

\* An evaluation takes an immediate value.
LEMMA ValueOK ==
  ASSUME StateTyped, NEW w, EngineTyped(w.memo, w.pending, w.dirty), NEW f,
         f.cell \in Cells, RunningOK(w, f, None), f.fail = "", NEW next, Valued(f, next),
         NEW i, Looked(w, f, next, i)
  PROVE  FrameOK(w, next, None)
<1> DEFINE c == f.cell
           n == Content[c]
           atom == Head(f.left)
<1>0. PICK k : LookedUp(w, f, next, i, k)
  BY LookedIs
<1>1. /\ c \in DOMAIN cells /\ MustRun(w, c) /\ Full!Capable(c)
      /\ ToSet(f.reads) \subseteq CleanIn(w) \cup {None}
  BY <1>0 DEF RunningOK, LookedUp
<1>2. /\ i \in Nat /\ k \in Nat /\ k = i + 1 /\ i \in 0 .. Len(cells[c]) /\ k \in 1 .. Len(cells[c])
      /\ k <= Len(cells[c]) /\ k \in 0 .. Len(cells[c]) /\ atom = cells[c][k]
      /\ next.left = SubSeq(cells[c], k + 1, Len(cells[c])) /\ ReadTo(w, f, None, i, i)
  BY <1>0 DEF LookedUp
<1>3. /\ AllSeen(c, i, f.obs, f.reads) /\ FoundIn(c, i, CleanIn(w))
      /\ f.val = FlattenSeq(Pieces(w.memo, c, n, i))
  BY <1>2 DEF ReadTo
<1>4. AllSeen(c, k, next.obs, next.reads)
  <2> DEFINE at == Resolved(c, atom)
  <2>1. Watched(at) \subseteq next.obs /\ at.found = None
    BY DEF Watched, Valued
  <2>2. AtomSeen(c, atom, next.obs, next.reads)
    BY <2>1 DEF AtomSeen, Valued
  <2>3. AtomSeen(c, cells[c][i + 1], next.obs, next.reads)
    BY <1>2, <2>2
  <2>4. f.obs \subseteq next.obs /\ next.reads = f.reads
    BY DEF Valued
  <2>5. AllSeen(c, i + 1, next.obs, next.reads)
    BY <1>2, <1>3, <2>3, <2>4, SeenMore
  <2> QED
    BY <1>2, <2>5
<1>5. FoundIn(c, k, CleanIn(w))
  <2> SUFFICES ASSUME NEW x \in 1 .. k PROVE Resolved(c, cells[c][x]).found \in CleanIn(w) \cup {None}
    BY DEF FoundIn
  <2>1. x \in 1 .. i \/ x = k
    BY <1>0 DEF LookedUp
  <2> QED
    BY <1>2, <1>3, <2>1 DEF FoundIn, Valued
<1>6. Piece(w.memo, c, cells[c][k], n) = ImmediateValue(c, atom)
  BY <1>2 DEF Piece, ImmediateValue, Valued
<1>7. FlattenSeq(Pieces(w.memo, c, n, k))
        = FlattenSeq(Pieces(w.memo, c, n, i)) \o Piece(w.memo, c, cells[c][k], n)
  <2>1. n \in Nat
    BY ContentTyped DEF StateTyped
  <2> DEFINE m == w.memo
             p == w.pending
             d == w.dirty
  <2>2. EngineTyped(m, p, d) /\ c \in DOMAIN cells /\ i \in Nat /\ k = i + 1
          /\ k <= Len(cells[c])
    BY <1>1, <1>2
  <2> HIDE DEF c, n, m, p, d
  <2>3. FlattenSeq(Pieces(m, c, n, k))
          = FlattenSeq(Pieces(m, c, n, i)) \o Piece(m, c, cells[c][k], n)
    BY <2>1, <2>2, PiecesOneMore, ZenonT(40)
  <2> QED
    BY <2>3 DEF m
<1>8. next.val = FlattenSeq(Pieces(w.memo, c, n, k))
  BY <1>3, <1>6, <1>7 DEF Valued
<1>9. ReadTo(w, next, None, k, k)
  BY <1>2, <1>4, <1>5, <1>8 DEF ReadTo, Valued
<1>10. k \in 0 .. Len(cells[c])
  BY <1>2
<1>11. RunningOK(w, next, None)
  BY <1>1, <1>9, <1>10 DEF RunningOK, Valued
<1> QED
  BY <1>11 DEF FrameOK, Valued

\* The atom stands for a cell, which is verified first.
Descending(f, next, d) ==
  /\ Head(f.left).kind # "fail" /\ d = Resolved(f.cell, Head(f.left)).found
  /\ next.cell = f.cell /\ next.running /\ next.fail = "" /\ next.reads = Append(f.reads, d)
  /\ next.obs = f.obs \cup Resolved(f.cell, Head(f.left)).obs /\ next.val = f.val

\* An evaluation goes into the cell an atom refers to.
LEMMA DescendOK ==
  ASSUME StateTyped, NEW w, NEW f, f.reads \in Seq(Cells),
         f.cell \in Cells, RunningOK(w, f, None), f.fail = "",
         NEW d \in Cells, NEW next, Descending(f, next, d),
         NEW i, Looked(w, f, next, i)
  PROVE  FrameOK(w, next, d)
<1> DEFINE c == f.cell
           n == Content[c]
           atom == Head(f.left)
<1>0. PICK k : LookedUp(w, f, next, i, k)
  BY LookedIs
<1>1. /\ c \in DOMAIN cells /\ MustRun(w, c) /\ Full!Capable(c)
      /\ ToSet(f.reads) \subseteq CleanIn(w) \cup {None}
  BY <1>0 DEF RunningOK, LookedUp
<1>2. /\ i \in Nat /\ k \in Nat /\ k = i + 1 /\ i \in 0 .. Len(cells[c]) /\ k \in 1 .. Len(cells[c])
      /\ k <= Len(cells[c]) /\ k \in 0 .. Len(cells[c]) /\ atom = cells[c][k]
      /\ next.left = SubSeq(cells[c], k + 1, Len(cells[c])) /\ ReadTo(w, f, None, i, i)
  BY <1>0 DEF LookedUp
<1>3. /\ AllSeen(c, i, f.obs, f.reads) /\ FoundIn(c, i, CleanIn(w))
      /\ f.val = FlattenSeq(Pieces(w.memo, c, n, i))
  BY <1>2 DEF ReadTo
<1>4. ToSet(next.reads) = ToSet(f.reads) \cup {d}
  <2> DEFINE s == f.reads
             t == next.reads
  <2>1. s \in Seq(Cells) /\ t = Append(s, d)
    BY DEF Descending
  <2> HIDE DEF s, t
  <2>2. ToSet(Append(s, d)) = ToSet(s) \cup {d}
    BY <2>1, ToSetAppend, ZenonT(40)
  <2>3. ToSet(t) = ToSet(s) \cup {d}
    BY <2>1, <2>2
  <2> QED
    BY <2>3 DEF s, t
<1>5. AllSeen(c, k, next.obs, next.reads)
  <2> DEFINE at == Resolved(c, atom)
  <2>1. Watched(at) \subseteq next.obs /\ at.found \in ToSet(next.reads)
    BY <1>4 DEF Watched, Descending
  <2>2. AtomSeen(c, atom, next.obs, next.reads)
    BY <2>1 DEF AtomSeen, Descending
  <2>3. AtomSeen(c, cells[c][i + 1], next.obs, next.reads)
    BY <1>2, <2>2
  <2>4. f.obs \subseteq next.obs /\ ToSet(f.reads) \subseteq ToSet(next.reads)
    BY <1>4 DEF Descending
  <2>5. AllSeen(c, i + 1, next.obs, next.reads)
    BY <1>2, <1>3, <2>3, <2>4, SeenMore
  <2> QED
    BY <1>2, <2>5
<1>6. d # None
  BY CellPaths
<1>7. ReadTo(w, next, d, k, i)
  <2>1. k = i + 1 /\ d = Resolved(c, cells[c][k]).found
    BY <1>2 DEF Descending
  <2> QED
    BY <1>2, <1>3, <1>5, <1>6, <2>1 DEF ReadTo, Descending
<1>8. k \in 0 .. Len(cells[c])
  BY <1>2
<1>9. ToSet(next.reads) \subseteq CleanIn(w) \cup {d}
  <2> DEFINE X == ToSet(f.reads)
             Y == CleanIn(w)
             Z == ToSet(next.reads)
  <2>1. X \subseteq Cells
    <3> DEFINE s == f.reads
    <3>1. s \in Seq(Cells)
      OBVIOUS
    <3> HIDE DEF s
    <3>2. ToSet(s) \subseteq Cells
      BY <3>1, ToSetTyped
    <3> QED
      BY <3>2 DEF s
  <2>2. X \subseteq Y \cup {None} /\ Z = X \cup {d} /\ None \notin Cells
    BY <1>1, <1>4, CellPaths
  <2> HIDE DEF X, Y, Z
  <2>3. Z \subseteq Y \cup {d}
    BY <2>1, <2>2
  <2> QED
    BY <2>3 DEF Y, Z
<1>10. RunningOK(w, next, d)
  BY <1>1, <1>2, <1>7, <1>8, <1>9 DEF RunningOK, Descending
<1> QED
  BY <1>10 DEF FrameOK, Descending

\* One step of a call that evaluates its atoms.
LEMMA EvaluateSound ==
  ASSUME StateTyped, NEW w, NEW r, Sound(w), w.calls # <<>>, GoodCalls(r),
         NEW f \in Frame(TRUE, Atoms), f = Head(w.calls), EvaluateStep(w, r, f)
  PROVE  Sound(r)
<1> DEFINE c == f.cell
           atom == Head(f.left)
           at == Resolved(c, atom)
<1>1. CallsTyped(w) /\ StackOK(w) /\ EngineTyped(w.memo, w.pending, w.dirty)
  BY DEF Sound, GoodCalls, EngineInv
<1>2. f \in Frames /\ c \in Cells /\ f = w.calls[1] /\ c = w.calls[1].cell /\ f.running
        /\ FrameOK(w, f, None)
  BY <1>1, TopOf DEF Frame
<1>3. RunningOK(w, f, None)
  BY <1>2 DEF FrameOK
<1>4. CASE Stopped(w, r, c)
  <2> HIDE DEF c
  <2> QED
    BY <1>2, <1>4, StoppedSound
<1>5. CASE /\ f.fail \notin Stops /\ (f.left = <<>> \/ f.fail # "")
           /\ RanHere(w, r, c, IF f.fail = "" THEN "value" ELSE f.fail, f)
  <2> DEFINE kind == IF f.fail = "" THEN "value" ELSE f.fail
  <2>1. f.val \in Seq(Texts) /\ f.obs \subseteq Queries /\ f.reads \in Seq(Cells)
          /\ f.fail \in {""} \cup Failures \cup Stops
    BY DEF Frame
  <2>2. kind \in Kinds
    BY <1>5, <2>1 DEF Kinds
  <2>3. kind = "value" => f.fail = "" /\ f.left = <<>>
    <3>1. "value" \notin Failures
      BY DEF Failures
    <3> QED
      BY <1>5, <2>1, <3>1
  <2>4. kind = "value" => Grounds(w.memo, w.dirty, c, f.obs, f.reads, f.val)
    BY <1>3, <2>3, GroundsOf
  <2>5. MustRun(w, c)
    BY <1>3 DEF RunningOK
  <2>6. RanHere(w, r, c, kind, f)
    BY <1>5
  <2> HIDE DEF c, kind
  <2> QED
    BY <1>2, <2>1, <2>2, <2>4, <2>5, <2>6, RanSound
<1>6. ASSUME f.left # <<>>
      PROVE  /\ Seen(f) \in Frame(TRUE, Atoms)
             /\ Seen(f).cell = f.cell /\ Seen(f).left = Tail(f.left)
             /\ Seen(f).val = f.val /\ Seen(f).fail = f.fail
             /\ Seen(f).obs = f.obs \cup at.obs
             /\ Seen(f).reads = IF at.found = None THEN f.reads ELSE Append(f.reads, at.found)
             /\ at.found \in Cells \cup {None} /\ atom \in Atoms
  BY <1>6, SeenTyped
<1>7. ASSUME NEW next \in Frames, next.cell = c, Replaced(w, r, next), FrameOK(w, next, None)
      PROVE  Sound(r)
  <2>1. next.cell = w.calls[1].cell
    BY <1>2, <1>7
  <2> QED
    BY <1>7, <2>1, ReplacedSound
<1>8. CASE f.left # <<>> /\ f.fail = ""
             /\ \E x \in {"failed", "cycle"} : Replaced(w, r, [Seen(f) EXCEPT !.fail = x])
  <2> PICK x \in {"failed", "cycle"} : Replaced(w, r, [Seen(f) EXCEPT !.fail = x])
    BY <1>8
  <2> DEFINE next == [Seen(f) EXCEPT !.fail = x]
  <2>1. next \in Frames /\ next.cell = c /\ next.running /\ next.fail # ""
          /\ next.left = Tail(f.left)
    BY <1>6, <1>8 DEF Frame, Frames, Failures
  <2>2. Replaced(w, r, next)
    OBVIOUS
  <2> HIDE DEF next
  <2>3. PICK i : Looked(w, f, next, i)
    BY <1>3, <1>8, <2>1, LookedAt
  <2>4. Reading(w, f, i)
    BY <2>3 DEF Looked
  <2>5. FrameOK(w, next, None)
    BY <1>3, <1>8, <2>1, <2>3, <2>4, FailedOK
  <2> QED
    BY <1>7, <2>1, <2>2, <2>5
<1>9. CASE f.left # <<>> /\ f.fail = "" /\ Replaced(w, r, [f EXCEPT !.fail = "exhausted"])
  <2> DEFINE next == [f EXCEPT !.fail = "exhausted"]
  <2>1. next \in Frames /\ next.cell = c /\ next.running /\ next.fail # ""
          /\ next.left = f.left
    BY DEF Frame, Frames, Stops
  <2>2. Replaced(w, r, next)
    BY <1>9
  <2> HIDE DEF next
  <2>3. f.cell \in DOMAIN cells
    BY <1>3, <1>9 DEF RunningOK
  <2>4. PICK i : Reading(w, f, i)
    BY <1>3, <1>9, <2>3, ReadingOf
  <2>5. FrameOK(w, next, None)
    BY <1>3, <1>9, <2>1, <2>4, FailedOK
  <2> QED
    BY <1>7, <2>1, <2>2, <2>5
<1>10. CASE /\ f.left # <<>> /\ f.fail = "" /\ atom.kind # "fail" /\ at.found = None
            /\ Replaced(w, r, [Seen(f) EXCEPT !.val = @ \o ImmediateValue(c, atom)])
  <2> DEFINE val == Seen(f).val \o ImmediateValue(c, atom)
             next == [Seen(f) EXCEPT !.val = val]
  <2>1. val \in Seq(Texts)
    <3>1. Seen(f).val \in Seq(Texts)
      BY <1>6, <1>10 DEF Frame
    <3>2. ImmediateValue(c, atom) \in Seq(Texts)
      BY <1>2, <1>6, <1>10, ImmediateTyped DEF StateTyped
    <3> QED
      BY <3>1, <3>2
  <2>2. Replaced(w, r, next)
    BY <1>10
  <2>3. val = f.val \o ImmediateValue(c, atom)
    BY <1>6, <1>10
  <2> HIDE DEF val
  <2>4. next \in Frames /\ next.cell = c /\ next.running /\ next.fail = ""
          /\ next.left = Tail(f.left) /\ next.val = val
          /\ next.obs = Seen(f).obs /\ next.reads = Seen(f).reads
    BY <1>6, <1>10, <2>1 DEF Frame, Frames
  <2> HIDE DEF next
  <2>5. PICK i : Looked(w, f, next, i)
    BY <1>3, <1>10, <2>4, LookedAt
  <2>6. next.obs = f.obs \cup at.obs /\ next.reads = f.reads
    BY <1>6, <1>10, <2>4
  <2>7. Valued(f, next)
    BY <1>10, <2>3, <2>4, <2>6 DEF Valued
  <2>8. FrameOK(w, next, None)
    BY <1>1, <1>2, <1>3, <1>10, <2>5, <2>7, ValueOK
  <2> QED
    BY <1>7, <2>2, <2>4, <2>8
<1>11. CASE /\ f.left # <<>> /\ f.fail = "" /\ atom.kind # "fail" /\ at.found # None
            /\ at.found \notin Active(w) /\ Descended(w, r, Seen(f), at.found)
  <2> DEFINE next == Seen(f)
             d == at.found
  <2>1. /\ next \in Frames /\ next.cell = f.cell /\ next.running /\ next.fail = ""
        /\ next.left = Tail(f.left)
    BY <1>6, <1>11 DEF Frame, Frames
  <2>2. d \in Cells
    BY <1>6, <1>11
  <2>8. Descending(f, next, d)
    BY <1>6, <1>11, <2>1 DEF Descending
  <2>3. d \notin Active(w) /\ Descended(w, r, next, d)
    BY <1>11
  <2>4. f.reads \in Seq(Cells)
    BY DEF Frame
  <2> HIDE DEF next, d
  <2>5. PICK i : Looked(w, f, next, i)
    BY <1>3, <1>11, <2>1, LookedAt
  <2>6. FrameOK(w, next, d)
    BY <1>2, <1>3, <1>11, <2>2, <2>4, <2>5, <2>8, DescendOK
  <2>7. next.cell = w.calls[1].cell
    BY <1>2, <2>1
  <2> QED
    BY <2>1, <2>2, <2>3, <2>6, <2>7, DescendedSound
<1> QED
  BY <1>4, <1>5, <1>8, <1>9, <1>10, <1>11 DEF EvaluateStep

\* Every step of a verification keeps the engine and its calls sound.
LEMMA StepSound ==
  ASSUME StateTyped, NEW w, NEW request, Sound(w), w.calls # <<>>
  PROVE  Sound(GoOn(w, request))
<1> DEFINE r == GoOn(w, request)
           f == Head(w.calls)
<1>1. GoodCalls(w) /\ CallsTyped(w) /\ StackOK(w) /\ IsWork(w)
  BY DEF Sound, GoodCalls, GoodWork, WorkTyped
<1>2. GoodCalls(r)
  BY <1>1, StepGood
<1>3. f \in Frames
  BY <1>1, TopOf
<1>4. f.running \in BOOLEAN
  BY <1>3 DEF Frames, Frame
<1>5. StepOf(w, r)
  BY <1>1, <1>4, GoOnOf
<1> HIDE DEF r, f
<1>6. CASE f.running
  <2>1. f \in Frame(TRUE, Atoms)
    BY <1>3, <1>6 DEF Frames, Frame
  <2>2. EvaluateStep(w, r, f)
    BY <1>5, <1>6 DEF StepOf, f
  <2>3. f = Head(w.calls)
    BY DEF f
  <2>4. Sound(r)
    BY <1>2, <2>1, <2>2, <2>3, EvaluateSound
  <2> QED
    BY <2>4 DEF r
<1>7. CASE ~ f.running
  <2>1. f \in Frame(FALSE, Cells)
    BY <1>3, <1>7 DEF Frames, Frame
  <2>2. VerifyStep(w, r, f)
    BY <1>5, <1>7 DEF StepOf, f
  <2>3. f = Head(w.calls)
    BY DEF f
  <2>4. Sound(r)
    BY <1>2, <2>1, <2>2, <2>3, VerifySound
  <2> QED
    BY <2>4 DEF r
<1> QED
  BY <1>6, <1>7

----------------------------------------------------------------------------
(***************************************************************************)
(* A whole request leaves what the engine holds sound.                     *)
(***************************************************************************)
Healthy(w) == EngineInv(w.memo, w.pending, w.dirty)

LEMMA VerificationOK ==
  ASSUME NEW v, Healthy(v), NEW w, EngineKept(v, w), NEW d \in Cells
  PROVE  FrameOK(w, Verification(v, d), None)
<1> DEFINE top == Verification(v, d)
<1>1. top.cell = d /\ ~ top.running
        /\ top.left = IF MustRun(v, d) \/ d \notin v.dirty THEN <<>> ELSE v.memo[d].reads
  BY DEF Verification
<1>2. /\ w.memo = v.memo /\ w.dirty = v.dirty
      /\ CleanIn(w) = CleanIn(v) /\ (MustRun(w, d) <=> MustRun(v, d))
  BY DEF EngineKept, CleanIn, MustRun
<1> HIDE DEF top
<1>3. top.left # <<>> => d \in w.dirty
  BY <1>1, <1>2
<1>4. ASSUME ~ MustRun(w, d), w.memo[d].out.kind = "value"
      PROVE  ToSet(w.memo[d].reads) \subseteq ToSet(top.left) \cup CleanIn(w) \cup {None}
  <2>1. CASE d \in v.dirty
    BY <1>1, <1>2, <1>4, <2>1
  <2>2. CASE d \notin v.dirty
    <3>1. d \in Clean(v.memo, v.dirty)
      BY <1>2, <1>4, <2>2 DEF Clean
    <3>2. ToSet(v.memo[d].reads) \subseteq CleanIn(v)
      BY <3>1 DEF Healthy, EngineInv, CleanClosed, CleanIn
    <3> QED
      BY <1>2, <3>2
  <2> QED
    BY <2>1, <2>2
<1>5. VerifyingOK(w, top, None)
  BY <1>1, <1>3, <1>4 DEF VerifyingOK
<1> QED
  BY <1>1, <1>5 DEF FrameOK, top

\* All the steps of a verification, from a sound engine.
LEMMA VerificationSound ==
  ASSUME StateTyped, NEW w, NEW root \in Cells, NEW request, GoodWork(w), Healthy(w)
  PROVE  \A k \in Nat : k <= MaxCalls => Sound(Steps(w, root, request)[k])
<1>0. MaxCalls \in Nat
  BY CalculatorAssumption
<1>1. Sound(Begin(w, root))
  <2> DEFINE v == [w EXCEPT !.calls = <<>>]
  <2>1. /\ IsWork(v) /\ EngineKept(w, v) /\ v.calls = <<>>
    BY DEF GoodWork, WorkTyped, IsWork, WorkFields, EngineKept
  <2> DEFINE top == Verification(v, root)
             new == <<top>> \o v.calls
             out == v.memo[root].out
             r == [v EXCEPT !.calls = new, !.out = out]
  <2>2. Begin(w, root) = r
    BY DEF Begin, Verify
  <2>3. GoodCalls(r)
    BY <2>2, VerificationGood
  <2> HIDE DEF v, out, new
  <2>4. EngineKept(v, r) /\ r.calls = new
    BY <2>1 DEF IsWork, WorkFields, EngineKept
  <2>5. Healthy(v) /\ Healthy(r)
    BY <2>1, <2>4 DEF Healthy, EngineKept
  <2> HIDE DEF r
  <2>6. FrameOK(r, top, None)
    BY <2>4, <2>5, VerificationOK
  <2>7. Len(new) = 1 /\ new[1] = top
    BY <2>1 DEF new
  <2> HIDE DEF top
  <2>8. StackOK(r)
    <3>1. r.calls = new /\ 1 .. Len(new) = {1}
      BY <2>4, <2>7
    <3>2. Above(new, 1) = None
      BY DEF Above
    <3>3. Distinct(new)
      BY <3>1 DEF Distinct
    <3>4. \A i \in 1 .. Len(new) : i = 1
      BY <3>1
    <3>5. \A i \in 1 .. Len(new) : FrameOK(r, new[i], Above(new, i))
      BY <2>6, <2>7, <3>2, <3>4
    <3> QED
      BY <3>1, <3>3, <3>5 DEF StackOK
  <2> QED
    BY <2>2, <2>3, <2>5, <2>8 DEF Sound, Healthy
<1> DEFINE s == Steps(w, root, request)
           T == {k \in Nat : k <= MaxCalls => Sound(s[k])}
<1>2. 0 \in T
  BY <1>1, StepsAt
<1>3. ASSUME NEW k \in Nat, k \in T PROVE k + 1 \in T
  <2> SUFFICES ASSUME k + 1 <= MaxCalls PROVE Sound(s[k + 1])
    OBVIOUS
  <2>1. s[k + 1] = Continued(s[k], request)
    BY StepsAt
  <2>2. Sound(s[k])
    BY <1>0, <1>3
  <2> DEFINE v == s[k]
  <2> HIDE DEF s, v
  <2>3. Sound(v)
    BY <2>2 DEF v
  <2>4. CASE v.calls = <<>>
    BY <2>1, <2>3, <2>4 DEF Continued, v
  <2>5. CASE v.calls # <<>>
    <3>1. Sound(GoOn(v, request))
      BY <2>3, <2>5, StepSound
    <3> QED
      BY <2>1, <2>5, <3>1 DEF Continued, v
  <2> QED
    BY <2>4, <2>5
<1> HIDE DEF T, s
<1>4. \A k \in Nat : k \in T
  BY <1>2, <1>3, SetInduction
<1> QED
  BY <1>4 DEF T, s

LEMMA VerifiedHealthy ==
  ASSUME StateTyped, NEW w, NEW root \in Cells, NEW request, GoodWork(w), Healthy(w)
  PROVE  Healthy(Verified(w, root, request))
<1> DEFINE done == Steps(w, root, request)[MaxCalls]
<1>0. MaxCalls \in Nat /\ MaxCalls <= MaxCalls
  BY CalculatorAssumption
<1>1. Sound(done)
  BY <1>0, VerificationSound
<1>2. Healthy(done) /\ IsWork(done)
  BY <1>1 DEF Sound, Healthy, GoodCalls, GoodWork, WorkTyped
<1>3. CASE done.calls = <<>>
  BY <1>2, <1>3 DEF Verified
<1>4. CASE done.calls # <<>>
  <2> DEFINE out == Outcome("unfinished", <<>>)
             r == [done EXCEPT !.out = out]
  <2>1. Verified(w, root, request) = r
    BY <1>4 DEF Verified
  <2> HIDE DEF done, out
  <2>2. r.memo = done.memo /\ r.pending = done.pending /\ r.dirty = done.dirty
    BY <1>2 DEF IsWork, WorkFields
  <2> HIDE DEF r
  <2> QED
    BY <1>2, <2>1, <2>2 DEF Healthy
<1> QED
  BY <1>3, <1>4

LEMMA InvalidatingHealthy ==
  ASSUME NEW w, Healthy(w), NEW r, NEW Q, Invalidating(w, r, Q)
  PROVE  Healthy(r)
<1> DEFINE m == w.memo
           p == w.pending
           d == w.dirty
           q == r.pending
           f == r.dirty
<1>1. EngineInv(m, p, d) /\ InvalidTo(m, p, d, Q, q, f) /\ r.memo = m
  BY DEF Healthy, Invalidating, InvalidTo
<1> HIDE DEF m, p, d, q, f
<1>2. EngineTyped(m, p, d) /\ p \subseteq d /\ CleanClosed(m, d) /\ CleanGrounded(m, d)
        /\ ValuesSupported(Read, m, p)
  BY <1>1 DEF EngineInv
<1>3. EngineTyped(m, q, f) /\ q \subseteq f /\ CleanClosed(m, f) /\ CleanGrounded(m, f)
  BY <1>1, <1>2, InvalidEngine
<1>4. ValuesSupported(Read, m, q)
  BY <1>1, <1>2 DEF ValuesSupported, InvalidTo
<1> QED
  BY <1>1, <1>3, <1>4 DEF Healthy, EngineInv, m, q, f

LEMMA ExecuteRootHealthy ==
  ASSUME StateTyped, NEW w, Ready(w), Healthy(w), NEW key \in Cells, NEW root,
         NEW request, NEW limit
  PROVE  Healthy(ExecuteRoot(w, key, root, request, limit))
<1> DEFINE fuel == Fuel(key, limit)
           begun == [w EXCEPT !.fuel = fuel, !.attempts = <<>>, !.out = Unknown]
           v == IF root \in registered THEN Verified(begun, root, request) ELSE begun
<1>1. ExecuteRoot(w, key, root, request, limit) = Concluded(v, key, root)
  BY DEF ExecuteRoot
<1> HIDE DEF fuel
<1>2. /\ IsWork(begun) /\ EngineKept(w, begun) /\ begun.attempts = <<>> /\ begun.out = Unknown
  BY DEF Ready, IsWork, WorkFields, EngineKept
<1> HIDE DEF begun
<1>3. GoodWork(begun) /\ Healthy(begun)
  <2>1. Unknown \in Results /\ <<>> \in Seq(Attempts)
    BY EmptySeq DEF Unknown, Outcome, Results, Stops
  <2> QED
    BY <1>2, <2>1 DEF Ready, GoodWork, WorkTyped, BlockedMarked, BlockedPending, EngineKept, Healthy
<1>4. Returning(v) /\ Healthy(v)
  <2>1. CASE root \in registered
    <3>1. root \in Cells
      BY <2>1 DEF StateTyped
    <3> QED
      BY <1>3, <2>1, <3>1, VerifiedGood, VerifiedHealthy
  <2>2. CASE root \notin registered
    BY <1>3, <2>2 DEF GoodWork, WorkTyped, Returning
  <2> QED
    BY <2>1, <2>2
<1> HIDE DEF v
<1>5. PICK Q : Invalidating(v, Concluded(v, key, root), Q)
  BY <1>4, ConcludedFields
<1> QED
  BY <1>1, <1>4, <1>5, InvalidatingHealthy

LEMMA DirectedHealthy ==
  ASSUME StateTyped, NEW roots, NEW request, NEW limit, NEW w, Ready(w), Healthy(w),
         NEW c \in Cells
  PROVE  Healthy(Directed(roots, request, limit, w, c))
<1>1. CASE c \notin roots \/ w.halted
  BY <1>1 DEF Directed
<1>2. CASE ~ (c \notin roots \/ w.halted)
  <2> DEFINE v == ExecuteRoot(w, c, c, request, limit)
             h == /\ v.out.kind # "value"
                  /\ EffectivePolicy(calc_policies, c)["error_mode"] = "fail-fast"
             r == [v EXCEPT !.halted = h]
  <2>1. Directed(roots, request, limit, w, c) = r
    BY <1>2 DEF Directed, FailingFast
  <2>2. Ready(v) /\ Healthy(v)
    BY ExecuteRootReady, ExecuteRootHealthy
  <2> HIDE DEF v, h
  <2>3. EngineKept(v, r)
    BY <2>2 DEF Ready, IsWork, WorkFields, EngineKept
  <2> HIDE DEF r
  <2>4. Healthy(r)
    BY <2>2, <2>3 DEF Healthy, EngineKept
  <2> QED
    BY <2>1, <2>4
<1> QED
  BY <1>1, <1>2

LEMMA RootsHealthy ==
  ASSUME StateTyped, NEW roots, NEW request, NEW limit, NEW start, Ready(start),
         Healthy(start)
  PROVE  Healthy(RootsUpTo(roots, request, limit, start)[Len(CellOrder)])
<1> DEFINE n == Len(CellOrder)
           s == RootsUpTo(roots, request, limit, start)
           T == {k \in Nat : k <= n => Ready(s[k]) /\ Healthy(s[k])}
<1>0. n \in Nat /\ \A k \in 1 .. n : CellOrder[k] \in Cells
  BY CalculatorAssumption
<1>1. 0 \in T
  BY RootsAt
<1>2. ASSUME NEW k \in Nat, k \in T PROVE k + 1 \in T
  <2> SUFFICES ASSUME k + 1 <= n PROVE Ready(s[k + 1]) /\ Healthy(s[k + 1])
    OBVIOUS
  <2>1. s[k + 1] = Directed(roots, request, limit, s[k], CellOrder[k + 1])
    BY RootsAt
  <2>2. Ready(s[k]) /\ Healthy(s[k])
    BY <1>0, <1>2
  <2>3. CellOrder[k + 1] \in Cells
    BY <1>0
  <2> DEFINE v == s[k]
             c == CellOrder[k + 1]
  <2> HIDE DEF s, v, c
  <2>4. Ready(v) /\ Healthy(v) /\ c \in Cells
    BY <2>2, <2>3 DEF v, c
  <2>5. Ready(Directed(roots, request, limit, v, c)) /\ Healthy(Directed(roots, request, limit, v, c))
    BY <2>4, DirectedReady, DirectedHealthy
  <2> QED
    BY <2>1, <2>5 DEF v, c
<1> HIDE DEF T, s
<1>3. n \in T
  BY <1>0, <1>1, <1>2, SetInduction
<1>4. n <= n
  BY <1>0
<1> QED
  BY <1>3, <1>4 DEF T, s

\* A request commits an engine that is sound for the sources as they are.
LEMMA RequestHealthy ==
  ASSUME StateTyped, EngineReady, EngineInv(memo, pending, dirty), Request
  PROVE  \E w : Commit(w) /\ Healthy(w)
<1>0. Ready(Start) /\ Healthy(Start)
  <2>1. Start.memo = memo /\ Start.pending = pending /\ Start.dirty = dirty
    BY DEF Start
  <2> QED
    BY <2>1, StartReady DEF Healthy
<1>1. ASSUME NEW roots, NEW mode, NEW limit, Calculate(roots, mode, limit)
      PROVE  \E w : Commit(w) /\ Healthy(w)
  <2> DEFINE Q == {<<"force", c>> : c \in Forced(roots, mode)}
             start == Invalidated(Start, Q)
             request == [automatic |-> FALSE, directed |-> roots \cup Forced(roots, mode)]
             w == RootsUpTo(roots, request, limit, start)[Len(CellOrder)]
  <2>1. PICK x \in Numbered(w) : Commit(x)
    BY <1>1 DEF Calculate
  <2> HIDE DEF Q, request
  <2>2. IsWork(start) /\ Invalidating(Start, start, Q)
    BY <1>0, InvalidatedFields DEF Ready
  <2> HIDE DEF start
  <2>3. Ready(start)
    <3>1. EngineTyped(start.memo, start.pending, start.dirty)
      BY <1>0, <2>2, InvalidatingTyped DEF Ready
    <3>2. BlockedPending(start.memo, start.pending)
      BY <1>0, <2>2 DEF Ready, BlockedPending, Invalidating
    <3> QED
      BY <2>2, <3>1, <3>2 DEF Ready
  <2>4. Healthy(start)
    BY <1>0, <2>2, InvalidatingHealthy
  <2>5. Ready(w) /\ Healthy(w)
    BY <2>3, <2>4, RootsReady, RootsHealthy
  <2> HIDE DEF w
  <2>6. Healthy(x)
    BY <2>5, NumberedFields DEF Ready, Healthy, EngineKept
  <2> QED
    BY <2>1, <2>6
<1>2. ASSUME NEW c \in Cells, NEW limit, RunAutomatic(c, limit)
      PROVE  \E w : Commit(w) /\ Healthy(w)
  <2> DEFINE q == Without(queue, {c})
             left == IF queue[c] \in DOMAIN tokens THEN restored_continuations
                     ELSE restored_continuations \ {queue[c]}
             toks == Without(tokens, {queue[c]})
             begun == [Start EXCEPT !.queue = q, !.tokens = toks, !.restored = left]
             request == [automatic |-> TRUE, directed |-> {}]
             root == QueuedRoot(c)
             v == ExecuteRoot(begun, c, root, request, limit)
  <2>1. PICK w \in Requeued(v, c, root) : Commit(w)
    BY <1>2 DEF RunAutomatic, Start
  <2> HIDE DEF q, toks, left, request, root
  <2>2. IsWork(begun) /\ EngineKept(Start, begun)
    BY <1>0 DEF Ready, IsWork, WorkFields, EngineKept
  <2> HIDE DEF begun
  <2>3. Ready(begun) /\ Healthy(begun)
    BY <1>0, <2>2 DEF Ready, EngineKept, Healthy
  <2>4. Ready(v) /\ Healthy(v)
    BY <2>3, ExecuteRootReady, ExecuteRootHealthy
  <2> HIDE DEF v
  <2>5. Healthy(w)
    BY <2>4, RequeuedFields DEF Ready, Healthy, EngineKept
  <2> QED
    BY <2>1, <2>5
<1> QED
  BY <1>1, <1>2 DEF Request

----------------------------------------------------------------------------
(***************************************************************************)
(* What a memo says outlives an edit that did not invalidate it.           *)
(***************************************************************************)
\* Whatever an edit changes, it names in the queries it invalidates.
Announced(Q) ==
  /\ \A c \in DOMAIN cells' : \/ {<<"cell", c>>, <<"authority", c>>} \cap Q # {}
                              \/ /\ c \in DOMAIN cells /\ cells'[c] = cells[c]
                                 /\ Full!Capable(c) => Full!Capable(c)'
  /\ \A p : (p \in DOMAIN cells) # (p \in DOMAIN cells') => <<"list", ParentPath(p)>> \in Q
  /\ \A c \in DOMAIN cells : c \in DOMAIN cells' \/ <<"cell", c>> \in Q
  /\ \A n : \/ (n \in DOMAIN bound) # (n \in DOMAIN bound')
            \/ n \in DOMAIN bound /\ bound[n] # bound'[n]
          => <<"lexical", <<n>>>> \in Q
  /\ \A c \in Cells : \/ <<"cell", c>> \in Q
                      \/ \A n : MayBe(ahead, Since(c), c, n) => MayBe(ahead, Since(c), c, n)'

Unobserved(c, Q) == (memo[c].obs \cup RuntimeContext(c)) \cap Q = {}

\* An atom whose lookups observed no invalidated query means what it meant.
LEMMA AtomStillSeen ==
  ASSUME NEW Q, Announced(Q), NEW c \in Cells, Unobserved(c, Q), memo' = memo,
         NEW atom \in Atoms, AtomSeen(c, atom, memo[c].obs, memo[c].reads), NEW n
  PROVE  /\ AtomSeen(c, atom, memo[c].obs, memo[c].reads)'
         /\ Piece(memo, c, atom, n)' = Piece(memo, c, atom, n)
<1>1. Watched(Resolved(c, atom)) \cap Q = {}
  BY DEF AtomSeen, Unobserved
<1>2. Unwatched(c, atom, DOMAIN cells, DOMAIN cells')
  <2> SUFFICES ASSUME NEW p, (p \in DOMAIN cells) # (p \in DOMAIN cells'),
                      <<"list", ParentPath(p)>> \in Resolved(c, atom).obs
               PROVE  FALSE
    BY DEF Unwatched
  <2>1. <<"list", ParentPath(p)>> \in Q
    BY DEF Announced
  <2>2. <<"list", ParentPath(p)>> \in Watched(Resolved(c, atom))
    BY DEF Watched
  <2> QED
    BY <1>1, <2>1, <2>2
<1>3. UnwatchedNames(c, atom, bound')
  <2> SUFFICES ASSUME NEW x, \/ (x \in DOMAIN bound) # (x \in DOMAIN bound')
                             \/ x \in DOMAIN bound /\ bound[x] # bound'[x],
                      <<"lexical", <<x>>>> \in Resolved(c, atom).obs
               PROVE  FALSE
    BY DEF UnwatchedNames
  <2>1. <<"lexical", <<x>>>> \in Q
    BY DEF Announced
  <2>2. <<"lexical", <<x>>>> \in Watched(Resolved(c, atom))
    BY DEF Watched
  <2> QED
    BY <1>1, <2>1, <2>2
<1>4. /\ (Resolved(c, atom).found)' = Resolved(c, atom).found
      /\ Watched(Resolved(c, atom))' \subseteq Watched(Resolved(c, atom))
      /\ atom.kind # "ext" => ImmediateValue(c, atom)' = ImmediateValue(c, atom)
  BY <1>2, <1>3, AtomStable
<1>5. AtomSeen(c, atom, memo[c].obs, memo[c].reads)'
  BY <1>4 DEF AtomSeen
<1>6. Piece(memo, c, atom, n)' = Piece(memo, c, atom, n)
  BY <1>4 DEF Piece
<1> QED
  BY <1>5, <1>6

\* A memo that observed no invalidated query is supported as before.
LEMMA StillSupported ==
  ASSUME SourcesTyped, NEW Q, Announced(Q), NEW c \in Cells, Unobserved(c, Q), memo' = memo,
         NEW n, Supported(memo, c, n)
  PROVE  Supported(memo, c, n)'
<1>1. \A x \in ToSet(memo'[c].reads) : memo'[x].out.kind = "value"
  BY DEF Supported
<1>2. ASSUME c \in DOMAIN cells'
      PROVE  /\ Full!Capable(c)'
             /\ \A k \in DOMAIN cells'[c] : AtomSeen(c, cells[c][k], memo[c].obs, memo[c].reads)'
             /\ memo'[c].out.val = FlattenSeq(Pieces(memo, c, n, Len(cells[c])))'
  <2>1. {<<"cell", c>>, <<"authority", c>>} \cap Q = {}
    BY DEF Unobserved, RuntimeContext
  <2>2. c \in DOMAIN cells /\ cells'[c] = cells[c] /\ (Full!Capable(c) => Full!Capable(c)')
    BY <1>2, <2>1 DEF Announced
  <2>3. /\ Full!Capable(c)
        /\ \A k \in DOMAIN cells[c] : AtomSeen(c, cells[c][k], memo[c].obs, memo[c].reads)
        /\ memo[c].out.val = FlattenSeq(Pieces(memo, c, n, Len(cells[c])))
    BY <2>2 DEF Supported
  <2>4. ASSUME NEW k \in DOMAIN cells[c]
        PROVE  /\ AtomSeen(c, cells[c][k], memo[c].obs, memo[c].reads)'
               /\ Piece(memo, c, cells[c][k], n)' = Piece(memo, c, cells[c][k], n)
    <3> DEFINE atom == cells[c][k]
    <3>1. atom \in Atoms
      BY <2>2, <2>4 DEF SourcesTyped
    <3>2. atom' = atom
      BY <2>2
    <3>3. AtomSeen(c, atom, memo[c].obs, memo[c].reads)
      BY <2>3, <2>4
    <3>4. PICK a : a = atom
      OBVIOUS
    <3>5. a \in Atoms /\ AtomSeen(c, a, memo[c].obs, memo[c].reads)
      BY <3>1, <3>3, <3>4
    <3>6. /\ AtomSeen(c, a, memo[c].obs, memo[c].reads)'
          /\ Piece(memo, c, a, n)' = Piece(memo, c, a, n)
      BY <3>5, AtomStillSeen
    <3>7. a = atom'
      BY <3>2, <3>4
    <3> HIDE DEF atom
    <3>8. AtomSeen(c, atom, memo[c].obs, memo[c].reads)'
      BY <3>6, <3>7
    <3>9. Piece(memo, c, atom, n)' = Piece(memo, c, atom, n)
      BY <3>4, <3>6, <3>7
    <3> QED
      BY <3>8, <3>9 DEF atom
  <2>5. DOMAIN cells[c] = 1 .. Len(cells[c])
    BY <2>2 DEF SourcesTyped
  <2>6. Pieces(memo, c, n, Len(cells[c]))' = Pieces(memo, c, n, Len(cells[c]))
    BY <2>2, <2>4, <2>5 DEF Pieces
  <2> QED
    BY <2>2, <2>3, <2>4, <2>6
<1>3. ASSUME c \notin DOMAIN cells' PROVE memo'[c].out.val = <<"missing">>
  <2>1. c \notin DOMAIN cells
    BY <1>3 DEF Announced, Unobserved, RuntimeContext
  <2> QED
    BY <2>1 DEF Supported
<1> QED
  BY <1>1, <1>2, <1>3 DEF Supported

\* A memo that stays valid was supported by a stamp that it may still have read.
LEMMA StillValued ==
  ASSUME SourcesTyped, NEW Q, Announced(Q), memo' = memo, ValuesSupported(ahead, memo, pending),
         pending \cup Observers(memo, Q) \subseteq pending'
  PROVE  ValuesSupported(ahead, memo, pending)'
<1> SUFFICES ASSUME NEW c \in Cells, c \notin pending', memo'[c].out.kind = "value"
             PROVE  \E n : MayBe(ahead, Since(c), c, n)' /\ Supported(memo, c, n)'
  BY DEF ValuesSupported
<1>1. memo[c].out.kind = "value" /\ c \notin pending /\ c \notin Observers(memo, Q)
  OBVIOUS
<1>2. memo[c] # NoMemo
  BY <1>1 DEF NoMemo, Unknown, Outcome
<1>3. <<"cell", c>> \notin Q /\ Unobserved(c, Q)
  BY <1>1, <1>2 DEF Observers, Unobserved
<1>4. PICK n : MayBe(ahead, Since(c), c, n) /\ Supported(memo, c, n)
  BY <1>1 DEF ValuesSupported
<1>5. MayBe(ahead, Since(c), c, n)'
  BY <1>3, <1>4 DEF Announced
<1> QED
  BY <1>3, <1>4, <1>5, StillSupported

\* Between requests: what EngineInv says, though only what was read past the last
\* refresh may have another stamp than that one saw.
AllSound ==
  /\ EngineTyped(memo, pending, dirty)
  /\ pending \subseteq dirty
  /\ ValuesSupported(ahead, memo, pending)
  /\ CleanClosed(memo, dirty)
  /\ CleanGrounded(memo, dirty)

LEMMA SoundHealthy ==
  ASSUME AllSound
  PROVE  EngineInv(memo, pending, dirty)
<1>1. ahead \subseteq Read
  BY DEF Read
<1>2. ValuesSupported(Read, memo, pending)
  BY <1>1 DEF AllSound, ValuesSupported, MayBe
<1> QED
  BY <1>2 DEF AllSound, EngineInv

\* An edit that announces what it changes keeps the engine sound.
LEMMA StillSound ==
  ASSUME SourcesTyped, NEW Q, Announced(Q), memo' = memo, Invalidate(Q), AllSound
  PROVE  AllSound'
<1>1. InvalidTo(memo, pending, dirty, Q, pending', dirty')
  BY DEF Invalidate, InvalidTo
<1>2. /\ EngineTyped(memo, pending', dirty') /\ pending' \subseteq dirty'
      /\ CleanClosed(memo, dirty') /\ CleanGrounded(memo, dirty')
  BY <1>1, InvalidEngine DEF AllSound
<1>3. ValuesSupported(ahead, memo, pending)'
  BY <1>1, StillValued DEF AllSound, InvalidTo
<1>4. EngineTyped(memo, pending, dirty)' /\ CleanClosed(memo, dirty)' /\ CleanGrounded(memo, dirty)'
  BY <1>2 DEF EngineTyped, CleanClosed, CleanGrounded, Clean
<1> QED
  BY <1>2, <1>3, <1>4 DEF AllSound

\* The engine as it was.
LEMMA StillTheSame ==
  ASSUME SourcesTyped, Announced({}), memo' = memo, pending' = pending, dirty' = dirty, AllSound
  PROVE  AllSound'
<1>1. Observers(memo, {}) = {}
  BY DEF Observers
<1>2. ValuesSupported(ahead, memo, pending)'
  BY <1>1, StillValued DEF AllSound
<1>3. EngineTyped(memo, pending, dirty)' /\ CleanClosed(memo, dirty)' /\ CleanGrounded(memo, dirty)'
  BY DEF AllSound, EngineTyped, CleanClosed, CleanGrounded, Clean
<1> QED
  BY <1>2, <1>3 DEF AllSound

----------------------------------------------------------------------------
(***************************************************************************)
(* Edits of sources, bindings and policies.                                *)
(***************************************************************************)
LEMMA BackendsUntouched ==
  ASSUME UNCHANGED backendVars, ahead' = ahead
  PROVE  \A c \in Cells : \A n : MayBe(ahead, Since(c), c, n) => MayBe(ahead, Since(c), c, n)'
<1>1. \A c \in Cells : Since(c)' = Since(c)
  BY DEF Since, MountOf, backendVars, StampOf
<1> QED
  BY <1>1 DEF MayBe

\* An edit of sources, bindings or policies announces what it changes.
LEMMA EditStep ==
  ASSUME SourcesTyped, AllSound, NEW Q, memo' = memo, Invalidate(Q), UNCHANGED backendVars,
         ahead' = ahead,
         \A c \in DOMAIN cells' : \/ {<<"cell", c>>, <<"authority", c>>} \cap Q # {}
                                  \/ /\ c \in DOMAIN cells /\ cells'[c] = cells[c]
                                     /\ Full!Capable(c) => Full!Capable(c)',
         \A p : (p \in DOMAIN cells) # (p \in DOMAIN cells') => <<"list", ParentPath(p)>> \in Q,
         \A c \in DOMAIN cells : c \in DOMAIN cells' \/ <<"cell", c>> \in Q,
         \A n : \/ (n \in DOMAIN bound) # (n \in DOMAIN bound')
                \/ n \in DOMAIN bound /\ bound[n] # bound'[n]
              => <<"lexical", <<n>>>> \in Q
  PROVE  AllSound'
<1>1. Announced(Q)
  BY BackendsUntouched DEF Announced
<1> QED
  BY <1>1, StillSound

LEMMA SameAuthority ==
  ASSUME authority_policies' = authority_policies
  PROVE  \A c : Full!Capable(c)' <=> Full!Capable(c)
<1>1. \A c : Full!LevelsOf(c)' = Full!LevelsOf(c)
  BY DEF Full!LevelsOf, Full!TreeLevel, Full!DirLevel, Full!CellLevel
<1> QED
  BY <1>1 DEF Full!Capable

LEMMA SourceStep ==
  ASSUME SourcesTyped, AllSound, NEW Q, NEW gone, SourceEdited(Q, gone),
         \A c \in DOMAIN cells' : \/ <<"cell", c>> \in Q
                                  \/ c \in DOMAIN cells /\ cells'[c] = cells[c],
         \A p : (p \in DOMAIN cells) # (p \in DOMAIN cells') => <<"list", ParentPath(p)>> \in Q,
         \A z \in DOMAIN cells : z \in DOMAIN cells' \/ <<"cell", z>> \in Q
  PROVE  AllSound'
<1> DEFINE R == Q \cup FailedQueries
<1>1. /\ memo' = memo /\ Invalidate(R) /\ UNCHANGED backendVars /\ bound' = bound
      /\ authority_policies' = authority_policies /\ ahead' = ahead
  BY DEF SourceEdited, Quiet
<1>2. \A c : Full!Capable(c)' <=> Full!Capable(c)
  BY <1>1, SameAuthority
<1>3. Q \subseteq R
  OBVIOUS
<1> HIDE DEF R
<1>4. \A c \in DOMAIN cells' : \/ {<<"cell", c>>, <<"authority", c>>} \cap R # {}
                               \/ /\ c \in DOMAIN cells /\ cells'[c] = cells[c]
                                  /\ Full!Capable(c) => Full!Capable(c)'
  BY <1>2, <1>3
<1>5. \A p : (p \in DOMAIN cells) # (p \in DOMAIN cells') => <<"list", ParentPath(p)>> \in R
  BY <1>3
<1>6. \A c \in DOMAIN cells : c \in DOMAIN cells' \/ <<"cell", c>> \in R
  BY <1>3
<1> QED
  BY <1>1, <1>4, <1>5, <1>6, EditStep

----------------------------------------------------------------------------
\* A name that appears is found by the lookups that missed it: they observed the
\* listing of its directory.
LEMMA SetCellSound ==
  ASSUME SourcesTyped, AllSound, NEW c \in DOMAIN Sources, NEW e \in Sources[c], SetCell(c, e)
  PROVE  AllSound'
<1> DEFINE Q == SourceQueries(c, c \notin DOMAIN cells)
<1>1. cells' = [z \in DOMAIN cells \cup {c} |-> IF z = c THEN e ELSE cells[z]]
  BY DEF SetCell, With
<1>2. SourceEdited(Q, {c})
  BY DEF SetCell
<1>3. <<"cell", c>> \in Q /\ (c \notin DOMAIN cells => <<"list", ParentPath(c)>> \in Q)
  BY DEF SourceQueries
<1> HIDE DEF Q
<1>4. \A d \in DOMAIN cells' : \/ <<"cell", d>> \in Q
                               \/ d \in DOMAIN cells /\ cells'[d] = cells[d]
  BY <1>1, <1>3
<1>5. \A p : (p \in DOMAIN cells) # (p \in DOMAIN cells') => <<"list", ParentPath(p)>> \in Q
  BY <1>1, <1>3
<1>6. \A z \in DOMAIN cells : z \in DOMAIN cells' \/ <<"cell", z>> \in Q
  BY <1>1
<1> QED
  BY <1>2, <1>4, <1>5, <1>6, SourceStep

LEMMA RemoveCellSound ==
  ASSUME SourcesTyped, AllSound, NEW c \in Cells, RemoveCell(c)
  PROVE  AllSound'
<1> DEFINE Q == SourceQueries(c, TRUE)
<1>1. cells' = [z \in DOMAIN cells \ {c} |-> cells[z]]
  BY DEF RemoveCell, Without
<1>2. SourceEdited(Q, {c})
  BY DEF RemoveCell
<1>3. <<"cell", c>> \in Q /\ <<"list", ParentPath(c)>> \in Q
  BY DEF SourceQueries
<1> HIDE DEF Q
<1>4. \A d \in DOMAIN cells' : \/ <<"cell", d>> \in Q
                               \/ d \in DOMAIN cells /\ cells'[d] = cells[d]
  BY <1>1, <1>3
<1>5. \A p : (p \in DOMAIN cells) # (p \in DOMAIN cells') => <<"list", ParentPath(p)>> \in Q
  BY <1>1, <1>3
<1>6. \A z \in DOMAIN cells : z \in DOMAIN cells' \/ <<"cell", z>> \in Q
  BY <1>1, <1>3
<1> QED
  BY <1>2, <1>4, <1>5, <1>6, SourceStep

\* Both ends of a move are invalidated, and both listings.
LEMMA MoveCellSound ==
  ASSUME SourcesTyped, AllSound, NEW c \in Cells, NEW to \in Cells, MoveCell(c, to)
  PROVE  AllSound'
<1> DEFINE Q == SourceQueries(c, TRUE) \cup SourceQueries(to, TRUE)
<1>1. cells' = IF c \in DOMAIN cells THEN Without(With(cells, to, cells[c]), {c}) ELSE cells
  BY DEF MoveCell
<1>2. SourceEdited(Q, {c, to})
  BY DEF MoveCell
<1>3. /\ <<"cell", c>> \in Q /\ <<"list", ParentPath(c)>> \in Q
      /\ <<"cell", to>> \in Q /\ <<"list", ParentPath(to)>> \in Q
  BY DEF SourceQueries
<1> HIDE DEF Q
<1>4. /\ \A z : z \notin {c, to} => (z \in DOMAIN cells <=> z \in DOMAIN cells')
      /\ \A z \in DOMAIN cells' : z \notin {c, to} => cells'[z] = cells[z]
  <2>1. CASE c \in DOMAIN cells
    <3> DEFINE f == [z \in DOMAIN cells \cup {to} |-> IF z = to THEN cells[c] ELSE cells[z]]
    <3>1. cells' = [z \in DOMAIN f \ {c} |-> f[z]]
      BY <1>1, <2>1 DEF With, Without
    <3>2. /\ DOMAIN f = DOMAIN cells \cup {to}
          /\ \A z \in DOMAIN f : z # to => f[z] = cells[z]
      OBVIOUS
    <3> HIDE DEF f
    <3> QED
      BY <3>1, <3>2
  <2>2. CASE c \notin DOMAIN cells
    BY <1>1, <2>2
  <2> QED
    BY <2>1, <2>2
<1>5. \A d \in DOMAIN cells' : \/ <<"cell", d>> \in Q
                               \/ d \in DOMAIN cells /\ cells'[d] = cells[d]
  BY <1>3, <1>4
<1>6. \A p : (p \in DOMAIN cells) # (p \in DOMAIN cells') => <<"list", ParentPath(p)>> \in Q
  BY <1>3, <1>4
<1>7. \A z \in DOMAIN cells : z \in DOMAIN cells' \/ <<"cell", z>> \in Q
  BY <1>3, <1>4
<1> QED
  BY <1>2, <1>5, <1>6, <1>7, SourceStep

LEMMA BindValueSound ==
  ASSUME SourcesTyped, AllSound, NEW name \in DOMAIN Bindings, BindValue(name)
  PROVE  AllSound'
<1> DEFINE Q == {<<"lexical", <<name>>>>}
<1>1. /\ memo' = memo /\ Invalidate(Q) /\ UNCHANGED backendVars /\ cells' = cells
      /\ authority_policies' = authority_policies /\ ahead' = ahead
      /\ bound' = [z \in DOMAIN bound \cup {name} |-> IF z = name THEN Bindings[name] ELSE bound[z]]
  BY DEF BindValue, With, Quiet
<1>2. \A c : Full!Capable(c)' <=> Full!Capable(c)
  BY <1>1, SameAuthority
<1>3. <<"lexical", <<name>>>> \in Q
  OBVIOUS
<1> HIDE DEF Q
<1>4. \A c \in DOMAIN cells' : \/ {<<"cell", c>>, <<"authority", c>>} \cap Q # {}
                               \/ /\ c \in DOMAIN cells /\ cells'[c] = cells[c]
                                  /\ Full!Capable(c) => Full!Capable(c)'
  BY <1>1, <1>2
<1>5. \A n : \/ (n \in DOMAIN bound) # (n \in DOMAIN bound')
             \/ n \in DOMAIN bound /\ bound[n] # bound'[n]
           => <<"lexical", <<n>>>> \in Q
  BY <1>1, <1>3
<1> QED
  BY <1>1, <1>4, <1>5, EditStep

LEMMA PolicyStep ==
  ASSUME SourcesTyped, AllSound, NEW Q, PolicyEdited(Q),
         \A c \in DOMAIN cells : \/ <<"authority", c>> \in Q
                                 \/ Full!Capable(c) => Full!Capable(c)'
  PROVE  AllSound'
<1>1. /\ memo' = memo /\ Invalidate(Q) /\ UNCHANGED backendVars /\ cells' = cells /\ bound' = bound
      /\ ahead' = ahead
  BY DEF PolicyEdited, Quiet
<1>2. \A c \in DOMAIN cells' : \/ {<<"cell", c>>, <<"authority", c>>} \cap Q # {}
                               \/ /\ c \in DOMAIN cells /\ cells'[c] = cells[c]
                                  /\ Full!Capable(c) => Full!Capable(c)'
  BY <1>1
<1> QED
  BY <1>1, <1>2, EditStep

\* A patch reaches every cell it governs that has a source.
LEMMA PoliciesSound ==
  ASSUME StateTyped, AllSound, \/ \E x \in CalcPatches : SetCalcPolicy(x[1], x[2])
                            \/ \E x \in AuthorityPatches : SetAuthorityPolicy(x[1], x[2])
  PROVE  AllSound'
<1>0. SourcesTyped
  BY DEF StateTyped
<1>1. ASSUME NEW x \in CalcPatches, SetCalcPolicy(x[1], x[2]) PROVE AllSound'
  <2>1. authority_policies' = authority_policies
    BY <1>1 DEF SetCalcPolicy
  <2>2. \A c : Full!Capable(c)' <=> Full!Capable(c)
    BY <2>1, SameAuthority
  <2> QED
    BY <1>0, <1>1, <2>2, PolicyStep DEF SetCalcPolicy
<1>2. ASSUME NEW x \in AuthorityPatches, SetAuthorityPolicy(x[1], x[2]) PROVE AllSound'
  <2> DEFINE Q == PolicyQueries("authority", x[1])
  <2>0. x[1] \in Levels
    BY CalculatorAssumption
  <2>1. /\ authority_policies' = [authority_policies EXCEPT ![x[1]] = x[2]]
        /\ PolicyEdited(Q) /\ cells' = cells
    BY <1>2 DEF SetAuthorityPolicy, PolicyEdited
  <2>2. DOMAIN authority_policies = Levels
    BY DEF StateTyped
  <2>3. authority_policies' = [authority_policies EXCEPT ![x[1]] = authority_policies'[x[1]]]
    BY <2>0, <2>1, <2>2
  <2>4. ASSUME NEW c \in DOMAIN cells, c \in Governed(x[1]) PROVE <<"authority", c>> \in Q
    <3>1. CASE x[1][1] = "cell"
      BY <2>4, <3>1 DEF PolicyQueries, Governed
    <3>2. CASE x[1][1] # "cell"
      BY <2>4, <3>2 DEF PolicyQueries
    <3> QED
      BY <3>1, <3>2
  <2> HIDE DEF Q
  <2>5. ASSUME NEW c \in DOMAIN cells, c \notin Governed(x[1])
        PROVE  Full!Capable(c)' <=> Full!Capable(c)
    <3>1. c \in Cells
      BY <1>0 DEF SourcesTyped
    <3> QED
      BY <2>2, <2>3, <2>5, <3>1, UnrelatedPatch
  <2> QED
    BY <1>0, <2>1, <2>4, <2>5, PolicyStep
<1> QED
  BY <1>1, <1>2

LEMMA EditSound ==
  ASSUME StateTyped, AllSound, Edit
  PROVE  AllSound'
<1>0. SourcesTyped
  BY DEF StateTyped
<1>1. ASSUME SetCodecRegistryRevision PROVE AllSound'
  <2> DEFINE Q == {<<"codec", None>>}
  <2>1. /\ memo' = memo /\ Invalidate(Q) /\ UNCHANGED backendVars /\ cells' = cells
        /\ bound' = bound /\ authority_policies' = authority_policies /\ ahead' = ahead
    BY <1>1 DEF SetCodecRegistryRevision, ControlEdited, Quiet, backendVars
  <2>2. \A c : Full!Capable(c)' <=> Full!Capable(c)
    BY <2>1, SameAuthority
  <2> HIDE DEF Q
  <2>3. \A c \in DOMAIN cells' : \/ {<<"cell", c>>, <<"authority", c>>} \cap Q # {}
                                 \/ /\ c \in DOMAIN cells /\ cells'[c] = cells[c]
                                    /\ Full!Capable(c) => Full!Capable(c)'
    BY <2>1, <2>2
  <2> QED
    BY <1>0, <2>1, <2>3, EditStep
<1> QED
  BY <1>0, <1>1, SetCellSound, RemoveCellSound, MoveCellSound, BindValueSound, PoliciesSound
     DEF Edit

----------------------------------------------------------------------------
(***************************************************************************)
(* Mounts, backends and refreshes.                                         *)
(***************************************************************************)
\* The backend above a cell that reads one.
LEMMA MountOfStored ==
  ASSUME BackendTyped, NEW c \in Stored
  PROVE  /\ MountOf(c) \in Mounts
         /\ Content[c] = backend[MountOf(c)].stamps[c]
         /\ c \in DOMAIN backend[MountOf(c)].stamps
<1>0. c \in Cells
  BY CalculatorAssumption
<1>1. \E m \in Mounts : IsPrefix(m, c)
  BY CalculatorAssumption
<1>2. MountOf(c) \in Mounts /\ IsPrefix(MountOf(c), c)
  BY <1>1 DEF MountOf
<1>3. Content[c] = backend[MountOf(c)].stamps[c]
  BY <1>0 DEF Content, MountOf
<1>4. c \in DOMAIN backend[MountOf(c)].stamps
  BY <1>2 DEF BackendTyped
<1> QED
  BY <1>2, <1>3, <1>4

\* The stamps a mount's sample has, none if there is no sample.
Sampled(m, c) == IF m \in DOMAIN refresh_samples THEN StampOf(refresh_samples[m], c) ELSE 0

LEMMA SinceSampled ==
  \A c \in Cells : Since(c) = IF c \in Stored THEN Sampled(MountOf(c), c) ELSE 0
BY DEF Since, Sampled

\* A step that leaves the backends and the sources alone.
LEMMA SampleStep ==
  ASSUME StateTyped, AllSound, NEW Q, memo' = memo, Invalidate(Q), ahead' = ahead,
         UNCHANGED <<cells, bound, authority_policies>>,
         \A m \in Mounts : \A c \in Cells : \/ Sampled(m, c)' = Sampled(m, c)
                                            \/ Sampled(m, c)' = 0
  PROVE  AllSound'
<1>0. SourcesTyped /\ BackendTyped
  BY DEF StateTyped
<1>1. \A c : Full!Capable(c)' <=> Full!Capable(c)
  BY SameAuthority
<1>2. ASSUME NEW c \in Cells
      PROVE  Since(c)' = Since(c) \/ (c \in Stored /\ Since(c)' = 0)
  <2>1. Since(c) = (IF c \in Stored THEN Sampled(MountOf(c), c) ELSE 0)
    BY SinceSampled
  <2>2. Since(c)' = (IF c \in Stored THEN Sampled(MountOf(c), c)' ELSE 0)
    BY DEF Since, Sampled, MountOf
  <2>3. CASE c \in Stored
    <3>1. MountOf(c) \in Mounts
      BY <1>0, <2>3, MountOfStored
    <3> QED
      BY <2>1, <2>2, <2>3, <3>1
  <2>4. CASE c \notin Stored
    BY <2>1, <2>2, <2>4
  <2> QED
    BY <2>3, <2>4
<1>3. \A c \in Cells : \A n : MayBe(ahead, Since(c), c, n) => MayBe(ahead, Since(c), c, n)'
  BY <1>2 DEF MayBe
<1>4. Announced(Q)
  BY <1>1, <1>3 DEF Announced
<1> QED
  BY <1>0, <1>4, StillSound

LEMMA MountSound ==
  ASSUME StateTyped, AllSound, NEW m \in Mounts, Mount(m, 1)
  PROVE  AllSound'
<1> DEFINE Q == {<<"mount", m>>}
<1>1. refresh_samples' = [z \in DOMAIN refresh_samples \cup {m} |->
                            IF z = m THEN EpochOnly(1) ELSE refresh_samples[z]]
  BY DEF Mount, With
<1>2. /\ memo' = memo /\ Invalidate(Q) /\ ahead' = ahead
      /\ UNCHANGED <<cells, bound, authority_policies>>
  BY DEF Mount, ControlEdited, Quiet
<1> HIDE DEF Q
<1>3. \A c : StampOf(EpochOnly(1), c) = 0
  BY DEF EpochOnly, StampOf
<1>4. \A d \in Mounts : \A c \in Cells : \/ Sampled(d, c)' = Sampled(d, c)
                                         \/ Sampled(d, c)' = 0
  BY <1>1, <1>3 DEF Sampled
<1> QED
  BY <1>2, <1>4, SampleStep

LEMMA UnmountSound ==
  ASSUME StateTyped, AllSound, NEW m \in Mounts, Unmount(m)
  PROVE  AllSound'
<1> DEFINE Q == {<<"mount", m>>}
<1>1. refresh_samples' = [z \in DOMAIN refresh_samples \ {m} |-> refresh_samples[z]]
  BY DEF Unmount, Without
<1>2. /\ memo' = memo /\ Invalidate(Q) /\ ahead' = ahead
      /\ UNCHANGED <<cells, bound, authority_policies>>
  BY DEF Unmount, ControlEdited, Quiet
<1> HIDE DEF Q
<1>4. \A d \in Mounts : \A c \in Cells : \/ Sampled(d, c)' = Sampled(d, c)
                                         \/ Sampled(d, c)' = 0
  BY <1>1 DEF Sampled, StampOf
<1> QED
  BY <1>2, <1>4, SampleStep

LEMMA ObserveSound ==
  ASSUME StateTyped, AllSound, NEW m \in Mounts, ObserveMountEpoch(m, 2)
  PROVE  AllSound'
<1> DEFINE Q == {<<"mount", m>>}
           before == IF m \in DOMAIN refresh_samples THEN refresh_samples[m] ELSE EpochOnly(2)
           after == [before EXCEPT !.epoch = 2]
<1>1. refresh_samples' = [z \in DOMAIN refresh_samples \cup {m} |->
                            IF z = m THEN after ELSE refresh_samples[z]]
  BY DEF ObserveMountEpoch, With
<1>2. /\ memo' = memo /\ Invalidate(Q) /\ ahead' = ahead
      /\ UNCHANGED <<cells, bound, authority_policies>>
  BY DEF ObserveMountEpoch, Quiet
<1> HIDE DEF Q
<1>3. DOMAIN before = SampleFields
  BY DEF EpochOnly, SampleFields, StateTyped, MountsTyped
<1>4. after.stamps = before.stamps
  <2> HIDE DEF before
  <2> QED
    BY <1>3 DEF SampleFields
<1>5. \A c \in Cells : StampOf(after, c) = Sampled(m, c)
  <2>1. \A c : StampOf(EpochOnly(2), c) = 0
    BY DEF EpochOnly, StampOf
  <2>2. \A c : StampOf(before, c) = Sampled(m, c)
    BY <2>1 DEF Sampled
  <2> HIDE DEF before, after
  <2> QED
    BY <1>4, <2>2 DEF StampOf
<1> HIDE DEF before, after
<1>6. \A d \in Mounts : \A c \in Cells : Sampled(d, c)' = Sampled(d, c)
  <2> SUFFICES ASSUME NEW d \in Mounts, NEW c \in Cells PROVE Sampled(d, c)' = Sampled(d, c)
    OBVIOUS
  <2>1. CASE d = m
    <3>1. Sampled(d, c)' = StampOf(after, c)
      BY <1>1, <2>1 DEF Sampled, StampOf
    <3> QED
      BY <1>5, <2>1, <3>1
  <2>2. CASE d # m
    BY <1>1, <2>2 DEF Sampled, StampOf
  <2> QED
    BY <2>1, <2>2
<1> QED
  BY <1>2, <1>6, SampleStep

\* A step that changes nothing the values rest on: not even a write behind the
\* calculator's back, as the last refresh saw what it saw.
LEMMA NothingSound ==
  ASSUME StateTyped, AllSound,
         UNCHANGED <<cells, bound, authority_policies, refresh_samples, memo, pending, dirty, ahead>>
  PROVE  AllSound'
<1>1. \A c \in Cells : Since(c)' = Since(c)
  BY DEF Since, MountOf, StampOf
<1>2. \A c : Full!Capable(c)' <=> Full!Capable(c)
  BY SameAuthority
<1>3. \A c \in Cells : \A n : MayBe(ahead, Since(c), c, n) => MayBe(ahead, Since(c), c, n)'
  BY <1>1 DEF MayBe
<1>4. Announced({})
  BY <1>2, <1>3 DEF Announced
<1> QED
  BY <1>4, StillTheSame DEF StateTyped

LEMMA AttachSound ==
  ASSUME StateTyped, AllSound, NEW m \in Mounts, AttachRefreshSource(m) \/ DetachRefreshSource(m)
  PROVE  AllSound'
BY NothingSound DEF AttachRefreshSource, DetachRefreshSource, inputVars, engineVars, Quiet

LEMMA WriteSound ==
  ASSUME StateTyped, AllSound, NEW m, NEW c, BackendWrite(m, c)
  PROVE  AllSound'
BY NothingSound DEF BackendWrite, inputVars, engineVars, Quiet

----------------------------------------------------------------------------
\* A refresh invalidates every cell whose entry's stamp it finds changed.
LEMMA RefreshSound ==
  ASSUME StateTyped, AllSound, NEW changed \in SUBSET Mounts, Refresh(changed)
  PROVE  AllSound'
<1> DEFINE Q == UNION {RefreshQueries(m) : m \in changed}
           compared == UNION {ChangedStamps(refresh_samples[m], backend[m]) : m \in changed}
<1>0. BackendTyped /\ SourcesTyped /\ MountsTyped
  BY DEF StateTyped
<1>1. /\ UNCHANGED <<cells, bound, authority_policies, backend>> /\ ahead' = ahead \ compared
      /\ memo' = memo /\ Invalidate(Q) /\ changed \subseteq refresh_sources
      /\ refresh_samples' = [m \in DOMAIN refresh_samples |->
                     IF m \in changed THEN backend[m] ELSE refresh_samples[m]]
  BY DEF Refresh
<1>2. ASSUME NEW m \in changed, NEW c \in Cells,
             StampOf(refresh_samples[m], c) # StampOf(backend[m], c)
      PROVE  <<"cell", c>> \in Q
  <2>1. c \in ChangedStamps(refresh_samples[m], backend[m])
    BY <1>2 DEF ChangedStamps
  <2>2. <<"cell", c>> \in RefreshQueries(m)
    BY <2>1 DEF RefreshQueries
  <2> QED
    BY <2>2
<1>3. \A c \in compared : <<"cell", c>> \in Q
  BY <1>2 DEF ChangedStamps
<1> HIDE DEF Q, compared
<1>4. ASSUME NEW c \in Cells
      PROVE  Since(c)' # Since(c) => <<"cell", c>> \in Q
  <2>3. CASE c \in Stored
    <3> DEFINE M == MountOf(c)
    <3>1. M \in Mounts /\ Content[c] = backend[M].stamps[c] /\ c \in DOMAIN backend[M].stamps
      BY <1>0, <2>3, MountOfStored
    <3>2. /\ Since(c) = IF M \in DOMAIN refresh_samples THEN StampOf(refresh_samples[M], c) ELSE 0
          /\ Since(c)' = IF M \in DOMAIN refresh_samples' THEN StampOf(refresh_samples'[M], c)
                         ELSE 0
      BY <2>3 DEF Since, MountOf, StampOf
    <3> HIDE DEF M
    <3>3. StampOf(backend[M], c) = Content[c]
      BY <3>1 DEF StampOf
    <3>4. changed \subseteq DOMAIN refresh_samples
      BY <1>0, <1>1 DEF MountsTyped
    <3>5. CASE M \in changed
      <4>1. Since(c)' = Content[c] /\ Since(c) = StampOf(refresh_samples[M], c)
        BY <1>1, <3>2, <3>3, <3>4, <3>5
      <4> QED
        BY <1>2, <3>3, <3>5, <4>1
    <3>6. CASE M \notin changed
      BY <1>1, <3>2, <3>6
    <3> QED
      BY <3>5, <3>6
  <2>4. CASE c \notin Stored
    BY <2>4 DEF Since
  <2> QED
    BY <2>3, <2>4
<1>5. \A c \in Cells : \/ <<"cell", c>> \in Q
                       \/ \A n : MayBe(ahead, Since(c), c, n) => MayBe(ahead, Since(c), c, n)'
  BY <1>1, <1>3, <1>4 DEF MayBe
<1>6. \A c : Full!Capable(c)' <=> Full!Capable(c)
  BY <1>1, SameAuthority
<1>7. Announced(Q)
  BY <1>1, <1>5, <1>6 DEF Announced
<1> QED
  BY <1>0, <1>1, <1>7, StillSound

\* A request leaves everything but the engine and the results alone.
LEMMA RequestSound ==
  ASSUME StateTyped, EngineReady, AllSound, Request
  PROVE  AllSound'
<1>1. PICK w : Commit(w) /\ Healthy(w)
  BY SoundHealthy, RequestHealthy
<1>2. /\ memo' = w.memo /\ pending' = w.pending /\ dirty' = w.dirty
      /\ UNCHANGED <<cells, bound, authority_policies, mounts, backend, refresh_samples,
                     refresh_sources>>
      /\ ahead' = Read
  BY <1>1 DEF Commit, Read, inputVars, backendVars
<1>3. EngineInv(w.memo, w.pending, w.dirty)
  BY <1>1 DEF Healthy
<1> DEFINE m == w.memo
           p == w.pending
           d == w.dirty
<1>4. memo' = m /\ pending' = p /\ dirty' = d /\ EngineInv(m, p, d)
  BY <1>2, <1>3
<1> HIDE DEF m, p, d
<1>5. \A c \in Cells : Since(c)' = Since(c)
  BY <1>2 DEF Since, MountOf, StampOf
<1>6. \A c : Full!Capable(c)' <=> Full!Capable(c)
  BY <1>2, SameAuthority
<1>7. ASSUME NEW c, NEW atom
      PROVE  /\ Resolved(c, atom)' = Resolved(c, atom)
             /\ atom.kind # "ext" => ImmediateValue(c, atom)' = ImmediateValue(c, atom)
  BY <1>2 DEF Resolved, ImmediateValue, ResolveTarget, ResolveBare
<1>8. ASSUME NEW c, NEW n, Supported(m, c, n)
      PROVE  Supported(memo, c, n)'
  <2>1. ASSUME NEW atom, NEW obs, NEW reads, AtomSeen(c, atom, obs, reads)
        PROVE  AtomSeen(c, atom, obs, reads)'
    BY <1>7, <2>1 DEF AtomSeen, Watched
  <2> QED
    BY <1>2, <1>4, <1>6, <1>7, <1>8, <2>1 DEF Supported, Pieces, Piece
<1>9. ValuesSupported(ahead, memo, pending)'
  <2> SUFFICES ASSUME NEW c \in Cells, c \notin p, m[c].out.kind = "value"
               PROVE  \E n : MayBe(ahead, Since(c), c, n)' /\ Supported(memo, c, n)'
    BY <1>4 DEF ValuesSupported
  <2>1. PICK n : MayBe(Read, Since(c), c, n) /\ Supported(m, c, n)
    BY <1>4 DEF EngineInv, ValuesSupported
  <2>2. Supported(memo, c, n)'
    BY <1>8, <2>1
  <2>3. MayBe(ahead, Since(c), c, n)'
    BY <1>2, <1>5, <2>1 DEF MayBe
  <2> QED
    BY <2>2, <2>3
<1> QED
  BY <1>4, <1>9 DEF AllSound, EngineInv, EngineTyped, CleanClosed, CleanGrounded, Clean

----------------------------------------------------------------------------
\* At the start nothing is known, and nothing can be wrong.
LEMMA InitSound == Init => AllSound
<1> SUFFICES ASSUME Init PROVE AllSound
  OBVIOUS
<1>3. \A c \in Cells : memo[c] = NoMemo /\ NoMemo.out.kind # "value"
  BY DEF Init, NoMemo, Unknown, Outcome
<1>4. EngineTyped(memo, pending, dirty)
  BY InitGood DEF TypedAndBlocked, EngineReady
<1>5. pending \subseteq dirty
  BY DEF Init
<1>6. ValuesSupported(ahead, memo, pending)
  BY <1>3 DEF ValuesSupported
<1>7. Clean(memo, dirty) = {}
  BY <1>3 DEF Clean
<1>8. CleanClosed(memo, dirty) /\ CleanGrounded(memo, dirty)
  BY <1>7 DEF CleanClosed, CleanGrounded
<1> QED
  BY <1>4, <1>5, <1>6, <1>8 DEF AllSound

LEMMA BackendsSound ==
  ASSUME StateTyped, AllSound, Backends
  PROVE  AllSound'
BY MountSound, UnmountSound, ObserveSound, AttachSound, WriteSound, RefreshSound DEF Backends

\* The step of the invariant AllSound, beside TypedAndBlocked.
LEMMA NextSound ==
  ASSUME TypedAndBlocked, AllSound, [Next]_vars
  PROVE  AllSound'
<1>0. StateTyped /\ EngineReady
  BY DEF TypedAndBlocked
<1>1. CASE Cancellation
  <2>1. UNCHANGED <<cells, bound, authority_policies, refresh_samples, memo, pending, dirty, ahead>>
    BY <1>1 DEF Cancellation, CancelRequest, RequestCancellation, Quiet, inputVars, backendVars,
              engineVars
  <2> QED
    BY <1>0, <2>1, NothingSound
<1>2. CASE UNCHANGED vars
  <2>1. UNCHANGED <<cells, bound, authority_policies, refresh_samples, memo, pending, dirty, ahead>>
    BY <1>2 DEF vars, inputVars, backendVars, engineVars
  <2> QED
    BY <1>0, <2>1, NothingSound
<1> QED
  BY <1>0, <1>1, <1>2, EditSound, BackendsSound, RequestSound DEF Next

----------------------------------------------------------------------------
(***************************************************************************)
(* The values of a recalculation.                                          *)
(***************************************************************************)
N == Cardinality(Cells)

LEMMA CellsFinite == N \in Nat
BY PathAssumption, FS_CardinalityType DEF N

ValuesAt(j, below) ==
  [c \in Cells |-> IF j = 0 THEN IF c \in DOMAIN cells THEN Full!Failure ELSE Full!Missing
                            ELSE Full!ValueBy(below, c)]

Valuing(f, n) == f = [j \in 0..n |-> ValuesAt(j, f[j - 1])]

LEMMA ValuesAtStart == \A x, y : ValuesAt(0, x) = ValuesAt(0, y)
BY DEF ValuesAt

LEMMA ValuingAt ==
  ASSUME NEW f, NEW n \in Nat, Valuing(f, n)
  PROVE  \A j \in 0 .. n : f[j] = ValuesAt(j, f[j - 1])
BY DEF Valuing

\* The recursive function Value exists, and obeys its equation.
LEMMA ValuingExists ==
  ASSUME NEW n \in Nat
  PROVE  \E f : Valuing(f, n)
<1> DEFINE T == {m \in Nat : \E f : Valuing(f, m)}
<1>1. 0 \in T
  <2> DEFINE f == [i \in 0 .. 0 |-> ValuesAt(0, 0)]
  <2>1. \A i \in 0 .. 0 : ValuesAt(0, 0) = ValuesAt(i, f[i - 1])
    BY ValuesAtStart
  <2>2. Valuing(f, 0)
    BY <2>1 DEF Valuing
  <2> QED
    BY <2>2
<1>2. ASSUME NEW m \in Nat, m \in T PROVE m + 1 \in T
  <2>1. PICK f : Valuing(f, m)
    BY <1>2
  <2> DEFINE last == ValuesAt(m + 1, f[m])
             g == [i \in 0 .. m + 1 |-> IF i = m + 1 THEN last ELSE f[i]]
  <2>2. \A i \in 0 .. m : g[i] = f[i]
    OBVIOUS
  <2>3. g[m + 1] = last
    OBVIOUS
  <2>4. DOMAIN g = 0 .. m + 1
    OBVIOUS
  <2>5. \A j \in 0 .. m : f[j] = ValuesAt(j, f[j - 1])
    BY <2>1, ValuingAt
  <2>6. g = [j \in 0 .. m + 1 |-> g[j]]
    OBVIOUS
  <2>7. ASSUME NEW j \in 0 .. m + 1
        PROVE  g[j] = ValuesAt(j, g[j - 1])
    <3>1. CASE j = 0
      <4>1. g[0] = f[0] /\ f[0] = ValuesAt(0, f[0 - 1])
        BY <2>2, <2>5
      <4> HIDE DEF g
      <4> QED
        BY <3>1, <4>1, ValuesAtStart
    <3>2. CASE j \in 1 .. m
      <4>1. j - 1 \in 0 .. m /\ j \in 0 .. m
        BY <3>2
      <4> HIDE DEF g
      <4> QED
        BY <2>2, <2>5, <4>1
    <3>3. CASE j = m + 1
      <4>1. j - 1 = m /\ m \in 0 .. m
        BY <3>3
      <4>2. g[j] = last /\ g[j - 1] = f[m]
        BY <2>2, <2>3, <3>3, <4>1
      <4> HIDE DEF g
      <4> QED
        BY <3>3, <4>2
    <3> QED
      BY <3>1, <3>2, <3>3
  <2>8. Valuing(g, m + 1)
    <3> HIDE DEF g, last
    <3> QED
      BY <2>6, <2>7 DEF Valuing
  <2> QED
    BY <2>8
<1> HIDE DEF T
<1>3. \A m \in Nat : m \in T
  BY <1>1, <1>2, SetInduction
<1> QED
  BY <1>3 DEF T

LEMMA FullCardinality == Full!Cardinality(Cells) = N
BY DEF Full!Cardinality, Cardinality, N

\* One more reference followed.
LEMMA ValuesUnfold ==
  \A n \in 1 .. N : Full!Value[n] = [c \in Cells |-> Full!ValueBy(Full!Value[n - 1], c)]
<1>1. \E f : Valuing(f, N)
  BY CellsFinite, ValuingExists
<1> DEFINE f == CHOOSE f : Valuing(f, N)
<1>2. Valuing(f, N)
  BY <1>1
<1>3. Full!Value = f
  BY FullCardinality DEF Full!Value, Valuing, ValuesAt
<1> HIDE DEF f
<1>4. \A n \in 1 .. N : f[n] = ValuesAt(n, f[n - 1]) /\ n # 0
  BY <1>2, CellsFinite, ValuingAt
<1> QED
  BY <1>3, <1>4 DEF ValuesAt

----------------------------------------------------------------------------
(***************************************************************************)
(* A clean memo has the value of a recalculation.                          *)
(***************************************************************************)
\* Once the last refresh saw everything, a sample holds the present stamps.
LEMMA SettledSince ==
  ASSUME StateTyped, Settled, NEW c \in Cells
  PROVE  Since(c) = Content[c]
<1>0. BackendTyped /\ MountsTyped
  BY DEF StateTyped
<1>1. CASE c \in Stored
  <2> DEFINE M == MountOf(c)
  <2>1. M \in Mounts /\ Content[c] = backend[M].stamps[c] /\ c \in DOMAIN backend[M].stamps
    BY <1>0, <1>1, MountOfStored
  <2>2. Since(c) = IF M \in DOMAIN refresh_samples THEN StampOf(refresh_samples[M], c) ELSE 0
    BY <1>1 DEF Since
  <2> HIDE DEF M
  <2>3. M \in DOMAIN refresh_samples /\ refresh_samples[M] = backend[M]
    BY <1>0, <2>1 DEF Settled, Refreshed, MountsTyped
  <2> QED
    BY <2>1, <2>2, <2>3 DEF StampOf
<1>2. CASE c \notin Stored
  BY <1>2 DEF Since, Content
<1> QED
  BY <1>1, <1>2

\* What a clean memo rests on, once the last refresh saw everything.
LEMMA CleanSupported ==
  ASSUME StateTyped, Settled, NEW m, NEW p, NEW d, EngineInv(m, p, d), NEW c \in Clean(m, d)
  PROVE  c \in Cells /\ Content[c] \in Nat /\ Supported(m, c, Content[c])
<1>1. c \in Cells /\ c \notin d /\ m[c].out.kind = "value"
  BY DEF Clean
<1>2. c \notin p
  BY <1>1 DEF EngineInv
<1>3. Content[c] \in Nat /\ (c \in Stored => Content[c] # 0)
  BY <1>1, ContentTyped DEF StateTyped
<1>4. PICK n : MayBe(Read, Since(c), c, n) /\ Supported(m, c, n)
  BY <1>1, <1>2 DEF EngineInv, ValuesSupported
<1>5. Since(c) = Content[c] /\ c \notin Read
  BY <1>1, SettledSince DEF Read, Settled
<1>6. n = Content[c]
  BY <1>3, <1>4, <1>5 DEF MayBe
<1> QED
  BY <1>1, <1>3, <1>4, <1>6

\* What ValueBy takes for an atom.
AtomValue(below, c, atom) ==
  CASE atom.kind \in {"lit", "opaque"} -> atom.arg
    [] atom.kind = "fail" -> Full!Failure
    [] atom.kind = "ext" -> Entry(Content[c])
    [] atom.kind = "sym" /\ atom.arg[1] \in DOMAIN bound -> bound[atom.arg[1]]
    [] OTHER -> IF Full!Target(c, atom) \in DOMAIN cells THEN below[Full!Target(c, atom)]
                ELSE Full!Missing

Agrees(m, below, T) == \A x \in T \cap DOMAIN cells : below[x] = m[x].out.val

\* An atom has the value of its lookup in the memos, if the memos agree with the
\* values below.
LEMMA AtomAgrees ==
  ASSUME SourcesTyped, NEW m, NEW c \in Cells, NEW atom \in Atoms, NEW below,
         Agrees(m, below, ToSet(m[c].reads)), AtomSeen(c, atom, m[c].obs, m[c].reads)
  PROVE  AtomValue(below, c, atom) = Piece(m, c, atom, Content[c])
<1> DEFINE found == Resolved(c, atom).found
<1>0. /\ atom.kind # "fail" /\ found \in ToSet(m[c].reads) \cup {None}
      /\ atom.kind \in {"lit", "opaque", "sym", "ref", "ext", "fail"}
  BY AtomKinds DEF AtomSeen
<1>1. CASE atom.kind \in {"lit", "opaque"}
  <2>1. found = None
    BY <1>1 DEF Resolved
  <2> QED
    BY <1>1, <2>1 DEF AtomValue, Piece, ImmediateValue
<1>2. CASE atom.kind = "ext"
  <2>1. found = None
    BY <1>2 DEF Resolved
  <2> QED
    BY <1>2, <2>1 DEF AtomValue, Piece
<1>3. CASE atom.kind = "sym" /\ atom.arg[1] \in DOMAIN bound
  <2>1. found = None
    BY <1>3 DEF Resolved
  <2> QED
    BY <1>3, <2>1 DEF AtomValue, Piece, ImmediateValue
<1>4. CASE atom.kind = "ref" \/ (atom.kind = "sym" /\ atom.arg[1] \notin DOMAIN bound)
  <2> DEFINE t == Full!Target(c, atom)
  <2>1. AtomValue(below, c, atom) = IF t \in DOMAIN cells THEN below[t] ELSE <<"missing">>
    BY <1>4 DEF AtomValue, Full!Missing
  <2>2. /\ t \in DOMAIN cells <=> found # None
        /\ found # None => found = t /\ found \in DOMAIN cells
    BY <1>4, TargetFound DEF Refers
  <2>3. ImmediateValue(c, atom) = <<"missing">>
    BY <1>4 DEF ImmediateValue
  <2>4. Piece(m, c, atom, Content[c]) = IF found # None THEN m[found].out.val
                                           ELSE <<"missing">>
    BY <1>4, <2>3 DEF Piece
  <2> HIDE DEF t, found
  <2> QED
    BY <1>0, <2>1, <2>2, <2>4 DEF Agrees
<1> QED
  BY <1>0, <1>1, <1>2, <1>3, <1>4

\* A value is never mistaken for a failure.
LEMMA OneTyped ==
  ASSUME NEW S, NEW s \in Seq(S), Len(s) = 1
  PROVE  s[1] \in S
OBVIOUS

LEMMA FailureNoValue == Full!Failure \notin Seq(Texts)
<1> DEFINE f == Full!Failure
<1>1. f[1] = "failure" /\ Len(f) = 1
  BY DEF Full!Failure
<1> HIDE DEF f
<1> SUFFICES ASSUME f \in Seq(Texts) PROVE FALSE
  BY DEF f
<1>2. f[1] \in Texts
  BY <1>1, OneTyped
<1> QED
  BY <1>1, <1>2, ExpressionAssumption

\* What a clean memo holds is what its expression comes to.
LEMMA ExpressionStep ==
  ASSUME StateTyped, Settled, NEW m, NEW p, NEW d, EngineInv(m, p, d),
         NEW c \in Clean(m, d), c \in DOMAIN cells, NEW below,
         Agrees(m, below, ToSet(m[c].reads))
  PROVE  Full!ValueBy(below, c) = m[c].out.val
<1>0. SourcesTyped /\ EngineTyped(m, p, d)
  BY DEF StateTyped, EngineInv
<1>1. c \in Cells /\ Content[c] \in Nat /\ Supported(m, c, Content[c])
  BY CleanSupported
<1> DEFINE n == Content[c]
           L == Len(cells[c])
           values == [k \in DOMAIN cells[c] |-> AtomValue(below, c, cells[c][k])]
           pieces == Pieces(m, c, n, L)
<1>2. /\ Full!Capable(c)
      /\ \A k \in DOMAIN cells[c] : AtomSeen(c, cells[c][k], m[c].obs, m[c].reads)
      /\ m[c].out.val = FlattenSeq(pieces)
  BY <1>1 DEF Supported
<1>3. cells[c] \in Seq(Atoms) /\ L \in Nat /\ DOMAIN cells[c] = 1 .. L
  <2>1. cells[c] \in Seq(Atoms)
    BY <1>0 DEF SourcesTyped
  <2> QED
    BY <2>1
<1>4. \A k \in 1 .. L : AtomValue(below, c, cells[c][k]) = Piece(m, c, cells[c][k], n)
  BY <1>0, <1>1, <1>2, <1>3, AtomAgrees
<1>5. values = pieces
  BY <1>3, <1>4 DEF Pieces
<1>6. pieces \in Seq(Seq(Texts))
  <2>1. L \in 0 .. L
    BY <1>3
  <2> QED
    BY <1>0, <1>1, <2>1, PiecesTyped
<1>7. Full!Failure \notin ToSet(pieces)
  <2>1. ToSet(pieces) \subseteq Seq(Texts)
    BY <1>6, ToSetTyped
  <2> QED
    BY <2>1, FailureNoValue
<1>8. Full!ToSet(values) = ToSet(values) /\ Full!FlattenSeq(values) = FlattenSeq(values)
  BY FullNames
<1>9. Full!ValueBy(below, c) =
        IF c \notin DOMAIN cells THEN Full!Missing
        ELSE IF ~ Full!Capable(c) \/ Full!Failure \in Full!ToSet(values) THEN Full!Failure
        ELSE Full!FlattenSeq(values)
  BY FullNames DEF Full!ValueBy, AtomValue
<1> HIDE DEF values, pieces
<1> QED
  BY <1>2, <1>5, <1>7, <1>8, <1>9

\* Without an expression it is the missing value.
LEMMA ValueStep ==
  ASSUME StateTyped, Settled, NEW m, NEW p, NEW d, EngineInv(m, p, d),
         NEW c \in Clean(m, d), NEW below, Agrees(m, below, ToSet(m[c].reads))
  PROVE  Full!ValueBy(below, c) = m[c].out.val
<1>1. CASE c \in DOMAIN cells
  BY <1>1, ExpressionStep
<1>2. CASE c \notin DOMAIN cells
  <2>1. m[c].out.val = <<"missing">>
    BY <1>2, CleanSupported DEF Supported
  <2>2. Full!ValueBy(below, c) = Full!Missing
    BY <1>2 DEF Full!ValueBy
  <2> QED
    BY <2>1, <2>2 DEF Full!Missing
<1> QED
  BY <1>1, <1>2

----------------------------------------------------------------------------
\* The clean cells whose values following k references or more do not agree
\* with their memos.
Wrong(m, d, k) ==
  {c \in Clean(m, d) : \E n \in k..N : Full!Value[n][c] # m[c].out.val}

\* One more reference followed makes at least one more clean cell agree: the
\* clean cells are grounded.
LEMMA WrongShrinks ==
  ASSUME StateTyped, Settled, NEW m, NEW p, NEW d, EngineInv(m, p, d), NEW k \in Nat, k + 1 <= N
  PROVE  /\ Wrong(m, d, k + 1) \subseteq Wrong(m, d, k)
         /\ Wrong(m, d, k) # {} => \E c \in Wrong(m, d, k) : c \notin Wrong(m, d, k + 1)
<1>0. N \in Nat
  BY CellsFinite
<1>1. Wrong(m, d, k + 1) \subseteq Wrong(m, d, k)
  <2>1. \A n \in k + 1..N : n \in k..N
    BY <1>0
  <2> QED
    BY <2>1 DEF Wrong
<1>2. ASSUME Wrong(m, d, k) # {} PROVE \E c \in Wrong(m, d, k) : c \notin Wrong(m, d, k + 1)
  <2>1. Wrong(m, d, k) \in SUBSET Clean(m, d)
    BY DEF Wrong
  <2>2. PICK c \in Wrong(m, d, k) : ToSet(m[c].reads) \cap Wrong(m, d, k) = {}
    BY <1>2, <2>1 DEF EngineInv, CleanGrounded
  <2>3. c \in Clean(m, d) /\ c \in Cells
    BY <2>2 DEF Wrong, Clean
  <2>4. ToSet(m[c].reads) \subseteq Clean(m, d)
    BY <2>3 DEF EngineInv, CleanClosed
  <2>5. ASSUME NEW n \in k + 1..N PROVE Full!Value[n][c] = m[c].out.val
    <3>1. n \in 1..N /\ n - 1 \in k..N
      BY <1>0
    <3> DEFINE below == Full!Value[n - 1]
    <3>2. Agrees(m, below, ToSet(m[c].reads))
      BY <2>2, <2>4, <3>1 DEF Agrees, Wrong
    <3>3. Full!Value[n] = [x \in Cells |-> Full!ValueBy(below, x)]
      BY <3>1, ValuesUnfold
    <3> HIDE DEF below
    <3>4. Full!ValueBy(below, c) = m[c].out.val
      BY <2>3, <3>2, ValueStep
    <3> QED
      BY <2>3, <3>3, <3>4
  <2>6. c \notin Wrong(m, d, k + 1)
    BY <2>5 DEF Wrong
  <2> QED
    BY <2>2, <2>6
<1> QED
  BY <1>1, <1>2

\* So as many references as there are cells are enough.
LEMMA WrongBounded ==
  ASSUME StateTyped, Settled, NEW m, NEW p, NEW d, EngineInv(m, p, d)
  PROVE  \A k \in Nat : k <= N => Cardinality(Wrong(m, d, k)) + k <= N
<1>0. N \in Nat
  BY CellsFinite
<1>f. ASSUME NEW k
      PROVE  /\ IsFiniteSet(Wrong(m, d, k)) /\ Cardinality(Wrong(m, d, k)) \in Nat
             /\ Cardinality(Wrong(m, d, k)) <= N
  <2>1. Wrong(m, d, k) \in SUBSET Cells
    BY DEF Wrong, Clean
  <2>2. IsFiniteSet(Wrong(m, d, k)) /\ Cardinality(Wrong(m, d, k)) <= Cardinality(Cells)
    BY <2>1, PathAssumption, FS_Subset
  <2> QED
    BY <2>2, FS_CardinalityType DEF N
<1> DEFINE T == {k \in Nat : k <= N => Cardinality(Wrong(m, d, k)) + k <= N}
<1>1. 0 \in T
  <2> DEFINE w == Cardinality(Wrong(m, d, 0))
  <2>1. w \in Nat /\ w <= N
    BY <1>f
  <2> HIDE DEF w
  <2>2. w + 0 <= N
    BY <1>0, <2>1
  <2> QED
    BY <2>2 DEF w
<1>2. ASSUME NEW k \in Nat, k \in T PROVE k + 1 \in T
  <2> SUFFICES ASSUME k + 1 <= N PROVE Cardinality(Wrong(m, d, k + 1)) + (k + 1) <= N
    OBVIOUS
  <2> DEFINE A == Wrong(m, d, k)
             B == Wrong(m, d, k + 1)
             a == Cardinality(A)
             b == Cardinality(B)
  <2>0. k <= N
    BY <1>0
  <2>1. a + k <= N
    BY <1>2, <2>0
  <2>2. B \subseteq A /\ (A # {} => \E c \in A : c \notin B)
    BY WrongShrinks
  <2>3. IsFiniteSet(A) /\ IsFiniteSet(B) /\ a \in Nat /\ b \in Nat
    BY <1>f
  <2> HIDE DEF A, B
  <2>4. b = 0 \/ b < a
    <3>1. CASE A = {}
      BY <2>2, <3>1, FS_EmptySet
    <3>2. CASE A # {}
      <4>1. b <= a /\ (a = b => A = B)
        BY <2>2, <2>3, FS_Subset
      <4>2. A # B
        BY <2>2, <3>2
      <4> HIDE DEF a, b
      <4> QED
        BY <2>3, <4>1, <4>2
    <3> QED
      BY <3>1, <3>2
  <2> HIDE DEF a, b
  <2>5. b + (k + 1) <= N
    BY <1>0, <2>1, <2>3, <2>4
  <2> QED
    BY <2>5 DEF a, b, A, B
<1> HIDE DEF T
<1>3. \A k \in Nat : k \in T
  BY <1>1, <1>2, SetInduction
<1> QED
  BY <1>3 DEF T

LEMMA CleanRight ==
  ASSUME StateTyped, Settled, NEW m, NEW p, NEW d, EngineInv(m, p, d), NEW c \in Clean(m, d)
  PROVE  m[c].out.val = Full!Recomputed(c)
<1>0. N \in Nat /\ N <= N /\ N \in N..N
  BY CellsFinite
<1> DEFINE w == Cardinality(Wrong(m, d, N))
<1>1. w + N <= N
  BY <1>0, WrongBounded
<1>2. Wrong(m, d, N) \in SUBSET Cells
  BY DEF Wrong, Clean
<1>3. IsFiniteSet(Wrong(m, d, N))
  BY <1>2, PathAssumption, FS_Subset
<1>4. w \in Nat
  BY <1>3, FS_CardinalityType
<1> HIDE DEF w
<1>5. w = 0
  BY <1>0, <1>1, <1>4
<1>6. Wrong(m, d, N) = {}
  BY <1>3, <1>5, FS_EmptySet DEF w
<1>7. Full!Value[N][c] = m[c].out.val
  BY <1>0, <1>6 DEF Wrong
<1> QED
  BY <1>7, FullCardinality DEF Full!Recomputed

LEMMA FreshClean ==
  ASSUME NEW c, Explain(c) = "fresh"
  PROVE  c \notin dirty
BY DEF Explain

LEMMA CleanFresh ==
  ASSUME TypedAndBlocked, AllSound
  PROVE  FreshIsSound
<1> SUFFICES ASSUME NEW c \in DOMAIN cells, Settled,
                    Explain(c) = "fresh", memo[c].out.kind = "value"
             PROVE  memo[c].out.val = Full!Recomputed(c)
  BY DEF FreshIsSound
<1>1. StateTyped /\ c \in Cells
  BY DEF TypedAndBlocked, StateTyped, SourcesTyped
<1>2. c \in Clean(memo, dirty)
  BY <1>1, FreshClean DEF Clean
<1>3. EngineInv(memo, pending, dirty)
  BY SoundHealthy
<1> QED
  BY <1>1, <1>2, <1>3, CleanRight

\* FreshIsSound: a cell that explain calls fresh has the value that a recalculation
\* of the whole tree would give it, whatever was edited, moved, mounted, refreshed,
\* blocked, cancelled or exhausted before, and whichever stamps backends give
\* their entries: the last refresh must have compared every entry that was read.
THEOREM FreshSound == Spec => []FreshIsSound
<1>1. Init => TypedAndBlocked /\ AllSound
  BY InitGood, InitSound
<1>2. (TypedAndBlocked /\ AllSound) /\ [Next]_vars => (TypedAndBlocked /\ AllSound)'
  BY NextGood, NextSound
<1>3. TypedAndBlocked /\ AllSound => FreshIsSound
  BY CleanFresh
<1> QED
  BY <1>1, <1>2, <1>3, PTL DEF Spec

----------------------------------------------------------------------------
(***************************************************************************)
(* What a request answers.  While a verification goes on its outermost     *)
(* call is that of its root; when it has ended with a value, the root is   *)
(* clean and has that value.                                               *)
(***************************************************************************)
LEMMA SameValues ==
  ASSUME UNCHANGED <<inputVars, backendVars>>, ahead \subseteq ahead'
  PROVE  /\ Settled' => Settled
         /\ \A c : Full!Recomputed(c)' = Full!Recomputed(c)
<1>1. UNCHANGED <<cells, bound, authority_policies, backend, refresh_sources, refresh_samples>>
  BY DEF inputVars, backendVars
<1>2. Settled' => Settled
  BY <1>1 DEF Settled, Refreshed
<1>3. Content' = Content
  BY <1>1 DEF Content
<1>4. Full!Value' = Full!Value
  BY <1>1, <1>3 DEF Full!Value, Full!ValueBy, Full!Capable, Full!Target
<1> QED
  BY <1>2, <1>4 DEF Full!Recomputed

RootIs(w, root) ==
  IF w.calls # <<>> THEN w.calls[Len(w.calls)].cell = root
  ELSE w.out.kind = "value" => root \in CleanIn(w) /\ w.memo[root].out = w.out

LEMMA StepAside ==
  ASSUME NEW w, NEW r, StepOf(w, r)
  PROVE  Aside(r) = Aside(w)
BY DEF StepOf, EvaluateStep, VerifyStep, Stopped, RanHere, Ran, Reused, Circular, Replaced,
       Descended, CallsOnly

\* The outermost call stays where it is until it returns.
LEMMA LastReplaced ==
  ASSUME NEW S, NEW s \in Seq(S), s # <<>>, NEW x, x.cell = Head(s).cell
  PROVE  LET t == <<x>> \o Tail(s) IN t # <<>> /\ t[Len(t)].cell = s[Len(s)].cell
<1>1. /\ Len(s) \in Nat \ {0} /\ Tail(s) \in Seq(S) /\ Len(Tail(s)) = Len(s) - 1
      /\ \A i \in 1 .. Len(s) - 1 : Tail(s)[i] = s[i + 1]
      /\ Head(s) = s[1]
  BY TailAt
<1> DEFINE u == Tail(s)
           n == Len(s)
           t == <<x>> \o u
<1> HIDE DEF u
<1>2. u \in Seq(S \cup {x}) /\ x \in S \cup {x}
  BY <1>1 DEF u
<1>3. /\ Len(t) = Len(u) + 1 /\ t[1] = x /\ t # <<>>
      /\ \A i \in 1 .. Len(u) : t[i + 1] = u[i]
  BY <1>2, PushedAt
<1> HIDE DEF t, n
<1>4. n \in Nat \ {0} /\ Len(u) = n - 1 /\ Len(t) = n
  BY <1>1, <1>3 DEF u, n
<1>5. CASE n = 1
  BY <1>1, <1>3, <1>4, <1>5 DEF n, t, u
<1>6. CASE n # 1
  <2>1. n - 1 \in 1 .. Len(u) /\ (n - 1) + 1 = n /\ n - 1 \in 1 .. n - 1
    BY <1>4, <1>6
  <2>2. t[n] = u[n - 1] /\ u[n - 1] = s[n]
    BY <1>1, <1>3, <2>1 DEF u, n
  <2> QED
    BY <1>3, <1>4, <2>2 DEF n, t, u
<1> QED
  BY <1>5, <1>6

LEMMA LastPushed ==
  ASSUME NEW S, NEW s \in Seq(S), s # <<>>, NEW x
  PROVE  LET t == <<x>> \o s IN t # <<>> /\ t[Len(t)] = s[Len(s)]
<1> DEFINE n == Len(s)
           t == <<x>> \o s
<1>1. s \in Seq(S \cup {x}) /\ x \in S \cup {x} /\ n \in Nat \ {0} /\ n \in 1 .. n
  BY TailAt
<1>2. /\ Len(t) = n + 1 /\ t # <<>> /\ \A i \in 1 .. n : t[i + 1] = s[i]
  BY <1>1, PushedAt
<1> HIDE DEF t, n
<1> QED
  BY <1>1, <1>2 DEF n, t

LEMMA LastReturned ==
  ASSUME NEW calls \in Seq(Frames), calls # <<>>, NEW out \in Results
  PROVE  LET t == ReturnCalls(calls, out)
         IN /\ Tail(calls) # <<>> => t # <<>> /\ t[Len(t)].cell = calls[Len(calls)].cell
            /\ Tail(calls) = <<>> => t = <<>> /\ calls[Len(calls)] = Head(calls)
<1> DEFINE rest == Tail(calls)
           t == ReturnCalls(calls, out)
<1>1. /\ Len(calls) \in Nat \ {0} /\ rest \in Seq(Frames) /\ Len(rest) = Len(calls) - 1
      /\ \A i \in 1 .. Len(calls) - 1 : rest[i] = calls[i + 1]
      /\ Head(calls) = calls[1]
  BY TailAt
<1>2. t = IF rest # <<>> /\ Head(rest).running
            THEN <<Taken(Head(rest), out)>> \o Tail(rest) ELSE rest
  BY DEF ReturnCalls
<1> HIDE DEF t
<1>3. ASSUME rest = <<>> PROVE t = <<>> /\ calls[Len(calls)] = Head(calls)
  <2>1. Len(rest) = 0
    <3>1. Len(<<>>) = 0
      OBVIOUS
    <3> HIDE DEF rest
    <3> QED
      BY <1>3, <3>1
  <2> DEFINE n == Len(calls)
             k == Len(rest)
  <2>2. n \in Nat \ {0} /\ k = n - 1 /\ k = 0
    BY <1>1, <2>1
  <2> HIDE DEF n, k
  <2>3. n = 1
    BY <2>2
  <2> QED
    BY <1>1, <1>2, <1>3, <2>3 DEF n
<1>4. ASSUME rest # <<>> PROVE t # <<>> /\ t[Len(t)].cell = calls[Len(calls)].cell
  <2>1. rest[Len(rest)] = calls[Len(calls)]
    <3>1. Len(rest) # 0
      BY <1>1, <1>4, EmptySeq
    <3> DEFINE k == Len(rest)
    <3>2. k \in 1 .. Len(calls) - 1 /\ k + 1 = Len(calls)
      BY <1>1, <3>1
    <3> HIDE DEF rest, k
    <3> QED
      BY <1>1, <3>2 DEF k
  <2> HIDE DEF rest
  <2>2. CASE Head(rest).running
    <3>1. Head(rest) \in Frames
      BY <1>1, <1>4, TailAt
    <3>2. Taken(Head(rest), out).cell = Head(rest).cell
      BY <2>2, <3>1, TakenTyped
    <3>3. t = <<Taken(Head(rest), out)>> \o Tail(rest)
      BY <1>2, <1>4, <2>2
    <3> QED
      BY <1>1, <1>4, <2>1, <3>2, <3>3, LastReplaced
  <2>3. CASE ~ Head(rest).running
    BY <1>2, <1>4, <2>1, <2>3
  <2> QED
    BY <2>2, <2>3
<1> QED
  BY <1>3, <1>4 DEF t

\* A call that returns is the outermost one, or it leaves the outermost one there.
LEMMA ReturnRoot ==
  ASSUME NEW w, NEW r, NEW root, w.calls \in Seq(Frames), w.calls # <<>>, r.out \in Results,
         r.calls = ReturnCalls(w.calls, r.out), RootIs(w, root),
         r.out.kind = "value" => Head(w.calls).cell \in CleanIn(r)
                                   /\ r.memo[Head(w.calls).cell].out = r.out
  PROVE  RootIs(r, root)
<1> DEFINE s == w.calls
           out == r.out
<1>1. s[Len(s)].cell = root
  BY DEF RootIs
<1>2. CASE Tail(s) # <<>>
  <2>1. r.calls # <<>> /\ r.calls[Len(r.calls)].cell = s[Len(s)].cell
    BY <1>2, LastReturned
  <2> QED
    BY <1>1, <2>1 DEF RootIs
<1>3. CASE Tail(s) = <<>>
  <2>1. r.calls = <<>> /\ s[Len(s)] = Head(s)
    BY <1>3, LastReturned
  <2> QED
    BY <1>1, <2>1 DEF RootIs
<1> QED
  BY <1>2, <1>3

LEMMA StoppedRoot ==
  ASSUME NEW w, NEW r, NEW root, NEW c, w.calls \in Seq(Frames), w.calls # <<>>,
         r.out \in Results, RootIs(w, root), Stopped(w, r, c)
  PROVE  RootIs(r, root)
<1>1. r.out.kind # "value" /\ r.calls = ReturnCalls(w.calls, r.out)
  BY DEF Stopped, Stops
<1> QED
  BY <1>1, ReturnRoot

LEMMA RanRoot ==
  ASSUME NEW w, NEW r, NEW root, w.calls \in Seq(Frames), w.calls # <<>>,
         r.out \in Results, RootIs(w, root), EngineTyped(w.memo, w.pending, w.dirty),
         NEW c \in Cells, c = Head(w.calls).cell, NEW kind, NEW frame, RanHere(w, r, c, kind, frame)
  PROVE  RootIs(r, root)
<1> DEFINE e == [out |-> r.out, obs |-> frame.obs, reads |-> frame.reads]
<1>1. r.memo = [w.memo EXCEPT ![c] = e] /\ e.out = r.out
  BY DEF RanHere, Ran
<1> HIDE DEF e
<1>2. r.memo[c].out = r.out
  BY <1>1 DEF EngineTyped
<1>3. c \notin r.dirty /\ r.calls = ReturnCalls(w.calls, r.out)
  BY DEF RanHere, Ran
<1>4. r.out.kind = "value" => c \in CleanIn(r)
  BY <1>2, <1>3 DEF CleanIn, Clean
<1> QED
  BY <1>2, <1>3, <1>4, ReturnRoot

LEMMA ReusedRoot ==
  ASSUME NEW w, NEW r, NEW root, w.calls \in Seq(Frames), w.calls # <<>>,
         r.out \in Results, RootIs(w, root), NEW c \in Cells, c = Head(w.calls).cell,
         Reused(w, r, c)
  PROVE  RootIs(r, root)
<1>1. c \notin r.dirty /\ r.memo[c].out = r.out /\ r.calls = ReturnCalls(w.calls, r.out)
  BY DEF Reused
<1>2. r.out.kind = "value" => c \in CleanIn(r)
  BY <1>1 DEF CleanIn, Clean
<1> QED
  BY <1>1, <1>2, ReturnRoot

LEMMA ReplacedRoot ==
  ASSUME NEW w, NEW r, NEW root, w.calls \in Seq(Frames), w.calls # <<>>, RootIs(w, root),
         NEW next, next.cell = Head(w.calls).cell, Replaced(w, r, next)
  PROVE  RootIs(r, root)
<1> DEFINE s == w.calls
           t == <<next>> \o Tail(s)
<1>1. s[Len(s)].cell = root /\ r.calls = t
  BY DEF RootIs, Replaced
<1>2. t # <<>> /\ t[Len(t)].cell = s[Len(s)].cell
  BY LastReplaced
<1> HIDE DEF t, s
<1> QED
  BY <1>1, <1>2 DEF RootIs

LEMMA DescendedRoot ==
  ASSUME NEW w, NEW r, NEW root, w.calls \in Seq(Frames), w.calls # <<>>, RootIs(w, root),
         NEW next \in Frames, next.cell = Head(w.calls).cell, NEW d, Descended(w, r, next, d)
  PROVE  RootIs(r, root)
<1> DEFINE s == w.calls
           u == <<next>> \o Tail(s)
           top == Verification(w, d)
           t == <<top>> \o u
<1>1. s[Len(s)].cell = root /\ r.calls = t
  BY DEF RootIs, Descended
<1>2. u # <<>> /\ u[Len(u)].cell = s[Len(s)].cell
  BY LastReplaced
<1>3. u \in Seq(Frames)
  BY ReplacedAt
<1> HIDE DEF u, top, s
<1>4. t # <<>> /\ t[Len(t)] = u[Len(u)]
  BY <1>2, <1>3, LastPushed
<1> HIDE DEF t
<1> QED
  BY <1>1, <1>2, <1>4 DEF RootIs

\* Every step keeps the root.
LEMMA StepRoot ==
  ASSUME StateTyped, NEW w, NEW request, GoodCalls(w), w.calls # <<>>, NEW root, RootIs(w, root)
  PROVE  RootIs(GoOn(w, request), root) /\ Aside(GoOn(w, request)) = Aside(w)
<1> DEFINE f == Head(w.calls)
           r == GoOn(w, request)
           c == f.cell
<1>0. f \in Frames /\ IsWork(w) /\ w.calls \in Seq(Frames) /\ EngineTyped(w.memo, w.pending, w.dirty)
  BY TailAt DEF GoodCalls, CallsTyped, GoodWork, WorkTyped
<1>1. f.running \in BOOLEAN /\ c \in Cells
  BY <1>0 DEF Frames, Frame
<1>2. StepOf(w, r)
  BY <1>0, <1>1, GoOnOf
<1>3. r.out \in Results
  BY StepGood DEF GoodCalls, GoodWork, WorkTyped
<1>4. Aside(r) = Aside(w)
  BY <1>2, StepAside
<1> SUFFICES RootIs(r, root)
  BY <1>4
<1>c. c = Head(w.calls).cell /\ c = f.cell
  OBVIOUS
<1> HIDE DEF r, f, c
<1>5. CASE Stopped(w, r, c)
  BY <1>0, <1>3, <1>5, StoppedRoot
<1>6. ASSUME NEW kind, NEW frame, RanHere(w, r, c, kind, frame) PROVE RootIs(r, root)
  BY <1>0, <1>1, <1>3, <1>6, <1>c, RanRoot
<1>7. CASE Reused(w, r, c)
  BY <1>0, <1>1, <1>3, <1>7, <1>c, ReusedRoot
<1>8. ASSUME NEW next, next.cell = c, Replaced(w, r, next) PROVE RootIs(r, root)
  BY <1>0, <1>8, <1>c, ReplacedRoot
<1>9. ASSUME NEW next \in Frames, next.cell = c, NEW d, Descended(w, r, next, d)
      PROVE  RootIs(r, root)
  BY <1>0, <1>9, <1>c, DescendedRoot
<1>10. CASE Circular(w, r, c)
  <2>1. r.calls = w.calls
    BY <1>10 DEF Circular
  <2> QED
    BY <2>1 DEF RootIs
<1>11. CASE f.running
  <2>1. f \in Frame(TRUE, Atoms) /\ EvaluateStep(w, r, f)
    BY <1>0, <1>2, <1>11 DEF Frames, Frame, StepOf, f
  <2>2. CASE \E kind : RanHere(w, r, c, kind, f)
    BY <1>6, <2>2
  <2>3. ASSUME NEW x PROVE [f EXCEPT !.fail = x].cell = c
    BY <2>1, <1>c DEF Frame
  <2>4. CASE f.left # <<>>
    <3>1. Seen(f) \in Frame(TRUE, Atoms) /\ Seen(f).cell = c
      BY <1>c, <2>1, <2>4, SeenTyped
    <3> DEFINE g == Seen(f)
    <3> HIDE DEF g
    <3>2. ASSUME NEW x PROVE [g EXCEPT !.fail = x].cell = c /\ [g EXCEPT !.val = x].cell = c
      BY <3>1 DEF Frame, g
    <3>3. g \in Frames /\ g.cell = c
      BY <3>1 DEF Frames, g
    <3>4. CASE \E x : Replaced(w, r, [g EXCEPT !.fail = x])
      <4>1. PICK x : Replaced(w, r, [g EXCEPT !.fail = x])
        BY <3>4
      <4> DEFINE next == [g EXCEPT !.fail = x]
      <4>2. next.cell = c /\ Replaced(w, r, next)
        BY <3>2, <4>1
      <4> HIDE DEF next
      <4> QED
        BY <1>8, <4>2
    <3>5. CASE Replaced(w, r, [f EXCEPT !.fail = "exhausted"])
      <4> DEFINE next == [f EXCEPT !.fail = "exhausted"]
      <4>2. next.cell = c /\ Replaced(w, r, next)
        BY <2>3, <3>5
      <4> HIDE DEF next
      <4> QED
        BY <1>8, <4>2
    <3>6. CASE \E x : Replaced(w, r, [g EXCEPT !.val = x])
      <4>1. PICK x : Replaced(w, r, [g EXCEPT !.val = x])
        BY <3>6
      <4> DEFINE next == [g EXCEPT !.val = x]
      <4>2. next.cell = c /\ Replaced(w, r, next)
        BY <3>2, <4>1
      <4> HIDE DEF next
      <4> QED
        BY <1>8, <4>2
    <3>7. CASE \E d : Descended(w, r, g, d)
      BY <1>9, <3>3, <3>7
    <3>8. \/ Stopped(w, r, c) \/ \E kind : RanHere(w, r, c, kind, f)
          \/ \E x : Replaced(w, r, [g EXCEPT !.fail = x])
          \/ Replaced(w, r, [f EXCEPT !.fail = "exhausted"])
          \/ \E x : Replaced(w, r, [g EXCEPT !.val = x])
          \/ \E d : Descended(w, r, g, d)
      BY <2>1 DEF EvaluateStep, g, c
    <3> QED
      BY <1>5, <2>2, <3>4, <3>5, <3>6, <3>7, <3>8
  <2>5. CASE f.left = <<>>
    BY <1>5, <2>1, <2>2, <2>5 DEF EvaluateStep, c
  <2> QED
    BY <2>4, <2>5
<1>12. CASE ~ f.running
  <2>1. f \in Frame(FALSE, Cells) /\ VerifyStep(w, r, f)
    BY <1>0, <1>2, <1>12 DEF Frames, Frame, StepOf, f
  <2>2. Evaluation(c).cell = c
    BY DEF Evaluation
  <2>3. CASE f.left # <<>>
    <3> DEFINE left == Tail(f.left)
               g == [f EXCEPT !.left = left]
    <3>0. f.left \in Seq(Cells)
      BY <2>1 DEF Frame
    <3>1. left \in Seq(Cells)
      BY <2>3, <3>0, TailAt
    <3> HIDE DEF left
    <3>2. g \in Frames /\ g.cell = c
      BY <1>c, <2>1, <3>1 DEF Frames, Frame
    <3>3. CASE \E d : Descended(w, r, g, d)
      <4> HIDE DEF g
      <4> QED
        BY <1>9, <3>2, <3>3
    <3>4. \/ Stopped(w, r, c) \/ RanHere(w, r, c, "blocked", NoFrame)
          \/ Replaced(w, r, Evaluation(c)) \/ Reused(w, r, c) \/ Circular(w, r, c)
          \/ \E d : Descended(w, r, g, d)
      BY <2>1 DEF VerifyStep, left, c
    <3> QED
      BY <1>5, <1>6, <1>7, <1>8, <1>10, <2>2, <3>3, <3>4
  <2>4. CASE f.left = <<>>
    <3>1. \/ Stopped(w, r, c) \/ RanHere(w, r, c, "blocked", NoFrame)
          \/ Replaced(w, r, Evaluation(c)) \/ Reused(w, r, c)
      BY <2>1, <2>4 DEF VerifyStep, c
    <3> QED
      BY <1>5, <1>6, <1>7, <1>8, <2>2, <3>1
  <2> QED
    BY <2>3, <2>4
<1> QED
  BY <1>1, <1>11, <1>12

\* All the steps of a verification are those of its root.
LEMMA VerificationRooted ==
  ASSUME StateTyped, NEW w, NEW root \in Cells, NEW request, GoodWork(w)
  PROVE  \A k \in Nat : k <= MaxCalls =>
           LET v == Steps(w, root, request)[k] IN RootIs(v, root) /\ Aside(v) = Aside(w)
<1>0. MaxCalls \in Nat
  BY CalculatorAssumption
<1>1. RootIs(Begin(w, root), root) /\ Aside(Begin(w, root)) = Aside(w)
  <2> DEFINE v == [w EXCEPT !.calls = <<>>]
             top == Verification(v, root)
             new == <<top>> \o v.calls
             out == v.memo[root].out
             r == [v EXCEPT !.calls = new, !.out = out]
  <2>1. IsWork(v) /\ v.calls = <<>> /\ Aside(v) = Aside(w)
    BY DEF GoodWork, WorkTyped, IsWork, WorkFields, Aside
  <2>2. Begin(w, root) = r
    BY DEF Begin, Verify
  <2>3. top.cell = root
    BY DEF Verification
  <2> HIDE DEF v, out, top, new
  <2>4. r.calls = new /\ Aside(r) = Aside(v)
    BY <2>1 DEF IsWork, WorkFields, Aside
  <2> HIDE DEF r
  <2>5. Len(new) = 1 /\ new[1] = top /\ new # <<>>
    BY <2>1 DEF new
  <2>6. RootIs(r, root)
    BY <2>3, <2>4, <2>5 DEF RootIs
  <2> QED
    BY <2>1, <2>2, <2>4, <2>6
<1> DEFINE s == Steps(w, root, request)
           T == {k \in Nat : k <= MaxCalls => RootIs(s[k], root) /\ Aside(s[k]) = Aside(w)}
<1>2. 0 \in T
  BY <1>1, StepsAt
<1>3. ASSUME NEW k \in Nat, k \in T PROVE k + 1 \in T
  <2> SUFFICES ASSUME k + 1 <= MaxCalls
               PROVE  RootIs(s[k + 1], root) /\ Aside(s[k + 1]) = Aside(w)
    OBVIOUS
  <2>1. s[k + 1] = Continued(s[k], request)
    BY StepsAt
  <2>0. k <= MaxCalls
    BY <1>0
  <2>2. RootIs(s[k], root) /\ Aside(s[k]) = Aside(w) /\ GoodCalls(s[k])
    BY <1>3, <2>0, VerificationGood
  <2> DEFINE v == s[k]
  <2> HIDE DEF s, v
  <2>3. RootIs(v, root) /\ Aside(v) = Aside(w) /\ GoodCalls(v)
    BY <2>2 DEF v
  <2>4. CASE v.calls = <<>>
    BY <2>1, <2>3, <2>4 DEF Continued, v
  <2>5. CASE v.calls # <<>>
    <3>1. RootIs(GoOn(v, request), root) /\ Aside(GoOn(v, request)) = Aside(v)
      BY <2>3, <2>5, StepRoot
    <3> QED
      BY <2>1, <2>3, <2>5, <3>1 DEF Continued, v
  <2> QED
    BY <2>4, <2>5
<1> HIDE DEF T, s
<1>4. \A k \in Nat : k \in T
  BY <1>2, <1>3, SetInduction
<1> QED
  BY <1>4 DEF T, s

\* The value of a verification is that of a recalculation.
LEMMA VerifiedRight ==
  ASSUME StateTyped, NEW w, NEW root \in Cells, NEW request, GoodWork(w), Healthy(w)
  PROVE  LET v == Verified(w, root, request)
         IN /\ Aside(v) = Aside(w)
            /\ Settled /\ v.out.kind = "value" => v.out.val = Full!Recomputed(root)
<1> DEFINE done == Steps(w, root, request)[MaxCalls]
           v == Verified(w, root, request)
<1>0. MaxCalls \in Nat /\ MaxCalls <= MaxCalls
  BY CalculatorAssumption
<1>1. Sound(done) /\ RootIs(done, root) /\ Aside(done) = Aside(w)
  BY <1>0, VerificationSound, VerificationRooted
<1>2. EngineInv(done.memo, done.pending, done.dirty) /\ IsWork(done)
  BY <1>1 DEF Sound, GoodCalls, GoodWork, WorkTyped
<1>3. CASE done.calls = <<>>
  <2>1. v = done
    BY <1>3 DEF Verified
  <2> HIDE DEF v, done
  <2>2. ASSUME Settled, done.out.kind = "value" PROVE done.out.val = Full!Recomputed(root)
    <3>1. root \in Clean(done.memo, done.dirty) /\ done.memo[root].out = done.out
      BY <1>1, <1>3, <2>2 DEF RootIs, CleanIn
    <3>2. done.memo[root].out.val = Full!Recomputed(root)
      BY <1>2, <2>2, <3>1, CleanRight
    <3> QED
      BY <3>1, <3>2
  <2> QED
    BY <1>1, <2>1, <2>2 DEF v
<1>4. CASE done.calls # <<>>
  <2> DEFINE out == Outcome("unfinished", <<>>)
             r == [done EXCEPT !.out = out]
  <2>1. v = r
    BY <1>4 DEF Verified
  <2>2. out.kind # "value"
    BY DEF Outcome
  <2> HIDE DEF v, done, out
  <2>3. r.out = out /\ Aside(r) = Aside(done)
    BY <1>2 DEF IsWork, WorkFields, Aside
  <2> HIDE DEF r
  <2> QED
    BY <1>1, <2>1, <2>2, <2>3 DEF v
<1> QED
  BY <1>3, <1>4

----------------------------------------------------------------------------
\* What a request has answered so far, and what it carries along.
RightAnswers(a) == \A c \in DOMAIN a : a[c].kind = "value" => a[c].val = Full!Recomputed(c)
Narrowed(p, q) == DOMAIN p \subseteq DOMAIN q /\ \A c \in DOMAIN p : p[c] = q[c]
Carried(w, q, t) ==
  /\ Ready(w) /\ Healthy(w)
  /\ Narrowed(w.queue, q) /\ w.tokens = t /\ w.restored \subseteq restored_continuations
  /\ Settled => RightAnswers(w.answer)

LEMMA InvalidatedAside ==
  ASSUME NEW w, IsWork(w), NEW Q
  PROVE  IsWork(Invalidated(w, Q)) /\ Aside(Invalidated(w, Q)) = Aside(w)
<1> DEFINE p == w.pending \cup Observers(w.memo, Q)
           d == w.dirty \cup Readers(w.memo, Observers(w.memo, Q))
           r == [w EXCEPT !.pending = p, !.dirty = d]
<1>1. Invalidated(w, Q) = r
  BY DEF Invalidated
<1> HIDE DEF p, d
<1>2. IsWork(r) /\ Aside(r) = Aside(w)
  BY DEF IsWork, WorkFields, Aside
<1> QED
  BY <1>1, <1>2

LEMMA ConcludedAside ==
  ASSUME NEW w, Returning(w), NEW key \in Cells, NEW root
  PROVE  LET r == Concluded(w, key, root)
         IN /\ r.tokens = w.tokens /\ r.restored = w.restored /\ Narrowed(r.queue, w.queue)
            /\ r.answer = With(w.answer, root, w.out)
<1> DEFINE a == StoppedRootAttempt(w, key)
           Q == BlockedQueries(a, key)
<1>1. IsWork(a) /\ Aside(a) = Aside(w)
  <2>0. IsWork(w)
    BY DEF Returning
  <2>1. a = w \/ a = Attempted(w, key, w.out.kind)
    BY DEF StoppedRootAttempt
  <2> DEFINE kind == w.out.kind
  <2> HIDE DEF kind, a
  <2>2. IsWork(Attempted(w, key, kind)) /\ Aside(Attempted(w, key, kind)) = Aside(w)
    BY <2>0, AttemptedFields
  <2> QED
    BY <2>0, <2>1, <2>2 DEF kind
<1>3. PICK rec : CommitReceipts(a, key) = Invalidated([a EXCEPT !.receipts = rec], Q)
  BY DEF CommitReceipts, Q
<1> HIDE DEF a, Q
<1> DEFINE b == [a EXCEPT !.receipts = rec]
           done == CommitReceipts(a, key)
<1>4. IsWork(b) /\ Aside(b) = Aside(a)
  BY <1>1 DEF IsWork, WorkFields, Aside
<1> HIDE DEF b
<1>5. IsWork(done) /\ Aside(done) = Aside(b)
  BY <1>3, <1>4, InvalidatedAside DEF b
<1> DEFINE q == Pruned(done.queue, done.dirty)
           e == [done EXCEPT !.queue = q]
           cur == With(e.current, key, w.out)
           ans == With(e.answer, root, w.out)
           fail == IF w.out.kind = "value" THEN e.failed \ {key} ELSE e.failed \cup {key}
           r == [e EXCEPT !.current = cur, !.answer = ans, !.failed = fail]
<1>6. Concluded(w, key, root) = r
  BY DEF Concluded, CommitCurrent, a
<1>7. Narrowed(q, done.queue)
  <2> DEFINE p == done.queue
  <2> HIDE DEF p
  <2>1. Narrowed(Restrict(p, DOMAIN p \cap done.dirty), p)
    BY DEF Narrowed, Restrict
  <2> QED
    BY <2>1 DEF Pruned, p
<1> HIDE DEF done, q
<1>8. /\ IsWork(e) /\ e.queue = q /\ e.answer = done.answer /\ e.tokens = done.tokens
      /\ e.restored = done.restored
  BY <1>5 DEF IsWork, WorkFields
<1>9. ans = With(done.answer, root, w.out)
  BY <1>8
<1> HIDE DEF e, cur, ans, fail
<1>10. r.queue = e.queue /\ r.tokens = e.tokens /\ r.answer = ans /\ r.restored = e.restored
  BY <1>8 DEF IsWork, WorkFields
<1> HIDE DEF r
<1>11. /\ done.queue = w.queue /\ done.answer = w.answer /\ done.tokens = w.tokens
       /\ done.restored = w.restored
  BY <1>1, <1>4, <1>5 DEF Aside
<1> QED
  BY <1>6, <1>7, <1>8, <1>9, <1>10, <1>11

LEMMA AnsweredRight ==
  ASSUME NEW a, RightAnswers(a), NEW key, NEW out,
         out.kind = "value" => out.val = Full!Recomputed(key)
  PROVE  RightAnswers(With(a, key, out))
BY DEF RightAnswers, With

LEMMA ExecuteRootCarried ==
  ASSUME StateTyped, NEW w, NEW q, NEW t, Carried(w, q, t), NEW key \in Cells,
         NEW root, NEW request, NEW limit
  PROVE  Carried(ExecuteRoot(w, key, root, request, limit), q, t)
<1> DEFINE fuel == Fuel(key, limit)
           begun == [w EXCEPT !.fuel = fuel, !.attempts = <<>>, !.out = Unknown]
           v == IF root \in registered THEN Verified(begun, root, request) ELSE begun
           r == ExecuteRoot(w, key, root, request, limit)
<1>0. Ready(w) /\ Healthy(w)
  BY DEF Carried
<1>1. r = Concluded(v, key, root)
  BY DEF ExecuteRoot
<1> HIDE DEF fuel
<1>2. /\ IsWork(begun) /\ EngineKept(w, begun) /\ begun.attempts = <<>> /\ begun.out = Unknown
      /\ Aside(begun) = Aside(w)
  BY <1>0 DEF Ready, IsWork, WorkFields, EngineKept, Aside
<1> HIDE DEF begun
<1>3. GoodWork(begun) /\ Healthy(begun)
  <2>1. Unknown \in Results /\ <<>> \in Seq(Attempts)
    BY EmptySeq DEF Unknown, Outcome, Results, Stops
  <2> QED
    BY <1>0, <1>2, <2>1 DEF Ready, GoodWork, WorkTyped, BlockedMarked, BlockedPending, EngineKept,
         Healthy
<1>4. /\ Returning(v) /\ Aside(v) = Aside(w)
      /\ Settled /\ v.out.kind = "value" => v.out.val = Full!Recomputed(root)
  <2>1. CASE root \in registered
    <3>1. root \in Cells
      BY <2>1 DEF StateTyped
    <3> QED
      BY <1>2, <1>3, <2>1, <3>1, VerifiedGood, VerifiedRight
  <2>2. CASE root \notin registered
    <3>1. Unknown.kind # "value"
      BY DEF Unknown, Outcome
    <3> QED
      BY <1>2, <1>3, <2>2, <3>1 DEF GoodWork, WorkTyped, Returning
  <2> QED
    BY <2>1, <2>2
<1> HIDE DEF v
<1>5. Ready(r) /\ Healthy(r)
  BY <1>0, ExecuteRootReady, ExecuteRootHealthy
<1>6. /\ r.tokens = v.tokens /\ r.restored = v.restored /\ Narrowed(r.queue, v.queue)
      /\ r.answer = With(v.answer, root, v.out)
  BY <1>1, <1>4, ConcludedAside
<1> HIDE DEF r
<1>7. /\ v.tokens = t /\ v.queue = w.queue /\ v.answer = w.answer
      /\ v.restored \subseteq restored_continuations
  BY <1>4 DEF Aside, Carried
<1>8. Narrowed(r.queue, q)
  BY <1>6, <1>7 DEF Narrowed, Carried
<1>9. ASSUME Settled PROVE RightAnswers(r.answer)
  <2>1. RightAnswers(v.answer)
    BY <1>7, <1>9 DEF Carried
  <2> QED
    BY <1>4, <1>6, <1>9, <2>1, AnsweredRight
<1>10. r.tokens = t /\ r.restored \subseteq restored_continuations
  BY <1>6, <1>7
<1>11. Carried(r, q, t)
  BY <1>5, <1>8, <1>9, <1>10 DEF Carried
<1> QED
  BY <1>11 DEF r

LEMMA DirectedCarried ==
  ASSUME StateTyped, NEW roots, NEW request, NEW limit, NEW w, NEW q, NEW t, Carried(w, q, t),
         NEW c \in Cells
  PROVE  Carried(Directed(roots, request, limit, w, c), q, t)
<1>1. CASE c \notin roots \/ w.halted
  BY <1>1 DEF Directed
<1>2. CASE ~ (c \notin roots \/ w.halted)
  <2> DEFINE v == ExecuteRoot(w, c, c, request, limit)
             h == /\ v.out.kind # "value"
                  /\ EffectivePolicy(calc_policies, c)["error_mode"] = "fail-fast"
             r == [v EXCEPT !.halted = h]
  <2>1. Directed(roots, request, limit, w, c) = r
    BY <1>2 DEF Directed, FailingFast
  <2>2. Carried(v, q, t)
    BY ExecuteRootCarried
  <2> HIDE DEF v, h
  <2>3. IsWork(r) /\ EngineKept(v, r) /\ Aside(r) = Aside(v)
    BY <2>2 DEF Carried, Ready, IsWork, WorkFields, EngineKept, Aside
  <2> HIDE DEF r
  <2>4. Carried(r, q, t)
    BY <2>2, <2>3 DEF Carried, Ready, Healthy, EngineKept, Aside
  <2> QED
    BY <2>1, <2>4
<1> QED
  BY <1>1, <1>2

LEMMA RootsCarried ==
  ASSUME StateTyped, NEW roots, NEW request, NEW limit, NEW start, NEW q, NEW t,
         Carried(start, q, t)
  PROVE  Carried(RootsUpTo(roots, request, limit, start)[Len(CellOrder)], q, t)
<1> DEFINE n == Len(CellOrder)
           s == RootsUpTo(roots, request, limit, start)
           T == {k \in Nat : k <= n => Carried(s[k], q, t)}
<1>0. n \in Nat /\ \A k \in 1 .. n : CellOrder[k] \in Cells
  BY CalculatorAssumption
<1>1. 0 \in T
  BY RootsAt
<1>2. ASSUME NEW k \in Nat, k \in T PROVE k + 1 \in T
  <2> SUFFICES ASSUME k + 1 <= n PROVE Carried(s[k + 1], q, t)
    OBVIOUS
  <2>1. s[k + 1] = Directed(roots, request, limit, s[k], CellOrder[k + 1])
    BY RootsAt
  <2>2. Carried(s[k], q, t)
    BY <1>0, <1>2
  <2>3. CellOrder[k + 1] \in Cells
    BY <1>0
  <2> DEFINE v == s[k]
             c == CellOrder[k + 1]
  <2> HIDE DEF s, v, c
  <2>4. Carried(v, q, t) /\ c \in Cells
    BY <2>2, <2>3 DEF v, c
  <2>5. Carried(Directed(roots, request, limit, v, c), q, t)
    BY <2>4, DirectedCarried
  <2> QED
    BY <2>1, <2>5 DEF v, c
<1> HIDE DEF T, s
<1>3. n \in T
  BY <1>0, <1>1, <1>2, SetInduction
<1>4. n <= n
  BY <1>0
<1> QED
  BY <1>3, <1>4 DEF T, s

----------------------------------------------------------------------------
LEMMA StartCarried ==
  ASSUME EngineReady, AllSound
  PROVE  Carried(Start, queue, tokens)
<1>1. Ready(Start)
  BY StartReady
<1>2. Healthy(Start)
  <2>1. Start.memo = memo /\ Start.pending = pending /\ Start.dirty = dirty
    BY DEF Start
  <2> QED
    BY <2>1, SoundHealthy DEF Healthy
<1>3. /\ Start.tokens = tokens /\ Start.queue = queue /\ Start.answer = <<>>
      /\ Start.restored = restored_continuations
  BY DEF Start
<1>4. RightAnswers(<<>>)
  BY DEF RightAnswers
<1> QED
  BY <1>1, <1>2, <1>3, <1>4 DEF Carried, Narrowed

\* A request of the host: the continuations of its roots are numbered, and nobody
\* keeps them.
LEMMA CalculateCarried ==
  ASSUME StateTyped, EngineReady, AllSound, NEW roots, NEW mode, NEW limit,
         Calculate(roots, mode, limit)
  PROVE  \E w : \E x \in Numbered(w) : Commit(x) /\ x.answer = w.answer /\ Carried(w, queue, tokens)
<1>0. Carried(Start, queue, tokens) /\ IsWork(Start)
  BY StartCarried DEF Carried, Ready
<1> DEFINE Q == {<<"force", c>> : c \in Forced(roots, mode)}
           start == Invalidated(Start, Q)
           request == [automatic |-> FALSE, directed |-> roots \cup Forced(roots, mode)]
           w == RootsUpTo(roots, request, limit, start)[Len(CellOrder)]
<1>1. PICK x \in Numbered(w) : Commit(x)
  BY DEF Calculate
<1> HIDE DEF Q, request
<1>2. IsWork(start) /\ Invalidating(Start, start, Q) /\ Aside(start) = Aside(Start)
  BY <1>0, InvalidatedFields, InvalidatedAside
<1> HIDE DEF start
<1>3. Ready(start)
  <2>1. EngineTyped(start.memo, start.pending, start.dirty)
    BY <1>0, <1>2, InvalidatingTyped DEF Carried, Ready
  <2>2. BlockedPending(start.memo, start.pending)
    BY <1>0, <1>2 DEF Carried, Ready, BlockedPending, Invalidating
  <2> QED
    BY <1>2, <2>1, <2>2 DEF Ready
<1>4. Healthy(start)
  BY <1>0, <1>2, InvalidatingHealthy DEF Carried
<1>5. Carried(start, queue, tokens)
  BY <1>0, <1>2, <1>3, <1>4 DEF Carried, Aside
<1>6. Carried(w, queue, tokens)
  BY <1>5, RootsCarried
<1> HIDE DEF w
<1>7. x.answer = w.answer
  BY <1>1, <1>6, NumberedFields DEF Carried, Ready
<1> QED
  BY <1>1, <1>6, <1>7

\* One turn of the automatic queue: the entry and its continuation are taken.
LEMMA AutomaticCarried ==
  ASSUME StateTyped, EngineReady, AllSound, NEW c \in Cells, NEW limit, RunAutomatic(c, limit)
  PROVE  /\ c \in DOMAIN queue
         /\ \E w : \E x \in Requeued(w, c, QueuedRoot(c)) :
              /\ Commit(x) /\ x.answer = w.answer
              /\ Carried(w, Without(queue, {c}), Without(tokens, {queue[c]}))
<1>0. Carried(Start, queue, tokens) /\ IsWork(Start)
  BY StartCarried DEF Carried, Ready
<1> DEFINE q == Without(queue, {c})
           t == Without(tokens, {queue[c]})
           left == IF queue[c] \in DOMAIN tokens THEN restored_continuations
                   ELSE restored_continuations \ {queue[c]}
           begun == [Start EXCEPT !.queue = q, !.tokens = t, !.restored = left]
           request == [automatic |-> TRUE, directed |-> {}]
           root == QueuedRoot(c)
           w == ExecuteRoot(begun, c, root, request, limit)
<1>1. c \in DOMAIN queue /\ \E x \in Requeued(w, c, root) : Commit(x)
  BY DEF RunAutomatic, Start
<1>2. left \subseteq restored_continuations
  OBVIOUS
<1> HIDE DEF q, t, left, request, root
<1>3. /\ IsWork(begun) /\ EngineKept(Start, begun) /\ begun.queue = q /\ begun.tokens = t
      /\ begun.restored = left /\ begun.answer = Start.answer
  BY <1>0 DEF IsWork, WorkFields, EngineKept
<1> HIDE DEF begun
<1>4. Ready(begun) /\ Healthy(begun)
  BY <1>0, <1>3 DEF Carried, Ready, EngineKept, Healthy
<1>5. Carried(begun, q, t)
  BY <1>0, <1>2, <1>3, <1>4 DEF Carried, Narrowed
<1>6. Carried(w, q, t)
  BY <1>5, ExecuteRootCarried
<1> HIDE DEF w
<1>7. \A x \in Requeued(w, c, root) : x.answer = w.answer
  BY <1>6, RequeuedFields DEF Carried, Ready
<1> QED
  BY <1>1, <1>6, <1>7 DEF q, t, root

\* A request answers right, for the inputs as they are.
LEMMA RequestRight ==
  ASSUME TypedAndBlocked, AllSound, Request
  PROVE  /\ UNCHANGED <<inputVars, backendVars>> /\ ahead \subseteq ahead'
         /\ Settled => RightAnswers(answer')
<1>0. StateTyped /\ EngineReady
  BY DEF TypedAndBlocked
<1>1. ASSUME NEW roots, NEW mode, NEW limit, Calculate(roots, mode, limit)
      PROVE  \E w, q, t, x : Commit(x) /\ x.answer = w.answer /\ Carried(w, q, t)
  BY <1>0, <1>1, CalculateCarried
<1>2. ASSUME NEW c \in Cells, NEW limit, RunAutomatic(c, limit)
      PROVE  \E w, q, t, x : Commit(x) /\ x.answer = w.answer /\ Carried(w, q, t)
  BY <1>0, <1>2, AutomaticCarried
<1>3. PICK w, q, t, x : Commit(x) /\ x.answer = w.answer /\ Carried(w, q, t)
  BY <1>1, <1>2 DEF Request
<1> QED
  BY <1>3 DEF Commit, Carried

----------------------------------------------------------------------------
\* Edits, backends and cancellation answer nothing.
LEMMA EditQuiet ==
  ASSUME Edit
  PROVE  answer' = <<>>
BY DEF Edit, SetCell, RemoveCell, MoveCell, SourceEdited, BindValue, SetCalcPolicy,
       SetAuthorityPolicy, PolicyEdited, SetCodecRegistryRevision, ControlEdited, Quiet

LEMMA BackendsQuiet ==
  ASSUME Backends
  PROVE  answer' = <<>>
BY DEF Backends, Mount, Unmount, ControlEdited, ObserveMountEpoch, AttachRefreshSource,
       DetachRefreshSource, BackendWrite, Refresh, Quiet

LEMMA CancellationQuiet ==
  ASSUME Cancellation
  PROVE  answer' = <<>>
BY DEF Cancellation, CancelRequest, RequestCancellation, Quiet

\* Values that were answered while the last refresh saw everything.
AnswersAreRight == Settled => RightAnswers(answer)
Answering == TypedAndBlocked /\ AllSound /\ AnswersAreRight

LEMMA QuietRight ==
  ASSUME answer' = <<>>
  PROVE  AnswersAreRight'
BY DEF AnswersAreRight, RightAnswers

LEMMA SameRight ==
  ASSUME Settled => RightAnswers(answer'), UNCHANGED <<inputVars, backendVars>>,
         ahead \subseteq ahead'
  PROVE  AnswersAreRight'
<1>1. (Settled' => Settled) /\ \A c : Full!Recomputed(c)' = Full!Recomputed(c)
  BY SameValues
<1> QED
  BY <1>1 DEF AnswersAreRight, RightAnswers

LEMMA StillAnswering ==
  ASSUME AnswersAreRight, UNCHANGED vars
  PROVE  AnswersAreRight'
<1>1. UNCHANGED <<answer, inputVars, backendVars, ahead>>
  BY DEF vars
<1>2. Settled => RightAnswers(answer')
  BY <1>1 DEF AnswersAreRight
<1> QED
  BY <1>1, <1>2, SameRight

LEMMA AnsweringStep ==
  ASSUME TypedAndBlocked, AllSound, Next
  PROVE  AnswersAreRight'
<1>1. CASE Request
  BY <1>1, RequestRight, SameRight
<1>2. CASE Edit
  BY <1>2, EditQuiet, QuietRight
<1>3. CASE Backends
  BY <1>3, BackendsQuiet, QuietRight
<1>4. CASE Cancellation
  BY <1>4, CancellationQuiet, QuietRight
<1> QED
  BY <1>1, <1>2, <1>3, <1>4 DEF Next

\* MatchesFullRecomputation, for values: every value the engine hands a request for
\* a root is the one that a recalculation of the whole tree would give that root
\* for the inputs as they are, whether it was evaluated, reused, cut off or resumed
\* from a continuation, and whichever stamps backends give their entries.
THEOREM AnsweredValuesRight ==
  Spec => [](Settled => \A c \in DOMAIN answer :
               answer[c].kind = "value" => answer[c].val = Full!Recomputed(c))
<1>1. Init => Answering
  BY InitGood, InitSound DEF Answering, AnswersAreRight, RightAnswers, Init
<1>2. Answering /\ [Next]_vars => Answering'
  <2> SUFFICES ASSUME Answering, [Next]_vars PROVE Answering'
    OBVIOUS
  <2>1. TypedAndBlocked' /\ AllSound'
    BY NextGood, NextSound DEF Answering
  <2>2. AnswersAreRight'
    BY AnsweringStep, StillAnswering DEF Answering
  <2> QED
    BY <2>1, <2>2 DEF Answering
<1>3. Answering => (Settled => \A c \in DOMAIN answer :
                      answer[c].kind = "value" => answer[c].val = Full!Recomputed(c))
  BY DEF Answering, AnswersAreRight, RightAnswers
<1> QED
  BY <1>1, <1>2, <1>3, PTL DEF Spec

----------------------------------------------------------------------------
(***************************************************************************)
(* Continuations in one process: each is resumed by the entry it was       *)
(* issued for.                                                             *)
(***************************************************************************)
Own(q, t) ==
  /\ 0 \notin DOMAIN t
  /\ \A c \in DOMAIN q : q[c] = 0 \/ (q[c] \in DOMAIN t /\ t[q[c]] = c)
OwnTokens == restored_continuations = {} /\ Own(queue, tokens)
Resuming == TypedAndBlocked /\ AllSound /\ OwnTokens

LEMMA OwnNarrowed ==
  ASSUME NEW q, NEW t, Own(q, t), NEW p, Narrowed(p, q)
  PROVE  Own(p, t)
BY DEF Own, Narrowed

\* No other entry holds the number of the one that is taken.
LEMMA OwnTaken ==
  ASSUME NEW q, NEW t, Own(q, t), NEW c \in DOMAIN q
  PROVE  Own(Without(q, {c}), Without(t, {q[c]}))
<1> DEFINE p == Without(q, {c})
           s == Without(t, {q[c]})
<1>1. DOMAIN p = DOMAIN q \ {c} /\ \A x \in DOMAIN p : p[x] = q[x]
  BY DEF Without
<1>2. DOMAIN s = DOMAIN t \ {q[c]} /\ \A n \in DOMAIN s : s[n] = t[n]
  BY DEF Without
<1> HIDE DEF p, s
<1>3. ASSUME NEW x \in DOMAIN p, p[x] # 0 PROVE p[x] \in DOMAIN s /\ s[p[x]] = x
  <2>1. x # c /\ p[x] = q[x] /\ q[x] \in DOMAIN t /\ t[q[x]] = x
    BY <1>1, <1>3 DEF Own
  <2>2. q[x] # q[c]
    BY <2>1 DEF Own
  <2> QED
    BY <1>2, <2>1, <2>2
<1>4. 0 \notin DOMAIN s
  BY <1>2 DEF Own
<1> QED
  BY <1>3, <1>4 DEF Own, p, s

\* Nor the one that is given out.
LEMMA OwnGiven ==
  ASSUME NEW q, NEW t, Own(q, t), NEW c, NEW n, n # 0,
         n \notin DOMAIN Restrict(t, DOMAIN t \cap Range(q))
  PROVE  Own(With(q, c, n), With(Restrict(t, DOMAIN t \cap Range(q)), n, c))
<1> DEFINE held == Restrict(t, DOMAIN t \cap Range(q))
           p == With(q, c, n)
           s == With(held, n, c)
<1>1. DOMAIN held = DOMAIN t \cap Range(q) /\ \A k \in DOMAIN held : held[k] = t[k]
  BY DEF Restrict
<1>2. n \notin DOMAIN held
  OBVIOUS
<1> HIDE DEF held
<1>3. DOMAIN p = DOMAIN q \cup {c} /\ p[c] = n /\ \A x \in DOMAIN q : x # c => p[x] = q[x]
  BY DEF With
<1>4. DOMAIN s = DOMAIN held \cup {n} /\ s[n] = c /\ \A k \in DOMAIN held : k # n => s[k] = held[k]
  BY DEF With
<1> HIDE DEF p, s
<1>5. ASSUME NEW x \in DOMAIN p, p[x] # 0 PROVE p[x] \in DOMAIN s /\ s[p[x]] = x
  <2>1. CASE x = c
    BY <1>3, <1>4, <2>1
  <2>2. CASE x # c
    <3>1. x \in DOMAIN q /\ p[x] = q[x] /\ q[x] \in DOMAIN t /\ t[q[x]] = x
      BY <1>3, <1>5, <2>2 DEF Own
    <3>2. q[x] \in Range(q)
      BY <3>1 DEF Range
    <3>3. q[x] \in DOMAIN held /\ q[x] # n
      BY <1>1, <1>2, <3>1, <3>2
    <3> QED
      BY <1>1, <1>4, <3>1, <3>3
  <2> QED
    BY <2>1, <2>2
<1>6. 0 \notin DOMAIN s
  BY <1>1, <1>4 DEF Own
<1> QED
  BY <1>5, <1>6 DEF Own, p, s, held

LEMMA OwnRoot ==
  ASSUME OwnTokens, NEW c \in DOMAIN queue
  PROVE  QueuedRoot(c) = c
BY DEF OwnTokens, Own, QueuedRoot

LEMMA RequestOwn ==
  ASSUME TypedAndBlocked, AllSound, OwnTokens, Request
  PROVE  OwnTokens'
<1>0. StateTyped /\ EngineReady /\ restored_continuations = {} /\ Own(queue, tokens)
  BY DEF TypedAndBlocked, OwnTokens
<1>1. ASSUME NEW roots, NEW mode, NEW limit, Calculate(roots, mode, limit) PROVE OwnTokens'
  <2>1. PICK w : \E x \in Numbered(w) : Commit(x) /\ Carried(w, queue, tokens)
    BY <1>0, <1>1, CalculateCarried
  <2>2. PICK x \in Numbered(w) : Commit(x)
    BY <2>1
  <2>3. IsWork(w) /\ Narrowed(w.queue, queue) /\ w.tokens = tokens /\ w.restored = {}
    BY <1>0, <2>1 DEF Carried, Ready
  <2>4. x.queue = w.queue /\ x.restored = {} /\ x.tokens = Joined(<<>>, tokens)
    <3> DEFINE exhausted == {c \in DOMAIN w.answer : w.answer[c].kind = "exhausted"}
    <3>1. PICK issued \in Injection({}, exhausted) : x = [w EXCEPT !.tokens = Joined(issued, @)]
      BY <1>0 DEF Numbered
    <3>2. issued = <<>>
      BY <3>1 DEF Injection
    <3> DEFINE more == Joined(<<>>, tokens)
    <3>3. x = [w EXCEPT !.tokens = more]
      BY <2>3, <3>1, <3>2
    <3> HIDE DEF more
    <3> QED
      BY <2>3, <3>3 DEF IsWork, WorkFields, more
  <2>5. DOMAIN x.tokens = DOMAIN tokens /\ \A n \in DOMAIN tokens : x.tokens[n] = tokens[n]
    BY <2>4 DEF Joined
  <2>6. Own(x.queue, x.tokens)
    <3>1. Own(w.queue, tokens)
      BY <1>0, <2>3, OwnNarrowed
    <3> QED
      BY <2>4, <2>5, <3>1 DEF Own
  <2> QED
    BY <2>2, <2>4, <2>6 DEF Commit, OwnTokens
<1>2. ASSUME NEW c \in Cells, NEW limit, RunAutomatic(c, limit) PROVE OwnTokens'
  <2> DEFINE q == Without(queue, {c})
             t == Without(tokens, {queue[c]})
  <2>1. c \in DOMAIN queue
    BY <1>0, <1>2, AutomaticCarried
  <2>2. PICK w : \E x \in Requeued(w, c, QueuedRoot(c)) : Commit(x) /\ Carried(w, q, t)
    BY <1>0, <1>2, AutomaticCarried
  <2>3. PICK x \in Requeued(w, c, c) : Commit(x)
    BY <2>1, <2>2, OwnRoot
  <2>4. Own(q, t)
    BY <1>0, <2>1, OwnTaken
  <2> HIDE DEF q, t
  <2>5. IsWork(w) /\ Own(w.queue, w.tokens) /\ w.restored = {}
    BY <1>0, <2>2, <2>4, OwnNarrowed DEF Carried, Ready
  <2>6. CASE w.out.kind # "exhausted"
    BY <2>3, <2>5, <2>6 DEF Requeued, Commit, OwnTokens
  <2>7. CASE w.out.kind = "exhausted"
    <3>1. PICK number \in Numbers \ DOMAIN Held(w) :
            x = [w EXCEPT !.queue = With(@, c, number), !.tokens = With(Held(w), number, c)]
      BY <2>3, <2>7 DEF Requeued
    <3>2. number # 0
      BY DEF Numbers
    <3> DEFINE more == With(w.queue, c, number)
               toks == With(Held(w), number, c)
    <3>3. Own(more, toks)
      BY <2>5, <3>1, <3>2, OwnGiven DEF Held
    <3>4. x = [w EXCEPT !.queue = more, !.tokens = toks]
      BY <2>5, <3>1 DEF IsWork, WorkFields
    <3> HIDE DEF more, toks
    <3>5. x.queue = more /\ x.tokens = toks /\ x.restored = {}
      BY <2>5, <3>4 DEF IsWork, WorkFields
    <3> QED
      BY <2>3, <3>3, <3>5 DEF Commit, OwnTokens
  <2> QED
    BY <2>6, <2>7
<1> QED
  BY <1>1, <1>2 DEF Request

LEMMA ScheduledOwn ==
  ASSUME OwnTokens, NEW d, NEW policies, queue' = Scheduled(d, policies),
         UNCHANGED <<tokens, restored_continuations>>
  PROVE  OwnTokens'
BY DEF OwnTokens, Own, Scheduled

LEMMA KeptOwn ==
  ASSUME OwnTokens, Narrowed(queue', queue), UNCHANGED <<tokens, restored_continuations>>
  PROVE  OwnTokens'
BY OwnNarrowed DEF OwnTokens

LEMMA EditOwn ==
  ASSUME OwnTokens, Edit
  PROVE  OwnTokens'
<1>1. ASSUME NEW Q, NEW gone, SourceEdited(Q, gone) PROVE OwnTokens'
  BY <1>1, ScheduledOwn DEF SourceEdited
<1>2. ASSUME NEW n, BindValue(n) PROVE OwnTokens'
  BY <1>2, KeptOwn DEF BindValue, resultVars, Narrowed
<1>3. ASSUME NEW Q, PolicyEdited(Q) PROVE OwnTokens'
  <2> DEFINE policies == calc_policies'
             d == dirty'
  <2>1. queue' = Scheduled(d, policies) /\ UNCHANGED <<tokens, restored_continuations>>
    BY <1>3 DEF PolicyEdited, resultVars
  <2> HIDE DEF policies, d
  <2> QED
    BY <2>1, ScheduledOwn
<1>4. CASE SetCodecRegistryRevision
  BY <1>4, KeptOwn DEF SetCodecRegistryRevision, ControlEdited, resultVars, Narrowed
<1> QED
  BY <1>1, <1>2, <1>3, <1>4 DEF Edit, SetCell, RemoveCell, MoveCell, SetCalcPolicy,
                                SetAuthorityPolicy

LEMMA BackendsOwn ==
  ASSUME OwnTokens, Backends
  PROVE  OwnTokens'
<1>1. ASSUME NEW changed, Refresh(changed) PROVE OwnTokens'
  <2>1. UNCHANGED <<tokens, restored_continuations>>
          /\ (queue' = queue \/ queue' = Scheduled(dirty', calc_policies))
    BY <1>1 DEF Refresh, resultVars
  <2>2. CASE queue' = queue
    BY <2>1, <2>2, KeptOwn DEF Narrowed
  <2> DEFINE d == dirty'
  <2>3. CASE queue' = Scheduled(d, calc_policies)
    <3> HIDE DEF d
    <3> QED
      BY <2>1, <2>3, ScheduledOwn
  <2> QED
    BY <2>1, <2>2, <2>3
<1>2. ASSUME UNCHANGED <<queue, tokens, restored_continuations>> PROVE OwnTokens'
  BY <1>2, KeptOwn DEF Narrowed
<1> QED
  BY <1>1, <1>2 DEF Backends, Mount, Unmount, ControlEdited, ObserveMountEpoch,
       AttachRefreshSource, DetachRefreshSource, BackendWrite, resultVars, engineVars

\* A continuation resumes the root it was issued for, however often entries were
\* exhausted, cancelled, pruned and scheduled again: CommitCurrent gives a key its
\* own result.  That is within one process: restored numbers may collide.
THEOREM OwnRootResumed == Spec => [](\A c \in DOMAIN queue : QueuedRoot(c) = c)
<1>1. Init => Resuming
  BY InitGood, InitSound DEF Resuming, OwnTokens, Own, Init
<1>2. Resuming /\ [Next]_vars => Resuming'
  <2> SUFFICES ASSUME Resuming, [Next]_vars PROVE Resuming'
    OBVIOUS
  <2>1. TypedAndBlocked' /\ AllSound'
    BY NextGood, NextSound DEF Resuming
  <2>2. CASE Cancellation
    <3>1. Narrowed(queue', queue) /\ UNCHANGED <<tokens, restored_continuations>>
      BY <2>2 DEF Cancellation, CancelRequest, RequestCancellation, Narrowed, Without,
                  engineVars, resultVars
    <3> QED
      BY <2>1, <3>1, KeptOwn DEF Resuming
  <2>3. CASE UNCHANGED vars
    BY <2>1, <2>3, KeptOwn DEF Resuming, vars, engineVars, resultVars, Narrowed
  <2> QED
    BY <2>1, <2>2, <2>3, EditOwn, BackendsOwn, RequestOwn DEF Next, Resuming
<1>3. Resuming => \A c \in DOMAIN queue : QueuedRoot(c) = c
  BY OwnRoot DEF Resuming
<1> QED
  BY <1>1, <1>2, <1>3, PTL DEF Spec

----------------------------------------------------------------------------
(***************************************************************************)
(* Restarts.  A record was calculated from sources and policies that the   *)
(* state need not have any more, so what it says is put as a predicate of  *)
(* the identities it carries: s is <<<<cells, bound>>, <<calculation and   *)
(* authority policies, mounts>>>>.                                         *)
(***************************************************************************)
ResolvedFor(s, c, atom) ==
  CASE atom.kind = "ref" -> ResolveTarget(DOMAIN s[1][1], DOMAIN s[2][3], atom.arg)
    [] atom.kind = "sym" ->
         LET bare == IF atom.arg[1] \in DOMAIN s[1][2] THEN [found |-> None, obs |-> {}]
                     ELSE ResolveBare(DOMAIN s[1][1], c, atom.arg[1])
         IN [bare EXCEPT !.obs = @ \cup {<<"lexical", atom.arg>>}]
    [] OTHER -> [found |-> None, obs |-> {}]

PieceFor(s, m, c, atom, n) ==
  IF ResolvedFor(s, c, atom).found # None THEN m[ResolvedFor(s, c, atom).found].out.val
  ELSE CASE atom.kind = "ext" -> Entry(n)
         [] atom.kind \in {"lit", "opaque"} -> atom.arg
         [] atom.kind = "sym" /\ atom.arg[1] \in DOMAIN s[1][2] -> s[1][2][atom.arg[1]]
         [] OTHER -> <<"missing">>

PiecesFor(s, m, c, n, k) == [i \in 1..k |-> PieceFor(s, m, c, s[1][1][c][i], n)]

AtomSeenFor(s, c, atom, obs, reads) ==
  /\ atom.kind # "fail"
  /\ Watched(ResolvedFor(s, c, atom)) \subseteq obs
  /\ ResolvedFor(s, c, atom).found \in ToSet(reads) \cup {None}

SupportedFor(s, m, c, n) ==
  /\ \A x \in ToSet(m[c].reads) : m[x].out.kind = "value"
  /\ c \notin DOMAIN s[1][1] => m[c].out.val = <<"missing">>
  /\ c \in DOMAIN s[1][1] =>
       /\ ~ RequirementMissing(s[2][2], c)
       /\ \A k \in DOMAIN s[1][1][c] : AtomSeenFor(s, c, s[1][1][c][k], m[c].obs, m[c].reads)
       /\ m[c].out.val = FlattenSeq(PiecesFor(s, m, c, n, Len(s[1][1][c])))

Identities == <<SourceIdentity, ControlIdentity>>

LEMMA SupportedByIdentities ==
  ASSUME NEW m, NEW c \in Cells, NEW n
  PROVE  Supported(m, c, n) <=> SupportedFor(Identities, m, c, n)
<1> DEFINE s == Identities
<1>1. s[1][1] = cells /\ s[1][2] = bound /\ s[2][2] = authority_policies /\ s[2][3] = mounts
  BY DEF Identities, SourceIdentity, ControlIdentity
<1> HIDE DEF s
<1>2. \A atom : Resolved(c, atom) = ResolvedFor(s, c, atom)
  BY <1>1 DEF Resolved, ResolvedFor
<1>3. ASSUME NEW atom PROVE Piece(m, c, atom, n) = PieceFor(s, m, c, atom, n)
  <2>1. CASE Resolved(c, atom).found # None
    BY <1>2, <2>1 DEF Piece, PieceFor
  <2>2. CASE Resolved(c, atom).found = None /\ atom.kind = "ext"
    BY <1>2, <2>2 DEF Piece, PieceFor
  <2>3. CASE Resolved(c, atom).found = None /\ atom.kind # "ext"
    BY <1>1, <1>2, <2>3 DEF Piece, PieceFor, ImmediateValue
  <2> QED
    BY <2>1, <2>2, <2>3
<1>4. \A k : Pieces(m, c, n, k) = PiecesFor(s, m, c, n, k)
  BY <1>1, <1>3 DEF Pieces, PiecesFor
<1>5. \A atom, obs, reads : AtomSeen(c, atom, obs, reads) <=> AtomSeenFor(s, c, atom, obs, reads)
  BY <1>2 DEF AtomSeen, AtomSeenFor
<1>6. Full!Capable(c) <=> ~ RequirementMissing(s[2][2], c)
  BY <1>1, AuthorityAtOnce
<1>7. Supported(m, c, n) <=> SupportedFor(s, m, c, n)
  BY <1>1, <1>4, <1>5, <1>6 DEF Supported, SupportedFor
<1> QED
  BY <1>7 DEF s

\* The stamp of a cell's entry among the samples of a record.
SinceIn(samples, c) ==
  IF c \in Stored /\ MountOf(c) \in DOMAIN samples THEN StampOf(samples[MountOf(c)], c) ELSE 0

LEMMA SinceNow == \A c : Since(c) = SinceIn(refresh_samples, c)
BY DEF Since, SinceIn

\* What a record may be trusted for.
RecordTyped(r) ==
  /\ r.memo \in [Cells -> Memos] /\ r.dirty \subseteq Cells
  /\ \A m \in DOMAIN r.samples : DOMAIN r.samples[m] = SampleFields
  /\ DOMAIN r.identities[2][3] \subseteq DOMAIN r.samples

RecordSupported(r) ==
  \A c \in Cells \ r.dirty :
    r.memo[c].out.kind = "value" =>
      \E n : MayBe(r.ahead, SinceIn(r.samples, c), c, n) /\ SupportedFor(r.identities, r.memo, c, n)

RecordRight(r) ==
  /\ RecordTyped(r)
  /\ \A c \in Cells : r.memo[c].out.kind = "blocked" => c \in r.dirty
  /\ CleanGrounded(r.memo, r.dirty)
  /\ RecordSupported(r)

\* Nothing that happens to the backends makes a record wrong.
RecordSound == derived.kind = "graph" => RecordRight(derived)

LEMMA RecordKept ==
  ASSUME RecordSound, derived' = derived
  PROVE  RecordSound'
BY DEF RecordSound

----------------------------------------------------------------------------
\* Writing a record: what the memos of the cells reach is closed under reading.
LEMMA ReachedClosed ==
  ASSUME EngineTyped(memo, pending, dirty), DOMAIN cells \subseteq Cells
  PROVE  /\ Reached \subseteq Cells
         /\ \A c \in Reached : ToSet(memo[c].reads) \subseteq Reached
<1>1. Reached \subseteq Cells
  BY DEF Reached, RecursiveClosure
<1> SUFFICES ASSUME NEW c \in Reached, NEW y \in ToSet(memo[c].reads) PROVE y \in Reached
  BY <1>1
<1>2. y \in Cells
  <2>1. memo[c].reads \in Seq(Cells)
    BY <1>1, MemoOut
  <2> QED
    BY <2>1 DEF ToSet
<1> SUFFICES ASSUME NEW T \in SUBSET Cells, DOMAIN cells \subseteq T,
                    \A d \in T : ToSet(memo[d].reads) \subseteq T
             PROVE  y \in T
  BY <1>2 DEF Reached, RecursiveClosure
<1>3. c \in T
  BY DEF Reached, RecursiveClosure
<1> QED
  BY <1>3

LEMMA SnapshotFields ==
  /\ Snapshot.memo = [c \in Cells |-> IF c \in Reached THEN memo[c] ELSE NoMemo]
  /\ Snapshot.dirty = {c \in Reached : c \in dirty \/ ~ Reusable(memo[c])}
  /\ Snapshot.identities = Identities /\ Snapshot.samples = refresh_samples
  /\ Snapshot.ahead = ahead /\ Snapshot.kind = "graph"
BY DEF Snapshot, Identities

LEMMA SnapshotRight ==
  ASSUME TypedAndBlocked, AllSound
  PROVE  RecordRight(Snapshot)
<1>0. /\ EngineTyped(memo, pending, dirty) /\ pending \subseteq dirty
      /\ ValuesSupported(ahead, memo, pending) /\ CleanGrounded(memo, dirty)
      /\ BlockedPending(memo, pending) /\ DOMAIN cells \subseteq Cells /\ MountsTyped
  BY DEF TypedAndBlocked, AllSound, EngineReady, StateTyped, SourcesTyped
<1> DEFINE r == Snapshot
<1>1. /\ r.memo = [c \in Cells |-> IF c \in Reached THEN memo[c] ELSE NoMemo]
      /\ r.dirty = {c \in Reached : c \in dirty \/ ~ Reusable(memo[c])}
      /\ r.identities = Identities /\ r.samples = refresh_samples /\ r.ahead = ahead
  BY SnapshotFields
<1> HIDE DEF r
<1>2. Reached \subseteq Cells /\ \A c \in Reached : ToSet(memo[c].reads) \subseteq Reached
  BY <1>0, ReachedClosed
<1>3. NoMemo \in Memos /\ NoMemo.out.kind \notin {"value", "blocked"}
  BY DEF Memos, NoMemo, Unknown, Outcome
<1>4. RecordTyped(r)
  <2>1. r.memo \in [Cells -> Memos] /\ r.dirty \subseteq Cells
    BY <1>0, <1>1, <1>2, <1>3 DEF EngineTyped
  <2>2. r.identities[2][3] = mounts
    BY <1>1 DEF Identities, ControlIdentity
  <2> QED
    BY <1>0, <1>1, <2>1, <2>2 DEF RecordTyped, MountsTyped
<1>5. ASSUME NEW c \in Cells, r.memo[c].out.kind = "blocked" PROVE c \in r.dirty
  <2>1. c \in Reached /\ memo[c].out.kind = "blocked"
    BY <1>1, <1>3, <1>5
  <2> QED
    BY <1>0, <1>1, <2>1 DEF BlockedPending
<1>6. ASSUME NEW c \in Cells \ r.dirty, r.memo[c].out.kind = "value"
      PROVE  c \in Reached /\ r.memo[c] = memo[c] /\ memo[c].out.kind = "value" /\ c \notin dirty
  BY <1>1, <1>3, <1>6
<1>7. Clean(r.memo, r.dirty) \subseteq Clean(memo, dirty)
  BY <1>6 DEF Clean
<1>8. CleanGrounded(r.memo, r.dirty)
  <2> SUFFICES ASSUME NEW S \in SUBSET Clean(r.memo, r.dirty), S # {}
               PROVE  \E c \in S : ToSet(r.memo[c].reads) \cap S = {}
    BY DEF CleanGrounded
  <2>1. PICK c \in S : ToSet(memo[c].reads) \cap S = {}
    BY <1>0, <1>7 DEF CleanGrounded
  <2>2. r.memo[c] = memo[c]
    BY <1>6 DEF Clean
  <2> QED
    BY <2>1, <2>2
<1>9. \A c \in Cells : SinceIn(r.samples, c) = Since(c)
  BY <1>1, SinceNow
<1>10. RecordSupported(r)
  <2> SUFFICES ASSUME NEW c \in Cells \ r.dirty, r.memo[c].out.kind = "value"
               PROVE  \E n : MayBe(r.ahead, SinceIn(r.samples, c), c, n) /\
                        SupportedFor(r.identities, r.memo, c, n)
    BY DEF RecordSupported
  <2>1. c \in Reached /\ r.memo[c] = memo[c] /\ memo[c].out.kind = "value" /\ c \notin pending
    BY <1>0, <1>6
  <2>2. PICK n : MayBe(ahead, Since(c), c, n) /\ Supported(memo, c, n)
    BY <1>0, <2>1 DEF ValuesSupported
  <2>3. \A x \in ToSet(memo[c].reads) : r.memo[x] = memo[x]
    BY <1>1, <1>2, <2>1
  <2>4. Supported(r.memo, c, n)
    <3>1. \A x \in ToSet(r.memo[c].reads) : r.memo[x].out.kind = "value"
      BY <2>1, <2>2, <2>3 DEF Supported
    <3>2. ASSUME c \in DOMAIN cells, NEW k \in DOMAIN cells[c]
          PROVE  Piece(r.memo, c, cells[c][k], n) = Piece(memo, c, cells[c][k], n)
      <4>1. Resolved(c, cells[c][k]).found \in ToSet(memo[c].reads) \cup {None}
        BY <2>2, <3>2 DEF Supported, AtomSeen
      <4> QED
        BY <2>3, <4>1 DEF Piece
    <3>3. ASSUME c \in DOMAIN cells
          PROVE  Pieces(r.memo, c, n, Len(cells[c])) = Pieces(memo, c, n, Len(cells[c]))
      <4>1. cells[c] \in Seq(Atoms)
        BY <3>3 DEF TypedAndBlocked, StateTyped, SourcesTyped
      <4>2. \A k \in 1..Len(cells[c]) : k \in DOMAIN cells[c]
        BY <4>1
      <4> QED
        BY <3>2, <3>3, <4>2 DEF Pieces
    <3> QED
      BY <2>1, <2>2, <3>1, <3>3 DEF Supported
  <2>5. SupportedFor(r.identities, r.memo, c, n)
    BY <1>1, <2>4, SupportedByIdentities
  <2> QED
    BY <1>1, <1>9, <2>2, <2>5
<1> QED
  BY <1>4, <1>5, <1>8, <1>10 DEF RecordRight, r

----------------------------------------------------------------------------
\* An engine that knows nothing yet is sound.
LEMMA NewEngineSound ==
  ASSUME NEW S \in SUBSET Cells, memo' = [c \in Cells |-> NoMemo], pending' = S, dirty' = S
  PROVE  EngineReady' /\ AllSound'
<1>1. NoMemo \in Memos /\ NoMemo.out.kind \notin {"value", "blocked"}
  BY DEF Memos, NoMemo, Unknown, Outcome
<1>2. EngineTyped(memo', pending', dirty') /\ BlockedPending(memo', pending')
  BY <1>1 DEF EngineTyped, BlockedPending
<1>3. \A c \in Cells : memo'[c].out.kind # "value"
  BY <1>1
<1>4. ValuesSupported(ahead, memo, pending)'
  BY <1>3 DEF ValuesSupported
<1>5. Clean(memo', dirty') = {}
  BY <1>3 DEF Clean
<1>6. CleanClosed(memo', dirty') /\ CleanGrounded(memo', dirty')
  BY <1>5 DEF CleanClosed, CleanGrounded
<1> QED
  BY <1>2, <1>4, <1>6 DEF EngineReady, AllSound, EngineTyped, BlockedPending, CleanClosed,
       CleanGrounded, Clean

\* The samples of the mounts alone.
LEMMA FirstSamples ==
  ASSUME refresh_samples' = MountSamples, DOMAIN mounts \subseteq Mounts, mounts' = mounts,
         refresh_sources' \subseteq DOMAIN mounts
  PROVE  MountsTyped'
BY DEF MountsTyped, MountSamples, EpochOnly, SampleFields

----------------------------------------------------------------------------
LEMMA SupportedSame ==
  ASSUME UNCHANGED <<cells, bound, authority_policies, mounts>>, NEW m, memo' = m,
         NEW c, NEW n, Supported(m, c, n)
  PROVE  Supported(memo, c, n)'
<1>1. Full!Capable(c)' <=> Full!Capable(c)
  BY SameAuthority
<1>2. ASSUME NEW atom
      PROVE  /\ Resolved(c, atom)' = Resolved(c, atom)
             /\ atom.kind # "ext" => ImmediateValue(c, atom)' = ImmediateValue(c, atom)
  BY DEF Resolved, ImmediateValue, ResolveTarget, ResolveBare
<1>3. ASSUME NEW atom, NEW obs, NEW reads, AtomSeen(c, atom, obs, reads)
      PROVE  AtomSeen(c, atom, obs, reads)'
  BY <1>2, <1>3 DEF AtomSeen, Watched
<1> QED
  BY <1>1, <1>2, <1>3 DEF Supported, Pieces, Piece

\* A record that matches what the process has loaded is reused as it was.
LEMMA RehydratedSound ==
  ASSUME StateTyped, RecordRight(derived), StateMatches(derived), Rehydrate(derived),
         UNCHANGED <<inputVars, refresh_sources, backend>>
  PROVE  EngineReady' /\ AllSound' /\ MountsTyped'
<1> DEFINE r == derived
           m == r.memo
           p == pending'
           d == dirty'
<1>0. /\ UNCHANGED <<cells, bound, authority_policies, mounts, backend>>
      /\ registered \subseteq Cells /\ MountsTyped /\ BackendTyped
  BY DEF inputVars, StateTyped
<1>1. /\ memo' = m /\ refresh_samples' = r.samples /\ ahead' = r.ahead
      /\ p = (registered \ {c \in Cells : m[c] # NoMemo}) \cup r.dirty
      /\ d = p \cup Readers(m, r.dirty)
  BY DEF Rehydrate
<1>2. r.identities = Identities
  BY DEF StateMatches, Identities
<1>3. /\ m \in [Cells -> Memos] /\ r.dirty \subseteq Cells
      /\ \A c \in Cells : m[c].out.kind = "blocked" => c \in r.dirty
      /\ CleanGrounded(m, r.dirty)
      /\ \A s \in DOMAIN r.samples : DOMAIN r.samples[s] = SampleFields
      /\ DOMAIN r.identities[2][3] \subseteq DOMAIN r.samples
  BY DEF RecordRight, RecordTyped
<1>4. ASSUME NEW c \in Cells \ r.dirty, m[c].out.kind = "value"
      PROVE  \E n : MayBe(r.ahead, SinceIn(r.samples, c), c, n) /\ Supported(m, c, n)
  BY <1>2, <1>4, SupportedByIdentities DEF RecordRight, RecordSupported
<1> HIDE DEF p, d, m
<1>5. EngineTyped(m, p, d) /\ BlockedPending(m, p) /\ p \subseteq d /\ r.dirty \subseteq p
  <2>1. Readers(m, r.dirty) \subseteq Cells
    BY DEF Readers
  <2> QED
    BY <1>0, <1>1, <1>3, <2>1 DEF EngineTyped, BlockedPending
<1>6. \A c \in Cells : Since(c)' = SinceIn(r.samples, c)
  BY <1>0, <1>1 DEF Since, SinceIn, MountOf, StampOf
<1>7. ValuesSupported(ahead, memo, pending)'
  <2> SUFFICES ASSUME NEW c \in Cells, c \notin p, m[c].out.kind = "value"
               PROVE  \E n : MayBe(ahead, Since(c), c, n)' /\ Supported(memo, c, n)'
    BY <1>1 DEF ValuesSupported, p
  <2>1. PICK n : MayBe(r.ahead, SinceIn(r.samples, c), c, n) /\ Supported(m, c, n)
    BY <1>4, <1>5
  <2>2. Supported(memo, c, n)'
    BY <1>0, <1>1, <2>1, SupportedSame
  <2>3. MayBe(ahead, Since(c), c, n)'
    BY <1>1, <1>6, <2>1 DEF MayBe
  <2> QED
    BY <2>2, <2>3
<1>8. CleanClosed(m, d)
  <2> SUFFICES ASSUME NEW c \in Clean(m, d), NEW y \in ToSet(m[c].reads) PROVE y \in Clean(m, d)
    BY DEF CleanClosed
  <2>1. c \in Cells /\ c \notin d /\ m[c].out.kind = "value"
    BY DEF Clean
  <2>2. y \in Cells
    BY <1>5, <2>1, MemoOut DEF ToSet
  <2>3. m[y].out.kind = "value"
    BY <1>4, <1>5, <2>1 DEF Supported
  <2>4. m[y] # NoMemo
    BY <2>3 DEF NoMemo, Unknown, Outcome
  <2>5. y \notin Readers(m, r.dirty)
    BY <1>1, <1>3, <2>1, ReadersClosed
  <2>6. y \notin r.dirty
    BY <1>3, <2>5, ReadersClosed
  <2>7. y \notin d
    BY <1>1, <2>2, <2>4, <2>5, <2>6
  <2> QED
    BY <2>2, <2>3, <2>7 DEF Clean
<1>9. CleanGrounded(m, d)
  <2>1. Clean(m, d) \subseteq Clean(m, r.dirty)
    BY <1>5 DEF Clean
  <2> QED
    BY <1>3, <2>1 DEF CleanGrounded
<1>10. EngineReady'
  BY <1>1, <1>5 DEF EngineReady, EngineTyped, BlockedPending, p, d
<1>11. AllSound'
  <2>1. memo' = m /\ pending' = p /\ dirty' = d
    BY <1>1 DEF p, d
  <2> QED
    BY <1>5, <1>7, <1>8, <1>9, <2>1 DEF AllSound, EngineTyped, CleanClosed, CleanGrounded, Clean
<1>12. MountsTyped'
  <2>1. DOMAIN mounts \subseteq DOMAIN r.samples
    BY <1>2, <1>3 DEF Identities, ControlIdentity
  <2> QED
    BY <1>0, <1>1, <1>3, <2>1 DEF MountsTyped
<1> QED
  BY <1>10, <1>11, <1>12

LEMMA RestoredSound ==
  ASSUME TypedAndBlocked, AllSound, RecordSound, RestoreDerived
  PROVE  TypedAndBlocked' /\ AllSound'
<1>0. /\ StateTyped /\ UNCHANGED <<inputVars, refresh_sources, backend>>
      /\ BackendTyped /\ MountsTyped /\ DOMAIN cells \subseteq Cells
  BY DEF TypedAndBlocked, RestoreDerived, StateTyped, SourcesTyped
<1>1. registered' \subseteq Cells
  BY <1>0 DEF RestoreDerived, Rehydrate, Rebuild, NewEngine, StateTyped
<1>2. MountsTyped' => StateTyped'
  BY <1>0, <1>1 DEF StateTyped, SourcesTyped, BackendTyped, inputVars
<1>3. ASSUME Rebuild PROVE EngineReady' /\ AllSound' /\ MountsTyped'
  <2>1. EngineReady' /\ AllSound'
    BY <1>0, <1>3, NewEngineSound DEF Rebuild, NewEngine
  <2>2. MountsTyped'
    BY <1>0, <1>3, FirstSamples DEF Rebuild, inputVars, MountsTyped
  <2> QED
    BY <2>1, <2>2
<1>4. ASSUME derived.kind = "graph", StateMatches(derived), Rehydrate(derived)
      PROVE  EngineReady' /\ AllSound' /\ MountsTyped'
  BY <1>0, <1>4, RehydratedSound DEF RecordSound
<1> QED
  BY <1>2, <1>3, <1>4 DEF RestoreDerived, TypedAndBlocked

LEMMA ReopenedSound ==
  ASSUME TypedAndBlocked, NEW tree, NEW edits, Reopen(tree, edits),
         DOMAIN tree \subseteq Cells, tree \in [DOMAIN tree -> Seq(Atoms)]
  PROVE  TypedAndBlocked' /\ AllSound'
<1>0. /\ StateTyped /\ BackendTyped /\ MountsTyped
      /\ UNCHANGED <<bound, authority_policies, mounts, backend>>
      /\ cells' = tree /\ registered' = DOMAIN tree
  BY DEF TypedAndBlocked, Reopen, StateTyped, NewEngine
<1>1. EngineReady' /\ AllSound'
  BY NewEngineSound DEF Reopen, NewEngine
<1>2. MountsTyped'
  BY <1>0, FirstSamples DEF Reopen, MountsTyped
<1>3. StateTyped'
  BY <1>0, <1>2 DEF StateTyped, SourcesTyped, BackendTyped
<1> QED
  BY <1>1, <1>3 DEF TypedAndBlocked

----------------------------------------------------------------------------
RestartInv == TypedAndBlocked /\ AllSound /\ RecordSound

\* A step of the process that is running.
LEMMA RunningStep ==
  ASSUME RestartInv, Next, derived' = derived
  PROVE  RestartInv'
BY NextGood, NextSound, RecordKept DEF RestartInv

LEMMA RestartStep ==
  ASSUME RestartInv, [RestartNext]_restartVars
  PROVE  RestartInv'
<1>0. TypedAndBlocked /\ AllSound /\ RecordSound /\ StateTyped /\ BackendTyped /\ SourcesTyped
  BY DEF RestartInv, TypedAndBlocked, StateTyped
<1>1. ASSUME UNCHANGED <<vars, derived>> PROVE RestartInv'
  <2>1. TypedAndBlocked' /\ AllSound'
    BY <1>0, <1>1, NextGood, NextSound
  <2>2. RecordSound'
    BY <1>0, <1>1, RecordKept
  <2> QED
    BY <2>1, <2>2 DEF RestartInv
<1>2. ASSUME Next, UNCHANGED persistVars PROVE RestartInv'
  BY <1>2, RunningStep DEF persistVars
<1>3. ASSUME UNCHANGED <<inputVars, backendVars, engineVars, ahead>>,
             derived'.kind = "graph" => derived' = Snapshot
      PROVE  RestartInv'
  <2>1. UNCHANGED <<cells, bound, authority_policies, mounts, refresh_sources, refresh_samples,
                    backend, registered, memo, pending, dirty, ahead>>
    BY <1>3 DEF inputVars, backendVars, engineVars
  <2>2. TypedAndBlocked'
    BY <1>0, <2>1 DEF TypedAndBlocked, StateTyped, SourcesTyped, BackendTyped, MountsTyped,
         EngineReady, EngineTyped, BlockedPending
  <2>3. AllSound'
    BY <1>0, <2>1, NothingSound
  <2>4. ASSUME derived'.kind = "graph" PROVE RecordRight(derived')
    BY <1>0, <1>3, <2>4, SnapshotRight
  <2> QED
    BY <2>2, <2>3, <2>4 DEF RestartInv, RecordSound
<1>4. CASE PersistDerived
  BY <1>3, <1>4 DEF PersistDerived, Quiet
<1>5. ASSUME NEW kind \in {"missing", "corrupt", "incompatible"}, SpoilRecord(kind)
      PROVE  RestartInv'
  <2>1. derived'.kind = kind
    BY <1>5 DEF SpoilRecord, Record
  <2> QED
    BY <1>3, <1>5, <2>1 DEF SpoilRecord, Quiet
<1>6. ASSUME NEW tree, NEW edits, Reopen(tree, edits),
             DOMAIN tree \subseteq Cells, tree \in [DOMAIN tree -> Seq(Atoms)]
      PROVE  RestartInv'
  <2>1. TypedAndBlocked' /\ AllSound'
    BY <1>0, <1>6, ReopenedSound
  <2>2. RecordSound'
    BY <1>0, <1>6, RecordKept DEF Reopen
  <2> QED
    BY <2>1, <2>2 DEF RestartInv
<1>7. ASSUME NEW edits, Reopen(cells, edits) PROVE RestartInv'
  BY <1>0, <1>6, <1>7 DEF SourcesTyped
<1>8. ASSUME NEW c \in DOMAIN Sources, NEW e \in Sources[c], Reopen(With(cells, c, e), 0)
      PROVE  RestartInv'
  <2> DEFINE tree == With(cells, c, e)
  <2>1. c \in Cells /\ e \in Seq(Atoms)
    BY ExpressionAssumption
  <2>2. DOMAIN tree \subseteq Cells /\ tree \in [DOMAIN tree -> Seq(Atoms)]
    BY <1>0, <2>1 DEF With, SourcesTyped
  <2> QED
    BY <1>6, <1>8, <2>2
<1>9. CASE RestoreDerived
  <2>1. TypedAndBlocked' /\ AllSound'
    BY <1>0, <1>9, RestoredSound
  <2>2. derived' = derived \/ derived' = NoRecord
    BY <1>9 DEF RestoreDerived, Rehydrate, Rebuild
  <2>3. NoRecord.kind # "graph"
    BY DEF NoRecord, Record
  <2>4. RecordSound'
    <3>1. CASE derived' = derived
      BY <1>0, <3>1, RecordKept
    <3>2. CASE derived' = NoRecord
      BY <2>3, <3>2 DEF RecordSound
    <3> QED
      BY <2>2, <3>1, <3>2
  <2> QED
    BY <2>1, <2>4 DEF RestartInv
<1>10. ASSUME (Edit \/ Backends \/ Request) /\ UNCHANGED persistVars PROVE RestartInv'
  BY <1>2, <1>10 DEF Next
<1>11. CASE UNCHANGED restartVars
  BY <1>1, <1>11 DEF restartVars, persistVars
<1> QED
  BY <1>4, <1>5, <1>7, <1>8, <1>9, <1>10, <1>11 DEF RestartNext

LEMMA RestartStart == RestartInit => RestartInv
BY InitGood, InitSound DEF RestartInit, RestartInv, RecordSound, NoRecord, Record

\* FreshIsSound: also a process that rehydrates the record of an earlier one, of
\* the same tree or of one that was edited and edited back, spoilt or not, calls
\* a cell fresh only with the value of a recalculation.
THEOREM RestartedFreshSound == RestartSpec => []FreshIsSound
<1>1. RestartInit => RestartInv
  BY RestartStart
<1>2. RestartInv /\ [RestartNext]_restartVars => RestartInv'
  BY RestartStep
<1>3. RestartInv => FreshIsSound
  BY CleanFresh DEF RestartInv
<1> QED
  BY <1>1, <1>2, <1>3, PTL DEF RestartSpec

----------------------------------------------------------------------------
\* What an entry of an earlier process answers.  Its continuation may be one that
\* the new engine issued for another root: the answer is kept for the root that
\* the engine verified.
RestartAnswering == RestartInv /\ AnswersAreRight

LEMMA RestartAnsweringStep ==
  ASSUME RestartAnswering, [RestartNext]_restartVars
  PROVE  AnswersAreRight'
<1>0. TypedAndBlocked /\ AllSound /\ AnswersAreRight
  BY DEF RestartAnswering, RestartInv
<1>1. CASE UNCHANGED restartVars
  BY <1>0, <1>1, StillAnswering DEF restartVars
<1>2. CASE Next
  BY <1>0, <1>2, AnsweringStep
<1>3. CASE PersistDerived
  BY <1>3, QuietRight DEF PersistDerived, Quiet
<1>4. ASSUME NEW kind, SpoilRecord(kind) PROVE AnswersAreRight'
  BY <1>4, QuietRight DEF SpoilRecord, Quiet
<1>5. ASSUME NEW tree, NEW edits, Reopen(tree, edits) PROVE AnswersAreRight'
  BY <1>5, QuietRight DEF Reopen
<1>6. CASE RestoreDerived
  BY <1>6, QuietRight DEF RestoreDerived
<1> QED
  BY <1>1, <1>2, <1>3, <1>4, <1>5, <1>6 DEF RestartNext, Next

\* The same of a process that rehydrated the record of an earlier one: the value
\* the engine hands over for a root is that of a recalculation, also when the root
\* was resumed with the continuation of an entry of the earlier process.
THEOREM RestartedValuesRight ==
  RestartSpec => [](Settled => \A c \in DOMAIN answer :
                      answer[c].kind = "value" => answer[c].val = Full!Recomputed(c))
<1>1. RestartInit => RestartAnswering
  BY RestartStart DEF RestartInit, Init, RestartAnswering, AnswersAreRight, RightAnswers
<1>2. RestartAnswering /\ [RestartNext]_restartVars => RestartAnswering'
  BY RestartStep, RestartAnsweringStep DEF RestartAnswering
<1>3. RestartAnswering => (Settled => \A c \in DOMAIN answer :
                      answer[c].kind = "value" => answer[c].val = Full!Recomputed(c))
  BY DEF RestartAnswering, AnswersAreRight, RightAnswers
<1> QED
  BY <1>1, <1>2, <1>3, PTL DEF RestartSpec

=============================================================================
