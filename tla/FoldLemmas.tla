----------------------------- MODULE FoldLemmas -----------------------------
(***************************************************************************)
(* Lemmas that the proofs of several modules need: induction on a number   *)
(* and on a finite set, as statements about sets; that a fold of the       *)
(* community modules is what its recursion says; and what the operators    *)
(* on sequences do to the elements.                                        *)
(***************************************************************************)
EXTENDS Integers, Sequences, SequencesExt, FiniteSetTheorems, SequenceTheorems, TLAPS

-----------------------------------------------------------------------------
(* Induction.                                                              *)

(* Every set of numbers has a least one.                                   *)
LEMMA LeastNumber ==
    ASSUME NEW S \in SUBSET Nat, S # {}
    PROVE  \E m \in S : \A n \in S : m <= n
<1>1. PICK m \in S : \A n \in S : <<n, m>> \notin OpToRel(<, Nat)
  BY NatLessThanWellFounded, WFMin, Zenon
<1>2. ASSUME NEW n \in S PROVE m <= n
  <2>1. <<n, m>> \notin {ss \in Nat \X Nat : ss[1] < ss[2]}
    BY <1>1, Zenon DEF OpToRel
  <2> QED
    BY <2>1
<1> QED
  BY <1>2

(* What holds of 0 and is handed on holds up to n.                         *)
LEMMA HandedOn ==
    ASSUME NEW n \in Nat, NEW G, 0 \in G, \A i \in 1 .. n : i - 1 \in G => i \in G
    PROVE  0 .. n \subseteq G
<1>1. CASE (0 .. n) \ G = {}
  BY <1>1
<1>2. CASE (0 .. n) \ G # {}
  <2>1. PICK m \in (0 .. n) \ G : \A i \in (0 .. n) \ G : m <= i
    <3> DEFINE F == (0 .. n) \ G
    <3>1. F \in SUBSET Nat /\ F # {}
      BY <1>2
    <3> HIDE DEF F
    <3>2. \E m \in F : \A i \in F : m <= i
      BY <3>1, LeastNumber
    <3> QED
      BY <3>2 DEF F
  <2> QED
    BY <2>1
<1> QED
  BY <1>1, <1>2

(* Every family of subsets of a finite set has a minimal one.              *)
LEMMA LeastSubset ==
    ASSUME NEW D, IsFiniteSet(D), NEW F \in SUBSET (SUBSET D), F # {}
    PROVE  \E s \in F : \A u \in F : u \subseteq s => u = s
<1>1. IsWellFoundedOn(StrictSubsetOrdering(D), SUBSET D)
  BY FS_StrictSubsetOrderingWellFounded, FS_FiniteSubsetsOfFinite
<1>2. PICK s \in F : \A u \in F : <<u, s>> \notin StrictSubsetOrdering(D)
  BY <1>1, WFMin
<1> QED
  BY <1>2 DEF StrictSubsetOrdering
-----------------------------------------------------------------------------
(* Folds.                                                                  *)

(* ch takes an element of each subset of U.                                *)
Chooses(ch, U) == \A s \in SUBSET U : s # {} => ch[s] \in s

(* g folds the subsets of U from base, taking out ch[s] of each.           *)
Folds(g, U, T, base, ch, step) ==
    /\ g \in [SUBSET U -> T]
    /\ \A s \in SUBSET U :
          g[s] = IF s = {} THEN base ELSE step[<<g[s \ {ch[s]}], ch[s]>>]

LEMMA FoldUnique ==
    ASSUME NEW U, IsFiniteSet(U), NEW T, NEW base, NEW step,
           NEW ch, Chooses(ch, U),
           NEW g, Folds(g, U, T, base, ch, step),
           NEW h, Folds(h, U, T, base, ch, step)
    PROVE  g = h
<1> DEFINE F == {s \in SUBSET U : g[s] # h[s]}
<1>1. CASE F = {}
  BY <1>1 DEF Folds
<1>2. CASE F # {}
  <2>1. PICK s \in F : \A u \in F : u \subseteq s => u = s
    <3>1. F \in SUBSET (SUBSET U)
      OBVIOUS
    <3> HIDE DEF F
    <3> QED
      BY <1>2, <3>1, LeastSubset
  <2>2. s # {}
    BY <2>1 DEF Folds
  <2>3. ch[s] \in s
    BY <2>2 DEF Chooses
  <2>4. g[s \ {ch[s]}] = h[s \ {ch[s]}]
    BY <2>1, <2>3
  <2> QED
    BY <2>1, <2>2, <2>4 DEF Folds
<1> QED
  BY <1>1, <1>2

(* A fold of the subsets of U is one of those of a part of U.              *)
LEMMA FoldPart ==
    ASSUME NEW U, NEW V \in SUBSET U, NEW T, NEW base, NEW step,
           NEW ch, Chooses(ch, U),
           NEW g, Folds(g, U, T, base, ch, step),
           NEW h, h = [s \in SUBSET V |-> g[s]]
    PROVE  Folds(h, V, T, base, ch, step)
<1>1. \A s \in SUBSET V : s \in SUBSET U /\ s \ {ch[s]} \in SUBSET V
  OBVIOUS
<1> QED
  BY <1>1 DEF Folds

(* A fold with values in T exists.                                         *)
LEMMA FoldExists ==
    ASSUME NEW D, IsFiniteSet(D), NEW T, NEW base \in T, NEW step \in [T \X D -> T],
           NEW ch, Chooses(ch, D)
    PROVE  \E g : Folds(g, D, T, base, ch, step)
<1> DEFINE F == {s \in SUBSET D : ~ \E g : Folds(g, s, T, base, ch, step)}
<1>1. CASE F = {}
  <2>1. D \in SUBSET D
    OBVIOUS
  <2> QED
    BY <1>1, <2>1
<1>2. CASE F # {}
  <2>1. PICK m \in F : \A u \in F : u \subseteq m => u = m
    <3>1. F \in SUBSET (SUBSET D)
      OBVIOUS
    <3> HIDE DEF F
    <3> QED
      BY <1>2, <3>1, LeastSubset
  <2>2. m \in SUBSET D
    OBVIOUS
  <2> DEFINE H(s) == CHOOSE h : Folds(h, s, T, base, ch, step)
  <2>3. ASSUME NEW s \in SUBSET m, s # m PROVE Folds(H(s), s, T, base, ch, step)
    BY <2>1, <2>2, <2>3
  <2> HIDE DEF H, F
  <2>4. ASSUME NEW s \in SUBSET m, s # m, NEW v \in SUBSET s PROVE H(s)[v] = H(v)[v]
    <3>1. v \in SUBSET m /\ v # m /\ v \in SUBSET D /\ IsFiniteSet(v)
      BY <2>2, <2>4, FS_Subset
    <3>2. Chooses(ch, s) /\ Chooses(ch, v)
      BY <2>2 DEF Chooses
    <3>3. Folds(H(s), s, T, base, ch, step) /\ Folds(H(v), v, T, base, ch, step)
      BY <2>3, <2>4, <3>1
    <3> DEFINE h == [u \in SUBSET v |-> H(s)[u]]
    <3>4. Folds(h, v, T, base, ch, step)
      BY <3>2, <3>3, FoldPart
    <3>5. h[v] = H(s)[v]
      OBVIOUS
    <3> HIDE DEF h
    <3>6. h = H(v)
      BY <3>1, <3>2, <3>3, <3>4, FoldUnique
    <3> QED
      BY <3>5, <3>6
  <2>5. ASSUME NEW s \in SUBSET m, s # {}
        PROVE  ch[s] \in s /\ ch[s] \in D /\ s \ {ch[s]} \in SUBSET m /\ s \ {ch[s]} # m
    BY <2>2, <2>5 DEF Chooses
  <2> DEFINE top == IF m = {} THEN base
                    ELSE step[<<H(m \ {ch[m]})[m \ {ch[m]}], ch[m]>>]
             g == [s \in SUBSET m |-> IF s = m THEN top ELSE H(s)[s]]
  <2>6. top \in T
    <3>1. ASSUME m # {} PROVE top \in T
      <4>1. ch[m] \in D /\ m \ {ch[m]} \in SUBSET m /\ m \ {ch[m]} # m
        BY <2>5, <3>1
      <4>2. H(m \ {ch[m]})[m \ {ch[m]}] \in T
        BY <2>3, <4>1 DEF Folds
      <4> QED
        BY <3>1, <4>1, <4>2
    <3> QED
      BY <3>1
  <2>7. ASSUME NEW s \in SUBSET m, s # m
        PROVE  /\ H(s)[s] \in T
               /\ H(s)[s] = IF s = {} THEN base ELSE step[<<H(s \ {ch[s]})[s \ {ch[s]}], ch[s]>>]
    <3>1. Folds(H(s), s, T, base, ch, step)
      BY <2>3, <2>7
    <3>2. s # {} => H(s)[s \ {ch[s]}] = H(s \ {ch[s]})[s \ {ch[s]}]
      BY <2>4, <2>7
    <3> QED
      BY <3>1, <3>2 DEF Folds
  <2> HIDE DEF top
  <2>8. g \in [SUBSET m -> T]
    BY <2>6, <2>7
  <2>9. ASSUME NEW s \in SUBSET m
        PROVE  g[s] = IF s = {} THEN base ELSE step[<<g[s \ {ch[s]}], ch[s]>>]
    <3>1. s # {} => g[s \ {ch[s]}] = H(s \ {ch[s]})[s \ {ch[s]}]
      BY <2>5
    <3>2. CASE s = m
      BY <3>1, <3>2 DEF top
    <3>3. CASE s # m
      BY <2>7, <3>1, <3>3
    <3> QED
      BY <3>2, <3>3
  <2>10. Folds(g, m, T, base, ch, step)
    BY <2>8, <2>9 DEF Folds
  <2> QED
    BY <2>1, <2>10 DEF F
<1> QED
  BY <1>1, <1>2
-----------------------------------------------------------------------------
(* Folds of a sequence, which FoldLeft makes by folding its domain.        *)

LEMMA LeastIsMin ==
    ASSUME NEW S \in SUBSET Nat, S # {}
    PROVE  Min(S) \in S /\ \A y \in S : Min(S) <= y
<1>1. \E x \in S : \A y \in S : x <= y
  BY LeastNumber
<1> QED
  BY <1>1 DEF Min

LEMMA GreatestIsMax ==
    ASSUME NEW n \in Nat, NEW S \in SUBSET (1 .. n), S # {}
    PROVE  Max(S) \in S /\ \A y \in S : y <= Max(S)
<1> DEFINE R == {k \in 0 .. n : n - k \in S}
<1>1. R \in SUBSET Nat
  OBVIOUS
<1>2. R # {}
  <2>1. PICK x \in S : x \in 1 .. n
    OBVIOUS
  <2>2. n - x \in 0 .. n /\ n - (n - x) = x
    BY <2>1
  <2>3. n - x \in R
    BY <2>1, <2>2
  <2> QED
    BY <2>3
<1>3. PICK k \in R : \A j \in R : k <= j
  <2> HIDE DEF R
  <2> QED
    BY <1>1, <1>2, LeastNumber
<1>4. \A y \in S : y <= n - k
  <2>1. ASSUME NEW y \in S PROVE y <= n - k
    <3>1. y \in 1 .. n /\ n - y \in 0 .. n /\ n - (n - y) = y
      OBVIOUS
    <3>2. n - y \in R
      BY <3>1
    <3>3. k <= n - y /\ k \in 0 .. n
      BY <1>3, <3>2
    <3> QED
      BY <3>1, <3>3
  <2> QED
    BY <2>1
<1>5. \E x \in S : \A y \in S : x >= y
  BY <1>3, <1>4
<1> QED
  BY <1>5 DEF Max

LEMMA InitialSegment ==
    ASSUME NEW i \in Nat, i > 0
    PROVE  Max(1 .. i) = i /\ (1 .. i) \ {i} = 1 .. i - 1
<1>1. Max(1 .. i) \in 1 .. i /\ \A y \in 1 .. i : y <= Max(1 .. i)
  <2>1. 1 .. i \in SUBSET (1 .. i) /\ 1 .. i # {}
    OBVIOUS
  <2> QED
    BY <2>1, GreatestIsMax
<1> QED
  BY <1>1

(* g folds the sets of places up to n from base, the last place last.      *)
FoldsLeft(g, n, T, base, step) ==
    /\ g \in [SUBSET (1 .. n) -> T]
    /\ \A u \in SUBSET (1 .. n) :
          g[u] = IF u = {} THEN base ELSE step[<<g[u \ {Max(u)}], Max(u)>>]

(* A fold with values in T exists.                                         *)
LEMMA FoldLeftExists ==
    ASSUME NEW n \in Nat, NEW T, NEW base \in T, NEW step \in [T \X (1 .. n) -> T]
    PROVE  \E g : FoldsLeft(g, n, T, base, step)
<1> DEFINE ch == [u \in SUBSET (1 .. n) |-> Max(u)]
<1>1. IsFiniteSet(1 .. n)
  BY FS_Interval
<1>2. Chooses(ch, 1 .. n)
  BY GreatestIsMax DEF Chooses
<1>3. \A u \in SUBSET (1 .. n) : ch[u] = Max(u)
  OBVIOUS
<1> HIDE DEF ch
<1>4. PICK g : Folds(g, 1 .. n, T, base, ch, step)
  BY <1>1, <1>2, FoldExists
<1> QED
  BY <1>3, <1>4 DEF Folds, FoldsLeft

(* The equation of a fold, read along the sequence.                        *)
LEMMA FoldAlong ==
    ASSUME NEW n \in Nat, NEW i \in 1 .. n
    PROVE  /\ 1 .. i \in SUBSET (1 .. n) /\ 1 .. i # {}
           /\ Max(1 .. i) = i
           /\ (1 .. i) \ {Max(1 .. i)} = 1 .. i - 1
BY InitialSegment
-----------------------------------------------------------------------------
(* A torrent leaves a line and enters one.                                 *)

(* r is s without its element k.                                           *)
TakenOut(r, S, s, k) ==
    /\ r \in Seq(S)
    /\ Len(r) = Len(s) - 1
    /\ \A i \in 1 .. Len(s) - 1 : r[i] = IF i < k THEN s[i] ELSE s[i + 1]

(* r is s with e put in at place k.                                        *)
PutIn(r, S, s, k, e) ==
    /\ r \in Seq(S)
    /\ Len(r) = Len(s) + 1
    /\ \A i \in 1 .. Len(s) + 1 :
          r[i] = IF i < k THEN s[i] ELSE IF i = k THEN e ELSE s[i - 1]

(* Of a sequence without repetition, RemoveFirst takes out the one e.      *)
LEMMA RemovedFirst ==
    ASSUME NEW S, NEW s \in Seq(S), NEW k \in 1 .. Len(s), NEW e, e = s[k],
           \A i, j \in 1 .. Len(s) : s[i] = s[j] => i = j
    PROVE  TakenOut(RemoveFirst(s, e), S, s, k)
<1> DEFINE r == SubSeq(s, 1, k - 1) \o SubSeq(s, k + 1, Len(s))
<1>1. RemoveFirst(s, e) = r
  <2>1. {i \in 1 .. Len(s) : s[i] = e} = {k}
    OBVIOUS
  <2>2. Min({k}) = k
    BY DEF Min
  <2> QED
    BY <2>1, <2>2 DEF RemoveFirst, RemoveAt, SelectInSeq
<1>2. /\ r \in Seq(S) /\ Len(r) = Len(s) - 1
      /\ \A i \in 1 .. Len(s) - 1 : r[i] = IF i < k THEN s[i] ELSE s[i + 1]
  <2> DEFINE a == SubSeq(s, 1, k - 1)
             b == SubSeq(s, k + 1, Len(s))
  <2>1. a \in Seq(S) /\ Len(a) = k - 1 /\ \A i \in 1 .. k - 1 : a[i] = s[i]
    BY SubSeqProperties
  <2>2. /\ b \in Seq(S) /\ Len(b) = Len(s) - k
        /\ \A i \in 1 .. Len(s) - k : b[i] = s[k + i]
    BY SubSeqProperties
  <2> HIDE DEF a, b
  <2>3. /\ a \o b \in Seq(S) /\ Len(a \o b) = Len(s) - 1
        /\ \A i \in 1 .. Len(s) - 1 : (a \o b)[i] = IF i < k THEN a[i] ELSE b[i - (k - 1)]
    BY <2>1, <2>2, ConcatProperties
  <2>4. \A i \in k .. Len(s) - 1 : i - (k - 1) \in 1 .. Len(s) - k /\ k + (i - (k - 1)) = i + 1
    OBVIOUS
  <2>5. \A i \in k .. Len(s) - 1 : b[i - (k - 1)] = s[i + 1]
    BY <2>2, <2>4
  <2>6. \A i \in 1 .. Len(s) - 1 : i < k => i \in 1 .. k - 1
    OBVIOUS
  <2>7. \A i \in 1 .. Len(s) - 1 : i < k \/ i \in k .. Len(s) - 1
    OBVIOUS
  <2> QED
    BY <2>1, <2>3, <2>5, <2>6, <2>7 DEF a, b
<1> HIDE DEF r
<1> QED
  BY <1>1, <1>2 DEF TakenOut

(* InsertAt moves the elements from place k on.                            *)
LEMMA Inserted ==
    ASSUME NEW S, NEW s \in Seq(S), NEW k \in 1 .. Len(s) + 1, NEW e \in S
    PROVE  PutIn(InsertAt(s, k, e), S, s, k, e)
<1> DEFINE a == SubSeq(s, 1, k - 1)
           b == SubSeq(s, k, Len(s))
<1>1. a \in Seq(S) /\ Len(a) = k - 1 /\ \A i \in 1 .. k - 1 : a[i] = s[i]
  BY SubSeqProperties
<1>2. /\ b \in Seq(S) /\ Len(b) = Len(s) - k + 1
      /\ \A i \in 1 .. Len(s) - k + 1 : b[i] = s[k + i - 1]
  BY SubSeqProperties
<1> HIDE DEF a, b
<1> DEFINE c == a \o <<e>>
<1>3. c \in Seq(S) /\ Len(c) = k /\ c[k] = e /\ \A i \in 1 .. k - 1 : c[i] = a[i]
  BY <1>1
<1> HIDE DEF c
<1>4. /\ c \o b \in Seq(S) /\ Len(c \o b) = Len(s) + 1
      /\ \A i \in 1 .. Len(s) + 1 : (c \o b)[i] = IF i <= k THEN c[i] ELSE b[i - k]
  BY <1>2, <1>3, ConcatProperties
<1>5. \A i \in k + 1 .. Len(s) + 1 : i - k \in 1 .. Len(s) - k + 1 /\ k + (i - k) - 1 = i - 1
  OBVIOUS
<1>6. \A i \in k + 1 .. Len(s) + 1 : b[i - k] = s[i - 1]
  BY <1>2, <1>5
<1>7. \A i \in 1 .. Len(s) + 1 : i \in 1 .. k - 1 \/ i = k \/ i \in k + 1 .. Len(s) + 1
  OBVIOUS
<1>8. InsertAt(s, k, e) = c \o b
  BY DEF InsertAt, a, b, c
<1>9. \A i \in 1 .. k - 1 : c[i] = s[i]
  BY <1>1, <1>3
<1>10. c[k] = e
  BY <1>3
<1> QED
  BY <1>4, <1>6, <1>7, <1>8, <1>9, <1>10 DEF PutIn
-----------------------------------------------------------------------------
(* o lists the elements of S, each once.                                   *)
Lists(o, S) ==
    /\ o \in Seq(S)
    /\ \A i, j \in 1 .. Len(o) : o[i] = o[j] => i = j
    /\ \A x \in S : \E i \in 1 .. Len(o) : o[i] = x

LEMMA SetToSeqsLists ==
    ASSUME NEW S, IsFiniteSet(S), NEW o \in SetToSeqs(S)
    PROVE  Lists(o, S)
<1> DEFINE D == 1 .. Cardinality(S)
<1>1. Cardinality(S) \in Nat
  BY FS_CardinalityType
<1>2. IsFiniteSet(D) /\ Cardinality(D) = Cardinality(S)
  BY <1>1, FS_Interval
<1>3. o \in [D -> S] /\ \A i, j \in D : i # j => o[i] # o[j]
  BY DEF SetToSeqs
<1>4. o \in Injection(D, S)
  BY <1>3 DEF Injection, IsInjective
<1>5. o \in Surjection(D, S)
  BY <1>2, <1>4, FS_Injection
<1>6. o \in Seq(S) /\ Len(o) = Cardinality(S)
  BY <1>1, <1>3
<1>7. \A x \in S : \E i \in D : o[i] = x
  BY <1>5 DEF Surjection
<1> QED
  BY <1>3, <1>6, <1>7 DEF Lists

(* A set of places that holds with a place those before it.                *)
LEMMA FirstPlaces ==
    ASSUME NEW n \in Nat, NEW S \in SUBSET (1 .. n), \A i \in S : 1 .. i \subseteq S
    PROVE  Cardinality(S) \in 0 .. n /\ S = 1 .. Cardinality(S)
<1>1. CASE S = {}
  <2>1. Cardinality(S) = 0
    BY <1>1, FS_EmptySet
  <2> QED
    BY <1>1, <2>1
<1>2. CASE S # {}
  <2>1. PICK m \in S : \A y \in S : y <= m
    BY <1>2, GreatestIsMax
  <2>2. m \in 1 .. n /\ S = 1 .. m
    <3>1. m \in 1 .. n /\ 1 .. m \subseteq S
      OBVIOUS
    <3>2. \A y \in S : y \in 1 .. m
      BY <2>1, <3>1
    <3> QED
      BY <3>1, <3>2
  <2>3. Cardinality(1 .. m) = m
    BY <2>2, FS_Interval
  <2> QED
    BY <2>2, <2>3
<1> QED
  BY <1>1, <1>2

(* g is the recursion on the numbers up to n from base.                    *)
Recursion(g, n, T, base, step) ==
    /\ g \in [0 .. n -> T]
    /\ g[0] = base
    /\ \A i \in 1 .. n : g[i] = step[<<g[i - 1], i>>]

(* A recursion with values in T exists.                                    *)
LEMMA RecursionExists ==
    ASSUME NEW n \in Nat, NEW T, NEW base \in T, NEW step \in [T \X (1 .. n) -> T]
    PROVE  \E g : Recursion(g, n, T, base, step)
<1>1. PICK f : FoldsLeft(f, n, T, base, step)
  BY FoldLeftExists
<1> DEFINE g == [i \in 0 .. n |-> f[1 .. i]]
<1>2. f \in [SUBSET (1 .. n) -> T]
  BY <1>1 DEF FoldsLeft
<1>3. \A i \in 0 .. n : 1 .. i \in SUBSET (1 .. n)
  OBVIOUS
<1>4. g \in [0 .. n -> T]
  BY <1>2, <1>3
<1>5. g[0] = base
  <2>1. 1 .. 0 = {} /\ {} \in SUBSET (1 .. n)
    OBVIOUS
  <2>2. f[{}] = base
    BY <1>1, <2>1 DEF FoldsLeft
  <2> QED
    BY <2>1, <2>2
<1>6. ASSUME NEW i \in 1 .. n PROVE g[i] = step[<<g[i - 1], i>>]
  <2>1. 1 .. i \in SUBSET (1 .. n) /\ 1 .. i # {} /\ Max(1 .. i) = i
        /\ (1 .. i) \ {Max(1 .. i)} = 1 .. i - 1
    BY FoldAlong
  <2>2. f[1 .. i] = step[<<f[(1 .. i) \ {Max(1 .. i)}], Max(1 .. i)>>]
    BY <1>1, <2>1 DEF FoldsLeft
  <2>3. i \in 0 .. n /\ i - 1 \in 0 .. n
    OBVIOUS
  <2> QED
    BY <2>1, <2>2, <2>3
<1> HIDE DEF g
<1> QED
  BY <1>4, <1>5, <1>6 DEF Recursion

LEMMA SetToSeqLists ==
    ASSUME NEW S, IsFiniteSet(S)
    PROVE  Lists(SetToSeq(S), S) /\ Len(SetToSeq(S)) \in Nat
<1> DEFINE D == 1 .. Cardinality(S)
           o == SetToSeq(S)
<1>1. Cardinality(S) \in Nat /\ ExistsBijection(D, S)
  BY FS_CardinalityType
<1>2. \E f \in [D -> S] : IsInjective(f)
  <2>1. PICK f \in Bijection(D, S) : TRUE
    BY <1>1 DEF ExistsBijection
  <2>2. f \in Injection(D, S)
    BY <2>1 DEF Bijection
  <2> QED
    BY <2>2 DEF Injection
<1>3. o \in [D -> S] /\ IsInjective(o)
  BY <1>2, Zenon DEF SetToSeq
<1> HIDE DEF o
<1>4. \A i, j \in D : i # j => o[i] # o[j]
  <2>1. DOMAIN o = D
    BY <1>3
  <2> QED
    BY <1>3, <2>1 DEF IsInjective
<1>5. o \in SetToSeqs(S)
  BY <1>3, <1>4 DEF SetToSeqs
<1>6. Lists(o, S)
  BY <1>5, SetToSeqsLists
<1> QED
  BY <1>6 DEF Lists, o
-----------------------------------------------------------------------------
(* Sums over a finite set.                                                 *)

(* g[s] is the sum of of[x] over the elements x of s, taken out as         *)
(* MapThenSumSet and SumFunction take them.                                *)
SumsUp(g, S, of) ==
    g = [s \in SUBSET S |-> IF s = {} THEN 0
                            ELSE of[CHOOSE x \in s : TRUE] + g[s \ {CHOOSE x \in s : TRUE}]]

LEMMA SumsExist ==
    ASSUME NEW S, IsFiniteSet(S), NEW of \in [S -> Nat]
    PROVE  \E g : SumsUp(g, S, of) /\ g \in [SUBSET S -> Nat]
<1> DEFINE ch == [s \in SUBSET S |-> CHOOSE x \in s : TRUE]
           step == [q \in Nat \X S |-> of[q[2]] + q[1]]
<1>1. Chooses(ch, S) /\ \A s \in SUBSET S : ch[s] = CHOOSE x \in s : TRUE
  BY DEF Chooses
<1>2. step \in [Nat \X S -> Nat] /\ \A a \in Nat, x \in S : step[<<a, x>>] = of[x] + a
  OBVIOUS
<1> HIDE DEF ch, step
<1>3. PICK g : Folds(g, S, Nat, 0, ch, step)
  BY <1>1, <1>2, FoldExists
<1>4. g \in [SUBSET S -> Nat]
  BY <1>3 DEF Folds
<1>5. ASSUME NEW s \in SUBSET S, s # {} PROVE g[s] = of[ch[s]] + g[s \ {ch[s]}]
  <2>1. ch[s] \in S /\ s \ {ch[s]} \in SUBSET S
    BY <1>1, <1>5 DEF Chooses
  <2>2. g[s] = step[<<g[s \ {ch[s]}], ch[s]>>] /\ g[s \ {ch[s]}] \in Nat
    BY <1>3, <1>4, <1>5, <2>1 DEF Folds
  <2> QED
    BY <1>2, <2>1, <2>2
<1>6. g[{}] = 0
  BY <1>3 DEF Folds
<1>7. \A s \in SUBSET S :
         g[s] = IF s = {} THEN 0 ELSE of[CHOOSE x \in s : TRUE] + g[s \ {CHOOSE x \in s : TRUE}]
  BY <1>1, <1>5, <1>6
<1> QED
  BY <1>4, <1>7 DEF SumsUp

(* A[x], for the x of s, together.                                         *)
UnionOf(A, s) == UNION {A[x] : x \in s}

(* The sum of the sizes of disjoint sets is the size of their union.       *)
LEMMA SumCounts ==
    ASSUME NEW S, IsFiniteSet(S), NEW of, NEW g, SumsUp(g, S, of), NEW A,
           \A x \in S : IsFiniteSet(A[x]) /\ Cardinality(A[x]) = of[x],
           \A x, y \in S : x # y => A[x] \cap A[y] = {}
    PROVE  IsFiniteSet(UnionOf(A, S)) /\ g[S] = Cardinality(UnionOf(A, S))
<1> DEFINE F == {s \in SUBSET S : ~(IsFiniteSet(UnionOf(A, s)) /\ g[s] = Cardinality(UnionOf(A, s)))}
<1>1. CASE F = {}
  <2>1. S \in SUBSET S
    OBVIOUS
  <2> QED
    BY <1>1, <2>1
<1>2. CASE F # {}
  <2>1. PICK s \in F : \A u \in F : u \subseteq s => u = s
    <3>1. F \in SUBSET (SUBSET S)
      OBVIOUS
    <3> HIDE DEF F
    <3> QED
      BY <1>2, <3>1, LeastSubset
  <2>2. s \in SUBSET S
    OBVIOUS
  <2>3. \A u \in SUBSET S : u # {} =>
           g[u] = of[CHOOSE x \in u : TRUE] + g[u \ {CHOOSE x \in u : TRUE}]
    BY Zenon DEF SumsUp
  <2>4. g[{}] = 0
    BY DEF SumsUp
  <2>5. UnionOf(A, {}) = {}
    BY DEF UnionOf
  <2>6. s # {}
    BY <2>1, <2>4, <2>5, FS_EmptySet
  <2> DEFINE c == CHOOSE x \in s : TRUE
             t == s \ {c}
  <2>7. c \in s
    BY <2>6
  <2>8. g[s] = of[c] + g[t]
    BY <2>2, <2>3, <2>6, Zenon
  <2> HIDE DEF c
  <2>9. t \in SUBSET S /\ t \subseteq s /\ t # s
    BY <2>2, <2>7
  <2>10. IsFiniteSet(UnionOf(A, t)) /\ g[t] = Cardinality(UnionOf(A, t))
    BY <2>1, <2>9
  <2> HIDE DEF F
  <2>11. UnionOf(A, s) = UnionOf(A, t) \cup A[c]
    BY <2>7 DEF UnionOf
  <2>12. UnionOf(A, t) \cap A[c] = {}
    <3>1. \A x \in t : A[x] \cap A[c] = {}
      BY <2>2, <2>7
    <3> QED
      BY <3>1 DEF UnionOf
  <2>13. IsFiniteSet(A[c]) /\ Cardinality(A[c]) = of[c]
    BY <2>2, <2>7
  <2> DEFINE J == UnionOf(A, t)
             K == A[c]
  <2>14. IsFiniteSet(J) /\ IsFiniteSet(K) /\ J \cap K = {}
    BY <2>10, <2>12, <2>13
  <2> HIDE DEF J, K, t
  <2>15. IsFiniteSet(J \cup K) /\ Cardinality(J \cup K) = Cardinality(J) + Cardinality(K) - Cardinality(J \cap K)
    BY <2>14, FS_Union
  <2>16. Cardinality(J \cap K) = 0 /\ Cardinality(J) \in Nat /\ Cardinality(K) \in Nat
    BY <2>14, FS_EmptySet, FS_CardinalityType
  <2>17. Cardinality(J \cup K) = of[c] + g[t]
    BY <2>10, <2>13, <2>15, <2>16 DEF J, K
  <2>18. IsFiniteSet(UnionOf(A, s)) /\ g[s] = Cardinality(UnionOf(A, s))
    BY <2>8, <2>11, <2>15, <2>17 DEF J, K
  <2> QED
    BY <2>1, <2>18 DEF F
<1> QED
  BY <1>1, <1>2

(* The sizes of two disjoint sets, and of what is left of one.             *)
LEMMA CountDisjoint ==
    ASSUME NEW J, IsFiniteSet(J), NEW K, IsFiniteSet(K), J \cap K = {}
    PROVE  /\ IsFiniteSet(J \cup K) /\ Cardinality(J) \in Nat /\ Cardinality(K) \in Nat
           /\ Cardinality(J \cup K) = Cardinality(J) + Cardinality(K)
<1>1. Cardinality(J \cup K) = Cardinality(J) + Cardinality(K) - Cardinality(J \cap K)
      /\ IsFiniteSet(J \cup K)
  BY FS_Union
<1>2. Cardinality(J \cap K) = 0 /\ Cardinality(J) \in Nat /\ Cardinality(K) \in Nat
  BY FS_EmptySet, FS_CardinalityType
<1> QED
  BY <1>1, <1>2

LEMMA CountLeft ==
    ASSUME NEW P, IsFiniteSet(P), NEW H
    PROVE  /\ Cardinality(P \cap H) \in Nat /\ Cardinality(P \ H) \in Nat
           /\ Cardinality(P) = Cardinality(P \cap H) + Cardinality(P \ H)
<1> DEFINE J == P \cap H
           K == P \ H
<1>1. IsFiniteSet(J) /\ IsFiniteSet(K)
  BY FS_Subset
<1>2. J \cup K = P /\ J \cap K = {}
  OBVIOUS
<1> HIDE DEF J, K
<1>3. /\ Cardinality(J) \in Nat /\ Cardinality(K) \in Nat
      /\ Cardinality(J \cup K) = Cardinality(J) + Cardinality(K)
  BY <1>1, <1>2, CountDisjoint
<1>4. Cardinality(J \cup K) = Cardinality(P)
  BY <1>2
<1>5. Cardinality(P) = Cardinality(J) + Cardinality(K)
  BY <1>3, <1>4
<1> QED
  BY <1>3, <1>5 DEF J, K
=============================================================================
