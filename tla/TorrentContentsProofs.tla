------------------------ MODULE TorrentContentsProofs ------------------------
(***************************************************************************)
(* What a torrent keeps of its contents and choices, for any lists of      *)
(* files, any piece size that can be cut into blocks, and any calls.       *)
(***************************************************************************)
EXTENDS TorrentContents, FoldLemmas

-----------------------------------------------------------------------------
(* Division.                                                               *)

LEMMA DivMod ==
    ASSUME NEW a \in Nat, NEW b \in Nat \ {0}
    PROVE  /\ a \div b \in Nat /\ a % b \in Nat /\ a % b < b
           /\ a = b * (a \div b) + (a % b)
OBVIOUS

(* The quotient is the number q for which a lies from b * q on.            *)
LEMMA DivIs ==
    ASSUME NEW a \in Nat, NEW b \in Nat \ {0}, NEW q \in Nat, b * q <= a, a < b * q + b
    PROVE  a \div b = q
<1> DEFINE d == a \div b
<1>1. d \in Nat /\ b * d <= a /\ a < b * d + b
  BY DivMod
<1> HIDE DEF d
<1>2. CASE d < q
  <2>1. d + 1 <= q
    BY <1>1, <1>2
  <2>2. b * (d + 1) <= b * q
    BY <2>1, <1>1
  <2>3. b * (d + 1) = b * d + b
    BY <1>1
  <2> QED
    BY <2>2, <2>3, <1>1
<1>3. CASE q < d
  <2>1. q + 1 <= d
    BY <1>1, <1>3
  <2>2. b * (q + 1) <= b * d
    BY <2>1, <1>1
  <2>3. b * (q + 1) = b * q + b
    BY <1>1
  <2> QED
    BY <2>2, <2>3, <1>1
<1> QED
  BY <1>1, <1>2, <1>3 DEF d

LEMMA DivMono ==
    ASSUME NEW a \in Nat, NEW b \in Nat, a <= b, NEW u \in Nat \ {0}
    PROVE  a \div u <= b \div u
<1> DEFINE d == a \div u
           e == b \div u
<1>1. d \in Nat /\ e \in Nat /\ u * d <= a /\ b < u * e + u
  BY DivMod
<1> HIDE DEF d, e
<1>2. CASE e < d
  <2>1. u * (e + 1) <= u * d
    BY <1>1, <1>2
  <2>2. u * (e + 1) = u * e + u
    BY <1>1
  <2> QED
    BY <1>1, <2>1, <2>2
<1> QED
  BY <1>1, <1>2 DEF d, e

LEMMA DivStep ==
    ASSUME NEW a \in Nat, NEW u \in Nat \ {0}
    PROVE  (a + u) \div u = (a \div u) + 1
<1> DEFINE d == a \div u
<1>1. d \in Nat /\ u * d <= a /\ a < u * d + u
  BY DivMod
<1> HIDE DEF d
<1>2. u * (d + 1) = u * d + u
  BY <1>1
<1>3. (a + u) \div u = d + 1
  BY <1>1, <1>2, DivIs
<1> QED
  BY <1>3 DEF d

(* The next number lies at most one unit further.                          *)
LEMMA DivNext ==
    ASSUME NEW a \in Nat, NEW u \in Nat \ {0}
    PROVE  (a + 1) \div u <= (a \div u) + 1
<1>1. a + 1 <= a + u /\ a + 1 \in Nat /\ a + u \in Nat
  OBVIOUS
<1>2. (a + 1) \div u <= (a + u) \div u
  BY <1>1, DivMono
<1> QED
  BY <1>2, DivStep

(* The number of units is that of the last byte and one.                   *)
LEMMA UnitsAre ==
    ASSUME NEW size \in Nat \ {0}, NEW unit \in Nat \ {0}
    PROVE  Units(size, unit) = ((size - 1) \div unit) + 1
<1>1. size + unit - 1 = (size - 1) + unit /\ size - 1 \in Nat
  OBVIOUS
<1> QED
  BY <1>1, DivStep DEF Units
-----------------------------------------------------------------------------
(* The size of a block.                                                    *)

(* h halves the numbers up to n until they fit.                            *)
Halves(h, n) ==
    h = [b \in 0 .. n |-> IF b > MaxBlockSize THEN h[b \div 2] ELSE b]

LEMMA HalfIsLess ==
    ASSUME NEW b \in Nat, b > MaxBlockSize
    PROVE  b \div 2 \in 0 .. b - 1
<1>1. MaxBlockSize \in Nat \ {0}
  BY LayoutAssumption
<1>2. b > 0
  BY <1>1
<1> QED
  BY <1>2

LEMMA HalvesExist == ASSUME NEW n \in Nat PROVE \E h : Halves(h, n)
<1> DEFINE G == {m \in 0 .. n : \E h : Halves(h, m)}
<1>1. 0 \in G
  <2> DEFINE h == [b \in 0 .. 0 |-> 0]
  <2>1. 0 \in 0 .. n /\ MaxBlockSize \in Nat \ {0}
    BY LayoutAssumption
  <2>2. \A b \in 0 .. 0 : b = 0 /\ ~(b > MaxBlockSize)
    BY <2>1
  <2>3. Halves(h, 0)
    BY <2>2 DEF Halves
  <2> HIDE DEF h
  <2> QED
    BY <2>1, <2>3
<1>2. ASSUME NEW m \in 1 .. n, m - 1 \in G PROVE m \in G
  <2>1. PICK g : Halves(g, m - 1)
    BY <1>2
  <2> DEFINE h == [b \in 0 .. m |-> IF b = m
                                    THEN IF m > MaxBlockSize THEN g[m \div 2] ELSE m
                                    ELSE g[b]]
  <2>2. /\ \A b \in 0 .. m - 1 : b \in 0 .. m /\ b # m /\ b \in Nat
        /\ \A b \in 0 .. m : b = m \/ b \in 0 .. m - 1
        /\ m \in Nat /\ m \in 0 .. m
    OBVIOUS
  <2>3. \A b \in 0 .. m - 1 : h[b] = g[b]
    BY <2>2
  <2>4. h[m] = IF m > MaxBlockSize THEN g[m \div 2] ELSE m
    BY <2>2
  <2>5. h = [b \in 0 .. m |-> h[b]]
    OBVIOUS
  <2> HIDE DEF h
  <2>6. ASSUME NEW b \in 0 .. m PROVE h[b] = IF b > MaxBlockSize THEN h[b \div 2] ELSE b
    <3>1. CASE b = m
      <4>1. m > MaxBlockSize => m \div 2 \in 0 .. m - 1
        BY <2>2, HalfIsLess
      <4> QED
        BY <2>3, <2>4, <3>1, <4>1
    <3>2. CASE b \in 0 .. m - 1
      <4>1. b > MaxBlockSize => b \div 2 \in 0 .. b - 1
        BY <2>2, <3>2, HalfIsLess
      <4>2. b > MaxBlockSize => b \div 2 \in 0 .. m - 1
        BY <3>2, <4>1
      <4>3. g[b] = IF b > MaxBlockSize THEN g[b \div 2] ELSE b
        BY <2>1, <3>2 DEF Halves
      <4> QED
        BY <2>3, <3>2, <4>2, <4>3
    <3> QED
      BY <2>2, <3>1, <3>2
  <2>7. Halves(h, m)
    BY <2>5, <2>6 DEF Halves
  <2> QED
    BY <2>2, <2>7
<1> HIDE DEF G
<1>3. 0 .. n \subseteq G
  BY <1>1, <1>2, HandedOn
<1>4. n \in G
  BY <1>3
<1> QED
  BY <1>4 DEF G

LEMMA HalvesAreNumbers ==
    ASSUME NEW n \in Nat, NEW h, Halves(h, n)
    PROVE  h[n] \in Nat
<1> DEFINE S == {b \in 0 .. n : h[b] \notin Nat}
<1>1. CASE S = {}
  <2>1. n \in 0 .. n
    OBVIOUS
  <2> QED
    BY <1>1, <2>1
<1>2. CASE S # {}
  <2>1. PICK m \in S : \A b \in S : m <= b
    <3>1. S \in SUBSET Nat
      OBVIOUS
    <3> HIDE DEF S
    <3> QED
      BY <1>2, <3>1, LeastNumber
  <2>2. m \in 0 .. n /\ m \in Nat /\ h[m] \notin Nat
    OBVIOUS
  <2>3. h[m] = IF m > MaxBlockSize THEN h[m \div 2] ELSE m
    BY <2>2 DEF Halves
  <2>4. m > MaxBlockSize
    BY <2>2, <2>3
  <2>5. m \div 2 \in 0 .. m - 1
    BY <2>2, <2>4, HalfIsLess
  <2>6. m \div 2 \in 0 .. n /\ ~(m <= m \div 2)
    BY <2>2, <2>5
  <2>7. m \div 2 \in S
    BY <2>2, <2>3, <2>4, <2>6
  <2> QED
    BY <2>1, <2>6, <2>7
<1> QED
  BY <1>1, <1>2

(* The size of a block divides that of a piece, unless it is 0.            *)
LEMMA BlockSizeFits ==
    ASSUME NEW pieceSize \in Nat, GetBlockSize(pieceSize) > 0
    PROVE  GetBlockSize(pieceSize) \in Nat \ {0} /\ pieceSize % GetBlockSize(pieceSize) = 0
<1> DEFINE h == CHOOSE h : Halves(h, pieceSize)
           size == h[pieceSize]
<1>1. Halves(h, pieceSize)
  BY HalvesExist
<1>2. GetBlockSize(pieceSize) = IF size = 0 \/ pieceSize % size # 0 THEN 0 ELSE size
  BY Zenon DEF GetBlockSize, Halves
<1> HIDE DEF h
<1>3. size \in Nat
  BY <1>1, HalvesAreNumbers
<1> HIDE DEF size
<1> QED
  BY <1>2, <1>3
-----------------------------------------------------------------------------
(* Where the files begin.                                                  *)

SumOf(s) == FoldLeft(+, 0, s)

PrefixSums(c, s) ==
    /\ c \in [0 .. Len(s) -> Nat] /\ c[0] = 0
    /\ \A i \in 1 .. Len(s) : c[i] = c[i - 1] + s[i]

LEMMA SumIsPrefix ==
    ASSUME NEW s \in Seq(Nat)
    PROVE  \E c : PrefixSums(c, s) /\ SumOf(s) = c[Len(s)]
<1> DEFINE n == Len(s)
           step == [q \in Nat \X (1 .. n) |-> q[1] + s[q[2]]]
           Eq(it) == it = [u \in SUBSET (DOMAIN s) |->
                             IF u = {} THEN 0 ELSE it[u \ {Max(u)}] + s[Max(u)]]
           F == CHOOSE it : Eq(it)
<1>1. n \in Nat /\ DOMAIN s = 1 .. n /\ \A i \in 1 .. n : s[i] \in Nat
  OBVIOUS
<1>2. SumOf(s) = F[DOMAIN s]
  BY Zenon DEF SumOf, FoldLeft, MapThenFoldSet
<1> HIDE DEF n
<1>3. /\ step \in [Nat \X (1 .. n) -> Nat]
      /\ \A a \in Nat, i \in 1 .. n : step[<<a, i>>] = a + s[i]
  <2>1. \A i \in 1 .. n : s[i] \in Nat
    BY <1>1
  <2>2. \A q \in Nat \X (1 .. n) : q[1] + s[q[2]] \in Nat
    BY <2>1
  <2>3. step \in [Nat \X (1 .. n) -> Nat]
    BY <2>2
  <2> QED
    BY <2>3
<1> HIDE DEF step
<1>4. PICK g : FoldsLeft(g, n, Nat, 0, step)
  BY <1>1, <1>3, FoldLeftExists
<1>5. Eq(g)
  <2>1. ASSUME NEW u \in SUBSET (1 .. n), u # {}
        PROVE  g[u] = g[u \ {Max(u)}] + s[Max(u)]
    <3> DEFINE top == Max(u)
               rest == u \ {Max(u)}
    <3>1. top \in 1 .. n /\ rest \in SUBSET (1 .. n)
      BY <1>1, <2>1, GreatestIsMax
    <3>2. g[u] = step[<<g[rest], top>>] /\ g[rest] \in Nat
      BY <1>4, <2>1, <3>1 DEF FoldsLeft
    <3> HIDE DEF top, rest
    <3>3. g[u] = g[rest] + s[top]
      BY <1>3, <3>1, <3>2
    <3> QED
      BY <3>3 DEF top, rest
  <2>2. g[{}] = 0 /\ g \in [SUBSET (1 .. n) -> Nat]
    BY <1>4 DEF FoldsLeft
  <2>3. \A u \in SUBSET (1 .. n) : g[u] = IF u = {} THEN 0 ELSE g[u \ {Max(u)}] + s[Max(u)]
    BY <2>1, <2>2
  <2> QED
    BY <1>1, <2>2, <2>3
<1>6. Eq(F)
  <2> HIDE DEF Eq
  <2> QED
    BY <1>5
<1>7. F[1 .. 0] = 0
  <2>1. 1 .. 0 = {} /\ {} \in SUBSET (1 .. n)
    OBVIOUS
  <2> HIDE DEF F
  <2> QED
    BY <1>1, <1>6, <2>1
<1>8. ASSUME NEW i \in 1 .. n PROVE F[1 .. i] = F[1 .. i - 1] + s[i]
  <2>1. 1 .. i \in SUBSET (1 .. n) /\ 1 .. i # {} /\ Max(1 .. i) = i
        /\ (1 .. i) \ {Max(1 .. i)} = 1 .. i - 1
    BY <1>1, FoldAlong
  <2> HIDE DEF F
  <2>2. F[1 .. i] = F[(1 .. i) \ {Max(1 .. i)}] + s[Max(1 .. i)]
    BY <1>1, <1>6, <2>1
  <2> QED
    BY <2>1, <2>2
<1> HIDE DEF F
<1> DEFINE G == {i \in 0 .. n : F[1 .. i] \in Nat}
<1>9. 0 \in G
  BY <1>1, <1>7
<1>10. ASSUME NEW i \in 1 .. n, i - 1 \in G PROVE i \in G
  <2>1. F[1 .. i - 1] \in Nat /\ s[i] \in Nat /\ i \in 0 .. n
    BY <1>1, <1>10
  <2> QED
    BY <1>8, <2>1
<1> HIDE DEF G
<1>11. 0 .. n \subseteq G
  BY <1>1, <1>9, <1>10, HandedOn
<1> DEFINE c == [i \in 0 .. n |-> F[1 .. i]]
<1>12. c \in [0 .. n -> Nat] /\ \A i \in 0 .. n : c[i] = F[1 .. i]
  BY <1>11 DEF G
<1> HIDE DEF c
<1>13. \A i \in 1 .. n : i \in 0 .. n /\ i - 1 \in 0 .. n
  BY <1>1
<1>14. PrefixSums(c, s)
  <2>1. 0 \in 0 .. n
    BY <1>1
  <2> QED
    BY <1>7, <1>8, <1>12, <1>13, <2>1 DEF PrefixSums, n
<1>15. SumOf(s) = c[n]
  <2>1. n \in 0 .. n
    BY <1>1
  <2> QED
    BY <1>1, <1>2, <1>12, <2>1
<1> QED
  BY <1>14, <1>15 DEF n

LEMMA SamePrefix ==
    ASSUME NEW s \in Seq(Nat), NEW k \in 0 .. Len(s), NEW c, PrefixSums(c, s),
           NEW d, PrefixSums(d, SubSeq(s, 1, k))
    PROVE  c[k] = d[k]
<1> DEFINE t == SubSeq(s, 1, k)
           G == {i \in 0 .. k : c[i] = d[i]}
<1>1. /\ Len(t) = k /\ k \in Nat /\ \A i \in 1 .. k : t[i] = s[i] /\ i \in 1 .. Len(s)
  BY SubSeqProperties
<1> HIDE DEF t
<1>2. 0 \in G
  BY <1>1 DEF PrefixSums
<1>3. ASSUME NEW i \in 1 .. k, i - 1 \in G PROVE i \in G
  <2>1. c[i] = c[i - 1] + s[i] /\ d[i] = d[i - 1] + t[i]
    BY <1>1 DEF PrefixSums, t
  <2> QED
    BY <1>1, <1>3, <2>1
<1> HIDE DEF G
<1>4. 0 .. k \subseteq G
  BY <1>1, <1>2, <1>3, HandedOn
<1>5. k \in G
  BY <1>1, <1>4
<1> QED
  BY <1>5 DEF G

(* A torrent that is not refused: pieces of whole blocks, and files with   *)
(* at least one byte.                                                      *)
Laid(l) ==
    /\ l.pieceSize \in Nat \ {0} /\ l.lengths \in Seq(Nat)
    /\ BlockSize(l) \in Nat \ {0} /\ l.pieceSize % BlockSize(l) = 0
    /\ TotalSize(l) \in Nat \ {0}

(* Each file begins where the one before it ends.                          *)
LEMMA OffsetsAdd ==
    ASSUME NEW l, l.lengths \in Seq(Nat)
    PROVE  \E c : /\ PrefixSums(c, l.lengths)
                  /\ TotalSize(l) = c[Len(l.lengths)]
                  /\ \A f \in 1 .. Len(l.lengths) : Offset(l, f) = c[f - 1]
<1> DEFINE s == l.lengths
           n == Len(s)
<1>1. s \in Seq(Nat) /\ n \in Nat
  OBVIOUS
<1>2. TotalSize(l) = SumOf(s) /\ \A f : Offset(l, f) = SumOf(SubSeq(s, 1, f - 1))
  BY Zenon DEF TotalSize, Offset, SumOf
<1> HIDE DEF s
<1>3. PICK c : PrefixSums(c, s) /\ SumOf(s) = c[Len(s)]
  BY <1>1, SumIsPrefix
<1>4. ASSUME NEW f \in 1 .. n PROVE Offset(l, f) = c[f - 1]
  <2> DEFINE t == SubSeq(s, 1, f - 1)
  <2>1. f - 1 \in 0 .. n /\ f - 1 \in 0 .. Len(s)
    BY <1>1
  <2>2. t \in Seq(Nat) /\ Len(t) = f - 1
    BY <1>1, <2>1, SubSeqProperties
  <2>3. Offset(l, f) = SumOf(t)
    BY <1>2
  <2> HIDE DEF t
  <2>4. PICK d : PrefixSums(d, t) /\ SumOf(t) = d[Len(t)]
    BY <2>2, SumIsPrefix
  <2>5. c[f - 1] = d[f - 1]
    <3>1. PrefixSums(d, SubSeq(s, 1, f - 1))
      BY <2>4, Zenon DEF t
    <3>2. s \in Seq(Nat) /\ PrefixSums(c, s)
      BY <1>1, <1>3
    <3> QED
      BY <2>1, <3>1, <3>2, SamePrefix
  <2> QED
    BY <2>2, <2>3, <2>4, <2>5
<1> QED
  BY <1>2, <1>3, <1>4 DEF s, n

(* Where file f ends.                                                      *)
End(l, f) == Offset(l, f) + l.lengths[f]

LEMMA FilesLie ==
    ASSUME NEW l, l.lengths \in Seq(Nat)
    PROVE  /\ TotalSize(l) \in Nat /\ Len(l.lengths) \in Nat
           /\ \A f \in 1 .. Len(l.lengths) :
                 /\ Offset(l, f) \in Nat /\ l.lengths[f] \in Nat
                 /\ f = 1 => Offset(l, f) = 0
                 /\ f # 1 => Offset(l, f) = End(l, f - 1)
                 /\ f = Len(l.lengths) => TotalSize(l) = End(l, f)
<1> DEFINE s == l.lengths
           n == Len(s)
<1>1. PICK c : /\ PrefixSums(c, s) /\ TotalSize(l) = c[n]
               /\ \A f \in 1 .. n : Offset(l, f) = c[f - 1]
  BY OffsetsAdd
<1>2. n \in Nat /\ \A f \in 1 .. n : s[f] \in Nat
  OBVIOUS
<1> HIDE DEF s
<1>3. /\ \A i \in 0 .. n : c[i] \in Nat
      /\ c[0] = 0 /\ \A i \in 1 .. n : c[i] = c[i - 1] + s[i]
  BY <1>1 DEF PrefixSums
<1>4. ASSUME NEW f \in 1 .. n
      PROVE  /\ Offset(l, f) \in Nat /\ s[f] \in Nat
             /\ f = 1 => Offset(l, f) = 0
             /\ f # 1 => Offset(l, f) = Offset(l, f - 1) + s[f - 1]
             /\ f = n => TotalSize(l) = Offset(l, f) + s[f]
  <2> HIDE DEF n
  <2>1. f - 1 \in 0 .. n /\ f \in 0 .. n /\ (f # 1 => f - 1 \in 1 .. n)
    BY <1>2
  <2>2. Offset(l, f) = c[f - 1] /\ c[f - 1] \in Nat /\ s[f] \in Nat /\ c[f] = c[f - 1] + s[f]
    BY <1>1, <1>2, <1>3, <2>1
  <2>3. f = 1 => Offset(l, f) = 0
    BY <1>3, <2>2
  <2>4. ASSUME f # 1 PROVE Offset(l, f) = Offset(l, f - 1) + s[f - 1]
    <3>1. f - 1 \in 1 .. n
      BY <2>1, <2>4
    <3>2. Offset(l, f - 1) = c[(f - 1) - 1] /\ c[f - 1] = c[(f - 1) - 1] + s[f - 1]
      BY <1>1, <1>3, <3>1
    <3> QED
      BY <2>2, <3>2
  <2>5. f = n => TotalSize(l) = Offset(l, f) + s[f]
    BY <1>1, <2>2
  <2> QED
    BY <2>2, <2>3, <2>4, <2>5
<1>5. TotalSize(l) \in Nat
  BY <1>1, <1>2, <1>3
<1> QED
  BY <1>2, <1>4, <1>5 DEF s, n, End

(* The files lie in order within the torrent.                              *)
LEMMA FilesInOrder ==
    ASSUME NEW l, l.lengths \in Seq(Nat), NEW f \in 1 .. Len(l.lengths)
    PROVE  /\ \A g \in f + 1 .. Len(l.lengths) : End(l, f) <= Offset(l, g)
           /\ End(l, f) <= TotalSize(l)
<1> DEFINE n == Len(l.lengths)
           m == n - f
           G == {k \in 0 .. m : /\ End(l, f) <= End(l, f + k)
                                /\ k > 0 => End(l, f) <= Offset(l, f + k)}
<1>1. /\ n \in Nat /\ m \in Nat /\ f + 0 = f /\ f + m = n
      /\ \A k \in 0 .. m : f + k \in 1 .. n
      /\ \A k \in 1 .. m : f + k # 1 /\ (f + k) - 1 = f + (k - 1) /\ k - 1 \in 0 .. m
      /\ \A g \in f + 1 .. n : g - f \in 1 .. m /\ f + (g - f) = g
  OBVIOUS
<1>2. \A g \in 1 .. n : /\ Offset(l, g) \in Nat /\ l.lengths[g] \in Nat
                        /\ g # 1 => Offset(l, g) = End(l, g - 1)
                        /\ g = n => TotalSize(l) = End(l, g)
  BY FilesLie
<1> HIDE DEF n, m
<1>3. \A g \in 1 .. n : End(l, g) \in Nat /\ Offset(l, g) <= End(l, g)
  BY <1>2 DEF End
<1>4. 0 \in G
  <2>1. End(l, f + 0) = End(l, f) /\ End(l, f) \in Nat /\ 0 \in 0 .. m
    BY <1>1, <1>3
  <2> QED
    BY <2>1
<1>5. ASSUME NEW k \in 1 .. m, k - 1 \in G PROVE k \in G
  <2>1. f + k \in 1 .. n /\ k \in 0 .. m /\ f + (k - 1) \in 1 .. n /\ f \in 1 .. n
    BY <1>1
  <2>2. Offset(l, f + k) = End(l, f + (k - 1))
    BY <1>1, <1>2, <2>1
  <2>3. End(l, f) <= End(l, f + (k - 1))
    BY <1>5
  <2>4. Offset(l, f + k) <= End(l, f + k)
    BY <1>3, <2>1
  <2>5. End(l, f) <= Offset(l, f + k)
    BY <2>2, <2>3
  <2>6. End(l, f) \in Nat /\ End(l, f + k) \in Nat /\ Offset(l, f + k) \in Nat
    BY <1>2, <1>3, <2>1
  <2>7. End(l, f) <= End(l, f + k)
    BY <2>4, <2>5, <2>6
  <2> QED
    BY <2>1, <2>5, <2>7
<1> HIDE DEF G
<1>6. 0 .. m \subseteq G
  BY <1>1, <1>4, <1>5, HandedOn
<1>7. ASSUME NEW g \in f + 1 .. n PROVE End(l, f) <= Offset(l, g)
  <2>1. g - f \in G /\ g - f > 0 /\ f + (g - f) = g
    BY <1>1, <1>6
  <2> QED
    BY <2>1 DEF G
<1>8. End(l, f) <= TotalSize(l)
  <2>1. m \in G /\ f + m \in 1 .. n
    BY <1>1, <1>6
  <2>2. End(l, f) <= End(l, f + m)
    BY <2>1 DEF G
  <2> QED
    BY <1>1, <1>2, <2>1, <2>2
<1> QED
  BY <1>7, <1>8 DEF n

LEMMA ParsedLaid ==
    ASSUME NEW l \in Parsed
    PROVE  Laid(l) /\ l # NoTorrent
<1>1. /\ l \in Layout /\ BlockSize(l) > 0 /\ l.pieceSize \in Nat \ {0} /\ l.lengths \in Seq(Nat)
      /\ \E f \in DOMAIN l.lengths : l.lengths[f] > 0
  BY ContentsAssumption DEF Parsed
<1>2. BlockSize(l) \in Nat \ {0} /\ l.pieceSize % BlockSize(l) = 0
  BY <1>1, BlockSizeFits DEF BlockSize
<1>3. PICK f \in 1 .. Len(l.lengths) : l.lengths[f] > 0
  BY <1>1
<1>4. TotalSize(l) \in Nat /\ End(l, f) <= TotalSize(l)
  BY <1>1, FilesLie, FilesInOrder
<1>5. Offset(l, f) \in Nat /\ l.lengths[f] \in Nat
  BY <1>1, FilesLie
<1>6. TotalSize(l) # 0
  BY <1>3, <1>4, <1>5 DEF End
<1> QED
  BY <1>1, <1>2, <1>4, <1>6, ContentsAssumption DEF Laid
-----------------------------------------------------------------------------
(* Which pieces a file is in.                                              *)

LEMMA BytePieceIs ==
    ASSUME NEW l, Laid(l), NEW x \in 0 .. TotalSize(l)
    PROVE  /\ PieceCount(l) = ((TotalSize(l) - 1) \div l.pieceSize) + 1
           /\ BytePiece(l, x) = (IF x = TotalSize(l) THEN x - 1 ELSE x) \div l.pieceSize
<1> DEFINE T == TotalSize(l)
           size == l.pieceSize
           d == (T - 1) \div size
<1>1. T \in Nat \ {0} /\ size \in Nat \ {0} /\ T - 1 \in Nat
  BY DEF Laid
<1>2. PieceCount(l) = d + 1
  <2> HIDE DEF T, size
  <2> QED
    BY <1>1, UnitsAre DEF PieceCount, T, size
<1>3. d \in Nat
  <2> HIDE DEF T, size
  <2> QED
    BY <1>1, DivMod
<1> HIDE DEF d
<1>4. BytePiece(l, x) = IF x = T THEN d ELSE x \div size
  BY <1>2, <1>3 DEF BytePiece
<1> QED
  BY <1>2, <1>4 DEF d

LEMMA BytePieces ==
    ASSUME NEW l, Laid(l)
    PROVE  /\ PieceCount(l) \in Nat \ {0}
           /\ \A x \in 0 .. TotalSize(l) :
                 BytePiece(l, x) \in Nat /\ BytePiece(l, x) < PieceCount(l)
           /\ \A x, y \in 0 .. TotalSize(l) : x <= y => BytePiece(l, x) <= BytePiece(l, y)
           /\ \A x \in 0 .. TotalSize(l) - 1 : BytePiece(l, x + 1) <= BytePiece(l, x) + 1
           /\ BytePiece(l, 0) = 0
           /\ BytePiece(l, TotalSize(l)) = PieceCount(l) - 1
           /\ BytePiece(l, TotalSize(l) - 1) = PieceCount(l) - 1
<1> DEFINE T == TotalSize(l)
           size == l.pieceSize
           B(x) == BytePiece(l, x)
           Lowered(x) == IF x = T THEN x - 1 ELSE x
           d == (T - 1) \div size
<1>1. T \in Nat \ {0} /\ size \in Nat \ {0} /\ T - 1 \in Nat
  BY DEF Laid
<1>2. PieceCount(l) = d + 1 /\ \A x \in 0 .. T : B(x) = Lowered(x) \div size
  <2>1. T \in 0 .. T
    BY <1>1
  <2> QED
    BY <2>1, BytePieceIs
<1> HIDE DEF T, size, B
<1>3. d \in Nat
  BY <1>1, DivMod
<1>4. \A x \in 0 .. T : Lowered(x) \in Nat /\ Lowered(x) <= T - 1
  BY <1>1
<1>5. ASSUME NEW x \in 0 .. T, NEW y \in 0 .. T, x <= y PROVE B(x) <= B(y)
  <2>1. Lowered(x) <= Lowered(y) /\ Lowered(x) \in Nat /\ Lowered(y) \in Nat
    BY <1>1, <1>5
  <2> HIDE DEF Lowered
  <2>2. Lowered(x) \div size <= Lowered(y) \div size
    BY <1>1, <2>1, DivMono
  <2> QED
    BY <1>2, <2>2
<1>6. ASSUME NEW x \in 0 .. T PROVE B(x) \in Nat /\ B(x) <= d
  <2>1. Lowered(x) \in Nat /\ Lowered(x) <= T - 1
    BY <1>4
  <2> HIDE DEF Lowered
  <2>2. Lowered(x) \div size \in Nat
    BY <1>1, <2>1, DivMod
  <2>3. Lowered(x) \div size <= d
    BY <1>1, <2>1, DivMono
  <2> QED
    BY <1>2, <2>2, <2>3
<1>7. ASSUME NEW x \in 0 .. T - 1 PROVE B(x + 1) <= B(x) + 1
  <2>1. x \in Nat /\ x \in 0 .. T /\ x + 1 \in 0 .. T /\ Lowered(x) = x
    BY <1>1
  <2>2. B(x) = x \div size /\ B(x) \in Nat
    BY <1>2, <1>6, <2>1
  <2>3. CASE x + 1 = T
    <3>1. B(x + 1) = x \div size
      BY <1>2, <2>1, <2>3
    <3> QED
      BY <2>2, <3>1
  <2>4. CASE x + 1 # T
    <3>1. B(x + 1) = (x + 1) \div size
      BY <1>2, <2>1, <2>4
    <3>2. (x + 1) \div size <= (x \div size) + 1
      BY <1>1, <2>1, DivNext
    <3> QED
      BY <2>2, <3>1, <3>2
  <2> QED
    BY <2>3, <2>4
<1>8. B(0) = 0
  <2>1. 0 \in 0 .. T /\ Lowered(0) = 0
    BY <1>1
  <2>2. 0 \div size = 0
    BY <1>1
  <2> QED
    BY <1>2, <2>1, <2>2
<1>9. B(T) = d /\ B(T - 1) = d
  <2>1. T \in 0 .. T /\ T - 1 \in 0 .. T /\ Lowered(T) = T - 1 /\ Lowered(T - 1) = T - 1
    BY <1>1
  <2> QED
    BY <1>2, <2>1
<1> HIDE DEF d
<1>10. /\ PieceCount(l) \in Nat \ {0} /\ PieceCount(l) - 1 = d
       /\ \A x \in 0 .. T : B(x) < PieceCount(l)
  BY <1>2, <1>3, <1>6
<1> QED
  BY <1>5, <1>6, <1>7, <1>8, <1>9, <1>10 DEF T, B

(* The files lie over the pieces in order and without a gap.               *)
PiecesInOrder(l) ==
    LET n == Len(l.lengths)
    IN  /\ n \in Nat \ {0} /\ PieceCount(l) \in Nat \ {0} /\ Files(l) = 1 .. n
        /\ \A f \in 1 .. n : /\ FirstPiece(l, f) \in Nat /\ LastPiece(l, f) \in Nat
                             /\ FirstPiece(l, f) <= LastPiece(l, f)
                             /\ LastPiece(l, f) < PieceCount(l)
        /\ \A f, g \in 1 .. n : f < g => LastPiece(l, f) <= FirstPiece(l, g)
        /\ \A f \in 1 .. n : f # 1 => FirstPiece(l, f) <= LastPiece(l, f - 1) + 1
        /\ FirstPiece(l, 1) = 0 /\ LastPiece(l, n) = PieceCount(l) - 1

LEMMA FilesCoverPieces == ASSUME NEW l, Laid(l) PROVE PiecesInOrder(l)
<1> DEFINE T == TotalSize(l)
           n == Len(l.lengths)
           B(x) == BytePiece(l, x)
           From(f) == Offset(l, f)
           Size(f) == l.lengths[f]
           Until(f) == From(f) + IF Size(f) > 0 THEN Size(f) - 1 ELSE 0
<1>1. /\ T \in Nat \ {0} /\ n \in Nat /\ Files(l) = 1 .. n /\ l.lengths \in Seq(Nat)
  BY DEF Laid, Files
<1>2. /\ \A f \in 1 .. n : /\ From(f) \in Nat /\ Size(f) \in Nat
                           /\ f = 1 => From(f) = 0
                           /\ f # 1 => From(f) = From(f - 1) + Size(f - 1)
                           /\ f = n => T = From(f) + Size(f)
      /\ \A f \in 1 .. n : /\ \A g \in f + 1 .. n : From(f) + Size(f) <= From(g)
                           /\ From(f) + Size(f) <= T
  BY <1>1, FilesLie, FilesInOrder DEF End
<1>3. n # 0
  <2>1. ASSUME n = 0 PROVE FALSE
    <3>1. PICK c : PrefixSums(c, l.lengths) /\ T = c[n]
      BY <1>1, OffsetsAdd
    <3>2. T = 0
      BY <2>1, <3>1 DEF PrefixSums
    <3> QED
      BY <1>1, <3>2
  <2> QED
    BY <2>1
<1>4. \A f \in 1 .. n : FirstPiece(l, f) = B(From(f)) /\ LastPiece(l, f) = B(Until(f))
  BY DEF FirstPiece, LastPiece
<1>5. /\ PieceCount(l) \in Nat \ {0}
      /\ \A x \in 0 .. T : B(x) \in Nat /\ B(x) < PieceCount(l)
      /\ \A x, y \in 0 .. T : x <= y => B(x) <= B(y)
      /\ \A x \in 0 .. T - 1 : B(x + 1) <= B(x) + 1
      /\ B(0) = 0 /\ B(T) = PieceCount(l) - 1 /\ B(T - 1) = PieceCount(l) - 1
  BY BytePieces
<1> HIDE DEF T, n, B, From, Size
<1>6. \A f \in 1 .. n : /\ From(f) \in 0 .. T /\ Until(f) \in 0 .. T
                        /\ From(f) <= Until(f) /\ Until(f) <= From(f) + Size(f)
  BY <1>1, <1>2
<1>7. ASSUME NEW f \in 1 .. n, NEW g \in 1 .. n, f < g PROVE B(Until(f)) <= B(From(g))
  <2>1. g \in f + 1 .. n
    BY <1>7
  <2>2. Until(f) <= From(g)
    BY <1>2, <1>6, <2>1
  <2> HIDE DEF Until
  <2> QED
    BY <1>5, <1>6, <2>2
<1>8. ASSUME NEW f \in 1 .. n, f # 1 PROVE B(From(f)) <= B(Until(f - 1)) + 1
  <2>1. f - 1 \in 1 .. n /\ From(f) = From(f - 1) + Size(f - 1) /\ Size(f - 1) \in Nat
    BY <1>1, <1>2, <1>8
  <2>2. CASE Size(f - 1) = 0
    <3>1. From(f) = Until(f - 1) /\ Until(f - 1) \in 0 .. T
      BY <1>2, <1>6, <2>1, <2>2
    <3>2. B(Until(f - 1)) \in Nat
      BY <1>5, <3>1
    <3> QED
      BY <3>1, <3>2
  <2>3. CASE Size(f - 1) > 0
    <3>1. From(f) = Until(f - 1) + 1
      BY <1>2, <2>1, <2>3
    <3>2. Until(f - 1) \in 0 .. T - 1
      BY <1>1, <1>6, <2>1, <3>1
    <3> QED
      BY <1>5, <3>1, <3>2
  <2> QED
    BY <2>1, <2>2, <2>3
<1>9. B(From(1)) = 0 /\ B(Until(n)) = PieceCount(l) - 1
  <2>1. 1 \in 1 .. n /\ n \in 1 .. n
    BY <1>1, <1>3
  <2>2. From(1) = 0 /\ T = From(n) + Size(n) /\ Size(n) \in Nat /\ From(n) \in Nat
    BY <1>2, <2>1
  <2>3. Until(n) = T \/ Until(n) = T - 1
    BY <2>2
  <2> QED
    BY <1>5, <2>2, <2>3
<1>10. \A f \in 1 .. n : /\ B(From(f)) \in Nat /\ B(Until(f)) \in Nat
                         /\ B(From(f)) <= B(Until(f)) /\ B(Until(f)) < PieceCount(l)
  <2> HIDE DEF Until
  <2> QED
    BY <1>5, <1>6
<1> HIDE DEF Until
<1>11. 1 \in 1 .. n /\ n \in 1 .. n /\ \A f \in 1 .. n : f # 1 => f - 1 \in 1 .. n
  BY <1>1, <1>3
<1> QED
  BY <1>1, <1>3, <1>4, <1>5, <1>7, <1>8, <1>9, <1>10, <1>11 DEF PiecesInOrder, n
-----------------------------------------------------------------------------
(* The pieces left out.                                                    *)

(* Of which all files are among those of dnd.                              *)
OutTogether(l, dnd) ==
    {p \in Pieces(l) : \A f \in Files(l) : PieceHasFile(l, p, f) => f \in dnd}

(* Every piece has a file.                                                 *)
LEMMA EachPieceHasFile ==
    ASSUME NEW l, PiecesInOrder(l), NEW p \in Pieces(l)
    PROVE  \E f \in Files(l) : /\ PieceHasFile(l, p, f)
                               /\ \A g \in Files(l) : g < f => LastPiece(l, g) < p
<1> DEFINE n == Len(l.lengths)
           S == {f \in 1 .. n : p <= LastPiece(l, f)}
<1>1. /\ n \in Nat \ {0} /\ Files(l) = 1 .. n /\ p \in Nat /\ p <= LastPiece(l, n)
      /\ \A f \in 1 .. n : LastPiece(l, f) \in Nat /\ FirstPiece(l, f) \in Nat
      /\ \A f \in 1 .. n : f # 1 => FirstPiece(l, f) <= LastPiece(l, f - 1) + 1
      /\ FirstPiece(l, 1) = 0
  BY DEF PiecesInOrder, Pieces
<1> HIDE DEF n
<1>2. S \in SUBSET Nat /\ S # {}
  <2>1. n \in 1 .. n
    BY <1>1
  <2>2. n \in S
    BY <1>1, <2>1
  <2> QED
    BY <2>2
<1>3. PICK f \in S : \A g \in S : f <= g
  <2> HIDE DEF S
  <2> QED
    BY <1>2, LeastNumber
<1>4. \A g \in 1 .. n : g < f => LastPiece(l, g) < p
  BY <1>1, <1>3
<1>5. FirstPiece(l, f) <= p
  <2>1. CASE f = 1
    BY <1>1, <2>1
  <2>2. CASE f # 1
    <3>1. f - 1 \in 1 .. n /\ f - 1 < f
      BY <1>1, <1>3, <2>2
    <3>2. LastPiece(l, f - 1) < p /\ FirstPiece(l, f) <= LastPiece(l, f - 1) + 1
      BY <1>1, <1>3, <1>4, <2>2, <3>1
    <3> QED
      BY <1>1, <3>1, <3>2
  <2> QED
    BY <2>1, <2>2
<1> QED
  BY <1>1, <1>3, <1>4, <1>5 DEF PieceHasFile

(* The other files of a file's first piece are those before it that end in *)
(* it, and of its last those after it that begin in it.                    *)
LEMMA Neighbours ==
    ASSUME NEW l, PiecesInOrder(l), NEW f \in Files(l), NEW g \in Files(l)
    PROVE  /\ g < f => /\ PieceHasFile(l, FirstPiece(l, f), g) <=> LastPiece(l, g) = FirstPiece(l, f)
                       /\ \A p \in FirstPiece(l, f) + 1 .. LastPiece(l, f) : ~ PieceHasFile(l, p, g)
                       /\ LastPiece(l, g) = FirstPiece(l, f)
                            => \A h \in g .. f - 1 : LastPiece(l, h) = FirstPiece(l, f)
           /\ f < g => /\ PieceHasFile(l, LastPiece(l, f), g) <=> FirstPiece(l, g) = LastPiece(l, f)
                       /\ \A p \in FirstPiece(l, f) .. LastPiece(l, f) - 1 : ~ PieceHasFile(l, p, g)
                       /\ FirstPiece(l, g) = LastPiece(l, f)
                            => \A h \in f + 1 .. g : FirstPiece(l, h) = LastPiece(l, f)
<1> DEFINE n == Len(l.lengths)
           A(h) == FirstPiece(l, h)
           Z(h) == LastPiece(l, h)
<1>1. /\ n \in Nat /\ Files(l) = 1 .. n /\ f \in 1 .. n /\ g \in 1 .. n
      /\ \A h \in 1 .. n : A(h) \in Nat /\ Z(h) \in Nat /\ A(h) <= Z(h)
      /\ \A h, k \in 1 .. n : h < k => Z(h) <= A(k)
  BY DEF PiecesInOrder
<1>2. \A p : PieceHasFile(l, p, g) <=> A(g) <= p /\ p <= Z(g)
  BY DEF PieceHasFile
<1> HIDE DEF n, A, Z
<1>3. ASSUME g < f
      PROVE  /\ PieceHasFile(l, A(f), g) <=> Z(g) = A(f)
             /\ \A p \in A(f) + 1 .. Z(f) : ~ PieceHasFile(l, p, g)
             /\ Z(g) = A(f) => \A h \in g .. f - 1 : Z(h) = A(f)
  <2>1. Z(g) <= A(f) /\ A(g) <= Z(g) /\ A(f) \in Nat /\ Z(f) \in Nat /\ A(g) \in Nat /\ Z(g) \in Nat
    BY <1>1, <1>3
  <2>2. ASSUME NEW h \in g .. f - 1, Z(g) = A(f) PROVE Z(h) = A(f)
    <3>1. h \in 1 .. n /\ h < f /\ (g < h \/ g = h)
      BY <1>1
    <3>2. Z(h) <= A(f) /\ A(h) <= Z(h) /\ Z(h) \in Nat /\ A(h) \in Nat
      BY <1>1, <3>1
    <3>3. CASE g < h
      <4>1. Z(g) <= A(h)
        BY <1>1, <3>1, <3>3
      <4> QED
        BY <2>1, <2>2, <3>2, <4>1
    <3> QED
      BY <2>2, <3>1, <3>3
  <2> QED
    BY <1>2, <2>1, <2>2
<1>4. ASSUME f < g
      PROVE  /\ PieceHasFile(l, Z(f), g) <=> A(g) = Z(f)
             /\ \A p \in A(f) .. Z(f) - 1 : ~ PieceHasFile(l, p, g)
             /\ A(g) = Z(f) => \A h \in f + 1 .. g : A(h) = Z(f)
  <2>1. Z(f) <= A(g) /\ A(g) <= Z(g) /\ A(f) \in Nat /\ Z(f) \in Nat /\ A(g) \in Nat /\ Z(g) \in Nat
    BY <1>1, <1>4
  <2>2. ASSUME NEW h \in f + 1 .. g, A(g) = Z(f) PROVE A(h) = Z(f)
    <3>1. h \in 1 .. n /\ f < h /\ (h < g \/ g = h)
      BY <1>1
    <3>2. Z(f) <= A(h) /\ A(h) <= Z(h) /\ Z(h) \in Nat /\ A(h) \in Nat
      BY <1>1, <3>1
    <3>3. CASE h < g
      <4>1. Z(h) <= A(g)
        BY <1>1, <3>1, <3>3
      <4> QED
        BY <2>1, <2>2, <3>2, <4>1
    <3> QED
      BY <2>2, <3>1, <3>3
  <2> QED
    BY <1>2, <2>1, <2>2
<1> QED
  BY <1>3, <1>4 DEF A, Z

(* A file left out or taken in again.                                      *)
Chosen(out, f, dnd) == IF dnd THEN out \cup {f} ELSE out \ {f}

LEMMA SetFileDNDTogether ==
    ASSUME NEW l, PiecesInOrder(l), NEW before \in SUBSET Files(l), NEW f \in Files(l),
           NEW dnd \in BOOLEAN
    PROVE  SetFileDND(l, Chosen(before, f, dnd), OutTogether(l, before), f, dnd)
             = OutTogether(l, Chosen(before, f, dnd))
<1> DEFINE n == Len(l.lengths)
           A == FirstPiece(l, f)
           Z == LastPiece(l, f)
           now == Chosen(before, f, dnd)
           has(p, g) == PieceHasFile(l, p, g)
           Before(i) == \A g \in i .. f - 1 : LastPiece(l, g) = A
           After(i) == \A g \in f + 1 .. i : FirstPiece(l, g) = Z
           firstDND == dnd /\ \A i \in 1 .. f - 1 : Before(i) => i \in now
           lastDND == dnd /\ \A i \in f + 1 .. n : After(i) => i \in now
           out == {p \in A .. Z : /\ p = A => firstDND
                                  /\ p = Z => lastDND
                                  /\ dnd}
<1>1. SetFileDND(l, now, OutTogether(l, before), f, dnd)
        = (OutTogether(l, before) \ (A .. Z)) \cup out
  BY Zenon DEF SetFileDND
<1>2. /\ n \in Nat /\ Files(l) = 1 .. n /\ f \in 1 .. n
      /\ A \in Nat /\ Z \in Nat /\ A <= Z /\ A .. Z \subseteq Pieces(l)
      /\ \A p \in Pieces(l) : p \in Nat
  BY DEF PiecesInOrder, Pieces
<1>3. /\ f \in now <=> dnd
      /\ \A g \in Files(l) : g # f => (g \in now <=> g \in before)
  BY DEF Chosen
<1>4. \A p : has(p, f) <=> A <= p /\ p <= Z
  BY DEF PieceHasFile
<1>5. \A g \in 1 .. n : g < f =>
        /\ has(A, g) <=> LastPiece(l, g) = A
        /\ \A p \in A + 1 .. Z : ~ has(p, g)
        /\ has(A, g) => Before(g)
  BY <1>2, Neighbours
<1>6. \A g \in 1 .. n : f < g =>
        /\ has(Z, g) <=> FirstPiece(l, g) = Z
        /\ \A p \in A .. Z - 1 : ~ has(p, g)
        /\ has(Z, g) => After(g)
  BY <1>2, Neighbours
<1>7. \A g \in 1 .. f - 1 : Before(g) => has(A, g)
  <2>1. \A g \in 1 .. f - 1 : g \in g .. f - 1 /\ g \in 1 .. n /\ g < f
    BY <1>2
  <2> QED
    BY <1>5, <2>1
<1>8. \A g \in f + 1 .. n : After(g) => has(Z, g)
  <2>1. \A g \in f + 1 .. n : g \in f + 1 .. g /\ g \in 1 .. n /\ f < g
    BY <1>2
  <2> QED
    BY <1>6, <2>1
<1>9. /\ \A g \in 1 .. n : g < f \/ g = f \/ f < g
      /\ \A g \in 1 .. n : g < f <=> g \in 1 .. f - 1
      /\ \A g \in 1 .. n : f < g <=> g \in f + 1 .. n
      /\ \A g \in 1 .. f - 1 : g \in 1 .. n
      /\ \A g \in f + 1 .. n : g \in 1 .. n
  BY <1>2
<1>10. firstDND <=> dnd /\ \A g \in 1 .. n : g < f /\ has(A, g) => g \in now
  <2> HIDE DEF Before, has, now, A, n
  <2> QED
    BY <1>5, <1>7, <1>9
<1>11. lastDND <=> dnd /\ \A g \in 1 .. n : f < g /\ has(Z, g) => g \in now
  <2> HIDE DEF After, has, now, Z, n
  <2> QED
    BY <1>6, <1>8, <1>9
<1> HIDE DEF n, A, Z, now, has, firstDND, lastDND
<1>12. ASSUME NEW p \in A .. Z
       PROVE  p \in out <=> \A g \in 1 .. n : has(p, g) => g \in now
  <2>1. p \in Nat /\ A <= p /\ p <= Z
    BY <1>2
  <2>2. has(p, f)
    BY <1>4, <2>1
  <2>3. \A g \in 1 .. n : g < f /\ has(p, g) => p = A
    <3>1. p = A \/ p \in A + 1 .. Z
      BY <1>2, <2>1
    <3> QED
      BY <1>5, <3>1
  <2>4. \A g \in 1 .. n : f < g /\ has(p, g) => p = Z
    <3>1. p = Z \/ p \in A .. Z - 1
      BY <1>2, <2>1
    <3> QED
      BY <1>6, <3>1
  <2>5. ASSUME p \in out, NEW g \in 1 .. n, has(p, g) PROVE g \in now
    <3>1. dnd /\ (p = A => firstDND) /\ (p = Z => lastDND)
      BY <2>5
    <3> QED
      BY <1>3, <1>9, <1>10, <1>11, <2>3, <2>4, <2>5, <3>1
  <2>6. ASSUME \A g \in 1 .. n : has(p, g) => g \in now PROVE p \in out
    <3>1. dnd
      BY <1>2, <1>3, <2>2, <2>6
    <3>2. (p = A => firstDND) /\ (p = Z => lastDND)
      BY <1>10, <1>11, <2>6, <3>1
    <3> QED
      BY <3>1, <3>2
  <2> QED
    BY <2>5, <2>6
<1>13. ASSUME NEW p \in Pieces(l), p \notin A .. Z
       PROVE  p \in OutTogether(l, before) <=> p \in OutTogether(l, now)
  <2>1. ~ has(p, f)
    BY <1>2, <1>4, <1>13
  <2>2. \A g \in Files(l) : has(p, g) => (g \in now <=> g \in before)
    BY <1>3, <2>1
  <2> QED
    BY <2>2 DEF OutTogether, has
<1>14. \A p \in A .. Z : p \in out <=> p \in OutTogether(l, now)
  BY <1>2, <1>12 DEF OutTogether, has
<1> HIDE DEF out
<1>15. (OutTogether(l, before) \ (A .. Z)) \cup out = OutTogether(l, now)
  <2>1. out \subseteq A .. Z
    BY DEF out
  <2>2. OutTogether(l, before) \subseteq Pieces(l) /\ OutTogether(l, now) \subseteq Pieces(l)
    BY DEF OutTogether
  <2> QED
    BY <1>13, <1>14, <2>1, <2>2
<1> QED
  BY <1>1, <1>15 DEF now

(* The files left out, with the pieces that go with them.                  *)
LeftOut(l, out) == [files |-> out, pieces |-> OutTogether(l, out)]

(* The files left out after one of the files fs is asked, and after all.   *)
OneChosen(out, f, fs, dnd) == IF f \in fs THEN Chosen(out, f, dnd) ELSE out
AllChosen(out, fs, dnd) == IF dnd THEN out \cup fs ELSE out \ fs

LEMMA InitFileDLTogether ==
    ASSUME NEW l, PiecesInOrder(l), NEW out \in SUBSET Files(l), NEW f \in Files(l), NEW fs,
           NEW dnd \in BOOLEAN
    PROVE  InitFileDL(l, LeftOut(l, out), f, fs, dnd) = LeftOut(l, OneChosen(out, f, fs, dnd))
<1>1. LeftOut(l, out).files = out /\ LeftOut(l, out).pieces = OutTogether(l, out)
  BY DEF LeftOut
<1>2. CASE f \in fs
  <2> DEFINE now == Chosen(out, f, dnd)
  <2>1. InitFileDL(l, LeftOut(l, out), f, fs, dnd)
          = [files |-> now, pieces |-> SetFileDND(l, now, OutTogether(l, out), f, dnd)]
    BY <1>1, <1>2 DEF InitFileDL, Chosen
  <2>2. SetFileDND(l, now, OutTogether(l, out), f, dnd) = OutTogether(l, now)
    BY SetFileDNDTogether
  <2> QED
    BY <1>2, <2>1, <2>2 DEF LeftOut, OneChosen
<1>3. CASE f \notin fs
  BY <1>3 DEF InitFileDL, OneChosen
<1> QED
  BY <1>2, <1>3

(* tr_torrentInitFileDLs changes the choice of the files fs and no other.  *)
LEMMA InitFileDLsTogether ==
    ASSUME NEW l, PiecesInOrder(l), NEW out \in SUBSET Files(l), NEW fs \in SUBSET Files(l),
           NEW dnd \in BOOLEAN
    PROVE  InitFileDLs(l, LeftOut(l, out), fs, dnd)
             = LeftOut(l, AllChosen(out, fs, dnd))
<1> DEFINE n == Len(l.lengths)
           ids == [f \in Files(l) |-> f]
           base == LeftOut(l, out)
           T == {LeftOut(l, x) : x \in SUBSET Files(l)}
           step == [q \in T \X (1 .. n) |-> InitFileDL(l, q[1], q[2], fs, dnd)]
           Eq(it) == it = [u \in SUBSET (DOMAIN ids) |->
                             IF u = {} THEN base
                             ELSE InitFileDL(l, it[u \ {Max(u)}], ids[Max(u)], fs, dnd)]
           F == CHOOSE it : Eq(it)
           r == InitFileDLs(l, base, fs, dnd)
           Done(i) == IF dnd THEN out \cup (fs \cap (1 .. i)) ELSE out \ (fs \cap (1 .. i))
<1>1. n \in Nat /\ Files(l) = 1 .. n
  BY DEF PiecesInOrder
<1>2. DOMAIN ids = 1 .. n /\ \A f \in 1 .. n : ids[f] = f
  BY <1>1
<1> HIDE DEF ids
<1>3. r = F[DOMAIN ids]
  BY Zenon DEF InitFileDLs, FoldLeft, MapThenFoldSet, ids
<1> HIDE DEF n, r, base
<1>4. base \in T
  BY DEF base
<1>5. ASSUME NEW st \in T, NEW i \in 1 .. n PROVE InitFileDL(l, st, i, fs, dnd) \in T
  <2>1. PICK x \in SUBSET Files(l) : st = LeftOut(l, x)
    OBVIOUS
  <2> DEFINE y == OneChosen(x, i, fs, dnd)
  <2>2. i \in Files(l)
    BY <1>1
  <2>3. InitFileDL(l, LeftOut(l, x), i, fs, dnd) = LeftOut(l, y)
    BY <2>2, InitFileDLTogether
  <2>4. y \in SUBSET Files(l)
    BY <2>2 DEF OneChosen, Chosen
  <2> QED
    BY <2>1, <2>3, <2>4
<1>6. /\ step \in [T \X (1 .. n) -> T]
      /\ \A st \in T, i \in 1 .. n : step[<<st, i>>] = InitFileDL(l, st, i, fs, dnd)
  <2> HIDE DEF T
  <2> QED
    BY <1>5
<1> HIDE DEF step, T
<1>7. PICK g : FoldsLeft(g, n, T, base, step)
  BY <1>1, <1>4, <1>6, FoldLeftExists
<1>8. Eq(g)
  <2>1. ASSUME NEW u \in SUBSET (1 .. n), u # {}
        PROVE  g[u] = InitFileDL(l, g[u \ {Max(u)}], ids[Max(u)], fs, dnd)
    <3> DEFINE top == Max(u)
               rest == u \ {Max(u)}
    <3>1. top \in 1 .. n /\ rest \in SUBSET (1 .. n)
      BY <1>1, <2>1, GreatestIsMax
    <3>2. g[u] = step[<<g[rest], top>>] /\ g[rest] \in T
      BY <1>7, <2>1, <3>1 DEF FoldsLeft
    <3> HIDE DEF top, rest
    <3>3. g[u] = InitFileDL(l, g[rest], ids[top], fs, dnd)
      BY <1>2, <1>6, <3>1, <3>2
    <3> QED
      BY <3>3 DEF top, rest
  <2>2. g[{}] = base /\ g \in [SUBSET (1 .. n) -> T]
    BY <1>7 DEF FoldsLeft
  <2>3. \A u \in SUBSET (1 .. n) :
           g[u] = IF u = {} THEN base ELSE InitFileDL(l, g[u \ {Max(u)}], ids[Max(u)], fs, dnd)
    BY <2>1, <2>2
  <2> QED
    BY <1>2, <2>2, <2>3
<1>9. Eq(F)
  <2> HIDE DEF Eq
  <2> QED
    BY <1>8
<1>10. F[1 .. 0] = base
  <2>1. 1 .. 0 = {} /\ {} \in SUBSET (1 .. n)
    OBVIOUS
  <2> HIDE DEF F
  <2> QED
    BY <1>2, <1>9, <2>1
<1>11. ASSUME NEW i \in 1 .. n PROVE F[1 .. i] = InitFileDL(l, F[1 .. i - 1], i, fs, dnd)
  <2>1. 1 .. i \in SUBSET (1 .. n) /\ 1 .. i # {} /\ Max(1 .. i) = i
        /\ (1 .. i) \ {Max(1 .. i)} = 1 .. i - 1
    BY <1>1, FoldAlong
  <2> HIDE DEF F
  <2>2. F[1 .. i] = InitFileDL(l, F[(1 .. i) \ {Max(1 .. i)}], ids[Max(1 .. i)], fs, dnd)
    BY <1>2, <1>9, <2>1
  <2> QED
    BY <1>2, <2>1, <2>2
<1> HIDE DEF F
<1> DEFINE G == {i \in 0 .. n : F[1 .. i] = LeftOut(l, Done(i))}
<1>12. 0 \in G
  <2>1. Done(0) = out
    OBVIOUS
  <2> QED
    BY <1>1, <1>10, <2>1 DEF base
<1>13. ASSUME NEW i \in 1 .. n, i - 1 \in G PROVE i \in G
  <2>1. F[1 .. i - 1] = LeftOut(l, Done(i - 1))
    BY <1>13
  <2>2. Done(i - 1) \in SUBSET Files(l)
    OBVIOUS
  <2> DEFINE x == Done(i - 1)
             y == OneChosen(x, i, fs, dnd)
  <2>3. y = Done(i)
    <3>1. 1 .. i = (1 .. i - 1) \cup {i}
      BY <1>1
    <3> QED
      BY <3>1 DEF OneChosen, Chosen
  <2> HIDE DEF Done, x, y
  <2>6. i \in Files(l) /\ x \in SUBSET Files(l)
    BY <1>1, <2>2 DEF x
  <2>4. InitFileDL(l, LeftOut(l, x), i, fs, dnd) = LeftOut(l, y)
    BY <2>6, InitFileDLTogether DEF y
  <2>5. i \in 0 .. n
    BY <1>1
  <2> QED
    BY <1>11, <2>1, <2>3, <2>4, <2>5 DEF x
<1> HIDE DEF G
<1>14. 0 .. n \subseteq G
  BY <1>1, <1>12, <1>13, HandedOn
<1>15. F[1 .. n] = LeftOut(l, Done(n))
  <2>1. n \in G
    BY <1>1, <1>14
  <2> QED
    BY <2>1 DEF G
<1>16. Done(n) = AllChosen(out, fs, dnd)
  BY <1>1 DEF AllChosen
<1> QED
  BY <1>2, <1>3, <1>15, <1>16 DEF r, base

(* loadDND leaves out the pieces of which it leaves out all files.         *)
LEMMA LoadDNDTogether ==
    ASSUME NEW l, PiecesInOrder(l), NEW dnd \in SUBSET Files(l)
    PROVE  LoadDND(l, dnd) = OutTogether(l, dnd)
<1>1. OutTogether(l, {}) = {}
  BY EachPieceHasFile DEF OutTogether
<1>2. [files |-> {}, pieces |-> {}] = LeftOut(l, {})
  BY <1>1 DEF LeftOut
<1>3. InitFileDLs(l, LeftOut(l, {}), dnd, TRUE) = LeftOut(l, dnd)
  <2>1. {} \in SUBSET Files(l)
    OBVIOUS
  <2>2. InitFileDLs(l, LeftOut(l, {}), dnd, TRUE) = LeftOut(l, AllChosen({}, dnd, TRUE))
    BY <2>1, InitFileDLsTogether
  <2>3. AllChosen({}, dnd, TRUE) = dnd
    BY DEF AllChosen
  <2> QED
    BY <2>2, <2>3
<1>4. InitFileDLs(l, LeftOut(l, dnd), Files(l) \ dnd, FALSE) = LeftOut(l, dnd)
  <2>1. InitFileDLs(l, LeftOut(l, dnd), Files(l) \ dnd, FALSE)
          = LeftOut(l, AllChosen(dnd, Files(l) \ dnd, FALSE))
    <3>1. Files(l) \ dnd \in SUBSET Files(l)
      OBVIOUS
    <3> QED
      BY <3>1, InitFileDLsTogether
  <2>2. AllChosen(dnd, Files(l) \ dnd, FALSE) = dnd
    BY DEF AllChosen
  <2> QED
    BY <2>1, <2>2
<1>5. LoadDND(l, dnd) = LeftOut(l, dnd).pieces
  BY <1>2, <1>3, <1>4 DEF LoadDND
<1> QED
  BY <1>5 DEF LeftOut
-----------------------------------------------------------------------------
(* The priorities of the pieces.                                           *)

(* The files of a piece follow one another.                                *)
LEMMA FilesOfPieceTogether ==
    ASSUME NEW l, PiecesInOrder(l), NEW p \in Pieces(l), NEW f \in Files(l), NEW g \in Files(l),
           PieceHasFile(l, p, f), PieceHasFile(l, p, g)
    PROVE  \A k \in f .. g : k \in Files(l) /\ PieceHasFile(l, p, k)
<1> DEFINE n == Len(l.lengths)
           A(h) == FirstPiece(l, h)
           Z(h) == LastPiece(l, h)
<1>1. /\ n \in Nat /\ Files(l) = 1 .. n /\ f \in 1 .. n /\ g \in 1 .. n /\ p \in Nat
      /\ \A h \in 1 .. n : A(h) \in Nat /\ Z(h) \in Nat /\ A(h) <= Z(h)
      /\ \A h, k \in 1 .. n : h < k => Z(h) <= A(k)
  BY DEF PiecesInOrder, Pieces
<1>2. A(f) <= p /\ p <= Z(f) /\ A(g) <= p /\ p <= Z(g)
  BY DEF PieceHasFile
<1> HIDE DEF n, A, Z
<1>3. ASSUME NEW k \in f .. g PROVE k \in 1 .. n /\ A(k) <= p /\ p <= Z(k)
  <2>1. k \in 1 .. n /\ (k = f \/ f < k) /\ (k = g \/ k < g)
    BY <1>1
  <2>2. A(k) \in Nat /\ Z(k) \in Nat /\ A(k) <= Z(k)
    BY <1>1, <2>1
  <2>3. A(k) <= p
    <3>1. CASE k < g
      <4>1. Z(k) <= A(g) /\ A(g) \in Nat
        BY <1>1, <2>1, <3>1
      <4> QED
        BY <1>1, <1>2, <2>2, <4>1
    <3> QED
      BY <1>2, <2>1, <3>1
  <2>4. p <= Z(k)
    <3>1. CASE f < k
      <4>1. Z(f) <= A(k) /\ Z(f) \in Nat
        BY <1>1, <2>1, <3>1
      <4> QED
        BY <1>1, <1>2, <2>2, <4>1
    <3> QED
      BY <1>2, <2>1, <3>1
  <2> QED
    BY <2>1, <2>3, <2>4
<1> QED
  BY <1>1, <1>3 DEF PieceHasFile, A, Z

(* w leads back from a file while the one before it is in the piece.       *)
LeadsBack(w, l, p, hint) ==
    w = [f \in 1 .. hint |-> IF f > 1 /\ PieceHasFile(l, p, f - 1) THEN w[f - 1] ELSE f]

LEMMA BackExists == ASSUME NEW l, NEW p, NEW hint \in Nat PROVE \E w : LeadsBack(w, l, p, hint)
<1> DEFINE has(f) == PieceHasFile(l, p, f)
           step == [q \in Nat \X (1 .. hint) |-> IF q[2] > 1 /\ has(q[2] - 1) THEN q[1] ELSE q[2]]
<1> HIDE DEF has
<1>1. /\ step \in [Nat \X (1 .. hint) -> Nat]
      /\ \A a \in Nat, f \in 1 .. hint : step[<<a, f>>] = IF f > 1 /\ has(f - 1) THEN a ELSE f
  OBVIOUS
<1> HIDE DEF step
<1>2. PICK g : Recursion(g, hint, Nat, 0, step)
  BY <1>1, RecursionExists
<1> DEFINE w == [f \in 1 .. hint |-> g[f]]
<1>3. ASSUME NEW f \in 1 .. hint PROVE w[f] = IF f > 1 /\ has(f - 1) THEN w[f - 1] ELSE f
  <2>1. g[f] = step[<<g[f - 1], f>>] /\ g[f - 1] \in Nat
    BY <1>2 DEF Recursion
  <2>2. g[f] = IF f > 1 /\ has(f - 1) THEN g[f - 1] ELSE f
    BY <1>1, <2>1
  <2>3. f > 1 => f - 1 \in 1 .. hint
    OBVIOUS
  <2> QED
    BY <2>2, <2>3
<1>4. w = [f \in 1 .. hint |-> w[f]]
  OBVIOUS
<1> HIDE DEF w
<1>5. w = [f \in 1 .. hint |-> IF f > 1 /\ has(f - 1) THEN w[f - 1] ELSE f]
  BY <1>3, <1>4
<1>6. LeadsBack(w, l, p, hint)
  BY <1>5, Zenon DEF LeadsBack, has
<1> QED
  BY <1>6

(* Where w leads: to the first of the files from there that are in it.     *)
LedBack(a, l, p, f) ==
    /\ a \in 1 .. f
    /\ \A h \in a .. f - 1 : PieceHasFile(l, p, h)
    /\ a = 1 \/ ~ PieceHasFile(l, p, a - 1)

LEMMA BackLeads ==
    ASSUME NEW l, NEW p, NEW hint \in Nat \ {0}, NEW w, LeadsBack(w, l, p, hint)
    PROVE  LedBack(w[hint], l, p, hint)
<1> DEFINE has(f) == PieceHasFile(l, p, f)
           G == {k \in 0 .. hint - 1 : LedBack(w[k + 1], l, p, k + 1)}
<1>1. ASSUME NEW f \in 1 .. hint PROVE w[f] = IF f > 1 /\ has(f - 1) THEN w[f - 1] ELSE f
  BY Zenon DEF LeadsBack
<1> HIDE DEF has
<1>2. ASSUME NEW f \in 1 .. hint, ~(f > 1 /\ has(f - 1)) PROVE LedBack(f, l, p, f)
  <2>1. f \in 1 .. f /\ f .. f - 1 = {} /\ (f > 1 \/ f = 1)
    OBVIOUS
  <2> QED
    BY <1>2, <2>1 DEF LedBack, has
<1>3. ASSUME NEW f \in 2 .. hint, has(f - 1), NEW a, LedBack(a, l, p, f - 1) PROVE LedBack(a, l, p, f)
  <2>1. a \in 1 .. f - 1 /\ (\A h \in a .. (f - 1) - 1 : has(h)) /\ (a = 1 \/ ~ has(a - 1))
    BY <1>3 DEF LedBack, has
  <2>2. \A h \in a .. f - 1 : h \in a .. (f - 1) - 1 \/ h = f - 1
    BY <2>1
  <2>3. a \in 1 .. f
    BY <2>1
  <2>4. \A h \in a .. f - 1 : has(h)
    BY <1>3, <2>1, <2>2
  <2> QED
    BY <2>1, <2>3, <2>4 DEF LedBack, has
<1>4. 0 \in G
  <2>1. 0 \in 0 .. hint - 1 /\ 0 + 1 = 1 /\ 1 \in 1 .. hint /\ ~(1 > 1)
    OBVIOUS
  <2>2. w[1] = 1
    BY <1>1, <2>1
  <2> QED
    BY <1>2, <2>1, <2>2
<1>5. ASSUME NEW k \in 1 .. hint - 1, k - 1 \in G PROVE k \in G
  <2> DEFINE f == k + 1
  <2>1. f \in 1 .. hint /\ f \in 2 .. hint /\ f > 1 /\ f - 1 = (k - 1) + 1 /\ k \in 0 .. hint - 1
    OBVIOUS
  <2>2. LedBack(w[f - 1], l, p, f - 1)
    BY <1>5, <2>1
  <2> HIDE DEF f
  <2>3. LedBack(w[f], l, p, f)
    BY <1>1, <1>2, <1>3, <2>1, <2>2
  <2> QED
    BY <2>1, <2>3 DEF f
<1> HIDE DEF G
<1>6. hint - 1 \in Nat /\ hint - 1 \in 0 .. hint - 1 /\ (hint - 1) + 1 = hint
  OBVIOUS
<1>7. 0 .. hint - 1 \subseteq G
  BY <1>4, <1>5, <1>6, HandedOn
<1> QED
  BY <1>6, <1>7 DEF G

(* From any file of a piece, calculatePiecePriority finds all of them.     *)
FilesOf(l, p) == {f \in Files(l) : PieceHasFile(l, p, f)}

LEMMA PieceFilesFound ==
    ASSUME NEW l, PiecesInOrder(l), NEW p \in Pieces(l), NEW hint \in Files(l),
           PieceHasFile(l, p, hint)
    PROVE  PieceFiles(l, p, hint) = FilesOf(l, p)
<1> DEFINE w == CHOOSE w : LeadsBack(w, l, p, hint)
           a == w[hint]
           n == Len(l.lengths)
           has(f) == PieceHasFile(l, p, f)
<1>1. n \in Nat /\ Files(l) = 1 .. n /\ hint \in 1 .. n /\ hint \in Nat \ {0}
  BY DEF PiecesInOrder
<1>2. LeadsBack(w, l, p, hint)
  BY <1>1, BackExists
<1>3. PieceFiles(l, p, hint) = PieceFilesFromHint(l, p, a)
  BY Zenon DEF PieceFiles, LeadsBack
<1> HIDE DEF w
<1>4. LedBack(a, l, p, hint)
  BY <1>1, <1>2, BackLeads
<1> HIDE DEF a, has, n
<1>5. a \in 1 .. hint /\ (\A h \in a .. hint - 1 : has(h)) /\ (a = 1 \/ ~ has(a - 1)) /\ has(hint)
  BY <1>4 DEF LedBack, has
<1>6. a \in 1 .. n /\ has(a)
  <2>1. a = hint \/ a \in a .. hint - 1
    BY <1>1, <1>5
  <2> QED
    BY <1>1, <1>5, <2>1
<1>7. \A f, g \in 1 .. n : has(f) /\ has(g) => \A k \in f .. g : has(k)
  BY <1>1, FilesOfPieceTogether DEF has
<1>8. ASSUME NEW f \in 1 .. n, has(f) PROVE f \in a .. n /\ \A g \in a .. f : has(g)
  <2>1. a <= f
    <3>1. ASSUME f < a PROVE FALSE
      <4>1. a # 1 /\ a - 1 \in f .. hint
        BY <1>1, <1>5, <1>8, <3>1
      <4> QED
        BY <1>1, <1>5, <1>7, <1>8, <4>1
    <3> QED
      BY <1>6, <3>1
  <2> QED
    BY <1>1, <1>6, <1>7, <1>8, <2>1
<1>9. ASSUME NEW f \in a .. n, \A g \in a .. f : has(g) PROVE f \in 1 .. n /\ has(f)
  <2>1. f \in 1 .. n /\ f \in a .. f
    BY <1>6
  <2> QED
    BY <1>9, <2>1
<1>10. PieceFilesFromHint(l, p, a) = {f \in a .. n : \A g \in a .. f : has(g)}
  BY DEF PieceFilesFromHint, has, n
<1>11. FilesOf(l, p) = {f \in 1 .. n : has(f)}
  BY <1>1 DEF FilesOf, has
<1> QED
  BY <1>3, <1>8, <1>9, <1>10, <1>11

(* The priority a file gives to a piece, and the highest of a piece.       *)
PriorityOf(l, pri, p, f) ==
    IF pri[f] >= Normal /\ p \in {FirstPiece(l, f), LastPiece(l, f)} THEN High ELSE pri[f]
Highest(l, pri, p, v) ==
    /\ \E f \in FilesOf(l, p) : v = PriorityOf(l, pri, p, f)
    /\ \A f \in FilesOf(l, p) : PriorityOf(l, pri, p, f) <= v

LEMMA PiecePriorityHighest ==
    ASSUME NEW l, PiecesInOrder(l), NEW pri \in [Files(l) -> Priority],
           NEW p \in Pieces(l), NEW hint \in Files(l), PieceHasFile(l, p, hint)
    PROVE  PiecePriority(l, pri, p, hint) \in Priority /\ Highest(l, pri, p, PiecePriority(l, pri, p, hint))
<1> DEFINE fs == FilesOf(l, p)
           of(f) == PriorityOf(l, pri, p, f)
           S == {Low} \cup {of(f) : f \in fs}
<1>1. PiecePriority(l, pri, p, hint) = Max(S)
  <2>1. PieceFiles(l, p, hint) = fs
    BY PieceFilesFound
  <2> HIDE DEF fs
  <2> QED
    BY <2>1, Zenon DEF PiecePriority, PriorityOf
<1>2. hint \in fs /\ \A f \in fs : of(f) \in Priority
  BY DEF FilesOf, PriorityOf, Priority, High
<1> HIDE DEF fs, of
<1>3. of(hint) \in Priority /\ of(hint) \in S /\ \A x \in S : x \in Priority
  BY <1>2 DEF Priority
<1>4. \E x \in S : \A y \in S : x >= y
  <2> HIDE DEF S
  <2>1. \A x \in S : x = -1 \/ x = 0 \/ x = 1
    BY <1>3 DEF Priority, Low, Normal, High
  <2>2. CASE 1 \in S
    BY <2>1, <2>2
  <2>3. CASE 1 \notin S /\ 0 \in S
    BY <2>1, <2>3
  <2>4. CASE 1 \notin S /\ 0 \notin S
    BY <1>3, <2>1, <2>4
  <2> QED
    BY <2>2, <2>3, <2>4
<1>5. Max(S) \in S /\ \A y \in S : Max(S) >= y
  <2> HIDE DEF S
  <2> QED
    BY <1>4 DEF Max
<1> DEFINE v == Max(S)
<1> HIDE DEF v
<1>6. v \in Priority /\ \A f \in fs : of(f) <= v
  <2>1. v \in Priority
    BY <1>3, <1>5 DEF v
  <2>2. ASSUME NEW f \in fs PROVE of(f) <= v
    <3>1. v >= of(f)
      BY <1>5 DEF v
    <3> QED
      BY <1>2, <2>1, <3>1 DEF Priority, Low, Normal, High
  <2> QED
    BY <2>1, <2>2
<1>7. \E f \in fs : v = of(f)
  <2>1. v = Low \/ \E f \in fs : v = of(f)
    BY <1>5 DEF v
  <2>2. ASSUME v = Low PROVE of(hint) = v
    BY <1>2, <1>6, <2>2 DEF Priority, Low, Normal, High
  <2> QED
    BY <1>2, <2>1, <2>2
<1>8. Highest(l, pri, p, v)
  BY <1>6, <1>7 DEF Highest, fs, of
<1> QED
  BY <1>1, <1>6, <1>8 DEF v

(* w leads on to the first file that does not end before the piece.        *)
LeadsOn(w, l, p) ==
    w = [f \in Files(l) |-> IF LastPiece(l, f) >= p THEN f ELSE w[f + 1]]

LEMMA FirstFileFound ==
    ASSUME NEW l, PiecesInOrder(l), NEW p \in Pieces(l)
    PROVE  FirstFile(l, p) \in Files(l) /\ PieceHasFile(l, p, FirstFile(l, p))
<1> DEFINE n == Len(l.lengths)
           Z(f) == LastPiece(l, f)
<1>1. /\ n \in Nat \ {0} /\ Files(l) = 1 .. n /\ p \in Nat
      /\ \A f \in 1 .. n : Z(f) \in Nat /\ FirstPiece(l, f) \in Nat /\ FirstPiece(l, f) <= Z(f)
      /\ \A f, g \in 1 .. n : f < g => Z(f) <= FirstPiece(l, g)
  BY DEF PiecesInOrder, Pieces
<1>2. PICK m \in 1 .. n : PieceHasFile(l, p, m) /\ \A g \in 1 .. n : g < m => Z(g) < p
  BY <1>1, EachPieceHasFile
<1>3. p <= Z(m)
  BY <1>2 DEF PieceHasFile
<1> HIDE DEF n, Z
<1>4. \A f \in 1 .. n : f >= m => Z(f) >= p
  <2>1. ASSUME NEW f \in 1 .. n, f > m PROVE Z(f) >= p
    <3>1. Z(m) <= FirstPiece(l, f) /\ FirstPiece(l, f) <= Z(f)
      BY <1>1, <2>1
    <3>2. FirstPiece(l, f) \in Nat /\ Z(f) \in Nat /\ Z(m) \in Nat
      BY <1>1
    <3> QED
      BY <1>1, <1>3, <3>1, <3>2
  <2>2. Z(m) >= p
    BY <1>1, <1>3
  <2>3. \A f \in 1 .. n : f >= m => f > m \/ f = m
    OBVIOUS
  <2> QED
    BY <2>1, <2>2, <2>3
<1>5. \A f \in 1 .. n : f < m => ~(Z(f) >= p)
  BY <1>1, <1>2
<1> DEFINE x == [f \in 1 .. n |-> IF f <= m THEN m ELSE f]
           w == CHOOSE w : LeadsOn(w, l, p)
<1>6. LeadsOn(x, l, p)
  <2>1. ASSUME NEW f \in 1 .. n PROVE x[f] = IF Z(f) >= p THEN f ELSE x[f + 1]
    <3>1. CASE f < m
      <4>1. f + 1 \in 1 .. n /\ f + 1 <= m
        BY <1>1, <3>1
      <4> QED
        BY <1>5, <3>1, <4>1
    <3>2. CASE f >= m
      BY <1>4, <3>2
    <3> QED
      BY <3>1, <3>2
  <2>2. x = [f \in 1 .. n |-> x[f]]
    OBVIOUS
  <2> HIDE DEF x
  <2>3. x = [f \in 1 .. n |-> IF Z(f) >= p THEN f ELSE x[f + 1]]
    BY <2>1, <2>2
  <2> QED
    BY <1>1, <2>3 DEF LeadsOn, Z
<1>7. LeadsOn(w, l, p)
  BY <1>6
<1>8. FirstFile(l, p) = w[1]
  BY Zenon DEF FirstFile, LeadsOn
<1> HIDE DEF w, x
<1>9. \A f \in 1 .. n : w[f] = IF Z(f) >= p THEN f ELSE w[f + 1]
  BY <1>1, <1>7 DEF LeadsOn, Z
<1> DEFINE G == {k \in 0 .. m - 1 : w[m - k] = m}
<1>10. 0 \in G
  BY <1>4, <1>9
<1>11. ASSUME NEW k \in 1 .. m - 1, k - 1 \in G PROVE k \in G
  <2>1. m - k \in 1 .. n /\ m - k < m /\ (m - k) + 1 = m - (k - 1) /\ k \in 0 .. m - 1
    BY <1>1
  <2> QED
    BY <1>5, <1>9, <1>11, <2>1
<1> HIDE DEF G
<1>12. m - 1 \in Nat /\ m - 1 \in 0 .. m - 1 /\ m - (m - 1) = 1
  BY <1>1
<1>13. 0 .. m - 1 \subseteq G
  BY <1>10, <1>11, <1>12, HandedOn
<1>14. w[1] = m
  BY <1>12, <1>13 DEF G
<1> QED
  BY <1>1, <1>2, <1>8, <1>14

(* Every piece has the highest priority of its files.                      *)
AllHighest(l, pri, ps) ==
    /\ ps \in [Pieces(l) -> Priority]
    /\ \A p \in Pieces(l) : Highest(l, pri, p, ps[p])

LEMMA InitPrioritiesHighest ==
    ASSUME NEW l, PiecesInOrder(l), NEW pri \in [Files(l) -> Priority]
    PROVE  AllHighest(l, pri, InitPriorities(l, pri))
<1> DEFINE of(p) == PiecePriority(l, pri, p, FirstFile(l, p))
<1>1. ASSUME NEW p \in Pieces(l) PROVE of(p) \in Priority /\ Highest(l, pri, p, of(p))
  <2> DEFINE hint == FirstFile(l, p)
  <2>1. hint \in Files(l) /\ PieceHasFile(l, p, hint)
    BY FirstFileFound
  <2> HIDE DEF hint
  <2>2. PiecePriority(l, pri, p, hint) \in Priority
        /\ Highest(l, pri, p, PiecePriority(l, pri, p, hint))
    BY <2>1, PiecePriorityHighest
  <2> QED
    BY <2>2 DEF hint
<1>2. InitPriorities(l, pri) = [p \in Pieces(l) |-> of(p)]
  BY DEF InitPriorities
<1> HIDE DEF of
<1> QED
  BY <1>1, <1>2 DEF AllHighest

LEMMA SetFilePriorityHighest ==
    ASSUME NEW l, PiecesInOrder(l), NEW pri \in [Files(l) -> Priority],
           NEW ps, AllHighest(l, pri, ps), NEW f \in Files(l), NEW priority \in Priority
    PROVE  AllHighest(l, [pri EXCEPT ![f] = priority], SetFilePriority(l, pri, ps, f, priority))
<1> DEFINE now == [pri EXCEPT ![f] = priority]
           of(p) == IF PieceHasFile(l, p, f) THEN PiecePriority(l, now, p, f) ELSE ps[p]
<1>1. now \in [Files(l) -> Priority] /\ \A g \in Files(l) : g # f => now[g] = pri[g]
  OBVIOUS
<1>2. SetFilePriority(l, pri, ps, f, priority) = [p \in Pieces(l) |-> of(p)]
  BY DEF SetFilePriority
<1> HIDE DEF now
<1>3. ASSUME NEW p \in Pieces(l) PROVE of(p) \in Priority /\ Highest(l, now, p, of(p))
  <2>1. CASE PieceHasFile(l, p, f)
    <3>1. PiecePriority(l, now, p, f) \in Priority
          /\ Highest(l, now, p, PiecePriority(l, now, p, f))
      BY <1>1, <2>1, PiecePriorityHighest
    <3> QED
      BY <2>1, <3>1
  <2>2. CASE ~ PieceHasFile(l, p, f)
    <3>1. \A g \in FilesOf(l, p) : PriorityOf(l, now, p, g) = PriorityOf(l, pri, p, g)
      BY <1>1, <2>2 DEF FilesOf, PriorityOf
    <3>2. ps[p] \in Priority /\ Highest(l, pri, p, ps[p])
      BY DEF AllHighest
    <3>3. Highest(l, now, p, ps[p])
      BY <3>1, <3>2 DEF Highest
    <3> QED
      BY <2>2, <3>2, <3>3
  <2> QED
    BY <2>1, <2>2
<1> HIDE DEF of
<1> QED
  BY <1>2, <1>3 DEF AllHighest, now

(* The priorities of the files, with pieces that agree.                    *)
Agreeing(l) == {st \in [files : [Files(l) -> Priority], pieces : [Pieces(l) -> Priority]] :
                  AllHighest(l, st.files, st.pieces)}

LEMMA LoadFilePriorityAgrees ==
    ASSUME NEW l, PiecesInOrder(l), NEW pri \in [Files(l) -> Priority],
           NEW st \in Agreeing(l), NEW f \in Files(l)
    PROVE  /\ LoadFilePriority(l, pri, st, f) \in Agreeing(l)
           /\ LoadFilePriority(l, pri, st, f).files = [st.files EXCEPT ![f] = pri[f]]
<1> DEFINE fs == st.files
           ps == st.pieces
           now == [fs EXCEPT ![f] = pri[f]]
           of == SetFilePriority(l, fs, ps, f, pri[f])
<1>1. fs \in [Files(l) -> Priority] /\ AllHighest(l, fs, ps) /\ pri[f] \in Priority
  BY DEF Agreeing
<1>2. LoadFilePriority(l, pri, st, f) = [files |-> now, pieces |-> of]
  BY DEF LoadFilePriority
<1>3. now \in [Files(l) -> Priority]
  BY <1>1
<1> HIDE DEF fs, ps
<1>4. AllHighest(l, now, of)
  BY <1>1, SetFilePriorityHighest
<1>5. of \in [Pieces(l) -> Priority]
  BY <1>4 DEF AllHighest
<1> HIDE DEF now, of
<1>6. [files |-> now, pieces |-> of] \in Agreeing(l)
  BY <1>3, <1>4, <1>5 DEF Agreeing
<1> QED
  BY <1>2, <1>6 DEF now, fs

(* loadFilePriorities, file by file, leads to the priorities loaded.       *)
LEMMA LoadFilePrioritiesHighest ==
    ASSUME NEW l, PiecesInOrder(l), NEW pri \in [Files(l) -> Priority]
    PROVE  AllHighest(l, pri, LoadFilePriorities(l, pri))
<1> DEFINE n == Len(l.lengths)
           ids == [f \in Files(l) |-> f]
           normal == [f \in Files(l) |-> Normal]
           base == [files |-> normal, pieces |-> InitPriorities(l, normal)]
           T == Agreeing(l)
           step == [q \in T \X (1 .. n) |-> LoadFilePriority(l, pri, q[1], q[2])]
           Eq(it) == it = [u \in SUBSET (DOMAIN ids) |->
                             IF u = {} THEN base
                             ELSE LoadFilePriority(l, pri, it[u \ {Max(u)}], ids[Max(u)])]
           F == CHOOSE it : Eq(it)
           r == LoadFilePriorities(l, pri)
<1>1. n \in Nat /\ Files(l) = 1 .. n
  BY DEF PiecesInOrder
<1>2. DOMAIN ids = 1 .. n /\ \A f \in 1 .. n : ids[f] = f
  BY <1>1
<1> HIDE DEF ids
<1>3. r = F[DOMAIN ids].pieces
  BY Zenon DEF LoadFilePriorities, FoldLeft, MapThenFoldSet, ids
<1> HIDE DEF n, r
<1>4. base \in T
  <2>1. normal \in [Files(l) -> Priority]
    BY DEF Priority
  <2> HIDE DEF normal
  <2>2. AllHighest(l, normal, InitPriorities(l, normal))
    BY <2>1, InitPrioritiesHighest
  <2> QED
    BY <2>1, <2>2 DEF Agreeing, AllHighest
<1> HIDE DEF base
<1>5. ASSUME NEW st \in T, NEW i \in 1 .. n
      PROVE  /\ LoadFilePriority(l, pri, st, i) \in T
             /\ LoadFilePriority(l, pri, st, i).files = [st.files EXCEPT ![i] = pri[i]]
  <2>1. i \in Files(l)
    BY <1>1
  <2> QED
    BY <2>1, LoadFilePriorityAgrees
<1>6. /\ step \in [T \X (1 .. n) -> T]
      /\ \A st \in T, i \in 1 .. n : step[<<st, i>>] = LoadFilePriority(l, pri, st, i)
  <2> HIDE DEF T
  <2> QED
    BY <1>5
<1> HIDE DEF step, T
<1>7. PICK g : FoldsLeft(g, n, T, base, step)
  BY <1>1, <1>4, <1>6, FoldLeftExists
<1>8. Eq(g)
  <2>1. ASSUME NEW u \in SUBSET (1 .. n), u # {}
        PROVE  g[u] = LoadFilePriority(l, pri, g[u \ {Max(u)}], ids[Max(u)])
    <3> DEFINE top == Max(u)
               rest == u \ {Max(u)}
    <3>1. top \in 1 .. n /\ rest \in SUBSET (1 .. n)
      BY <1>1, <2>1, GreatestIsMax
    <3>2. g[u] = step[<<g[rest], top>>] /\ g[rest] \in T
      BY <1>7, <2>1, <3>1 DEF FoldsLeft
    <3> HIDE DEF top, rest
    <3>3. g[u] = LoadFilePriority(l, pri, g[rest], ids[top])
      BY <1>2, <1>6, <3>1, <3>2
    <3> QED
      BY <3>3 DEF top, rest
  <2>2. g[{}] = base /\ g \in [SUBSET (1 .. n) -> T]
    BY <1>7 DEF FoldsLeft
  <2>3. \A u \in SUBSET (1 .. n) :
           g[u] = IF u = {} THEN base ELSE LoadFilePriority(l, pri, g[u \ {Max(u)}], ids[Max(u)])
    BY <2>1, <2>2
  <2> QED
    BY <1>2, <2>2, <2>3
<1>9. Eq(F)
  <2> HIDE DEF Eq
  <2> QED
    BY <1>8
<1>10. F[1 .. 0] = base
  <2>1. 1 .. 0 = {} /\ {} \in SUBSET (1 .. n)
    OBVIOUS
  <2> HIDE DEF F
  <2> QED
    BY <1>2, <1>9, <2>1
<1>11. ASSUME NEW i \in 1 .. n PROVE F[1 .. i] = LoadFilePriority(l, pri, F[1 .. i - 1], i)
  <2>1. 1 .. i \in SUBSET (1 .. n) /\ 1 .. i # {} /\ Max(1 .. i) = i
        /\ (1 .. i) \ {Max(1 .. i)} = 1 .. i - 1
    BY <1>1, FoldAlong
  <2> HIDE DEF F
  <2>2. F[1 .. i] = LoadFilePriority(l, pri, F[(1 .. i) \ {Max(1 .. i)}], ids[Max(1 .. i)])
    BY <1>2, <1>9, <2>1
  <2> QED
    BY <1>2, <2>1, <2>2
<1> HIDE DEF F
<1> DEFINE G == {i \in 0 .. n : /\ F[1 .. i] \in T
                                /\ \A f \in 1 .. i : F[1 .. i].files[f] = pri[f]}
<1>12. 0 \in G
  BY <1>1, <1>4, <1>10
<1>13. ASSUME NEW i \in 1 .. n, i - 1 \in G PROVE i \in G
  <2> DEFINE s == F[1 .. i - 1]
  <2>1. s \in T /\ \A f \in 1 .. i - 1 : s.files[f] = pri[f]
    BY <1>13
  <2>2. F[1 .. i] = LoadFilePriority(l, pri, s, i)
    BY <1>11
  <2> HIDE DEF s
  <2>3. F[1 .. i] \in T /\ F[1 .. i].files = [s.files EXCEPT ![i] = pri[i]]
    BY <1>5, <2>1, <2>2
  <2>4. s.files \in [1 .. n -> Priority]
    BY <1>1, <2>1 DEF T, Agreeing
  <2>5. \A f \in 1 .. i : (f = i \/ f \in 1 .. i - 1) /\ f \in 1 .. n
    BY <1>1
  <2>6. \A f \in 1 .. i : F[1 .. i].files[f] = pri[f]
    BY <2>1, <2>3, <2>4, <2>5
  <2>7. i \in 0 .. n
    BY <1>1
  <2> QED
    BY <2>3, <2>6, <2>7
<1> HIDE DEF G
<1>14. 0 .. n \subseteq G
  BY <1>1, <1>12, <1>13, HandedOn
<1>15. F[1 .. n] \in T /\ \A f \in 1 .. n : F[1 .. n].files[f] = pri[f]
  <2>1. n \in G
    BY <1>1, <1>14
  <2> QED
    BY <2>1 DEF G
<1>16. F[1 .. n].files = pri /\ AllHighest(l, F[1 .. n].files, F[1 .. n].pieces)
  <2>1. F[1 .. n].files \in [1 .. n -> Priority] /\ AllHighest(l, F[1 .. n].files, F[1 .. n].pieces)
    BY <1>1, <1>15 DEF T, Agreeing
  <2> QED
    BY <1>1, <1>15, <2>1
<1> QED
  BY <1>2, <1>3, <1>16 DEF r
-----------------------------------------------------------------------------
(* The choices.                                                            *)

(* The invariant of the choices: the pieces left out are those of which    *)
(* all files are, and each has the highest priority of its files.  It is   *)
(* inductive with the form of the two variables and a torrent that is not  *)
(* refused.                                                                *)
ChoicesAgree ==
    /\ torrent \in Parsed
    /\ files \in [dnd : SUBSET Files(torrent), priority : [Files(torrent) -> Priority]]
    /\ pieces \in [dnd : SUBSET Pieces(torrent), priority : [Pieces(torrent) -> Priority]]
    /\ pieces.dnd = OutTogether(torrent, files.dnd)
    /\ AllHighest(torrent, files.priority, pieces.priority)

LEMMA ChoicesMade == ContentsInit => ChoicesAgree
<1> SUFFICES ASSUME ContentsInit PROVE ChoicesAgree
  OBVIOUS
<1>1. torrent \in Parsed
  BY DEF ContentsInit
<1>2. PICK dnd \in SUBSET Files(torrent), priority \in [Files(torrent) -> Priority] :
        /\ files = [dnd |-> dnd, priority |-> priority]
        /\ pieces = [dnd |-> LoadDND(torrent, dnd),
                     priority |-> LoadFilePriorities(torrent, priority)]
  BY DEF ContentsInit
<1>3. PiecesInOrder(torrent)
  BY <1>1, ParsedLaid, FilesCoverPieces
<1>4. LoadDND(torrent, dnd) = OutTogether(torrent, dnd)
  BY <1>3, LoadDNDTogether
<1>5. AllHighest(torrent, priority, LoadFilePriorities(torrent, priority))
  BY <1>3, LoadFilePrioritiesHighest
<1>6. /\ OutTogether(torrent, dnd) \in SUBSET Pieces(torrent)
      /\ LoadFilePriorities(torrent, priority) \in [Pieces(torrent) -> Priority]
  BY <1>5 DEF OutTogether, AllHighest
<1> QED
  BY <1>1, <1>2, <1>4, <1>5, <1>6 DEF ChoicesAgree

LEMMA ChoicesKept == ChoicesAgree /\ [ContentsNext]_contents => ChoicesAgree'
<1> SUFFICES ASSUME ChoicesAgree, [ContentsNext]_contents PROVE ChoicesAgree'
  OBVIOUS
<1>1. PiecesInOrder(torrent)
  <2>1. torrent \in Parsed
    BY DEF ChoicesAgree
  <2> QED
    BY <2>1, ParsedLaid, FilesCoverPieces
<1>2. CASE UNCHANGED <<torrent, files, pieces>>
  BY <1>2 DEF ChoicesAgree
<1>3. ASSUME NEW f \in Files(torrent), NEW dnd \in BOOLEAN, SetFileDLs(f, dnd) PROVE ChoicesAgree'
  <2> DEFINE now == Chosen(files.dnd, f, dnd)
             out == SetFileDND(torrent, now, pieces.dnd, f, dnd)
  <2>1. /\ torrent' = torrent
        /\ files' = [files EXCEPT !.dnd = now]
        /\ pieces' = [pieces EXCEPT !.dnd = out]
    BY <1>3 DEF SetFileDLs, Call, Chosen
  <2>2. files.dnd \in SUBSET Files(torrent) /\ pieces.dnd = OutTogether(torrent, files.dnd)
    BY DEF ChoicesAgree
  <2>3. now \in SUBSET Files(torrent)
    BY <2>2 DEF Chosen
  <2>4. out = OutTogether(torrent, now)
    <3> DEFINE before == files.dnd
    <3>1. before \in SUBSET Files(torrent)
      BY <2>2
    <3> HIDE DEF before
    <3>2. SetFileDND(torrent, Chosen(before, f, dnd), OutTogether(torrent, before), f, dnd)
            = OutTogether(torrent, Chosen(before, f, dnd))
      BY <1>1, <3>1, SetFileDNDTogether
    <3> QED
      BY <2>2, <3>2 DEF before
  <2>5. out \in SUBSET Pieces(torrent)
    BY <2>4 DEF OutTogether
  <2> HIDE DEF now, out
  <2>6. /\ files'.dnd = now /\ files'.priority = files.priority
        /\ pieces'.dnd = out /\ pieces'.priority = pieces.priority
        /\ files' \in [dnd : SUBSET Files(torrent), priority : [Files(torrent) -> Priority]]
        /\ pieces' \in [dnd : SUBSET Pieces(torrent), priority : [Pieces(torrent) -> Priority]]
    BY <2>1, <2>3, <2>5 DEF ChoicesAgree
  <2> QED
    BY <2>1, <2>4, <2>6 DEF ChoicesAgree
<1>4. ASSUME NEW f \in Files(torrent), NEW priority \in Priority, SetFilePriorities(f, priority)
      PROVE  ChoicesAgree'
  <2> DEFINE pri == files.priority
             now == [pri EXCEPT ![f] = priority]
             ps == SetFilePriority(torrent, pri, pieces.priority, f, priority)
  <2>1. /\ torrent' = torrent
        /\ files' = [files EXCEPT !.priority[f] = priority]
        /\ pieces' = [pieces EXCEPT !.priority = ps]
    BY <1>4 DEF SetFilePriorities, Call
  <2>2. pri \in [Files(torrent) -> Priority] /\ AllHighest(torrent, pri, pieces.priority)
    BY DEF ChoicesAgree
  <2>3. files' = [files EXCEPT !.priority = now] /\ now \in [Files(torrent) -> Priority]
    BY <2>1, <2>2 DEF ChoicesAgree
  <2> HIDE DEF pri
  <2>4. AllHighest(torrent, now, ps)
    BY <1>1, <2>2, SetFilePriorityHighest
  <2>5. ps \in [Pieces(torrent) -> Priority]
    BY <2>4 DEF AllHighest
  <2> HIDE DEF now, ps
  <2>6. /\ files'.dnd = files.dnd /\ files'.priority = now
        /\ pieces'.dnd = pieces.dnd /\ pieces'.priority = ps
        /\ files' \in [dnd : SUBSET Files(torrent), priority : [Files(torrent) -> Priority]]
        /\ pieces' \in [dnd : SUBSET Pieces(torrent), priority : [Pieces(torrent) -> Priority]]
    BY <2>1, <2>3, <2>5 DEF ChoicesAgree
  <2> QED
    BY <2>1, <2>4, <2>6 DEF ChoicesAgree
<1>5. CASE \/ \E b \in AllBlocks(torrent) : AddBlock(b)
           \/ \E p \in Pieces(torrent) : BadPiece(p)
           \/ Sums \/ VerifyBegin
  BY <1>2, <1>5 DEF AddBlock, BadPiece, Sums, Hold, VerifyBegin, Call
<1>6. CASE VerifyPass \/ VerifyStop \/ FinishUpdate \/ FinishSums
  BY <1>2, <1>6 DEF VerifyPass, VerifyStop, FinishUpdate, FinishSums
<1>7. CASE UNCHANGED contents
  BY <1>2, <1>7 DEF contents
<1> QED
  BY <1>3, <1>4, <1>5, <1>6, <1>7 DEF ContentsNext

THEOREM ChoicesHold == ContentsSpec => []ChoicesAgree
BY ChoicesMade, ChoicesKept, PTL DEF ContentsSpec

(* A piece is left out exactly when all its files are, whatever a resume   *)
(* file leaves out and whichever calls follow (setFileDND, loadDND).       *)
THEOREM LeftOutTogether == ContentsSpec => []LeftOutOnlyTogether
<1>1. ChoicesAgree => LeftOutOnlyTogether
  BY DEF ChoicesAgree, LeftOutOnlyTogether, OutTogether
<1> QED
  BY <1>1, ChoicesHold, PTL

(* Every piece has the highest of the priorities its files give it, though *)
(* only the pieces of the file that was chosen are looked at again         *)
(* (tr_torrentInitFilePriority, calculatePiecePriority).                   *)
THEOREM PrioritiesReach == ContentsSpec => []PrioritiesReachPieces
<1>1. ASSUME ChoicesAgree PROVE PrioritiesReachPieces
  <2> DEFINE Of(p, f) == PriorityOf(torrent, files.priority, p, f)
             All(p) == {Of(p, f) : f \in {g \in Files(torrent) : PieceHasFile(torrent, p, g)}}
  <2>1. ASSUME NEW p \in Pieces(torrent)
        PROVE  pieces.priority[p] \in All(p) /\ \A pri \in All(p) : pri <= pieces.priority[p]
    <3>1. Highest(torrent, files.priority, p, pieces.priority[p])
      BY <1>1 DEF ChoicesAgree, AllHighest
    <3> QED
      BY <3>1 DEF Highest, FilesOf
  <2> QED
    BY <2>1, Zenon DEF PrioritiesReachPieces, PriorityOf
<1> QED
  BY <1>1, ChoicesHold, PTL
-----------------------------------------------------------------------------
(* How pieces and blocks tile the bytes.                                   *)

(* Where unit u of "size" bytes begins, and how long it is.                *)
UnitAt(unit, u) == unit * u
UnitSize(size, unit, u) == IF u + 1 = Units(size, unit) THEN LastUnit(size, unit) ELSE unit

LEMMA LastUnitEnds ==
    ASSUME NEW size \in Nat \ {0}, NEW unit \in Nat \ {0}, NEW d, d = (size - 1) \div unit
    PROVE  /\ d \in Nat /\ UnitAt(unit, d) \in Nat
           /\ LastUnit(size, unit) \in 1 .. unit
           /\ UnitAt(unit, d) + LastUnit(size, unit) = size
<1>1. size - 1 \in Nat
  OBVIOUS
<1>2. d \in Nat /\ unit * d <= size - 1 /\ size - 1 < unit * d + unit
  BY <1>1, DivMod
<1>3. /\ size \div unit \in Nat /\ size % unit \in Nat
      /\ size = unit * (size \div unit) + (size % unit)
  BY DivMod
<1>4. CASE size = unit * d + unit
  <2>1. unit * (d + 1) = unit * d + unit
    BY <1>2
  <2>2. size \div unit = d + 1
    <3> DEFINE q == d + 1
    <3>1. q \in Nat /\ size \in Nat /\ unit * q <= size /\ size < unit * q + unit
      BY <1>2, <1>4, <2>1
    <3> HIDE DEF q
    <3>2. size \div unit = q
      BY <3>1, DivIs
    <3> QED
      BY <3>2 DEF q
  <2>3. size % unit = 0
    BY <1>2, <1>3, <1>4, <2>1, <2>2
  <2>4. LastUnit(size, unit) = unit
    BY <2>3 DEF LastUnit
  <2> QED
    BY <1>2, <1>4, <2>4 DEF UnitAt
<1>5. CASE size # unit * d + unit
  <2>1. size < unit * d + unit /\ unit * d < size
    BY <1>2, <1>5
  <2>2. size \div unit = d
    <3>1. size \in Nat /\ unit * d <= size
      BY <1>2, <2>1
    <3> QED
      BY <1>2, <2>1, <3>1, DivIs
  <2>3. size % unit = size - unit * d
    BY <1>2, <1>3, <2>2
  <2>4. LastUnit(size, unit) = size - unit * d
    BY <1>2, <2>1, <2>3 DEF LastUnit
  <2> QED
    BY <1>2, <2>1, <2>4 DEF UnitAt
<1> QED
  BY <1>4, <1>5

(* A unit is the bytes whose quotient it is.                               *)
LEMMA UnitsTile ==
    ASSUME NEW size \in Nat \ {0}, NEW unit \in Nat \ {0}, NEW u \in 0 .. Units(size, unit) - 1
    PROVE  /\ UnitAt(unit, u) \in Nat /\ UnitSize(size, unit, u) \in 1 .. unit
           /\ UnitAt(unit, u) + UnitSize(size, unit, u) <= size
           /\ \A x \in 0 .. size - 1 :
                 x \div unit = u <=> /\ UnitAt(unit, u) <= x
                                     /\ x < UnitAt(unit, u) + UnitSize(size, unit, u)
<1> DEFINE d == (size - 1) \div unit
           n == UnitSize(size, unit, u)
           at == UnitAt(unit, u)
<1>1. /\ d \in Nat /\ UnitAt(unit, d) \in Nat
      /\ LastUnit(size, unit) \in 1 .. unit
      /\ UnitAt(unit, d) + LastUnit(size, unit) = size
  BY LastUnitEnds
<1>2. Units(size, unit) = d + 1
  BY UnitsAre
<1> HIDE DEF d
<1>3. u \in Nat /\ u <= d
  BY <1>1, <1>2
<1>4. n = IF u = d THEN LastUnit(size, unit) ELSE unit
  BY <1>1, <1>2, <1>3 DEF UnitSize
<1>5. at \in Nat /\ at = unit * u
  BY <1>3 DEF UnitAt
<1>6. u # d => at + unit <= UnitAt(unit, d)
  <2>1. ASSUME u # d PROVE unit * (u + 1) <= unit * d
    <3>1. u + 1 <= d
      BY <1>1, <1>3, <2>1
    <3> QED
      BY <1>1, <1>3, <3>1
  <2>2. unit * (u + 1) = unit * u + unit
    BY <1>3
  <2> QED
    BY <1>5, <2>1, <2>2 DEF UnitAt
<1> HIDE DEF n, at
<1>7. n \in 1 .. unit /\ at + n <= size
  BY <1>1, <1>4, <1>5, <1>6 DEF at
<1>8. ASSUME NEW x \in 0 .. size - 1 PROVE x \div unit = u <=> at <= x /\ x < at + n
  <2> DEFINE q == x \div unit
  <2>1. x \in Nat /\ q \in Nat /\ unit * q <= x /\ x < unit * q + unit
    BY DivMod
  <2>2. ASSUME q = u PROVE at <= x /\ x < at + n
    <3>1. CASE u = d
      BY <1>1, <1>4, <1>5, <2>1, <2>2, <3>1 DEF at
    <3>2. CASE u # d
      BY <1>4, <1>5, <2>1, <2>2, <3>2
    <3> QED
      BY <3>1, <3>2
  <2>3. ASSUME at <= x, x < at + n PROVE q = u
    <3>1. unit * u <= x /\ x < unit * u + unit
      BY <1>5, <1>7, <2>1, <2>3
    <3> QED
      BY <1>3, <2>1, <3>1, DivIs
  <2> QED
    BY <2>2, <2>3
<1> QED
  BY <1>5, <1>7, <1>8 DEF n, at

(* Every byte is in a unit.                                                *)
LEMMA UnitsCover ==
    ASSUME NEW size \in Nat \ {0}, NEW unit \in Nat \ {0}, NEW x \in 0 .. size - 1
    PROVE  x \div unit \in 0 .. Units(size, unit) - 1 /\ Units(size, unit) \in Nat \ {0}
<1> DEFINE d == (size - 1) \div unit
<1>1. Units(size, unit) = d + 1
  BY UnitsAre
<1>2. x \in Nat /\ size - 1 \in Nat /\ x <= size - 1
  OBVIOUS
<1>3. d \in Nat /\ x \div unit \in Nat
  BY <1>2, DivMod
<1>4. x \div unit <= d
  BY <1>2, DivMono
<1> HIDE DEF d
<1> QED
  BY <1>1, <1>3, <1>4

LEMMA UnitCount ==
    ASSUME NEW size \in Nat \ {0}, NEW unit \in Nat \ {0}, NEW u \in 0 .. Units(size, unit) - 1
    PROVE  /\ IsFiniteSet({x \in 0 .. size - 1 : x \div unit = u})
           /\ Cardinality({x \in 0 .. size - 1 : x \div unit = u}) = UnitSize(size, unit, u)
<1> DEFINE at == UnitAt(unit, u)
           n == UnitSize(size, unit, u)
           S == {x \in 0 .. size - 1 : x \div unit = u}
<1>1. /\ at \in Nat /\ n \in 1 .. unit /\ at + n <= size
      /\ \A x \in 0 .. size - 1 : x \div unit = u <=> at <= x /\ x < at + n
  BY UnitsTile
<1> HIDE DEF at, n
<1>2. S = at .. at + n - 1
  <2>1. \A x \in at .. at + n - 1 : x \in 0 .. size - 1 /\ at <= x /\ x < at + n
    BY <1>1
  <2>2. \A x \in 0 .. size - 1 : at <= x /\ x < at + n => x \in at .. at + n - 1
    BY <1>1
  <2> QED
    BY <1>1, <2>1, <2>2
<1> HIDE DEF S
<1> DEFINE top == at + n - 1
<1>3. at \in Int /\ top \in Int /\ at <= top /\ top - at + 1 = n
  BY <1>1
<1> HIDE DEF top
<1>4. IsFiniteSet(at .. top) /\ Cardinality(at .. top) = IF at > top THEN 0 ELSE top - at + 1
  BY <1>3, FS_Interval
<1>5. IsFiniteSet(at .. top) /\ Cardinality(at .. top) = n
  BY <1>3, <1>4
<1> QED
  BY <1>2, <1>5 DEF S, n, top

(* The sizes of pieces and blocks are those of units.                      *)
LEMMA UnitsOfTorrent ==
    ASSUME NEW l, Laid(l)
    PROVE  /\ TotalSize(l) \in Nat \ {0} /\ l.pieceSize \in Nat \ {0} /\ BlockSize(l) \in Nat \ {0}
           /\ Pieces(l) = 0 .. Units(TotalSize(l), l.pieceSize) - 1
           /\ AllBlocks(l) = 0 .. Units(TotalSize(l), BlockSize(l)) - 1
           /\ \A p : PieceCountBytes(l, p) = UnitSize(TotalSize(l), l.pieceSize, p)
           /\ \A b : BlockCountBytes(l, b) = UnitSize(TotalSize(l), BlockSize(l), b)
<1>1. /\ PieceCount(l) = Units(TotalSize(l), l.pieceSize)
      /\ BlockCount(l) = Units(TotalSize(l), BlockSize(l))
      /\ LastPieceSize(l) = LastUnit(TotalSize(l), l.pieceSize)
      /\ LastBlockSize(l) = LastUnit(TotalSize(l), BlockSize(l))
  BY DEF PieceCount, BlockCount, LastPieceSize, LastBlockSize
<1> QED
  BY <1>1 DEF Laid, Pieces, AllBlocks, PieceCountBytes, BlockCountBytes, UnitSize

(* A byte lies in its piece and in its block, which is in its piece, and   *)
(* _tr_block finds the block from the place in the piece.                  *)
LEMMA ByteLies ==
    ASSUME NEW l, Laid(l), NEW x \in Bytes(l)
    PROVE  LET p == x \div l.pieceSize
               b == x \div BlockSize(l)
           IN  /\ p \in Pieces(l) /\ b \in AllBlocks(l) /\ x \in Nat
               /\ BlockAt(l, p, x % l.pieceSize) = b
               /\ b \in PieceBlocks(l, p)
               /\ x % l.pieceSize < PieceCountBytes(l, p)
<1> DEFINE T == TotalSize(l)
           s == l.pieceSize
           B == BlockSize(l)
           k == s \div B
           p == x \div s
           r == x % s
           e == r \div B
           n == PieceCountBytes(l, p)
<1>1. T \in Nat \ {0} /\ s \in Nat \ {0} /\ B \in Nat \ {0} /\ s % B = 0 /\ x \in 0 .. T - 1 /\ x \in Nat
  BY DEF Laid, Bytes
<1>2. p \in Pieces(l) /\ x \div B \in AllBlocks(l)
  <2> HIDE DEF T, s, B
  <2>1. p \in 0 .. Units(T, s) - 1 /\ x \div B \in 0 .. Units(T, B) - 1
    BY <1>1, UnitsCover
  <2> QED
    BY <2>1, UnitsOfTorrent DEF T, s, B
<1>3. n \in 1 .. s /\ UnitAt(s, p) \in Nat /\ UnitAt(s, p) <= x /\ x < UnitAt(s, p) + n
  <2>1. n = UnitSize(T, s, p) /\ p \in 0 .. Units(T, s) - 1
    BY <1>2, UnitsOfTorrent
  <2> HIDE DEF T, s, B, n
  <2> QED
    BY <1>1, <2>1, UnitsTile
<1> HIDE DEF n
<1>4. BlockAt(l, p, r) = p * k + e
  BY DEF BlockAt
<1>5. PieceBlocks(l, p) = (s * p) \div B .. (s * p + n - 1) \div B
  BY DEF PieceBlocks, n
<1> HIDE DEF T, s, B
<1>6. p \in Nat /\ r \in Nat /\ r < s /\ x = s * p + r
  BY <1>1, DivMod
<1>7. k \in Nat /\ s = B * k
  BY <1>1, DivMod
<1> HIDE DEF k, p, r
<1>8. e \in Nat /\ B * e <= r /\ r < B * e + B
  BY <1>1, <1>6, DivMod
<1> HIDE DEF e
<1>9. x \div B = p * k + e
  <2> DEFINE q == p * k + e
  <2>1. B * q = s * p + B * e
    <3>1. B * q = B * (p * k) + B * e
      BY <1>1, <1>6, <1>7, <1>8
    <3>2. B * (p * k) = (B * k) * p
      BY <1>1, <1>6, <1>7
    <3> QED
      BY <1>7, <3>1, <3>2
  <2>2. q \in Nat
    BY <1>6, <1>7, <1>8
  <2> HIDE DEF q
  <2>3. s * p \in Nat
    BY <1>1, <1>6
  <2>4. B * q <= x /\ x < B * q + B
    BY <1>1, <1>6, <1>8, <2>1, <2>3
  <2>5. x \div B = q
    BY <1>1, <2>2, <2>4, DivIs
  <2> QED
    BY <2>5 DEF q
<1>10. x \div B \in PieceBlocks(l, p)
  <2> DEFINE first == s * p
             end == first + n - 1
  <2>1. first = UnitAt(s, p)
    BY DEF UnitAt
  <2>2. first \in Nat /\ end \in Nat /\ first <= x /\ x <= end
    BY <1>1, <1>3, <2>1 DEF p
  <2> HIDE DEF first, end
  <2>3. first \div B <= x \div B /\ x \div B <= end \div B
    BY <1>1, <2>2, DivMono
  <2>4. first \div B \in Nat /\ x \div B \in Nat /\ end \div B \in Nat
    BY <1>1, <2>2, DivMod
  <2> QED
    BY <1>5, <2>3, <2>4 DEF first, end
<1>11. r < n
  <2>1. UnitAt(s, p) = s * p
    BY DEF UnitAt
  <2> QED
    BY <1>1, <1>3, <1>6, <2>1 DEF p
<1> QED
  BY <1>1, <1>2, <1>4, <1>9, <1>10, <1>11 DEF p, r, s, B, n

(* The block b begins in the bytes, in the piece whose blocks it is among. *)
LEMMA BlockLies ==
    ASSUME NEW l, Laid(l), NEW b \in AllBlocks(l)
    PROVE  LET x == b * BlockSize(l)
           IN  /\ x \in Bytes(l) /\ x \div BlockSize(l) = b
               /\ \A p \in Pieces(l) : b \in PieceBlocks(l, p) <=> p = x \div l.pieceSize
<1> DEFINE T == TotalSize(l)
           s == l.pieceSize
           B == BlockSize(l)
           x == b * B
           m == BlockCountBytes(l, b)
<1>1. T \in Nat \ {0} /\ s \in Nat \ {0} /\ B \in Nat \ {0} /\ s % B = 0
  BY DEF Laid
<1>2. b \in 0 .. Units(T, B) - 1 /\ m = UnitSize(T, B, b)
  BY UnitsOfTorrent
<1> HIDE DEF m
<1>3. m \in 1 .. B /\ UnitAt(B, b) \in Nat /\ UnitAt(B, b) + m <= T
  <2> HIDE DEF T, B
  <2> QED
    BY <1>1, <1>2, UnitsTile
<1>4. x = UnitAt(B, b) /\ b \in Nat
  <2> HIDE DEF T, B
  <2>1. b \in Nat
    BY <1>2
  <2> QED
    BY <1>1, <2>1 DEF UnitAt
<1>5. x \in 0 .. T - 1 /\ x \in Nat
  BY <1>1, <1>3, <1>4
<1>6. x \in Bytes(l)
  BY <1>5 DEF Bytes
<1>7. x \div B = b
  <2>1. B * b = x
    BY <1>1, <1>4 DEF UnitAt
  <2> HIDE DEF x, B, T
  <2>2. B * b <= x /\ x < B * b + B
    BY <1>1, <1>5, <2>1
  <2> QED
    BY <1>1, <1>4, <1>5, <2>2, DivIs
<1>8. x \div s \in Pieces(l) /\ b \in PieceBlocks(l, x \div s)
  BY <1>6, <1>7, ByteLies
<1> HIDE DEF x
<1>9. ASSUME NEW p \in Pieces(l), b \in PieceBlocks(l, p) PROVE p = x \div s
  <2> DEFINE n == PieceCountBytes(l, p)
             first == s * p
             end == first + n - 1
  <2>1. p \in 0 .. Units(T, s) - 1 /\ n = UnitSize(T, s, p)
    BY UnitsOfTorrent
  <2>2. b >= first \div B /\ b <= end \div B
    BY <1>9 DEF PieceBlocks
  <2> HIDE DEF n, T, s, B
  <2>3. /\ n \in 1 .. s /\ UnitAt(s, p) \in Nat /\ UnitAt(s, p) + n <= T
        /\ \A y \in 0 .. T - 1 :
              y \div s = p <=> /\ UnitAt(s, p) <= y
                              /\ y < UnitAt(s, p) + n
    <3>1. T \in Nat \ {0} /\ s \in Nat \ {0}
      BY <1>1
    <3>2. /\ UnitSize(T, s, p) \in 1 .. s /\ UnitAt(s, p) \in Nat
          /\ UnitAt(s, p) + UnitSize(T, s, p) <= T
          /\ \A y \in 0 .. T - 1 :
                y \div s = p <=> /\ UnitAt(s, p) <= y
                                /\ y < UnitAt(s, p) + UnitSize(T, s, p)
      BY <2>1, <3>1, UnitsTile
    <3> QED
      BY <2>1, <3>2, Zenon
  <2>4. first = UnitAt(s, p) /\ first \in Nat /\ end \in Nat /\ end + 1 = first + n
    BY <1>1, <2>3 DEF UnitAt
  <2>5. first = B * (first \div B)
    <3>1. s = B * (s \div B) /\ s \div B \in Nat
      BY <1>1, DivMod
    <3> DEFINE k == s \div B
               q == k * p
    <3>2. p \in Nat /\ q \in Nat
      BY <2>1, <3>1
    <3>3. first = B * q
      BY <1>1, <3>1, <3>2
    <3> HIDE DEF q, first
    <3>4. first \in Nat /\ B * q <= first /\ first < B * q + B
      BY <1>1, <2>4, <3>3
    <3>5. first \div B = q
      BY <1>1, <3>2, <3>4, DivIs
    <3> QED
      BY <3>3, <3>5
  <2> HIDE DEF first, end
  <2>6. first <= x
    <3>1. first \div B \in Nat
      BY <1>1, <2>4, DivMod
    <3>2. B * (first \div B) <= B * b
      BY <1>1, <1>4, <2>2, <3>1
    <3> QED
      BY <1>4, <2>5, <3>2 DEF UnitAt
  <2>7. x <= end
    <3>1. end \div B \in Nat /\ B * (end \div B) <= end
      BY <1>1, <2>4, DivMod
    <3>2. B * b <= B * (end \div B)
      BY <1>1, <1>4, <2>2, <3>1
    <3>3. B * b = x /\ B * b \in Nat /\ B * (end \div B) \in Nat
      BY <1>1, <1>4, <3>1 DEF UnitAt
    <3> QED
      BY <2>4, <3>1, <3>2, <3>3
  <2> QED
    BY <1>5, <2>3, <2>4, <2>6, <2>7
<1> QED
  BY <1>6, <1>7, <1>8, <1>9 DEF x, s

(* The bytes of a piece and of a block, counted.                           *)
LEMMA PieceCounted ==
    ASSUME NEW l, Laid(l), NEW p \in Pieces(l)
    PROVE  IsFiniteSet(PieceBytes(l, p)) /\ Cardinality(PieceBytes(l, p)) = PieceCountBytes(l, p)
<1> DEFINE T == TotalSize(l)
           s == l.pieceSize
<1>1. /\ T \in Nat \ {0} /\ s \in Nat \ {0} /\ p \in 0 .. Units(T, s) - 1
      /\ PieceCountBytes(l, p) = UnitSize(T, s, p)
  BY UnitsOfTorrent
<1>2. PieceBytes(l, p) = {x \in 0 .. T - 1 : x \div s = p}
  BY DEF PieceBytes, Bytes
<1> HIDE DEF T, s
<1> QED
  BY <1>1, <1>2, UnitCount

BlockBytes(l, b) == {x \in Bytes(l) : x \div BlockSize(l) = b}

LEMMA BlockCounted ==
    ASSUME NEW l, Laid(l), NEW b \in AllBlocks(l)
    PROVE  IsFiniteSet(BlockBytes(l, b)) /\ Cardinality(BlockBytes(l, b)) = BlockCountBytes(l, b)
<1> DEFINE T == TotalSize(l)
           B == BlockSize(l)
<1>1. /\ T \in Nat \ {0} /\ B \in Nat \ {0} /\ b \in 0 .. Units(T, B) - 1
      /\ BlockCountBytes(l, b) = UnitSize(T, B, b)
  BY UnitsOfTorrent
<1>2. BlockBytes(l, b) = {x \in 0 .. T - 1 : x \div B = b}
  BY DEF BlockBytes, Bytes
<1> HIDE DEF T, B
<1> QED
  BY <1>1, <1>2, UnitCount

(* The pieces and the blocks tile the torrent, a byte's block is the same  *)
(* by its piece and by its position, and a block's location leads back to  *)
(* it (torrentInitFromInfo, _tr_block, tr_torrentGetBlockLocation).        *)
THEOREM BlocksTile == ContentsSpec => []BlocksTileTorrent
<1>1. ASSUME ChoicesAgree PROVE BlocksTileTorrent
  <2> DEFINE l == torrent
  <2>1. Laid(l)
    BY <1>1, ParsedLaid DEF ChoicesAgree
  <2> HIDE DEF l
  <2>2. ASSUME NEW x \in Bytes(l)
        PROVE  LET p == x \div l.pieceSize
               IN  /\ BlockAt(l, p, x % l.pieceSize) = x \div BlockSize(l)
                   /\ x \div BlockSize(l) \in PieceBlocks(l, p)
                   /\ x % l.pieceSize < PieceCountBytes(l, p)
    BY <2>1, ByteLies
  <2>3. ASSUME NEW p \in Pieces(l) PROVE PieceCountBytes(l, p) = Cardinality(PieceBytes(l, p))
    BY <2>1, PieceCounted
  <2>4. ASSUME NEW b \in AllBlocks(l)
        PROVE  LET at == BlockLocation(l, b)
               IN  /\ BlockAt(l, at.piece, at.offset) = b
                   /\ at.length = Cardinality(HeldBytes(l, {b}))
                   /\ \A p \in Pieces(l) : b \in PieceBlocks(l, p) <=> p = at.piece
    <3> DEFINE x == b * BlockSize(l)
               s == l.pieceSize
               at == BlockLocation(l, b)
    <3>1. /\ x \in Bytes(l) /\ x \div BlockSize(l) = b
          /\ \A p \in Pieces(l) : b \in PieceBlocks(l, p) <=> p = x \div s
      BY <2>1, BlockLies
    <3>2. at.piece = x \div s /\ at.offset = x - (x \div s) * s /\ at.length = BlockCountBytes(l, b)
      BY DEF BlockLocation
    <3> HIDE DEF x, at
    <3>3. BlockAt(l, x \div s, x % s) = b /\ x \in Nat
      BY <2>1, <3>1, ByteLies
    <3>4. x - (x \div s) * s = x % s
      <4>1. s \in Nat \ {0}
        BY <2>1 DEF Laid
      <4> HIDE DEF s
      <4>2. x \div s \in Nat /\ x % s \in Nat /\ x = s * (x \div s) + (x % s)
        BY <3>3, <4>1, DivMod
      <4>3. (x \div s) * s = s * (x \div s)
        BY <4>1, <4>2
      <4> QED
        BY <3>3, <4>1, <4>2, <4>3
    <3>5. HeldBytes(l, {b}) = BlockBytes(l, b)
      BY DEF HeldBytes, BlockBytes
    <3>6. at.length = Cardinality(HeldBytes(l, {b}))
      BY <2>1, <3>2, <3>5, BlockCounted
    <3> QED
      BY <3>1, <3>2, <3>3, <3>4, <3>6 DEF at
  <2> QED
    BY <2>2, <2>3, <2>4 DEF BlocksTileTorrent, l
<1> QED
  BY <1>1, ChoicesHold, PTL
-----------------------------------------------------------------------------
(* How many bytes there are of some blocks.                                *)

LEMMA BytesFinite ==
    ASSUME NEW l, Laid(l)
    PROVE  /\ IsFiniteSet(Bytes(l)) /\ Cardinality(Bytes(l)) = TotalSize(l)
           /\ \A X \in SUBSET Bytes(l) : IsFiniteSet(X)
           /\ IsFiniteSet(AllBlocks(l)) /\ IsFiniteSet(Pieces(l))
<1> DEFINE T == TotalSize(l)
           top == T - 1
<1>1. T \in Nat \ {0} /\ top \in Int /\ 0 \in Int /\ ~(0 > top) /\ top - 0 + 1 = T
  BY DEF Laid
<1>2. Bytes(l) = 0 .. top
  BY DEF Bytes
<1> HIDE DEF top, T
<1>3. IsFiniteSet(0 .. top) /\ Cardinality(0 .. top) = IF 0 > top THEN 0 ELSE top - 0 + 1
  BY <1>1, FS_Interval
<1>4. IsFiniteSet(Bytes(l)) /\ Cardinality(Bytes(l)) = T
  BY <1>1, <1>2, <1>3
<1>5. \A X \in SUBSET Bytes(l) : IsFiniteSet(X)
  BY <1>4, FS_Subset
<1>6. IsFiniteSet(AllBlocks(l)) /\ IsFiniteSet(Pieces(l))
  <2> DEFINE m == BlockCount(l) - 1
             n == PieceCount(l) - 1
  <2>1. T \in Nat \ {0} /\ l.pieceSize \in Nat \ {0} /\ BlockSize(l) \in Nat \ {0}
    BY DEF Laid, T
  <2>2. 0 \in 0 .. T - 1
    BY <2>1
  <2>3. Units(T, BlockSize(l)) \in Nat \ {0} /\ Units(T, l.pieceSize) \in Nat \ {0}
    BY <2>1, <2>2, UnitsCover
  <2>4. m \in Int /\ n \in Int /\ 0 \in Int
    BY <2>3 DEF BlockCount, PieceCount, T
  <2>5. AllBlocks(l) = 0 .. m /\ Pieces(l) = 0 .. n
    BY DEF AllBlocks, Pieces
  <2> HIDE DEF m, n
  <2>6. IsFiniteSet(0 .. m) /\ IsFiniteSet(0 .. n)
    BY <2>4, FS_Interval
  <2> QED
    BY <2>5, <2>6
<1> QED
  BY <1>4, <1>5, <1>6 DEF T

(* A block more is its bytes more.                                         *)
LEMMA HeldMore ==
    ASSUME NEW l, Laid(l), NEW have \in SUBSET AllBlocks(l), NEW b \in AllBlocks(l), b \notin have
    PROVE  Cardinality(HeldBytes(l, have \cup {b}))
             = Cardinality(HeldBytes(l, have)) + BlockCountBytes(l, b)
<1> DEFINE J == HeldBytes(l, have)
           K == BlockBytes(l, b)
<1>1. HeldBytes(l, have \cup {b}) = J \cup K /\ J \cap K = {}
  BY DEF HeldBytes, BlockBytes
<1>2. J \in SUBSET Bytes(l)
  BY DEF HeldBytes
<1> HIDE DEF J, K
<1>3. IsFiniteSet(J) /\ IsFiniteSet(K) /\ Cardinality(K) = BlockCountBytes(l, b)
  BY <1>2, BytesFinite, BlockCounted DEF K
<1>4. Cardinality(J \cup K) = Cardinality(J) + Cardinality(K) - Cardinality(J \cap K)
  BY <1>3, FS_Union
<1>5. Cardinality(J \cap K) = 0 /\ Cardinality(J) \in Nat /\ Cardinality(K) \in Nat
  BY <1>1, <1>3, FS_EmptySet, FS_CardinalityType
<1>6. Cardinality(J \cup K) = Cardinality(J) + BlockCountBytes(l, b)
  BY <1>3, <1>4, <1>5
<1>7. Cardinality(HeldBytes(l, have \cup {b})) = Cardinality(J \cup K)
  BY <1>1
<1> QED
  BY <1>6, <1>7 DEF J

(* Whole blocks, corrected for the last: tr_cpBlockInit's count is right.  *)
LEMMA HeldCounted ==
    ASSUME NEW l, Laid(l), NEW have \in SUBSET AllBlocks(l)
    PROVE  /\ IsFiniteSet(HeldBytes(l, have)) /\ IsFiniteSet(have)
           /\ Cardinality(HeldBytes(l, have)) = BlockInit(l, have)
<1> DEFINE B == BlockSize(l)
           last == BlockCount(l) - 1
           F == {s \in SUBSET AllBlocks(l) : Cardinality(HeldBytes(l, s)) # BlockInit(l, s)}
<1>1. B \in Nat \ {0} /\ LastBlockSize(l) \in Nat
  <2>1. TotalSize(l) \in Nat \ {0} /\ B \in Nat \ {0}
    BY DEF Laid
  <2>2. LastUnit(TotalSize(l), B) \in 1 .. B
    BY <2>1, LastUnitEnds
  <2> QED
    BY <2>1, <2>2 DEF LastBlockSize
<1>2. CASE F = {}
  <2>1. Cardinality(HeldBytes(l, have)) = BlockInit(l, have)
    BY <1>2
  <2>2. HeldBytes(l, have) \in SUBSET Bytes(l)
    BY DEF HeldBytes
  <2>3. IsFiniteSet(have)
    BY BytesFinite, FS_Subset
  <2> QED
    BY <2>1, <2>2, <2>3, BytesFinite
<1>3. CASE F # {}
  <2>1. PICK s \in F : \A u \in F : u \subseteq s => u = s
    <3>1. F \in SUBSET (SUBSET AllBlocks(l)) /\ IsFiniteSet(AllBlocks(l))
      BY BytesFinite
    <3> HIDE DEF F
    <3> QED
      BY <1>3, <3>1, LeastSubset
  <2>2. s \in SUBSET AllBlocks(l) /\ IsFiniteSet(s)
    BY BytesFinite, FS_Subset
  <2>3. CASE s = {}
    <3>1. HeldBytes(l, {}) = {}
      BY DEF HeldBytes
    <3>2. ShortLast(l, {}) = 0
      BY DEF ShortLast
    <3>3. BlockInit(l, {}) = 0
      BY <1>1, <3>2, FS_EmptySet DEF BlockInit
    <3>4. Cardinality(HeldBytes(l, {})) = BlockInit(l, {})
      BY <3>1, <3>3, FS_EmptySet
    <3> QED
      BY <2>1, <2>3, <3>4
  <2>4. CASE s # {}
    <3>1. PICK b \in s : TRUE
      BY <2>4
    <3> DEFINE t == s \ {b}
    <3>2. t \in SUBSET AllBlocks(l) /\ t \subseteq s /\ t # s /\ b \notin t /\ s = t \cup {b}
          /\ b \in AllBlocks(l)
      BY <2>2, <3>1
    <3>3. Cardinality(HeldBytes(l, t)) = BlockInit(l, t)
      BY <2>1, <3>2
    <3> HIDE DEF F, t
    <3>4. IsFiniteSet(t) /\ Cardinality(t) \in Nat /\ Cardinality(s) = Cardinality(t) + 1
      <4>1. IsFiniteSet(t)
        BY <2>2, <3>2, FS_Subset
      <4>2. Cardinality(t \cup {b}) = Cardinality(t) + 1
        BY <3>2, <4>1, FS_AddElement
      <4> QED
        BY <3>2, <4>1, <4>2, FS_CardinalityType
    <3>5. Cardinality(HeldBytes(l, s)) = BlockInit(l, t) + BlockCountBytes(l, b)
      BY <3>2, <3>3, HeldMore
    <3>6. ShortLast(l, s) + BlockCountBytes(l, b) = ShortLast(l, t) + B
      <4>1. b \in Int /\ BlockCount(l) \in Int
        <5>1. 0 \in 0 .. TotalSize(l) - 1 /\ TotalSize(l) \in Nat \ {0}
          BY DEF Laid
        <5>2. Units(TotalSize(l), B) \in Nat \ {0}
          BY <1>1, <5>1, UnitsCover
        <5>3. BlockCount(l) \in Nat
          BY <5>2 DEF BlockCount
        <5> QED
          BY <3>2, <5>3 DEF AllBlocks
      <4>2. b + 1 = BlockCount(l) <=> b = last
        BY <4>1
      <4>3. BlockCountBytes(l, b) = IF b = last THEN LastBlockSize(l) ELSE B
        BY <4>2 DEF BlockCountBytes
      <4>4. ShortLast(l, s) = IF last \in s THEN B - LastBlockSize(l) ELSE 0
        BY DEF ShortLast
      <4>5. ShortLast(l, t) = IF last \in t THEN B - LastBlockSize(l) ELSE 0
        BY DEF ShortLast
      <4>6. last \in s <=> last \in t \/ b = last
        BY <3>2
      <4>7. ~(last \in t /\ b = last)
        BY <3>2
      <4> HIDE DEF last, B
      <4> QED
        BY <1>1, <4>3, <4>4, <4>5, <4>6, <4>7
    <3>7. BlockInit(l, s) = Cardinality(s) * B - ShortLast(l, s)
          /\ BlockInit(l, t) = Cardinality(t) * B - ShortLast(l, t)
      BY DEF BlockInit
    <3>8. Cardinality(s) * B = Cardinality(t) * B + B
      <4> DEFINE c == Cardinality(t)
      <4>1. c \in Nat /\ Cardinality(s) = c + 1
        BY <3>4
      <4> HIDE DEF c, B
      <4>2. (c + 1) * B = c * B + B
        BY <1>1, <4>1
      <4> QED
        BY <4>1, <4>2 DEF c
    <3>9. ShortLast(l, s) \in Int /\ ShortLast(l, t) \in Int /\ BlockCountBytes(l, b) \in Int
          /\ Cardinality(t) * B \in Int
      <4>1. Cardinality(t) * B \in Int
        BY <1>1, <3>4
      <4> QED
        BY <1>1, <4>1 DEF ShortLast, BlockCountBytes
    <3> HIDE DEF B
    <3>10. Cardinality(HeldBytes(l, s)) = BlockInit(l, s)
      BY <1>1, <3>5, <3>6, <3>7, <3>8, <3>9
    <3> QED
      BY <2>1, <3>10 DEF F
  <2> QED
    BY <2>3, <2>4
<1> QED
  BY <1>2, <1>3

(* The blocks of a piece hold the bytes of the piece.                      *)
LEMMA PieceOfBlocks ==
    ASSUME NEW l, Laid(l), NEW p \in Pieces(l)
    PROVE  /\ PieceBlocks(l, p) \subseteq AllBlocks(l)
           /\ \A x \in Bytes(l) : x \div BlockSize(l) \in PieceBlocks(l, p) <=> x \div l.pieceSize = p
<1> DEFINE T == TotalSize(l)
           s == l.pieceSize
           B == BlockSize(l)
           n == PieceCountBytes(l, p)
           first == s * p
           end == first + n - 1
<1>1. T \in Nat \ {0} /\ s \in Nat \ {0} /\ B \in Nat \ {0}
  BY DEF Laid
<1>2. n \in 1 .. s /\ UnitAt(s, p) \in Nat /\ UnitAt(s, p) + n <= T
  <2>1. n = UnitSize(T, s, p) /\ p \in 0 .. Units(T, s) - 1
    BY UnitsOfTorrent
  <2> HIDE DEF T, s, n
  <2> QED
    BY <1>1, <2>1, UnitsTile
<1>3. first \in Nat /\ end \in Nat /\ end <= T - 1
  <2>1. first = UnitAt(s, p)
    BY DEF UnitAt
  <2> HIDE DEF T, s, n, first
  <2> QED
    BY <1>1, <1>2, <2>1
<1>4. PieceBlocks(l, p) = first \div B .. end \div B
  BY DEF PieceBlocks
<1>5. AllBlocks(l) = 0 .. Units(T, B) - 1
  BY UnitsOfTorrent
<1> HIDE DEF first, end, n, T, B
<1>6. first \div B \in Nat /\ end \div B \in Nat
  BY <1>1, <1>3, DivMod
<1>7. end \div B \in 0 .. Units(T, B) - 1 /\ Units(T, B) \in Nat \ {0}
  <2>1. end \in 0 .. T - 1
    BY <1>1, <1>3
  <2> QED
    BY <1>1, <2>1, UnitsCover
<1>8. PieceBlocks(l, p) \subseteq AllBlocks(l)
  BY <1>4, <1>5, <1>6, <1>7
<1>9. ASSUME NEW x \in Bytes(l)
      PROVE  x \div BlockSize(l) \in PieceBlocks(l, p) <=> x \div l.pieceSize = p
  <2> DEFINE b == x \div BlockSize(l)
             q == x \div l.pieceSize
             y == b * BlockSize(l)
  <2>1. q \in Pieces(l) /\ b \in AllBlocks(l) /\ b \in PieceBlocks(l, q)
    BY ByteLies
  <2> HIDE DEF b, q
  <2>2. \A r \in Pieces(l) : b \in PieceBlocks(l, r) <=> r = y \div l.pieceSize
    BY <2>1, BlockLies
  <2> HIDE DEF y
  <2>3. q = y \div l.pieceSize
    BY <2>1, <2>2
  <2>4. b \in PieceBlocks(l, p) <=> q = p
    BY <2>2, <2>3
  <2> QED
    BY <2>4 DEF b, q
<1> QED
  BY <1>8, <1>9

LEMMA PieceHeldBytes ==
    ASSUME NEW l, Laid(l), NEW have \in SUBSET AllBlocks(l), NEW p \in Pieces(l)
    PROVE  /\ HeldBytes(l, PieceBlocks(l, p) \cap have) = PieceBytes(l, p) \cap HeldBytes(l, have)
           /\ HasPiece(l, have, p) <=> PieceBytes(l, p) \subseteq HeldBytes(l, have)
<1>1. /\ PieceBlocks(l, p) \subseteq AllBlocks(l)
      /\ \A x \in Bytes(l) : x \div BlockSize(l) \in PieceBlocks(l, p) <=> x \div l.pieceSize = p
  BY PieceOfBlocks
<1>2. HeldBytes(l, PieceBlocks(l, p) \cap have) = PieceBytes(l, p) \cap HeldBytes(l, have)
  BY <1>1 DEF HeldBytes, PieceBytes
<1>3. ASSUME HasPiece(l, have, p) PROVE PieceBytes(l, p) \subseteq HeldBytes(l, have)
  BY <1>1, <1>3 DEF HasPiece, HeldBytes, PieceBytes
<1>4. ASSUME PieceBytes(l, p) \subseteq HeldBytes(l, have), NEW b \in PieceBlocks(l, p)
      PROVE  b \in have
  <2> DEFINE x == b * BlockSize(l)
  <2>1. b \in AllBlocks(l)
    BY <1>1
  <2>2. x \in Bytes(l) /\ x \div BlockSize(l) = b
    BY <2>1, BlockLies
  <2> HIDE DEF x
  <2>3. x \in PieceBytes(l, p)
    BY <1>1, <2>2 DEF PieceBytes
  <2> QED
    BY <1>4, <2>2, <2>3 DEF HeldBytes
<1> QED
  BY <1>2, <1>3, <1>4 DEF HasPiece

(* tr_cpMissingBytesInPiece                                                *)
LEMMA MissingCounted ==
    ASSUME NEW l, Laid(l), NEW have \in SUBSET AllBlocks(l), NEW p \in Pieces(l)
    PROVE  MissingBytesInPiece(l, have, p) = Cardinality(PieceBytes(l, p) \ HeldBytes(l, have))
<1> DEFINE P == PieceBytes(l, p)
           H == HeldBytes(l, have)
           B == BlockSize(l)
           blocks == PieceBlocks(l, p)
           first == l.pieceSize * p
           last == (first + PieceCountBytes(l, p) - 1) \div B
           lastBytes == IF last \in have THEN BlockCountBytes(l, last) ELSE 0
           held == Held(have, blocks \ {last}) * B + lastBytes
           got == have \cap (blocks \ {last})
<1>1. CASE have = AllBlocks(l)
  <2>1. P \ H = {}
    <3>1. \A x \in Bytes(l) : x \div B \in AllBlocks(l)
      BY ByteLies
    <3> QED
      BY <1>1, <3>1 DEF PieceBytes, HeldBytes
  <2>2. MissingBytesInPiece(l, have, p) = 0
    BY <1>1 DEF MissingBytesInPiece
  <2> QED
    BY <2>1, <2>2, FS_EmptySet
<1>2. CASE have # AllBlocks(l)
  <2>1. MissingBytesInPiece(l, have, p) = PieceCountBytes(l, p) - held
    BY <1>2 DEF MissingBytesInPiece
  <2>2. blocks = first \div B .. last
    BY DEF PieceBlocks
  <2>3. blocks \subseteq AllBlocks(l)
    BY PieceOfBlocks
  <2>4. AllBlocks(l) = 0 .. BlockCount(l) - 1
    BY DEF AllBlocks
  <2>5. BlockCount(l) \in Nat /\ last \in blocks
    <3>1. \E x \in Bytes(l) : x \div B \in blocks
      <4>1. p \in 0 .. Units(TotalSize(l), l.pieceSize) - 1
        BY UnitsOfTorrent
      <4>2. IsFiniteSet(P) /\ Cardinality(P) = PieceCountBytes(l, p) /\ PieceCountBytes(l, p) # 0
        <5>1. TotalSize(l) \in Nat \ {0} /\ l.pieceSize \in Nat \ {0}
          BY DEF Laid
        <5>2. UnitSize(TotalSize(l), l.pieceSize, p) \in 1 .. l.pieceSize
          BY <4>1, <5>1, UnitsTile
        <5>3. PieceCountBytes(l, p) # 0
          BY <5>1, <5>2, UnitsOfTorrent
        <5> QED
          BY <5>3, PieceCounted
      <4>3. P # {}
        BY <4>2, FS_EmptySet
      <4>4. PICK x \in P : TRUE
        BY <4>3
      <4> QED
        BY <4>4, PieceOfBlocks DEF PieceBytes
    <3>2. \A x \in Bytes(l) : x \div B \in AllBlocks(l) /\ x \in Nat
      BY ByteLies
    <3>3. blocks # {}
      BY <3>1
    <3>4. BlockCount(l) \in Nat
      <4>1. TotalSize(l) \in Nat \ {0} /\ B \in Nat \ {0} /\ 0 \in 0 .. TotalSize(l) - 1
        BY DEF Laid
      <4>2. Units(TotalSize(l), B) \in Nat \ {0}
        BY <4>1, UnitsCover
      <4> QED
        BY <4>2 DEF BlockCount
    <3>5. first \div B \in Int /\ last \in Int
      <4>1. l.pieceSize \in Nat /\ B \in Nat \ {0} /\ p \in Int
        BY DEF Laid, Pieces
      <4>2. PieceCountBytes(l, p) \in Int
        <5>1. TotalSize(l) \in Nat \ {0} /\ l.pieceSize \in Nat \ {0}
              /\ p \in 0 .. Units(TotalSize(l), l.pieceSize) - 1
          BY UnitsOfTorrent
        <5>2. UnitSize(TotalSize(l), l.pieceSize, p) \in 1 .. l.pieceSize
          BY <5>1, UnitsTile
        <5>3. UnitSize(TotalSize(l), l.pieceSize, p) \in Int
          BY <5>2
        <5> QED
          BY <5>3, UnitsOfTorrent
      <4> DEFINE a == first
                 c == first + PieceCountBytes(l, p) - 1
      <4>3. a \in Int /\ c \in Int
        BY <4>1, <4>2
      <4> HIDE DEF a, c, B
      <4>4. a \div B \in Int /\ c \div B \in Int
        BY <4>1, <4>3
      <4> QED
        BY <4>4 DEF a, c
    <3> HIDE DEF first, last, blocks
    <3> QED
      BY <2>2, <3>3, <3>4, <3>5
  <2> HIDE DEF first, last, blocks
  <2>6. got \in SUBSET AllBlocks(l) /\ last \in AllBlocks(l)
    BY <2>3, <2>5
  <2>7. BlockCount(l) - 1 \notin got
    <3> DEFINE m == BlockCount(l) - 1
    <3>1. \A b \in got : b \in Int /\ b < m
      <4>1. \A b \in got : b \in Int /\ b <= last /\ b # last
        BY <2>2
      <4>2. last <= m /\ last \in Int /\ m \in Int
        BY <2>4, <2>5, <2>6
      <4> HIDE DEF m, got
      <4> QED
        BY <4>1, <4>2
    <3> HIDE DEF m, got
    <3>2. m \notin got
      BY <3>1
    <3> QED
      BY <3>2 DEF m
  <2>8. Cardinality(HeldBytes(l, got)) = Held(have, blocks \ {last}) * B
    <3>1. Cardinality(HeldBytes(l, got)) = BlockInit(l, got)
      BY <2>6, HeldCounted
    <3>2. ShortLast(l, got) = 0
      BY <2>7 DEF ShortLast
    <3>3. Cardinality(got) * B \in Int
      <4>1. Cardinality(got) \in Nat /\ B \in Nat
        BY <2>6, HeldCounted, FS_CardinalityType DEF Laid
      <4> QED
        BY <4>1
    <3>4. Held(have, blocks \ {last}) = Cardinality(got)
      BY DEF Held
    <3> HIDE DEF got, B
    <3> QED
      BY <3>1, <3>2, <3>3, <3>4 DEF BlockInit, B
  <2>9. Cardinality(HeldBytes(l, blocks \cap have)) = held
    <3>1. CASE last \in have
      <4>1. blocks \cap have = got \cup {last} /\ last \notin got
        BY <2>5, <3>1
      <4>2. Cardinality(HeldBytes(l, got \cup {last}))
              = Cardinality(HeldBytes(l, got)) + BlockCountBytes(l, last)
        BY <2>6, <4>1, HeldMore
      <4> QED
        BY <2>8, <3>1, <4>1, <4>2
    <3>2. CASE last \notin have
      <4>1. blocks \cap have = got
        BY <3>2
      <4>2. Held(have, blocks \ {last}) * B \in Int
        <5>1. Cardinality(HeldBytes(l, got)) \in Nat
          BY <2>6, HeldCounted, FS_CardinalityType
        <5> QED
          BY <2>8, <5>1
      <4>3. held = Held(have, blocks \ {last}) * B
        BY <3>2, <4>2
      <4> QED
        BY <2>8, <4>1, <4>3
    <3> QED
      BY <3>1, <3>2
  <2>10. HeldBytes(l, blocks \cap have) = P \cap H
    BY PieceHeldBytes DEF blocks
  <2> HIDE DEF held, H
  <2>11. IsFiniteSet(P) /\ Cardinality(P) = PieceCountBytes(l, p)
    BY PieceCounted
  <2>12. Cardinality(P \ H) = Cardinality(P) - Cardinality(P \cap H)
    <3> HIDE DEF P
    <3>1. /\ Cardinality(P \cap H) \in Nat /\ Cardinality(P \ H) \in Nat
          /\ Cardinality(P) = Cardinality(P \cap H) + Cardinality(P \ H)
      BY <2>11, CountLeft
    <3> QED
      BY <3>1
  <2> QED
    BY <2>1, <2>9, <2>10, <2>11, <2>12 DEF H
<1> QED
  BY <1>1, <1>2

(* The bytes with quotient q.                                              *)
LEMMA DivIff ==
    ASSUME NEW u \in Nat \ {0}, NEW q \in Nat, NEW x \in Nat
    PROVE  x \div u = q <=> u * q <= x /\ x < u * q + u
<1>1. ASSUME x \div u = q PROVE u * q <= x /\ x < u * q + u
  BY <1>1, DivMod
<1>2. ASSUME u * q <= x, x < u * q + u PROVE x \div u = q
  BY <1>2, DivIs
<1> QED
  BY <1>1, <1>2

LEMMA IntervalCounted ==
    ASSUME NEW a \in Int, NEW b \in Int, a <= b + 1
    PROVE  IsFiniteSet(a .. b) /\ Cardinality(a .. b) = b + 1 - a
<1>1. IsFiniteSet(a .. b) /\ Cardinality(a .. b) = IF a > b THEN 0 ELSE b - a + 1
  BY FS_Interval
<1> QED
  BY <1>1

(* Where a file that is not empty lies, in bytes and in blocks.            *)
FileLies(l, f, first, last) ==
    LET at == Offset(l, f)
        n == l.lengths[f]
        size == BlockSize(l)
    IN  /\ at \in Nat /\ n \in Nat \ {0} /\ size \in Nat \ {0} /\ at + n <= TotalSize(l)
        /\ first \in Nat /\ last \in Nat /\ first <= last
        /\ first = at \div size /\ last = (at + n - 1) \div size
        /\ size * first <= at /\ at < size * first + size
        /\ size * last <= at + n - 1 /\ at + n - 1 < size * last + size
        /\ size * first \in Nat /\ size * last \in Nat
        /\ first < last => size * first + size <= size * last
        /\ FileBlocks(l, f) = first .. last
        /\ first .. last \subseteq AllBlocks(l)
        /\ last <= BlockCount(l) - 1 /\ BlockCount(l) \in Nat
        /\ FileBytes(l, f) = at .. at + n - 1
        /\ FileBytes(l, f) \subseteq Bytes(l)

LEMMA FilesLieInBlocks ==
    ASSUME NEW l, Laid(l), NEW f \in Files(l), l.lengths[f] # 0
    PROVE  \E first, last : FileLies(l, f, first, last)
<1> DEFINE at == Offset(l, f)
           n == l.lengths[f]
           B == BlockSize(l)
           T == TotalSize(l)
           first == at \div B
           last == (at + n - 1) \div B
           top == at + n - 1
<1>1. T \in Nat \ {0} /\ B \in Nat \ {0} /\ l.lengths \in Seq(Nat) /\ f \in 1 .. Len(l.lengths)
  BY DEF Laid, Files
<1>2. at \in Nat /\ n \in Nat \ {0} /\ at + n <= T
  <2>1. at \in Nat /\ n \in Nat
    BY <1>1, FilesLie
  <2>2. End(l, f) <= T
    BY <1>1, FilesInOrder
  <2> QED
    BY <2>1, <2>2 DEF End
<1>3. FileBytes(l, f) = at .. top /\ Bytes(l) = 0 .. T - 1
  BY DEF FileBytes, Bytes
<1>4. FileBlocks(l, f) = first .. last
  BY <1>2 DEF FileBlocks
<1>5. AllBlocks(l) = 0 .. BlockCount(l) - 1 /\ BlockCount(l) = Units(T, B)
  BY DEF AllBlocks, BlockCount
<1> HIDE DEF at, n, B, T
<1>6. at \in Nat /\ top \in Nat /\ at <= top /\ top \in 0 .. T - 1 /\ at \in 0 .. T - 1
  BY <1>1, <1>2
<1>7. last = top \div B
  OBVIOUS
<1> HIDE DEF top, last
<1>8. /\ first \in Nat /\ B * first <= at /\ at < B * first + B
      /\ last \in Nat /\ B * last <= top /\ top < B * last + B
  BY <1>1, <1>6, <1>7, DivMod
<1>9. first <= last
  BY <1>1, <1>6, <1>7, DivMono
<1>10. last \in 0 .. Units(T, B) - 1 /\ Units(T, B) \in Nat \ {0}
  BY <1>1, <1>6, <1>7, UnitsCover
<1>11. first = at \div B
  OBVIOUS
<1> HIDE DEF first
<1>12. first < last => B * first + B <= B * last
  <2>1. ASSUME first < last PROVE B * (first + 1) <= B * last
    <3>1. first + 1 <= last
      BY <1>8, <2>1
    <3> QED
      BY <1>1, <1>8, <3>1
  <2>2. B * (first + 1) = B * first + B
    BY <1>1, <1>8
  <2> QED
    BY <2>1, <2>2
<1>13. first .. last \subseteq AllBlocks(l)
  BY <1>5, <1>8, <1>10
<1>14. FileBytes(l, f) \subseteq Bytes(l)
  <2>1. \A x \in at .. top : x \in 0 .. T - 1
    BY <1>1, <1>6
  <2> QED
    BY <1>3, <2>1
<1>15. B * first \in Nat /\ B * last \in Nat
  BY <1>1, <1>8
<1>16. last <= BlockCount(l) - 1 /\ BlockCount(l) \in Nat
  BY <1>5, <1>10
<1>17. FileLies(l, f, first, last)
  BY <1>1, <1>2, <1>3, <1>4, <1>7, <1>8, <1>9, <1>11, <1>12, <1>13, <1>14, <1>15, <1>16
     DEF FileLies, at, n, B, T, top
<1> QED
  BY <1>17

(* tr_torrentFileIsComplete: isFileComplete counts the file's blocks.      *)
LEMMA FileIsCompleteIff ==
    ASSUME NEW l, Laid(l), NEW have \in SUBSET AllBlocks(l), NEW f \in Files(l)
    PROVE  FileIsComplete(l, have, f) <=> FileBytes(l, f) \subseteq HeldBytes(l, have)
<1>1. CASE l.lengths[f] = 0
  <2>1. FileBytes(l, f) = {}
    <3>1. l.lengths \in Seq(Nat) /\ f \in 1 .. Len(l.lengths)
      BY DEF Laid, Files
    <3>2. Offset(l, f) \in Nat
      BY <3>1, FilesLie
    <3> QED
      BY <1>1, <3>2 DEF FileBytes
  <2> QED
    BY <1>1, <2>1 DEF FileIsComplete
<1>2. CASE l.lengths[f] # 0
  <2>1. PICK first, last : FileLies(l, f, first, last)
    BY <1>2, FilesLieInBlocks
  <2> DEFINE B == BlockSize(l)
             at == Offset(l, f)
             top == at + l.lengths[f] - 1
             blocks == FileBlocks(l, f)
             both == have \cap blocks
  <2>2. /\ at \in Nat /\ top \in Nat /\ at <= top /\ B \in Nat \ {0}
        /\ first \in Nat /\ last \in Nat /\ blocks = first .. last
        /\ first = at \div B /\ last = top \div B
        /\ FileBytes(l, f) = at .. top /\ FileBytes(l, f) \subseteq Bytes(l)
    <3>1. /\ at \in Nat /\ l.lengths[f] \in Nat \ {0} /\ B \in Nat \ {0}
          /\ first \in Nat /\ last \in Nat /\ blocks = first .. last
          /\ first = at \div B /\ last = top \div B
          /\ FileBytes(l, f) = at .. top /\ FileBytes(l, f) \subseteq Bytes(l)
      BY <2>1 DEF FileLies
    <3>2. top \in Nat /\ at <= top
      BY <3>1
    <3> QED
      BY <3>1, <3>2
  <2> HIDE DEF at, top, B, blocks
  <2>3. IsFiniteSet(blocks) /\ IsFiniteSet(both)
    <3>1. first \in Int /\ last \in Int
      BY <2>2
    <3>2. IsFiniteSet(blocks)
      BY <2>2, <3>1, FS_Interval
    <3> QED
      BY <3>2, FS_Subset
  <2>4. FileIsComplete(l, have, f) <=> Cardinality(both) = Cardinality(blocks)
    BY <1>2 DEF FileIsComplete, Held, blocks
  <2>5. Cardinality(both) = Cardinality(blocks) <=> blocks \subseteq have
    <3>1. both \in SUBSET blocks
      OBVIOUS
    <3>2. Cardinality(both) = Cardinality(blocks) => both = blocks
      BY <2>3, <3>1, FS_Subset
    <3> QED
      BY <3>2
  <2>6. ASSUME blocks \subseteq have, NEW x \in FileBytes(l, f) PROVE x \in HeldBytes(l, have)
    <3>1. x \in Nat /\ at <= x /\ x <= top /\ x \in Bytes(l)
      BY <2>2
    <3>2. first <= x \div B /\ x \div B <= last /\ x \div B \in Nat
      BY <2>2, <3>1, DivMono, DivMod
    <3>3. x \div B \in have
      BY <2>2, <2>6, <3>2
    <3> QED
      BY <3>1, <3>3 DEF HeldBytes, B
  <2>7. ASSUME FileBytes(l, f) \subseteq HeldBytes(l, have), NEW b \in blocks PROVE b \in have
    <3> DEFINE y == B * b
               x == IF y <= at THEN at ELSE y
    <3>1. b \in Nat /\ first <= b /\ b <= last
      BY <2>2
    <3>2. y \in Nat /\ y <= top
      <4>1. B * last <= top /\ B * last \in Nat
        BY <2>1 DEF FileLies, B, at, top
      <4>2. B * b <= B * last /\ B * b \in Nat
        BY <2>2, <3>1
      <4> QED
        BY <2>2, <4>1, <4>2
    <3>3. at < y + B
      <4>1. at < B * first + B /\ B * first \in Nat
        BY <2>1 DEF FileLies, B, at
      <4>2. B * first <= B * b
        BY <2>2, <3>1
      <4> QED
        BY <2>2, <3>2, <4>1, <4>2
    <3> HIDE DEF y
    <3>4. x \in FileBytes(l, f) /\ x \in Nat
      BY <2>2, <3>2
    <3>5. y <= x /\ x < y + B
      BY <2>2, <3>2, <3>3
    <3> HIDE DEF x
    <3>6. x \div B = b
      BY <2>2, <3>1, <3>4, <3>5, DivIs DEF y
    <3> QED
      BY <2>7, <3>4, <3>6 DEF HeldBytes, B
  <2> QED
    BY <2>4, <2>5, <2>6, <2>7
<1> QED
  BY <1>1, <1>2

(* fileBytesCompleted: the first and the last block are cut to the file.   *)
LEMMA FileBytesCounted ==
    ASSUME NEW l, Laid(l), NEW have \in SUBSET AllBlocks(l), NEW f \in Files(l)
    PROVE  FileBytesCompleted(l, have, f) = Cardinality(FileBytes(l, f) \cap HeldBytes(l, have))
<1> DEFINE S == FileBytes(l, f)
           H == HeldBytes(l, have)
           n == l.lengths[f]
           B == BlockSize(l)
           at == Offset(l, f)
           top == at + n - 1
<1>1. CASE n = 0
  <2>1. S = {}
    <3>1. l.lengths \in Seq(Nat) /\ f \in 1 .. Len(l.lengths)
      BY DEF Laid, Files
    <3>2. Offset(l, f) \in Nat
      BY <3>1, FilesLie
    <3> QED
      BY <1>1, <3>2 DEF FileBytes
  <2>2. FileBytesCompleted(l, have, f) = 0
    BY <1>1 DEF FileBytesCompleted
  <2> HIDE DEF S
  <2>3. S \cap H = {}
    BY <2>1
  <2> QED
    BY <2>2, <2>3, FS_EmptySet DEF S
<1>2. CASE n # 0
  <2>1. PICK first, last : FileLies(l, f, first, last)
    BY <1>2, FilesLieInBlocks
  <2> DEFINE of(b, m) == IF b \in have THEN m ELSE 0
  <2>2. /\ at \in Nat /\ n \in Nat \ {0} /\ B \in Nat \ {0}
        /\ first \in Nat /\ last \in Nat /\ first <= last
        /\ first = at \div B
        /\ B * first <= at /\ at < B * first + B
        /\ B * last <= top /\ top < B * last + B
        /\ B * first \in Nat /\ B * last \in Nat
        /\ first < last => B * first + B <= B * last
        /\ FileBlocks(l, f) = first .. last /\ first .. last \subseteq AllBlocks(l)
        /\ last <= BlockCount(l) - 1 /\ BlockCount(l) \in Nat
        /\ S = at .. top /\ S \subseteq Bytes(l)
    BY <2>1 DEF FileLies
  <2>3. Cardinality(FileBlocks(l, f)) = last + 1 - first
    <3>1. first \in Int /\ last \in Int /\ first <= last + 1
      BY <2>2
    <3>2. Cardinality(first .. last) = last + 1 - first
      BY <3>1, IntervalCounted
    <3> QED
      BY <2>2, <3>2
  <2>4. first + Cardinality(FileBlocks(l, f)) - 1 = last
    <3> DEFINE c == Cardinality(FileBlocks(l, f))
    <3>1. c = last + 1 - first /\ first \in Nat /\ last \in Nat
      BY <2>2, <2>3
    <3> HIDE DEF c
    <3>2. first + c - 1 = last
      BY <3>1
    <3> QED
      BY <3>2 DEF c
  <2>5. /\ n > 0 /\ first = last => FileBytesCompleted(l, have, f) = of(first, n)
        /\ n > 0 /\ first # last => FileBytesCompleted(l, have, f)
             = of(first, B - (at % B)) + Held(have, FileBlocks(l, f) \ {first, last}) * B
               + of(last, (at + n) - B * last)
    BY <1>2, <2>2, <2>4, Zenon DEF FileBytesCompleted
  <2> HIDE DEF S, H, n, B, at
  <2>6. IsFiniteSet(S) /\ \A X : IsFiniteSet(S \cap X)
    BY <2>2, BytesFinite
  <2>7. \A x \in S : x \in H <=> x \div B \in have
    BY <2>2 DEF H, B, HeldBytes
  <2>8. \A x \in S : x \in Nat /\ at <= x /\ x <= top
    BY <2>2
  <2>9. CASE first = last
    <3>1. \A x \in S : x \div B = first
      <4>1. \A x \in S : x \in Nat /\ B * first <= x /\ x < B * first + B
        BY <2>2, <2>8, <2>9
      <4> QED
        BY <2>2, <4>1, DivIs
    <3>2. S \cap H = IF first \in have THEN S ELSE {}
      BY <2>7, <3>1
    <3>3. Cardinality(S) = n
      <4>1. at \in Int /\ top \in Int /\ at <= top + 1 /\ top + 1 - at = n
        BY <2>2
      <4> HIDE DEF top
      <4>2. Cardinality(at .. top) = top + 1 - at
        BY <4>1, IntervalCounted
      <4> QED
        BY <2>2, <4>1, <4>2
    <3>4. Cardinality(S \cap H) = of(first, n)
      BY <3>2, <3>3, FS_EmptySet
    <3> QED
      BY <2>2, <2>5, <2>9, <3>4 DEF S, H
  <2>10. CASE first # last
    <3> DEFINE s1 == B * first + B - 1
               s3 == B * last
               mid == have \cap (FileBlocks(l, f) \ {first, last})
               J == IF first \in have THEN at .. s1 ELSE {}
               K == HeldBytes(l, mid)
               L == IF last \in have THEN s3 .. top ELSE {}
    <3>1. first < last /\ s1 + 1 <= s3 /\ s1 \in Int /\ s3 \in Int /\ top \in Int
          /\ at <= s1 + 1 /\ s3 <= top + 1
      BY <2>2, <2>10
    <3>2. Cardinality(J) = of(first, B - (at % B)) /\ IsFiniteSet(J)
      <4>1. at % B = at - B * first
        <5>1. at % B \in Nat /\ at = B * (at \div B) + (at % B)
          BY <2>2, DivMod
        <5> QED
          BY <2>2, <5>1
      <4>2. IsFiniteSet(at .. s1) /\ Cardinality(at .. s1) = s1 + 1 - at
        <5>1. at \in Int
          BY <2>2
        <5> HIDE DEF s1
        <5> QED
          BY <3>1, <5>1, IntervalCounted
      <4>3. s1 + 1 - at = B - (at % B)
        <5> DEFINE c == B * first
        <5>1. c \in Nat /\ s1 = c + B - 1 /\ at % B = at - c
          BY <2>2, <4>1
        <5> HIDE DEF c, s1
        <5> QED
          BY <2>2, <5>1
      <4> HIDE DEF s1
      <4> QED
        BY <4>2, <4>3, FS_EmptySet
    <3>3. Cardinality(L) = of(last, (at + n) - B * last) /\ IsFiniteSet(L)
      <4>1. IsFiniteSet(s3 .. top) /\ Cardinality(s3 .. top) = top + 1 - s3
        <5> HIDE DEF s3, top
        <5> QED
          BY <3>1, IntervalCounted
      <4>2. top + 1 - s3 = (at + n) - B * last
        BY <2>2
      <4> HIDE DEF s3, top
      <4> QED
        BY <4>1, <4>2, FS_EmptySet
    <3>4. Cardinality(K) = Held(have, FileBlocks(l, f) \ {first, last}) * B /\ IsFiniteSet(K)
      <4>1. mid \in SUBSET AllBlocks(l)
        OBVIOUS
      <4> DEFINE m == BlockCount(l) - 1
      <4>2. \A b \in mid : b \in Int /\ b < m
        <5>1. \A b \in mid : b \in Int /\ b <= last /\ b # last
          BY <2>2
        <5>2. last <= m /\ last \in Int /\ m \in Int
          BY <2>2
        <5> HIDE DEF m, mid
        <5> QED
          BY <5>1, <5>2
      <4>3. m \notin mid
        <5> HIDE DEF m, mid
        <5> QED
          BY <4>2
      <4> HIDE DEF mid
      <4>4. ShortLast(l, mid) = 0
        BY <4>3 DEF ShortLast
      <4>5. IsFiniteSet(K) /\ IsFiniteSet(mid) /\ Cardinality(K) = BlockInit(l, mid)
        BY <4>1, HeldCounted
      <4>6. Cardinality(mid) * B \in Int
        <5>1. Cardinality(mid) \in Nat
          BY <4>5, FS_CardinalityType
        <5> QED
          BY <2>2, <5>1
      <4>7. BlockInit(l, mid) = Cardinality(mid) * B
        BY <4>4, <4>6 DEF BlockInit, B
      <4>8. Cardinality(mid) = Held(have, FileBlocks(l, f) \ {first, last})
        BY DEF Held, mid
      <4> QED
        BY <4>5, <4>7, <4>8
    <3>5. \A x \in S : /\ x \div B = first <=> x <= s1
                       /\ x \div B = last <=> s3 <= x
                       /\ x \div B \in first .. last
      <4>1. ASSUME NEW x \in S
            PROVE  /\ x \div B = first <=> x <= s1
                   /\ x \div B = last <=> s3 <= x
                   /\ x \div B \in first .. last
        <5>1. x \in Nat /\ at <= x /\ x <= top
          BY <2>8
        <5>2. /\ x \div B = first <=> B * first <= x /\ x < B * first + B
              /\ x \div B = last <=> B * last <= x /\ x < B * last + B
          BY <2>2, <5>1, DivIff
        <5>3. first <= x \div B /\ x \div B \in Nat
          BY <2>2, <5>1, DivMono, DivMod
        <5>4. top \div B = last /\ top \in Nat
          <6>1. top \in Nat /\ B * last <= top /\ top < B * last + B
            BY <2>2
          <6> HIDE DEF top
          <6> QED
            BY <2>2, <6>1, DivIs
        <5>5. x \div B <= last
          <6> HIDE DEF top
          <6>1. x \div B <= top \div B
            BY <2>2, <5>1, <5>4, DivMono
          <6> QED
            BY <5>4, <6>1
        <5>6. x \div B \in first .. last
          BY <2>2, <5>3, <5>5
        <5>7. x \div B = first <=> x <= s1
          <6>1. B * first <= x
            BY <2>2, <5>1
          <6> DEFINE z == B * first
          <6>2. z \in Nat /\ B \in Nat /\ x \in Nat /\ z <= x
            BY <2>2, <5>1, <6>1
          <6>3. x \div B = first <=> x < z + B
            BY <5>2, <6>1
          <6>4. s1 = z + B - 1
            BY <2>2
          <6> HIDE DEF z, s1
          <6>5. x < z + B <=> x <= s1
            BY <6>2, <6>4
          <6> QED
            BY <6>3, <6>5, Zenon
        <5>8. x \div B = last <=> s3 <= x
          BY <2>2, <5>1, <5>2
        <5> QED
          BY <5>6, <5>7, <5>8
      <4> QED
        BY <4>1
    <3>6. at .. s1 \subseteq S /\ s3 .. top \subseteq S
      <4>1. \A x \in at .. s1 : x \in at .. top
        BY <2>2, <3>1
      <4>2. \A x \in s3 .. top : x \in at .. top
        BY <2>2, <3>1
      <4> QED
        BY <2>2, <4>1, <4>2
    <3>7. K \subseteq S
      <4>1. ASSUME NEW x \in K PROVE x \in S
        <5>1. x \in Bytes(l) /\ x \div B \in mid
          BY DEF HeldBytes, B
        <5>2. x \in Nat
          BY <5>1 DEF Bytes
        <5> DEFINE b == x \div B
        <5>3. b \in first .. last /\ b # first /\ b # last
          BY <2>2, <5>1
        <5>4. b \in Nat /\ first + 1 <= b /\ b + 1 <= last
          BY <2>2, <5>3
        <5>5. B * b <= x /\ x < B * b + B
          BY <2>2, <5>2, <5>4, DivIff
        <5> HIDE DEF b
        <5>6. B * (first + 1) <= B * b /\ B * (b + 1) <= B * last
          BY <2>2, <5>4
        <5>7. B * (first + 1) = B * first + B /\ B * (b + 1) = B * b + B
          BY <2>2, <5>4
        <5> DEFINE c == B * first
                   d == B * last
                   e == B * b
        <5>8. c \in Nat /\ d \in Nat /\ e \in Nat /\ c + B <= e /\ e + B <= d
          BY <2>2, <5>4, <5>6, <5>7
        <5>9. at < c + B /\ d <= top /\ e <= x /\ x < e + B
          BY <2>2, <5>5
        <5> HIDE DEF c, d, e
        <5>10. at <= x /\ x <= top
          BY <2>2, <5>2, <5>8, <5>9
        <5> QED
          BY <2>2, <5>2, <5>10
      <4> QED
        BY <4>1
    <3>8. \A x \in S : /\ x \in K <=> x \div B \in mid
                       /\ x \in J <=> first \in have /\ x <= s1
                       /\ x \in L <=> last \in have /\ s3 <= x
      <4>1. \A x \in S : x \in K <=> x \div B \in mid
        BY <2>2 DEF HeldBytes, B
      <4>2. \A x \in S : (x \in at .. s1 <=> x <= s1) /\ (x \in s3 .. top <=> s3 <= x)
        BY <2>8, <3>1
      <4> HIDE DEF s1, s3, top, K
      <4> QED
        BY <4>1, <4>2
    <3>9. S \cap H = (J \cup K) \cup L /\ (J \cup K) \cap L = {} /\ J \cap K = {}
      <4>1. J \subseteq S /\ L \subseteq S
        BY <3>6
      <4>2. \A x \in S : /\ x \in J <=> first \in have /\ x \div B = first
                         /\ x \in L <=> last \in have /\ x \div B = last
                         /\ x \in K <=> x \div B \in have /\ x \div B # first /\ x \div B # last
        BY <2>2, <3>5, <3>8
      <4>3. \A x \in S : x \in H <=> x \div B \in have
        BY <2>7
      <4> HIDE DEF J, K, L, s1, s3, top
      <4>4. \A x \in S : x \in H <=> x \in J \/ x \in K \/ x \in L
        BY <4>2, <4>3
      <4>5. \A x \in S : ~(x \in J /\ x \in K) /\ ~(x \in L /\ x \in K) /\ ~(x \in J /\ x \in L)
        BY <2>10, <4>2
      <4>6. S \cap H = (J \cup K) \cup L
        BY <3>7, <4>1, <4>4
      <4>7. (J \cup K) \cap L = {}
        BY <3>7, <4>1, <4>5
      <4>8. J \cap K = {}
        BY <4>1, <4>5
      <4> QED
        BY <4>6, <4>7, <4>8
    <3> DEFINE M == J \cup K
    <3>10. /\ IsFiniteSet(M) /\ Cardinality(M) = Cardinality(J) + Cardinality(K)
           /\ Cardinality(J) \in Nat /\ Cardinality(K) \in Nat
      <4> HIDE DEF J, K
      <4> QED
        BY <3>2, <3>4, <3>9, CountDisjoint
    <3>11. Cardinality(M \cup L) = Cardinality(M) + Cardinality(L) /\ Cardinality(L) \in Nat
      <4>1. M \cap L = {}
        BY <3>9
      <4> HIDE DEF M, L
      <4> QED
        BY <3>3, <3>10, <4>1, CountDisjoint
    <3>12. Cardinality(S \cap H) = Cardinality(M \cup L)
      BY <3>9
    <3> HIDE DEF J, K, L, M, of
    <3>13. FileBytesCompleted(l, have, f) = Cardinality(J) + Cardinality(K) + Cardinality(L)
      <4>1. n > 0
        BY <2>2
      <4> QED
        BY <2>5, <2>10, <3>2, <3>3, <3>4, <4>1
    <3>14. Cardinality(S \cap H) = Cardinality(J) + Cardinality(K) + Cardinality(L)
      BY <3>10, <3>11, <3>12
    <3> QED
      BY <3>13, <3>14 DEF S, H
  <2> QED
    BY <2>9, <2>10
<1> QED
  BY <1>1, <1>2
-----------------------------------------------------------------------------
(* The sums.                                                               *)

(* The bytes of the whole pieces, and those that are there or wanted.      *)
WholeBytes(l, have) ==
    {x \in HeldBytes(l, have) : PieceBytes(l, x \div l.pieceSize) \subseteq HeldBytes(l, have)}
DoneBytes(l, have, dnd) ==
    HeldBytes(l, have) \cup {x \in Bytes(l) : x \div l.pieceSize \notin dnd}

(* tr_cpHaveValid's sum counts the bytes of the whole pieces.              *)
LEMMA HaveValidCounted ==
    ASSUME NEW l, Laid(l), NEW have \in SUBSET AllBlocks(l)
    PROVE  HaveValid(l, have) = Cardinality(WholeBytes(l, have))
<1> DEFINE S == {p \in Pieces(l) : HasPiece(l, have, p)}
           of == [p \in S |-> PieceCountBytes(l, p)]
           A == [p \in S |-> PieceBytes(l, p)]
           Eq(it) == it = [s \in SUBSET S |->
                             IF s = {} THEN 0
                             ELSE PieceCountBytes(l, CHOOSE x \in s : TRUE)
                                  + it[s \ {CHOOSE x \in s : TRUE}]]
           F == CHOOSE it : Eq(it)
<1>1. HaveValid(l, have) = F[S]
  BY Zenon DEF HaveValid, MapThenSumSet, MapThenFoldSet
<1>2. IsFiniteSet(S)
  BY BytesFinite, FS_Subset
<1>3. \A p \in S : /\ p \in Pieces(l) /\ IsFiniteSet(PieceBytes(l, p))
                   /\ Cardinality(PieceBytes(l, p)) = PieceCountBytes(l, p)
  BY PieceCounted
<1>4. \A p \in S : Cardinality(PieceBytes(l, p)) \in Nat
  BY <1>3, FS_CardinalityType
<1>5. of \in [S -> Nat] /\ \A p \in S : of[p] = PieceCountBytes(l, p)
  BY <1>3, <1>4
<1>6. \A p \in S : A[p] = PieceBytes(l, p)
  OBVIOUS
<1>7. UnionOf(A, S) = WholeBytes(l, have)
  <2>1. ASSUME NEW x \in UnionOf(A, S) PROVE x \in WholeBytes(l, have)
    <3>1. PICK p \in S : x \in PieceBytes(l, p)
      BY DEF UnionOf
    <3>2. PieceBytes(l, p) \subseteq HeldBytes(l, have)
      BY PieceHeldBytes
    <3>3. x \div l.pieceSize = p
      BY <3>1 DEF PieceBytes
    <3> QED
      BY <3>1, <3>2, <3>3 DEF WholeBytes
  <2>2. ASSUME NEW x \in WholeBytes(l, have) PROVE x \in UnionOf(A, S)
    <3> DEFINE p == x \div l.pieceSize
    <3>1. x \in Bytes(l) /\ PieceBytes(l, p) \subseteq HeldBytes(l, have)
      BY DEF WholeBytes, HeldBytes
    <3>2. p \in Pieces(l)
      BY <3>1, ByteLies
    <3>3. x \in PieceBytes(l, p)
      BY <3>1 DEF PieceBytes
    <3> HIDE DEF p
    <3>4. p \in S
      BY <3>1, <3>2, PieceHeldBytes
    <3>5. x \in A[p]
      BY <3>3, <3>4
    <3> HIDE DEF S, A
    <3> QED
      BY <3>4, <3>5 DEF UnionOf
  <2> QED
    BY <2>1, <2>2
<1> HIDE DEF of, A, S
<1>8. PICK g : SumsUp(g, S, of)
  BY <1>2, <1>5, SumsExist
<1>9. \A s \in SUBSET S : s # {} => of[CHOOSE x \in s : TRUE] = PieceCountBytes(l, CHOOSE x \in s : TRUE)
  BY <1>5
<1>10. Eq(g)
  BY <1>8, <1>9 DEF SumsUp
<1>11. Eq(F)
  <2> HIDE DEF Eq
  <2> QED
    BY <1>10
<1> HIDE DEF F
<1>12. SumsUp(F, S, of)
  <2> DEFINE sum(s) == IF s = {} THEN 0
                       ELSE of[CHOOSE x \in s : TRUE] + F[s \ {CHOOSE x \in s : TRUE}]
             same(s) == IF s = {} THEN 0
                        ELSE PieceCountBytes(l, CHOOSE x \in s : TRUE)
                             + F[s \ {CHOOSE x \in s : TRUE}]
  <2>1. ASSUME NEW s \in SUBSET S PROVE sum(s) = same(s)
    <3>1. s # {} => of[CHOOSE x \in s : TRUE] = PieceCountBytes(l, CHOOSE x \in s : TRUE)
      BY <1>9, Zenon
    <3> QED
      BY <3>1, Zenon
  <2>2. F = [s \in SUBSET S |-> same(s)]
    BY <1>11, Zenon
  <2>3. SumsUp(F, S, of) <=> F = [s \in SUBSET S |-> sum(s)]
    BY Zenon DEF SumsUp
  <2> HIDE DEF sum, same
  <2> QED
    BY <2>1, <2>2, <2>3
<1>13. \A x, y \in S : x # y => A[x] \cap A[y] = {}
  BY <1>6 DEF PieceBytes
<1>14. \A x \in S : IsFiniteSet(A[x]) /\ Cardinality(A[x]) = of[x]
  BY <1>3, <1>5, <1>6
<1>15. F[S] = Cardinality(UnionOf(A, S))
  BY <1>2, <1>12, <1>13, <1>14, SumCounts
<1> QED
  BY <1>1, <1>7, <1>15

(* tr_cpSizeWhenDone's sum counts what is there and what is wanted.        *)
LEMMA SizeWhenDoneCounted ==
    ASSUME NEW l, Laid(l), NEW have \in SUBSET AllBlocks(l), NEW dnd
    PROVE  SizeWhenDone(l, have, dnd) = Cardinality(DoneBytes(l, have, dnd))
<1> DEFINE S == Pieces(l)
           held(p) == PieceBlocks(l, p) \cap have
           ofPiece(p) == IF p \notin dnd THEN PieceCountBytes(l, p)
                         ELSE Cardinality(held(p)) * BlockSize(l) - ShortLast(l, held(p))
           of == [p \in S |-> ofPiece(p)]
           A == [p \in S |-> IF p \notin dnd THEN PieceBytes(l, p) ELSE HeldBytes(l, held(p))]
           Eq(it) == it = [s \in SUBSET S |->
                             IF s = {} THEN 0
                             ELSE ofPiece(CHOOSE x \in s : TRUE) + it[s \ {CHOOSE x \in s : TRUE}]]
           F == CHOOSE it : Eq(it)
<1>1. CASE have = AllBlocks(l)
  <2>1. SizeWhenDone(l, have, dnd) = TotalSize(l)
    BY <1>1 DEF SizeWhenDone
  <2>2. \A x \in Bytes(l) : x \div BlockSize(l) \in AllBlocks(l)
    BY ByteLies
  <2>3. DoneBytes(l, have, dnd) = Bytes(l)
    BY <1>1, <2>2 DEF DoneBytes, HeldBytes
  <2> QED
    BY <2>1, <2>3, BytesFinite
<1>2. CASE have # AllBlocks(l)
  <2>1. SizeWhenDone(l, have, dnd) = F[S]
    BY <1>2, Zenon DEF SizeWhenDone, MapThenSumSet, MapThenFoldSet
  <2>2. IsFiniteSet(S)
    BY BytesFinite
  <2>3. ASSUME NEW p \in S
        PROVE  /\ IsFiniteSet(A[p]) /\ Cardinality(A[p]) = ofPiece(p)
               /\ A[p] \subseteq PieceBytes(l, p)
               /\ A[p] = {x \in PieceBytes(l, p) : p \notin dnd \/ x \in HeldBytes(l, have)}
    <3>1. CASE p \notin dnd
      <4>1. A[p] = PieceBytes(l, p) /\ ofPiece(p) = PieceCountBytes(l, p)
        BY <3>1
      <4> HIDE DEF A, ofPiece
      <4>2. IsFiniteSet(PieceBytes(l, p)) /\ Cardinality(PieceBytes(l, p)) = PieceCountBytes(l, p)
        BY PieceCounted
      <4> QED
        BY <3>1, <4>1, <4>2
    <3>2. CASE p \in dnd
      <4>1. A[p] = HeldBytes(l, held(p)) /\ ofPiece(p) = BlockInit(l, held(p))
        BY <3>2 DEF BlockInit
      <4> HIDE DEF A, ofPiece
      <4>2. held(p) \in SUBSET AllBlocks(l)
        OBVIOUS
      <4>3. HeldBytes(l, held(p)) = PieceBytes(l, p) \cap HeldBytes(l, have)
        BY PieceHeldBytes
      <4> HIDE DEF held
      <4>4. IsFiniteSet(HeldBytes(l, held(p))) /\ Cardinality(HeldBytes(l, held(p))) = BlockInit(l, held(p))
        BY <4>2, HeldCounted
      <4> QED
        BY <3>2, <4>1, <4>3, <4>4
    <3> QED
      BY <3>1, <3>2
  <2>4. \A p \in S : Cardinality(A[p]) \in Nat
    <3> HIDE DEF A, ofPiece
    <3> QED
      BY <2>3, FS_CardinalityType
  <2>5. of \in [S -> Nat] /\ \A p \in S : of[p] = ofPiece(p)
    <3> HIDE DEF A, ofPiece
    <3> QED
      BY <2>3, <2>4
  <2> HIDE DEF A, of, ofPiece
  <2>6. UnionOf(A, S) = DoneBytes(l, have, dnd)
    <3>1. ASSUME NEW x \in UnionOf(A, S) PROVE x \in DoneBytes(l, have, dnd)
      <4>1. PICK p \in S : x \in A[p]
        BY DEF UnionOf
      <4>2. x \in PieceBytes(l, p) /\ (p \notin dnd \/ x \in HeldBytes(l, have))
        BY <2>3, <4>1
      <4> QED
        BY <4>2 DEF PieceBytes, DoneBytes
    <3>2. ASSUME NEW x \in DoneBytes(l, have, dnd) PROVE x \in UnionOf(A, S)
      <4> DEFINE p == x \div l.pieceSize
      <4>1. x \in Bytes(l) /\ (p \notin dnd \/ x \in HeldBytes(l, have))
        BY DEF DoneBytes, HeldBytes
      <4>2. p \in S
        BY <4>1, ByteLies
      <4>3. x \in PieceBytes(l, p)
        BY <4>1 DEF PieceBytes
      <4> HIDE DEF p, S
      <4>4. x \in A[p]
        BY <2>3, <4>1, <4>2, <4>3
      <4> QED
        BY <4>2, <4>4 DEF UnionOf
    <3> QED
      BY <3>1, <3>2
  <2> HIDE DEF S
  <2>7. PICK g : SumsUp(g, S, of)
    BY <2>2, <2>5, SumsExist
  <2>8. \A s \in SUBSET S : s # {} => of[CHOOSE x \in s : TRUE] = ofPiece(CHOOSE x \in s : TRUE)
    BY <2>5
  <2>9. Eq(g)
    BY <2>7, <2>8 DEF SumsUp
  <2>10. Eq(F)
    <3> HIDE DEF Eq
    <3> QED
      BY <2>9
  <2> HIDE DEF F
  <2>11. SumsUp(F, S, of)
    <3> DEFINE sum(s) == IF s = {} THEN 0
                         ELSE of[CHOOSE x \in s : TRUE] + F[s \ {CHOOSE x \in s : TRUE}]
               same(s) == IF s = {} THEN 0
                          ELSE ofPiece(CHOOSE x \in s : TRUE) + F[s \ {CHOOSE x \in s : TRUE}]
    <3> HIDE DEF ofPiece
    <3>1. ASSUME NEW s \in SUBSET S PROVE sum(s) = same(s)
      <4>1. s # {} => of[CHOOSE x \in s : TRUE] = ofPiece(CHOOSE x \in s : TRUE)
        BY <2>8, Zenon
      <4> QED
        BY <4>1, Zenon
    <3>2. F = [s \in SUBSET S |-> same(s)]
      BY <2>10, Zenon
    <3>3. SumsUp(F, S, of) <=> F = [s \in SUBSET S |-> sum(s)]
      BY Zenon DEF SumsUp
    <3> HIDE DEF sum, same
    <3> QED
      BY <3>1, <3>2, <3>3
  <2>12. \A x, y \in S : x # y => A[x] \cap A[y] = {}
    <3>1. \A x, y \in S : x # y => PieceBytes(l, x) \cap PieceBytes(l, y) = {}
      BY DEF PieceBytes
    <3>2. \A x \in S : A[x] \subseteq PieceBytes(l, x)
      BY <2>3
    <3> QED
      BY <3>1, <3>2
  <2>13. \A x \in S : IsFiniteSet(A[x]) /\ Cardinality(A[x]) = of[x]
    BY <2>3, <2>5
  <2>14. F[S] = Cardinality(UnionOf(A, S))
    BY <2>2, <2>11, <2>12, <2>13, SumCounts
  <2> QED
    BY <2>1, <2>6, <2>14
<1> QED
  BY <1>1, <1>2
-----------------------------------------------------------------------------
(* The counts as blocks come and pieces go.                                *)

Completions(l) ==
    [blocks : SUBSET AllBlocks(l), sizeNow : Int, haveValid : Nat \cup {Dirty},
     sizeWhenDone : Nat \cup {Dirty}]

(* The completion c counts right with the pieces dnd left out, but for     *)
(* what calls that met the verifier's writes may have left wrong.          *)
CountsRight(l, c, dnd, wrong) ==
    /\ c \in Completions(l)
    /\ "sizeNow" \notin wrong => c.sizeNow = Cardinality(HeldBytes(l, c.blocks))
    /\ "sums" \notin wrong => c.haveValid \in {Dirty, Cardinality(WholeBytes(l, c.blocks))}
    /\ "sums" \notin wrong => c.sizeWhenDone \in {Dirty, Cardinality(DoneBytes(l, c.blocks, dnd))}

(* Where the sums are dirty, what there is may be anything.                *)
LEMMA DirtyIsRight ==
    ASSUME NEW l, Laid(l), NEW have \in SUBSET AllBlocks(l), NEW dnd, NEW wrong, NEW c,
           NEW size \in Int, c \in Completions(l),
           "sizeNow" \notin wrong => size = Cardinality(HeldBytes(l, have))
    PROVE  CountsRight(l, [c EXCEPT !.blocks = have, !.sizeNow = size,
                                    !.haveValid = Dirty, !.sizeWhenDone = Dirty], dnd, wrong)
<1> DEFINE d == [c EXCEPT !.blocks = have, !.sizeNow = size,
                          !.haveValid = Dirty, !.sizeWhenDone = Dirty]
<1>1. /\ d.blocks = have /\ d.sizeNow = size /\ d.haveValid = Dirty /\ d.sizeWhenDone = Dirty
      /\ d \in Completions(l)
  BY DEF Completions
<1> HIDE DEF d
<1>2. CountsRight(l, d, dnd, wrong)
  BY <1>1 DEF CountsRight
<1> QED
  BY <1>2 DEF d

(* tr_cpBlockAdd                                                           *)
LEMMA BlockAddCounts ==
    ASSUME Laid(torrent), NEW dnd, NEW wrong, NEW c, CountsRight(torrent, c, dnd, wrong), NEW b \in AllBlocks(torrent)
    PROVE  CountsRight(torrent, BlockAdd(c, b), dnd, wrong) /\ BlockAdd(c, b).blocks = c.blocks \cup {b}
<1> DEFINE have == c.blocks \cup {b}
           size == c.sizeNow + BlockCountBytes(torrent, b)
           d == [c EXCEPT !.blocks = have, !.sizeNow = size,
                          !.haveValid = Dirty, !.sizeWhenDone = Dirty]
<1>1. /\ c \in Completions(torrent) /\ c.blocks \in SUBSET AllBlocks(torrent) /\ c.sizeNow \in Int
      /\ "sizeNow" \notin wrong => c.sizeNow = Cardinality(HeldBytes(torrent, c.blocks))
  BY DEF CountsRight, Completions
<1>2. CASE b \in c.blocks
  BY <1>2 DEF BlockAdd
<1>3. CASE b \notin c.blocks
  <2>1. BlockAdd(c, b) = d
    BY <1>3 DEF BlockAdd
  <2>2. have \in SUBSET AllBlocks(torrent) /\ size \in Int
        /\ ("sizeNow" \notin wrong => size = Cardinality(HeldBytes(torrent, have)))
    <3>1. BlockCountBytes(torrent, b) \in Int
      BY BlockCounted, FS_CardinalityType
    <3>2. Cardinality(HeldBytes(torrent, have))
            = Cardinality(HeldBytes(torrent, c.blocks)) + BlockCountBytes(torrent, b)
      BY <1>1, <1>3, HeldMore
    <3> QED
      BY <1>1, <3>1, <3>2
  <2>3. d.blocks = have
    BY <1>1 DEF Completions
  <2> HIDE DEF have, size
  <2>4. CountsRight(torrent, d, dnd, wrong)
    BY <1>1, <2>2, DirtyIsRight
  <2> QED
    BY <2>1, <2>3, <2>4 DEF have
<1> QED
  BY <1>2, <1>3

(* The blocks of a piece, as PieceAdd goes through them.                   *)
LEMMA PieceBlocksRange ==
    ASSUME NEW l, Laid(l), NEW p \in Pieces(l), NEW first, first = (l.pieceSize * p) \div BlockSize(l)
    PROVE  /\ first \in Nat /\ Cardinality(PieceBlocks(l, p)) \in Nat \ {0}
           /\ PieceBlocks(l, p) = first .. first + Cardinality(PieceBlocks(l, p)) - 1
<1> DEFINE T == TotalSize(l)
           s == l.pieceSize
           B == BlockSize(l)
           n == PieceCountBytes(l, p)
           at == s * p
           end == at + n - 1
           last == end \div B
<1>1. /\ T \in Nat \ {0} /\ s \in Nat \ {0} /\ B \in Nat \ {0}
      /\ n = UnitSize(T, s, p) /\ p \in 0 .. Units(T, s) - 1
  BY UnitsOfTorrent
<1>2. PieceBlocks(l, p) = first .. last
  BY DEF PieceBlocks
<1>3. at = UnitAt(s, p)
  BY DEF UnitAt
<1> HIDE DEF n, T, s
<1>4. n \in 1 .. s /\ UnitAt(s, p) \in Nat
  BY <1>1, UnitsTile
<1>5. at \in Nat /\ end \in Nat /\ at <= end
  BY <1>1, <1>3, <1>4
<1>6. first = at \div B
  BY DEF s
<1> HIDE DEF at, end, B
<1>7. first \in Nat /\ last \in Nat /\ first <= last
  BY <1>1, <1>5, <1>6, DivMod, DivMono
<1> HIDE DEF last
<1>8. Cardinality(first .. last) = last + 1 - first
  BY <1>7, IntervalCounted
<1> DEFINE k == Cardinality(PieceBlocks(l, p))
<1>9. k = last + 1 - first
  BY <1>2, <1>8
<1> HIDE DEF k
<1>10. k \in Nat \ {0} /\ last = first + k - 1
  BY <1>7, <1>9
<1> QED
  BY <1>2, <1>7, <1>10 DEF k

(* add is PieceAdd's walk over the m blocks from "first" on.               *)
AddsBlocks(add, c, first, m) ==
    add = [n \in 0 .. m |-> IF n = 0 THEN c ELSE BlockAdd(add[n - 1], first + n - 1)]

LEMMA AddsBlocksExists ==
    ASSUME Laid(torrent), NEW dnd, NEW wrong, NEW c, CountsRight(torrent, c, dnd, wrong),
           NEW first \in Nat, NEW m \in Nat, first .. first + m - 1 \subseteq AllBlocks(torrent)
    PROVE  \E add : AddsBlocks(add, c, first, m)
<1> DEFINE T == {d \in Completions(torrent) : CountsRight(torrent, d, dnd, wrong)}
           step == [q \in T \X (1 .. m) |-> BlockAdd(q[1], first + q[2] - 1)]
<1>1. ASSUME NEW d \in T, NEW i \in 1 .. m PROVE BlockAdd(d, first + i - 1) \in T
  <2> DEFINE b == first + i - 1
  <2>1. b \in first .. first + m - 1
    OBVIOUS
  <2>2. b \in AllBlocks(torrent)
    BY <2>1
  <2> HIDE DEF b
  <2>3. CountsRight(torrent, BlockAdd(d, b), dnd, wrong)
    BY <2>2, BlockAddCounts
  <2> QED
    BY <2>3 DEF b, CountsRight
<1>2. c \in T
  BY DEF CountsRight
<1> HIDE DEF T
<1>3. step \in [T \X (1 .. m) -> T] /\ \A d \in T, i \in 1 .. m : step[<<d, i>>] = BlockAdd(d, first + i - 1)
  BY <1>1
<1> HIDE DEF step
<1>4. PICK g : Recursion(g, m, T, c, step)
  BY <1>2, <1>3, RecursionExists
<1>5. g \in [0 .. m -> T] /\ g[0] = c
  BY <1>4 DEF Recursion
<1>6. ASSUME NEW i \in 1 .. m PROVE g[i] = BlockAdd(g[i - 1], first + i - 1)
  <2>1. g[i] = step[<<g[i - 1], i>>]
    BY <1>4 DEF Recursion
  <2>2. g[i - 1] \in T
    BY <1>5
  <2> QED
    BY <1>3, <2>1, <2>2
<1>7. \A n \in 0 .. m : g[n] = IF n = 0 THEN c ELSE BlockAdd(g[n - 1], first + n - 1)
  <2>1. \A n \in 0 .. m : n # 0 => n \in 1 .. m
    OBVIOUS
  <2> QED
    BY <1>5, <1>6, <2>1
<1>8. g = [n \in 0 .. m |-> g[n]]
  BY <1>5
<1>9. AddsBlocks(g, c, first, m)
  BY <1>7, <1>8, Zenon DEF AddsBlocks
<1> QED
  BY <1>9

LEMMA AddsBlocksCounts ==
    ASSUME Laid(torrent), NEW dnd, NEW wrong, NEW c, CountsRight(torrent, c, dnd, wrong),
           NEW first \in Nat, NEW m \in Nat, first .. first + m - 1 \subseteq AllBlocks(torrent),
           NEW add, AddsBlocks(add, c, first, m)
    PROVE  /\ CountsRight(torrent, add[m], dnd, wrong)
           /\ add[m].blocks = c.blocks \cup (first .. first + m - 1)
<1> DEFINE G == {n \in 0 .. m : /\ CountsRight(torrent, add[n], dnd, wrong)
                                /\ add[n].blocks = c.blocks \cup (first .. first + n - 1)}
<1>1. ASSUME NEW n \in 0 .. m PROVE add[n] = IF n = 0 THEN c ELSE BlockAdd(add[n - 1], first + n - 1)
  BY Zenon DEF AddsBlocks
<1>2. 0 \in G
  <2>1. 0 \in 0 .. m /\ first .. first + 0 - 1 = {}
    OBVIOUS
  <2>2. add[0] = c
    BY <1>1, <2>1
  <2> QED
    BY <2>1, <2>2
<1>3. ASSUME NEW n \in 1 .. m, n - 1 \in G PROVE n \in G
  <2> DEFINE b == first + n - 1
             d == add[n - 1]
  <2>1. n \in 0 .. m /\ n # 0 /\ b \in first .. first + m - 1
    OBVIOUS
  <2>2. b \in AllBlocks(torrent)
    BY <2>1
  <2>3. CountsRight(torrent, d, dnd, wrong) /\ d.blocks = c.blocks \cup (first .. first + (n - 1) - 1)
    BY <1>3
  <2>4. first .. first + n - 1 = (first .. first + (n - 1) - 1) \cup {b}
    OBVIOUS
  <2>5. add[n] = BlockAdd(d, b)
    BY <1>1, <2>1
  <2> HIDE DEF b, d
  <2>6. CountsRight(torrent, BlockAdd(d, b), dnd, wrong) /\ BlockAdd(d, b).blocks = d.blocks \cup {b}
    BY <2>2, <2>3, BlockAddCounts
  <2>7. add[n].blocks = c.blocks \cup (first .. first + n - 1)
    BY <2>3, <2>4, <2>5, <2>6
  <2> QED
    BY <2>1, <2>5, <2>6, <2>7
<1> HIDE DEF G
<1>4. 0 .. m \subseteq G
  BY <1>2, <1>3, HandedOn
<1>5. m \in 0 .. m
  OBVIOUS
<1> QED
  BY <1>4, <1>5 DEF G

(* tr_cpPieceAdd                                                           *)
LEMMA PieceAddCounts ==
    ASSUME Laid(torrent), NEW dnd, NEW wrong, NEW c, CountsRight(torrent, c, dnd, wrong), NEW p \in Pieces(torrent)
    PROVE  /\ CountsRight(torrent, PieceAdd(c, p), dnd, wrong)
           /\ PieceAdd(c, p).blocks = c.blocks \cup PieceBlocks(torrent, p)
<1> DEFINE first == (torrent.pieceSize * p) \div BlockSize(torrent)
           m == Cardinality(PieceBlocks(torrent, p))
           add == CHOOSE add : AddsBlocks(add, c, first, m)
<1>1. PieceAdd(c, p) = add[m]
  BY Zenon DEF PieceAdd, AddsBlocks
<1>2. first \in Nat /\ m \in Nat /\ PieceBlocks(torrent, p) = first .. first + m - 1
  BY PieceBlocksRange
<1>3. PieceBlocks(torrent, p) \subseteq AllBlocks(torrent)
  BY PieceOfBlocks
<1> HIDE DEF first, m
<1>4. first .. first + m - 1 \subseteq AllBlocks(torrent)
  BY <1>2, <1>3
<1>5. AddsBlocks(add, c, first, m)
  BY <1>2, <1>4, AddsBlocksExists
<1> HIDE DEF add
<1>6. /\ CountsRight(torrent, add[m], dnd, wrong)
      /\ add[m].blocks = c.blocks \cup (first .. first + m - 1)
  BY <1>2, <1>4, <1>5, AddsBlocksCounts
<1> QED
  BY <1>1, <1>2, <1>6

(* The bytes of blocks, one block after the other.                         *)
BytesOf(l, blocks) == MapThenSumSet(LAMBDA b : BlockCountBytes(l, b), blocks)

LEMMA BytesOfCounted ==
    ASSUME NEW l, Laid(l), NEW S \in SUBSET AllBlocks(l)
    PROVE  BytesOf(l, S) = Cardinality(HeldBytes(l, S))
<1> DEFINE of == [b \in S |-> BlockCountBytes(l, b)]
           A == [b \in S |-> BlockBytes(l, b)]
           Eq(it) == it = [s \in SUBSET S |->
                             IF s = {} THEN 0
                             ELSE BlockCountBytes(l, CHOOSE x \in s : TRUE)
                                  + it[s \ {CHOOSE x \in s : TRUE}]]
           F == CHOOSE it : Eq(it)
<1>1. BytesOf(l, S) = F[S]
  BY Zenon DEF BytesOf, MapThenSumSet, MapThenFoldSet
<1>2. IsFiniteSet(S)
  BY BytesFinite, FS_Subset
<1>3. \A b \in S : IsFiniteSet(BlockBytes(l, b)) /\ Cardinality(BlockBytes(l, b)) = BlockCountBytes(l, b)
  BY BlockCounted
<1>4. \A b \in S : Cardinality(BlockBytes(l, b)) \in Nat
  BY <1>3, FS_CardinalityType
<1>5. of \in [S -> Nat] /\ \A b \in S : of[b] = BlockCountBytes(l, b)
  BY <1>3, <1>4
<1>6. \A b \in S : A[b] = BlockBytes(l, b)
  OBVIOUS
<1> HIDE DEF of, A
<1>7. UnionOf(A, S) = HeldBytes(l, S)
  BY <1>6 DEF UnionOf, HeldBytes, BlockBytes
<1>8. PICK g : SumsUp(g, S, of)
  BY <1>2, <1>5, SumsExist
<1>9. \A s \in SUBSET S : s # {} => of[CHOOSE x \in s : TRUE] = BlockCountBytes(l, CHOOSE x \in s : TRUE)
  BY <1>5
<1>10. Eq(g)
  BY <1>8, <1>9 DEF SumsUp
<1>11. Eq(F)
  <2> HIDE DEF Eq
  <2> QED
    BY <1>10
<1> HIDE DEF F
<1>12. SumsUp(F, S, of)
  <2> DEFINE sum(s) == IF s = {} THEN 0
                       ELSE of[CHOOSE x \in s : TRUE] + F[s \ {CHOOSE x \in s : TRUE}]
             same(s) == IF s = {} THEN 0
                        ELSE BlockCountBytes(l, CHOOSE x \in s : TRUE)
                             + F[s \ {CHOOSE x \in s : TRUE}]
  <2>1. ASSUME NEW s \in SUBSET S PROVE sum(s) = same(s)
    <3>1. s # {} => of[CHOOSE x \in s : TRUE] = BlockCountBytes(l, CHOOSE x \in s : TRUE)
      BY <1>9, Zenon
    <3> QED
      BY <3>1, Zenon
  <2>2. F = [s \in SUBSET S |-> same(s)]
    BY <1>11, Zenon
  <2>3. SumsUp(F, S, of) <=> F = [s \in SUBSET S |-> sum(s)]
    BY Zenon DEF SumsUp
  <2> HIDE DEF sum, same
  <2> QED
    BY <2>1, <2>2, <2>3
<1>13. \A x, y \in S : x # y => A[x] \cap A[y] = {}
  BY <1>6 DEF BlockBytes
<1>14. \A x \in S : IsFiniteSet(A[x]) /\ Cardinality(A[x]) = of[x]
  BY <1>3, <1>5, <1>6
<1>15. F[S] = Cardinality(UnionOf(A, S))
  BY <1>2, <1>12, <1>13, <1>14, SumCounts
<1> QED
  BY <1>1, <1>7, <1>15

(* tr_cpPieceRem                                                           *)
LEMMA PieceRemCounts ==
    ASSUME Laid(torrent), NEW dnd, NEW wrong, NEW c, CountsRight(torrent, c, dnd, wrong), NEW p \in Pieces(torrent)
    PROVE  /\ CountsRight(torrent, PieceRem(c, p), dnd, wrong)
           /\ PieceRem(c, p).blocks = c.blocks \ PieceBlocks(torrent, p)
<1> DEFINE gone == c.blocks \cap PieceBlocks(torrent, p)
           have == c.blocks \ PieceBlocks(torrent, p)
           size == c.sizeNow - BytesOf(torrent, gone)
           d == [c EXCEPT !.blocks = have, !.sizeNow = size,
                          !.haveValid = Dirty, !.sizeWhenDone = Dirty]
           J == HeldBytes(torrent, have)
           K == HeldBytes(torrent, gone)
<1>1. /\ c \in Completions(torrent) /\ c.blocks \in SUBSET AllBlocks(torrent) /\ c.sizeNow \in Int
      /\ "sizeNow" \notin wrong => c.sizeNow = Cardinality(HeldBytes(torrent, c.blocks))
  BY DEF CountsRight, Completions
<1>2. PieceRem(c, p) = d
  BY Zenon DEF PieceRem, BytesOf
<1>3. have \in SUBSET AllBlocks(torrent) /\ gone \in SUBSET AllBlocks(torrent)
  BY <1>1
<1>4. HeldBytes(torrent, c.blocks) = J \cup K /\ J \cap K = {}
  BY DEF HeldBytes
<1>5. BytesOf(torrent, gone) = Cardinality(K)
  BY <1>3, BytesOfCounted
<1>6. IsFiniteSet(J) /\ IsFiniteSet(K)
  BY <1>3, HeldCounted
<1>7. d.blocks = have
  BY <1>1 DEF Completions
<1> HIDE DEF gone, have
<1>8. c.sizeNow \in Int /\ ("sizeNow" \notin wrong => c.sizeNow = Cardinality(J \cup K))
  BY <1>1, <1>4
<1> HIDE DEF J, K
<1>9. /\ Cardinality(J) \in Nat /\ Cardinality(K) \in Nat
      /\ Cardinality(J \cup K) = Cardinality(J) + Cardinality(K)
  BY <1>4, <1>6, CountDisjoint
<1>10. size \in Int /\ ("sizeNow" \notin wrong => size = Cardinality(HeldBytes(torrent, have)))
  BY <1>5, <1>8, <1>9 DEF J
<1> HIDE DEF size
<1>11. CountsRight(torrent, d, dnd, wrong)
  BY <1>1, <1>3, <1>10, DirtyIsRight
<1> QED
  BY <1>2, <1>7, <1>11 DEF have

LEMMA SetHasPieceCounts ==
    ASSUME Laid(torrent), NEW dnd, NEW wrong, NEW c, CountsRight(torrent, c, dnd, wrong), NEW p \in Pieces(torrent),
           NEW has \in BOOLEAN
    PROVE  /\ CountsRight(torrent, SetHasPiece(c, p, has), dnd, wrong)
           /\ SetHasPiece(c, p, has).blocks
                = IF has THEN c.blocks \cup PieceBlocks(torrent, p) ELSE c.blocks \ PieceBlocks(torrent, p)
<1>1. CASE has
  BY <1>1, PieceAddCounts DEF SetHasPiece
<1>2. CASE ~has
  BY <1>2, PieceRemCounts DEF SetHasPiece
<1> QED
  BY <1>1, <1>2
-----------------------------------------------------------------------------
(* A turn of the verification.                                             *)

Checks ==
    [piece : Int, piecePos : Nat, file : Nat, filePos : Nat, had : BOOLEAN, changed : BOOLEAN,
     hashed : Nat, good : BOOLEAN, seen : SUBSET Nat, before : SUBSET Nat, touched : SUBSET Nat]

LeftInPiece(l, k) == PieceCountBytes(l, k.piece) - k.piecePos
LeftInFile(l, k) == l.lengths[k.file] - k.filePos
Wanted(l, k) == Lesser(Lesser(LeftInFile(l, k), LeftInPiece(l, k)), BufLen)

(* How far a turn that reads "read" bytes moves, and what it then has.     *)
Moves(l, k, read) == IF read > 0 THEN read ELSE Wanted(l, k)
GoodAfter(k, read, right) == k.good /\ (right \/ read = 0)
SeenAfter(l, k, read, right) ==
    LET pos == Offset(l, k.file) + k.filePos
    IN  IF right THEN k.seen \cup (pos .. pos + read - 1) ELSE k.seen
FoundAfter(l, k, read, right) ==
    GoodAfter(k, read, right) /\ k.hashed + read = PieceCountBytes(l, k.piece)

Turned(l, k, had, read, right) ==
    LET n == Moves(l, k, read)
        endOfPiece == n = LeftInPiece(l, k)
        endOfFile == n = LeftInFile(l, k)
    IN  [piece |-> IF endOfPiece THEN k.piece + 1 ELSE k.piece,
         piecePos |-> IF endOfPiece THEN 0 ELSE k.piecePos + n,
         file |-> IF endOfFile THEN k.file + 1 ELSE k.file,
         filePos |-> IF endOfFile THEN 0 ELSE k.filePos + n,
         had |-> had,
         changed |-> k.changed \/ (endOfPiece /\ FoundAfter(l, k, read, right) # had),
         hashed |-> IF endOfPiece THEN 0 ELSE k.hashed + read,
         good |-> IF endOfPiece THEN TRUE ELSE GoodAfter(k, read, right),
         seen |-> SeenAfter(l, k, read, right),
         before |-> k.before,
         touched |-> k.touched]

(* VerifyPass in these terms.                                              *)
HadBefore == IF check.piecePos = 0 THEN HasPiece(torrent, cp.blocks, check.piece) ELSE check.had

LEMMA PassTurns ==
    ASSUME check \in Checks, VerifyPass
    PROVE  \E read \in 0 .. Wanted(torrent, check), right \in BOOLEAN :
              /\ check' = Turned(torrent, check, HadBefore, read, right)
              /\ cp' = IF /\ Moves(torrent, check, read) = LeftInPiece(torrent, check)
                          /\ FoundAfter(torrent, check, read, right) \/ HadBefore
                       THEN SetHasPiece(cp, check.piece, FoundAfter(torrent, check, read, right))
                       ELSE cp
<1> DEFINE had == IF check.piecePos = 0 THEN HasPiece(torrent, cp.blocks, check.piece) ELSE check.had
           leftInPiece == PieceCountBytes(torrent, check.piece) - check.piecePos
           leftInFile == torrent.lengths[check.file] - check.filePos
           wanted == Lesser(Lesser(leftInFile, leftInPiece), BufLen)
           pos == Offset(torrent, check.file) + check.filePos
           sha(read, right) == HashBytes(check, pos, read, IF read > 0 THEN read ELSE wanted, right)
           found(read, right) ==
              sha(read, right).good /\ sha(read, right).hashed = PieceCountBytes(torrent, check.piece)
<1>1. PICK read \in 0 .. wanted, right \in BOOLEAN :
         LET n == IF read > 0 THEN read ELSE wanted
             endOfPiece == n = leftInPiece
             endOfFile == n = leftInFile
         IN  /\ check' = [sha(read, right) EXCEPT
                  !.had = had,
                  !.changed = @ \/ (endOfPiece /\ found(read, right) # had),
                  !.hashed = IF endOfPiece THEN 0 ELSE @,
                  !.good = IF endOfPiece THEN TRUE ELSE @,
                  !.piece = IF endOfPiece THEN @ + 1 ELSE @,
                  !.piecePos = IF endOfPiece THEN 0 ELSE @ + n,
                  !.file = IF endOfFile THEN @ + 1 ELSE @,
                  !.filePos = IF endOfFile THEN 0 ELSE @ + n]
             /\ cp' = IF endOfPiece /\ (found(read, right) \/ had)
                      THEN SetHasPiece(cp, check.piece, found(read, right)) ELSE cp
  BY Zenon DEF VerifyPass
<1> DEFINE n == IF read > 0 THEN read ELSE wanted
           k == sha(read, right)
           f == found(read, right)
<1>2. /\ had = HadBefore /\ leftInPiece = LeftInPiece(torrent, check)
      /\ leftInFile = LeftInFile(torrent, check) /\ wanted = Wanted(torrent, check)
      /\ n = Moves(torrent, check, read)
  BY DEF HadBefore, LeftInPiece, LeftInFile, Wanted, Moves
<1>3. k = [check EXCEPT !.hashed = check.hashed + read, !.good = GoodAfter(check, read, right),
                        !.seen = SeenAfter(torrent, check, read, right)]
  BY DEF HashBytes, GoodAfter, SeenAfter
<1>4. f <=> k.good /\ k.hashed = PieceCountBytes(torrent, check.piece)
  OBVIOUS
<1>5. /\ check' = [k EXCEPT
                  !.had = had,
                  !.changed = @ \/ (n = leftInPiece /\ f # had),
                  !.hashed = IF n = leftInPiece THEN 0 ELSE @,
                  !.good = IF n = leftInPiece THEN TRUE ELSE @,
                  !.piece = IF n = leftInPiece THEN @ + 1 ELSE @,
                  !.piecePos = IF n = leftInPiece THEN 0 ELSE @ + n,
                  !.file = IF n = leftInFile THEN @ + 1 ELSE @,
                  !.filePos = IF n = leftInFile THEN 0 ELSE @ + n]
      /\ cp' = IF n = leftInPiece /\ (f \/ had) THEN SetHasPiece(cp, check.piece, f) ELSE cp
  BY <1>1, Zenon
<1> HIDE DEF had, leftInPiece, leftInFile, n, k, f, wanted
<1>6. check = [piece |-> check.piece, piecePos |-> check.piecePos, file |-> check.file,
               filePos |-> check.filePos, had |-> check.had, changed |-> check.changed,
               hashed |-> check.hashed, good |-> check.good, seen |-> check.seen,
               before |-> check.before, touched |-> check.touched]
  BY DEF Checks
<1>7. k = [piece |-> check.piece, piecePos |-> check.piecePos, file |-> check.file,
           filePos |-> check.filePos, had |-> check.had, changed |-> check.changed,
           hashed |-> check.hashed + read, good |-> GoodAfter(check, read, right),
           seen |-> SeenAfter(torrent, check, read, right), before |-> check.before,
           touched |-> check.touched]
  BY <1>3, <1>6
<1>8. f <=> FoundAfter(torrent, check, read, right)
  BY <1>4, <1>7 DEF FoundAfter
<1>9. f = FoundAfter(torrent, check, read, right)
  BY <1>8 DEF f, FoundAfter
<1>10. check' = Turned(torrent, check, had, read, right)
  <2>1. check' = [piece |-> IF n = leftInPiece THEN check.piece + 1 ELSE check.piece,
                  piecePos |-> IF n = leftInPiece THEN 0 ELSE check.piecePos + n,
                  file |-> IF n = leftInFile THEN check.file + 1 ELSE check.file,
                  filePos |-> IF n = leftInFile THEN 0 ELSE check.filePos + n,
                  had |-> had,
                  changed |-> check.changed \/ (n = leftInPiece /\ f # had),
                  hashed |-> IF n = leftInPiece THEN 0 ELSE check.hashed + read,
                  good |-> IF n = leftInPiece THEN TRUE ELSE GoodAfter(check, read, right),
                  seen |-> SeenAfter(torrent, check, read, right), before |-> check.before,
                  touched |-> check.touched]
    <3> DEFINE changed == k.changed \/ (n = leftInPiece /\ f # had)
               hashed == IF n = leftInPiece THEN 0 ELSE k.hashed
               good == IF n = leftInPiece THEN TRUE ELSE k.good
               piece == IF n = leftInPiece THEN k.piece + 1 ELSE k.piece
               piecePos == IF n = leftInPiece THEN 0 ELSE k.piecePos + n
               file == IF n = leftInFile THEN k.file + 1 ELSE k.file
               filePos == IF n = leftInFile THEN 0 ELSE k.filePos + n
               sum == check.hashed + read
               ok == GoodAfter(check, read, right)
               seen == SeenAfter(torrent, check, read, right)
    <3>1. check' = [k EXCEPT !.had = had, !.changed = changed, !.hashed = hashed, !.good = good,
                             !.piece = piece, !.piecePos = piecePos, !.file = file,
                             !.filePos = filePos]
      BY <1>5, Zenon
    <3>2. k = [piece |-> check.piece, piecePos |-> check.piecePos, file |-> check.file,
               filePos |-> check.filePos, had |-> check.had, changed |-> check.changed,
               hashed |-> sum, good |-> ok, seen |-> seen, before |-> check.before,
               touched |-> check.touched]
      BY <1>7
    <3>3. /\ k.piece = check.piece /\ k.piecePos = check.piecePos /\ k.file = check.file
          /\ k.filePos = check.filePos /\ k.changed = check.changed /\ k.hashed = sum
          /\ k.good = ok
      <4> HIDE DEF changed, hashed, good, piece, piecePos, file, filePos, sum, ok, seen
      <4> QED
        BY <3>2
    <3>4. /\ changed = (check.changed \/ (n = leftInPiece /\ f # had))
          /\ hashed = (IF n = leftInPiece THEN 0 ELSE sum)
          /\ good = (IF n = leftInPiece THEN TRUE ELSE ok)
          /\ piece = (IF n = leftInPiece THEN check.piece + 1 ELSE check.piece)
          /\ piecePos = (IF n = leftInPiece THEN 0 ELSE check.piecePos + n)
          /\ file = (IF n = leftInFile THEN check.file + 1 ELSE check.file)
          /\ filePos = (IF n = leftInFile THEN 0 ELSE check.filePos + n)
      BY <3>3, Zenon
    <3>5. check' = [piece |-> piece, piecePos |-> piecePos, file |-> file, filePos |-> filePos,
                    had |-> had, changed |-> changed, hashed |-> hashed, good |-> good,
                    seen |-> seen, before |-> check.before, touched |-> check.touched]
      <4> HIDE DEF changed, hashed, good, piece, piecePos, file, filePos, sum, ok, seen
      <4> QED
        BY <3>1, <3>2
    <3> HIDE DEF changed, hashed, good, piece, piecePos, file, filePos
    <3> QED
      BY <3>4, <3>5, Zenon
  <2> QED
    BY <1>2, <1>9, <2>1, Zenon DEF Turned
<1>11. read \in 0 .. Wanted(torrent, check)
  BY <1>2
<1> QED
  BY <1>2, <1>5, <1>9, <1>10, <1>11

(* Where a turn begins: at a byte of the piece, which is the one at that   *)
(* place of the file.                                                      *)
InPlace(l, k) ==
    /\ k.piece \in Pieces(l) /\ k.piecePos < PieceCountBytes(l, k.piece)
    /\ k.file \in Files(l) /\ k.filePos <= l.lengths[k.file]
    /\ Offset(l, k.file) + k.filePos = UnitAt(l.pieceSize, k.piece) + k.piecePos

LEMMA PieceLies ==
    ASSUME NEW l, Laid(l), NEW p \in Pieces(l)
    PROVE  /\ UnitAt(l.pieceSize, p) \in Nat /\ PieceCountBytes(l, p) \in Nat \ {0}
           /\ UnitAt(l.pieceSize, p) + PieceCountBytes(l, p) <= TotalSize(l)
           /\ PieceBytes(l, p) = UnitAt(l.pieceSize, p)
                                   .. UnitAt(l.pieceSize, p) + PieceCountBytes(l, p) - 1
           /\ p + 1 \in Pieces(l) =>
                 UnitAt(l.pieceSize, p + 1) = UnitAt(l.pieceSize, p) + PieceCountBytes(l, p)
           /\ p + 1 \notin Pieces(l) =>
                 TotalSize(l) = UnitAt(l.pieceSize, p) + PieceCountBytes(l, p)
           /\ PieceCount(l) \in Nat \ {0} /\ Pieces(l) = 0 .. PieceCount(l) - 1
<1> DEFINE T == TotalSize(l)
           s == l.pieceSize
           at == UnitAt(s, p)
           n == PieceCountBytes(l, p)
           u == Units(T, s)
           d == (T - 1) \div s
<1>1. T \in Nat \ {0} /\ s \in Nat \ {0} /\ Pieces(l) = 0 .. u - 1 /\ n = UnitSize(T, s, p)
      /\ u = PieceCount(l)
  BY UnitsOfTorrent DEF PieceCount
<1>2. PieceBytes(l, p) = {x \in 0 .. T - 1 : x \div s = p}
  BY DEF PieceBytes, Bytes
<1> HIDE DEF T, s, n
<1>3. 0 \in 0 .. T - 1
  BY <1>1
<1>4. u \in Nat \ {0}
  BY <1>1, <1>3, UnitsCover
<1>5. /\ at \in Nat /\ n \in 1 .. s /\ at + n <= T
      /\ \A x \in 0 .. T - 1 : x \div s = p <=> at <= x /\ x < at + n
  <2>1. p \in 0 .. Units(T, s) - 1 /\ n = UnitSize(T, s, p)
    BY <1>1
  <2> HIDE DEF u, d, at
  <2>2. /\ UnitAt(s, p) \in Nat /\ UnitSize(T, s, p) \in 1 .. s
        /\ UnitAt(s, p) + UnitSize(T, s, p) <= T
        /\ \A x \in 0 .. T - 1 :
              x \div s = p <=> /\ UnitAt(s, p) <= x
                              /\ x < UnitAt(s, p) + UnitSize(T, s, p)
    BY <1>1, <2>1, UnitsTile
  <2> QED
    BY <2>1, <2>2 DEF at
<1>6. u = d + 1 /\ d \in Nat /\ UnitAt(s, d) \in Nat /\ UnitAt(s, d) + LastUnit(T, s) = T
  BY <1>1, UnitsAre, LastUnitEnds
<1> HIDE DEF u, d
<1>7. p \in Nat /\ p < u
  BY <1>1, <1>4
<1>8. ASSUME p + 1 \in Pieces(l) PROVE UnitAt(s, p + 1) = at + n
  <2>1. p + 1 # u
    BY <1>1, <1>4, <1>7, <1>8
  <2>2. n = s
    BY <1>1, <2>1 DEF UnitSize, u
  <2>3. s * (p + 1) = s * p + s
    BY <1>1, <1>7
  <2> QED
    BY <2>2, <2>3 DEF UnitAt
<1>9. ASSUME p + 1 \notin Pieces(l) PROVE T = at + n
  <2>1. p + 1 = u
    BY <1>1, <1>4, <1>7, <1>9
  <2>2. n = LastUnit(T, s)
    BY <1>1, <2>1 DEF UnitSize, u
  <2>3. p = d
    BY <1>6, <1>7, <2>1
  <2> QED
    BY <1>6, <2>2, <2>3
<1> HIDE DEF at
<1>10. PieceBytes(l, p) = at .. at + n - 1
  <2>1. at \in Nat /\ n \in Nat /\ T \in Nat /\ at + n <= T
    BY <1>1, <1>5
  <2>2. \A x \in at .. at + n - 1 : x \in 0 .. T - 1 /\ at <= x /\ x < at + n
    BY <2>1
  <2>3. \A x \in 0 .. T - 1 : at <= x /\ x < at + n => x \in at .. at + n - 1
    BY <2>1
  <2> QED
    BY <1>2, <1>5, <2>2, <2>3
<1> QED
  BY <1>1, <1>4, <1>5, <1>8, <1>9, <1>10 DEF T, s, n, at

(* What there is to move within.                                           *)
LEMMA PlaceLeaves ==
    ASSUME NEW l, Laid(l), NEW k \in Checks, InPlace(l, k)
    PROVE  /\ LeftInPiece(l, k) \in Nat \ {0} /\ LeftInFile(l, k) \in Nat /\ Wanted(l, k) \in Nat
           /\ Wanted(l, k) <= LeftInPiece(l, k) /\ Wanted(l, k) <= LeftInFile(l, k)
           /\ Offset(l, k.file) \in Nat /\ k.piece \in Nat
           /\ k.piecePos \in Nat /\ k.filePos \in Nat /\ k.file \in Nat /\ k.hashed \in Nat
<1>1. PieceCountBytes(l, k.piece) \in Nat /\ PieceCount(l) \in Nat /\ Pieces(l) = 0 .. PieceCount(l) - 1
  BY PieceLies DEF InPlace
<1>2. k.file \in 1 .. Len(l.lengths) /\ l.lengths \in Seq(Nat)
  BY DEF InPlace, Files, Laid
<1>3. Offset(l, k.file) \in Nat /\ l.lengths[k.file] \in Nat
  BY <1>2, FilesLie
<1>4. k.piecePos \in Nat /\ k.filePos \in Nat /\ k.file \in Nat /\ k.hashed \in Nat
  BY DEF Checks
<1>5. LeftInPiece(l, k) \in Nat \ {0} /\ LeftInFile(l, k) \in Nat
  <2> DEFINE a == PieceCountBytes(l, k.piece)
             b == k.piecePos
             c == l.lengths[k.file]
             d == k.filePos
  <2>1. b < a /\ d <= c
    BY Zenon DEF InPlace
  <2>2. LeftInPiece(l, k) = a - b /\ LeftInFile(l, k) = c - d
    BY DEF LeftInPiece, LeftInFile
  <2>3. a \in Nat /\ b \in Nat /\ c \in Nat /\ d \in Nat
    BY <1>1, <1>3, <1>4
  <2> HIDE DEF a, b, c, d
  <2> QED
    BY <2>1, <2>2, <2>3
<1>6. BufLen \in Nat
  BY ContentsAssumption
<1>7. k.piece \in Nat
  BY <1>1 DEF InPlace
<1>8. Wanted(l, k) \in Nat /\ Wanted(l, k) <= LeftInPiece(l, k) /\ Wanted(l, k) <= LeftInFile(l, k)
  BY <1>5, <1>6 DEF Wanted, Lesser
<1> QED
  BY <1>3, <1>4, <1>5, <1>7, <1>8

LEMMA TurnTyped ==
    ASSUME NEW l, Laid(l), NEW k \in Checks, InPlace(l, k), NEW read \in 0 .. Wanted(l, k),
           NEW had \in BOOLEAN, NEW right \in BOOLEAN
    PROVE  /\ Turned(l, k, had, read, right) \in Checks
           /\ Moves(l, k, read) \in Nat
           /\ Moves(l, k, read) <= LeftInPiece(l, k) /\ Moves(l, k, read) <= LeftInFile(l, k)
           /\ read <= Moves(l, k, read) /\ read \in Nat
<1> DEFINE n == Moves(l, k, read)
           pos == Offset(l, k.file) + k.filePos
<1>1. /\ Wanted(l, k) \in Nat /\ Wanted(l, k) <= LeftInPiece(l, k) /\ Wanted(l, k) <= LeftInFile(l, k)
      /\ k.piece \in Nat /\ k.piecePos \in Nat /\ k.filePos \in Nat /\ k.file \in Nat
      /\ k.hashed \in Nat /\ Offset(l, k.file) \in Nat
      /\ LeftInPiece(l, k) \in Nat /\ LeftInFile(l, k) \in Nat
  BY PlaceLeaves
<1>2. read \in Nat /\ n \in Nat /\ n <= LeftInPiece(l, k) /\ n <= LeftInFile(l, k) /\ read <= n
  BY <1>1 DEF Moves
<1>3. k.seen \in SUBSET Nat /\ k.before \in SUBSET Nat /\ k.changed \in BOOLEAN /\ k.good \in BOOLEAN
      /\ k.touched \in SUBSET Nat
  BY DEF Checks
<1>4. pos \in Nat /\ pos .. pos + read - 1 \in SUBSET Nat
  BY <1>1, <1>2
<1> HIDE DEF n, pos
<1>5. SeenAfter(l, k, read, right) \in SUBSET Nat
  BY <1>3, <1>4 DEF SeenAfter, pos
<1>6. GoodAfter(k, read, right) \in BOOLEAN
  BY DEF GoodAfter
<1>7. Turned(l, k, had, read, right) \in Checks
  <2> DEFINE end == n = LeftInPiece(l, k)
             endOfFile == n = LeftInFile(l, k)
             changed == k.changed \/ (end /\ FoundAfter(l, k, read, right) # had)
             good == IF end THEN TRUE ELSE GoodAfter(k, read, right)
             hashed == IF end THEN 0 ELSE k.hashed + read
             piece == IF end THEN k.piece + 1 ELSE k.piece
             piecePos == IF end THEN 0 ELSE k.piecePos + n
             file == IF endOfFile THEN k.file + 1 ELSE k.file
             filePos == IF endOfFile THEN 0 ELSE k.filePos + n
  <2>1. changed \in BOOLEAN /\ good \in BOOLEAN
    BY <1>6
  <2>2. hashed \in Nat /\ piece \in Int /\ piecePos \in Nat /\ file \in Nat /\ filePos \in Nat
    BY <1>1, <1>2
  <2>3. Turned(l, k, had, read, right) =
          [piece |-> piece, piecePos |-> piecePos, file |-> file, filePos |-> filePos, had |-> had,
           changed |-> changed, hashed |-> hashed, good |-> good,
           seen |-> SeenAfter(l, k, read, right), before |-> k.before, touched |-> k.touched]
    BY Zenon DEF Turned, n
  <2> HIDE DEF changed, good, hashed, piece, piecePos, file, filePos
  <2> QED
    BY <1>3, <1>5, <2>1, <2>2, <2>3 DEF Checks
<1> QED
  BY <1>2, <1>7 DEF n

(* The next turn begins where this one ends, or the pieces are through.    *)
LEMMA TurnInPlace ==
    ASSUME NEW l, Laid(l), NEW k \in Checks, InPlace(l, k), NEW read \in 0 .. Wanted(l, k),
           NEW had \in BOOLEAN, NEW right \in BOOLEAN,
           NEW kk, kk = Turned(l, k, had, read, right)
    PROVE  kk.piece \in 0 .. PieceCount(l) /\ (kk.piece < PieceCount(l) => InPlace(l, kk))
<1> DEFINE n == Moves(l, k, read)
           p == k.piece
           at == UnitAt(l.pieceSize, p)
           size == PieceCountBytes(l, p)
           T == TotalSize(l)
           m == Len(l.lengths)
           f == k.file
           off == Offset(l, f)
           len == l.lengths[f]
<1>1. /\ n \in Nat /\ n <= LeftInPiece(l, k) /\ n <= LeftInFile(l, k)
  BY TurnTyped
<1>2. /\ LeftInPiece(l, k) = size - k.piecePos /\ LeftInFile(l, k) = len - k.filePos
      /\ k.piecePos \in Nat /\ k.filePos \in Nat
  BY DEF LeftInPiece, LeftInFile, Checks
<1>3. p \in Pieces(l) /\ k.piecePos < size /\ k.filePos <= len /\ off + k.filePos = at + k.piecePos
  BY DEF InPlace
<1>4. /\ at \in Nat /\ size \in Nat \ {0} /\ at + size <= T
      /\ PieceCount(l) \in Nat \ {0} /\ Pieces(l) = 0 .. PieceCount(l) - 1
      /\ p + 1 \in Pieces(l) => UnitAt(l.pieceSize, p + 1) = at + size
      /\ p + 1 \notin Pieces(l) => T = at + size
  BY <1>3, PieceLies
<1>5. f \in 1 .. m /\ m \in Nat /\ l.lengths \in Seq(Nat) /\ T \in Nat
  BY DEF InPlace, Files, Laid
<1>6. off \in Nat /\ len \in Nat /\ (f = m => T = off + len)
      /\ (f + 1 \in 1 .. m => Offset(l, f + 1) = off + len)
  <2>1. off \in Nat /\ len \in Nat /\ (f = m => T = End(l, f))
    BY <1>5, FilesLie
  <2>2. ASSUME f + 1 \in 1 .. m PROVE Offset(l, f + 1) = End(l, f)
    <3> DEFINE g == f + 1
    <3>1. g \in 1 .. m /\ g # 1 /\ g - 1 = f
      BY <1>5, <2>2
    <3> HIDE DEF g
    <3>2. Offset(l, g) = End(l, g - 1)
      BY <1>5, <3>1, FilesLie
    <3> QED
      BY <3>1, <3>2 DEF g
  <2> QED
    BY <2>1, <2>2 DEF End
<1>7. /\ kk.piece = IF n = LeftInPiece(l, k) THEN p + 1 ELSE p
      /\ kk.piecePos = IF n = LeftInPiece(l, k) THEN 0 ELSE k.piecePos + n
      /\ kk.file = IF n = LeftInFile(l, k) THEN f + 1 ELSE f
      /\ kk.filePos = IF n = LeftInFile(l, k) THEN 0 ELSE k.filePos + n
  BY DEF Turned
<1> HIDE DEF n, at, size, T, m, off, len, p, f
<1>8. kk.piece \in 0 .. PieceCount(l) /\ p \in Nat
  BY <1>3, <1>4, <1>7
<1>9. ASSUME kk.piece < PieceCount(l) PROVE InPlace(l, kk)
  <2> DEFINE at2 == UnitAt(l.pieceSize, kk.piece)
             size2 == PieceCountBytes(l, kk.piece)
  <2>1. kk.piece \in Pieces(l)
    BY <1>4, <1>8, <1>9
  <2>2. at2 \in Nat /\ size2 \in Nat \ {0} /\ at2 + size2 <= T
    BY <2>1, PieceLies DEF T
  <2>3. at2 + kk.piecePos = at + k.piecePos + n /\ kk.piecePos \in Nat /\ kk.piecePos < size2
    <3>1. CASE n = LeftInPiece(l, k)
      <4>1. kk.piece = p + 1 /\ kk.piecePos = 0
        BY <1>7, <3>1
      <4>2. at2 = at + size
        BY <1>4, <2>1, <4>1
      <4> HIDE DEF at2, size2
      <4> QED
        BY <1>1, <1>2, <1>4, <2>2, <3>1, <4>1, <4>2
    <3>2. CASE n # LeftInPiece(l, k)
      <4>1. kk.piece = p /\ kk.piecePos = k.piecePos + n
        BY <1>7, <3>2
      <4>2. at2 = at /\ size2 = size
        BY <4>1 DEF at, size
      <4> HIDE DEF at2, size2
      <4>3. n < size - k.piecePos
        BY <1>1, <1>2, <1>4, <3>2
      <4>4. k.piecePos + n < size /\ k.piecePos + n \in Nat
        BY <1>1, <1>2, <1>4, <4>3
      <4> QED
        BY <1>1, <1>2, <1>4, <4>1, <4>2, <4>4
    <3> QED
      BY <3>1, <3>2
  <2> HIDE DEF at2, size2
  <2>4. at + k.piecePos + n < T
    <3> DEFINE x == at + k.piecePos + n
               z == kk.piecePos
    <3>1. x = at2 + z /\ z \in Nat /\ z < size2
      BY <2>3
    <3>2. T \in Int
      BY <1>5
    <3> HIDE DEF x, z
    <3>3. x < T
      BY <2>2, <3>1, <3>2
    <3> QED
      BY <3>3 DEF x
  <2>5. kk.file \in 1 .. m /\ kk.filePos <= l.lengths[kk.file]
        /\ Offset(l, kk.file) + kk.filePos = off + k.filePos + n
    <3>1. CASE n = LeftInFile(l, k)
      <4>1. kk.file = f + 1 /\ kk.filePos = 0 /\ off + k.filePos + n = off + len
        BY <1>1, <1>2, <1>6, <1>7, <3>1
      <4>2. off + len < T
        BY <1>1, <1>2, <1>3, <1>4, <1>6, <2>4, <4>1
      <4>3. f + 1 \in 1 .. m
        BY <1>5, <1>6, <4>2
      <4>4. Offset(l, kk.file) = off + len /\ l.lengths[kk.file] \in Nat
        <5> DEFINE g == f + 1
        <5>1. g \in 1 .. m /\ Offset(l, g) = off + len /\ kk.file = g
          BY <1>6, <4>1, <4>3
        <5> HIDE DEF g
        <5>2. l.lengths[g] \in Nat
          BY <1>5, <5>1, FilesLie DEF m
        <5> QED
          BY <5>1, <5>2
      <4> QED
        BY <1>6, <4>1, <4>3, <4>4
    <3>2. CASE n # LeftInFile(l, k)
      <4>1. kk.file = f /\ kk.filePos = k.filePos + n
        BY <1>7, <3>2
      <4>2. k.filePos + n <= len
        BY <1>1, <1>2, <1>6
      <4>3. Offset(l, kk.file) = off /\ l.lengths[kk.file] = len
        BY <4>1 DEF off, len
      <4> QED
        BY <1>1, <1>2, <1>5, <1>6, <4>1, <4>2, <4>3
    <3> QED
      BY <3>1, <3>2
  <2>6. Offset(l, kk.file) + kk.filePos = at2 + kk.piecePos
    BY <1>1, <1>2, <1>3, <1>4, <1>6, <2>3, <2>5
  <2> QED
    BY <2>1, <2>3, <2>5, <2>6 DEF InPlace, Files, at2, size2, m
<1> QED
  BY <1>8, <1>9

(* What has been seen and hashed of the piece when a turn begins: the hash *)
(* is made of all its bytes so far, all right, if all of them were seen.   *)
HashedRight(l, k) ==
    LET at == UnitAt(l.pieceSize, k.piece)
        pos == at + k.piecePos
    IN  /\ k.hashed <= k.piecePos
        /\ k.seen \subseteq 0 .. pos - 1
        /\ k.good /\ k.hashed = k.piecePos <=> at .. pos - 1 \subseteq k.seen

(* A turn sees only bytes of its piece, knows at the end of the piece      *)
(* whether it is right, and the hash begins anew with the next.            *)
LEMMA TurnHashes ==
    ASSUME NEW l, Laid(l), NEW k \in Checks, InPlace(l, k), HashedRight(l, k),
           NEW read \in 0 .. Wanted(l, k), NEW had \in BOOLEAN, NEW right \in BOOLEAN,
           NEW kk, kk = Turned(l, k, had, read, right)
    PROVE  /\ kk.piece < PieceCount(l) => HashedRight(l, kk)
           /\ Moves(l, k, read) = LeftInPiece(l, k) =>
                 (FoundAfter(l, k, read, right) <=> PieceBytes(l, k.piece) \subseteq kk.seen)
           /\ \A p \in Pieces(l) : p # k.piece =>
                 (PieceBytes(l, p) \subseteq kk.seen <=> PieceBytes(l, p) \subseteq k.seen)
<1> DEFINE n == Moves(l, k, read)
           at == UnitAt(l.pieceSize, k.piece)
           size == PieceCountBytes(l, k.piece)
           m == k.piecePos
           hashed == k.hashed
           pos == Offset(l, k.file) + k.filePos
           after == SeenAfter(l, k, read, right)
           new == pos .. pos + read - 1
<1>1. /\ n \in Nat /\ n <= LeftInPiece(l, k) /\ read <= n /\ read \in Nat
  BY TurnTyped
<1>2. n = IF read > 0 THEN read ELSE Wanted(l, k)
  BY DEF Moves
<1>3. m \in Nat /\ hashed \in Nat /\ k.good \in BOOLEAN /\ k.seen \in SUBSET Nat
  BY DEF Checks
<1>4. k.piece \in Pieces(l) /\ pos = at + m /\ m < size
  BY DEF InPlace
<1>5. /\ at \in Nat /\ size \in Nat \ {0} /\ at + size <= TotalSize(l)
      /\ PieceBytes(l, k.piece) = at .. at + size - 1
      /\ k.piece + 1 \in Pieces(l) => UnitAt(l.pieceSize, k.piece + 1) = at + size
      /\ PieceCount(l) \in Nat \ {0} /\ Pieces(l) = 0 .. PieceCount(l) - 1
  BY <1>4, PieceLies
<1>6. /\ hashed <= m /\ k.seen \subseteq 0 .. pos - 1
      /\ k.good /\ hashed = m <=> at .. pos - 1 \subseteq k.seen
  BY <1>4 DEF HashedRight
<1>7. LeftInPiece(l, k) = size - m
  BY DEF LeftInPiece
<1>8. /\ kk.piece = IF n = LeftInPiece(l, k) THEN k.piece + 1 ELSE k.piece
      /\ kk.piecePos = IF n = LeftInPiece(l, k) THEN 0 ELSE k.piecePos + n
      /\ kk.hashed = IF n = LeftInPiece(l, k) THEN 0 ELSE k.hashed + read
      /\ kk.good = IF n = LeftInPiece(l, k) THEN TRUE ELSE GoodAfter(k, read, right)
      /\ kk.seen = after
  BY DEF Turned
<1>9. (right => after = k.seen \cup new) /\ (~right => after = k.seen)
  BY DEF SeenAfter
<1>10. FoundAfter(l, k, read, right) <=> k.good /\ (right \/ read = 0) /\ hashed + read = size
  BY DEF FoundAfter, GoodAfter
<1>11. GoodAfter(k, read, right) <=> k.good /\ (right \/ read = 0)
  BY DEF GoodAfter
<1> HIDE DEF n, at, size, after, m, hashed, pos
<1> DEFINE end == pos + n
           endPos == m + n
           hashedNow == hashed + read
           goodNow == GoodAfter(k, read, right)
<1>12. /\ pos \in Nat /\ n \in Nat /\ size \in Nat /\ at \in Nat /\ m \in Nat /\ pos = at + m
       /\ read \in Nat /\ read <= n /\ (read > 0 => read = n)
  BY <1>1, <1>2, <1>3, <1>4, <1>5
<1>13. n <= size - m /\ (n = LeftInPiece(l, k) <=> n = size - m)
  BY <1>1, <1>7
<1>14. /\ end \in Nat /\ endPos \in Nat /\ end = at + endPos
       /\ n = LeftInPiece(l, k) => endPos = size /\ end = at + size
       /\ at <= pos /\ end <= at + size
  BY <1>12, <1>13
<1>15. hashedNow <= endPos
  BY <1>3, <1>6, <1>12
<1>16. goodNow <=> k.good /\ (right \/ read = 0)
  BY <1>11
<1>17. /\ end = pos + n /\ pos <= end /\ endPos = m + n /\ hashedNow = hashed + read /\ new = pos .. pos + read - 1
       /\ (endPos = m <=> n = 0) /\ hashedNow \in Nat
  BY <1>3, <1>12
<1> HIDE DEF end, endPos, hashedNow, goodNow, new
<1>18. new \subseteq pos .. end - 1
  BY <1>12, <1>14, <1>17
<1>19. after \subseteq 0 .. end - 1
  <2>1. 0 .. pos - 1 \subseteq 0 .. end - 1 /\ pos .. end - 1 \subseteq 0 .. end - 1
    BY <1>12, <1>14, <1>17
  <2> QED
    BY <1>6, <1>9, <1>18, <2>1
<1>20. ASSUME n = 0 PROVE goodNow /\ hashedNow = endPos <=> at .. end - 1 \subseteq after
  <2>1. read = 0 /\ new = {} /\ end = pos
    BY <1>12, <1>17, <1>20
  <2>2. after = k.seen
    BY <1>9, <2>1
  <2>3. hashedNow = endPos <=> hashed = m
    BY <1>3, <1>12, <1>17, <1>20, <2>1
  <2> QED
    BY <1>6, <1>16, <2>1, <2>2, <2>3
<1>21. ASSUME n # 0, read = 0 \/ ~right
       PROVE  goodNow /\ hashedNow = endPos <=> at .. end - 1 \subseteq after
  <2>1. pos \in at .. end - 1
    BY <1>12, <1>14, <1>17, <1>21
  <2>2. pos \notin k.seen
    BY <1>6, <1>12
  <2>3. read = 0 => new = {} /\ hashedNow # endPos
    BY <1>3, <1>6, <1>12, <1>17, <1>21
  <2>4. after = k.seen
    BY <1>9, <1>21, <2>3
  <2> QED
    BY <1>16, <1>21, <2>1, <2>2, <2>3, <2>4
<1>22. ASSUME n # 0, read # 0, right
       PROVE  goodNow /\ hashedNow = endPos <=> at .. end - 1 \subseteq after
  <2>1. read = n
    BY <1>12, <1>22
  <2>2. after = k.seen \cup (pos .. end - 1)
    BY <1>9, <1>12, <1>17, <1>22, <2>1
  <2>3. hashedNow = endPos <=> hashed = m
    BY <1>3, <1>12, <1>17, <2>1
  <2>4. at .. end - 1 = (at .. pos - 1) \cup (pos .. end - 1)
    BY <1>12, <1>14, <1>17
  <2>5. \A x \in at .. pos - 1 : x \notin pos .. end - 1
    BY <1>12, <1>14
  <2>6. at .. end - 1 \subseteq after <=> at .. pos - 1 \subseteq k.seen
    BY <2>2, <2>4, <2>5
  <2> QED
    BY <1>6, <1>16, <1>22, <2>3, <2>6
<1>23. goodNow /\ hashedNow = endPos <=> at .. end - 1 \subseteq after
  BY <1>20, <1>21, <1>22
<1>24. ASSUME n = LeftInPiece(l, k)
       PROVE  FoundAfter(l, k, read, right) <=> PieceBytes(l, k.piece) \subseteq kk.seen
  <2>1. endPos = size /\ end = at + size
    BY <1>14, <1>24
  <2>2. PieceBytes(l, k.piece) = at .. end - 1
    BY <1>5, <2>1
  <2>3. FoundAfter(l, k, read, right) <=> goodNow /\ hashedNow = endPos
    BY <1>10, <1>11, <2>1 DEF goodNow, hashedNow
  <2> QED
    BY <1>8, <1>23, <2>2, <2>3
<1>25. ASSUME n = LeftInPiece(l, k), kk.piece < PieceCount(l) PROVE HashedRight(l, kk)
  <2> DEFINE at2 == UnitAt(l.pieceSize, kk.piece)
             pos2 == at2 + kk.piecePos
  <2>1. kk.piece = k.piece + 1 /\ kk.piecePos = 0 /\ kk.hashed = 0 /\ kk.good = TRUE /\ kk.seen = after
    BY <1>8, <1>25
  <2>2. k.piece + 1 \in Pieces(l)
    <3> DEFINE c == PieceCount(l)
    <3>1. c \in Nat \ {0} /\ Pieces(l) = 0 .. c - 1 /\ k.piece \in 0 .. c - 1 /\ k.piece + 1 < c
      BY <1>4, <1>5, <1>25, <2>1
    <3> HIDE DEF c
    <3> QED
      BY <3>1
  <2>3. at2 = end
    BY <1>5, <1>14, <1>25, <2>1, <2>2
  <2> HIDE DEF at2
  <2>4. pos2 = end /\ at2 .. pos2 - 1 = {}
    BY <1>14, <2>1, <2>3
  <2> HIDE DEF pos2
  <2>5. /\ kk.hashed <= kk.piecePos
        /\ kk.seen \subseteq 0 .. pos2 - 1
        /\ kk.good /\ kk.hashed = kk.piecePos <=> at2 .. pos2 - 1 \subseteq kk.seen
    BY <1>19, <2>1, <2>4
  <2> QED
    BY <2>5, Zenon DEF HashedRight, at2, pos2
<1>26. ASSUME n # LeftInPiece(l, k) PROVE HashedRight(l, kk)
  <2> DEFINE at2 == UnitAt(l.pieceSize, kk.piece)
             pos2 == at2 + kk.piecePos
  <2>1. kk.piece = k.piece /\ kk.piecePos = endPos /\ kk.hashed = hashedNow
        /\ kk.good = goodNow /\ kk.seen = after
    BY <1>8, <1>26 DEF m, hashed, endPos, hashedNow, goodNow
  <2>2. at2 = at
    BY <2>1 DEF at
  <2> HIDE DEF at2
  <2>3. pos2 = end
    BY <1>14, <2>1, <2>2
  <2> HIDE DEF pos2
  <2>4. /\ kk.hashed <= kk.piecePos
        /\ kk.seen \subseteq 0 .. pos2 - 1
        /\ kk.good /\ kk.hashed = kk.piecePos <=> at2 .. pos2 - 1 \subseteq kk.seen
    BY <1>15, <1>19, <1>23, <2>1, <2>2, <2>3
  <2> QED
    BY <2>4, Zenon DEF HashedRight, at2, pos2
<1>27. ASSUME NEW p \in Pieces(l), p # k.piece
       PROVE  PieceBytes(l, p) \subseteq kk.seen <=> PieceBytes(l, p) \subseteq k.seen
  <2>1. pos .. end - 1 \subseteq PieceBytes(l, k.piece)
    <3>1. at <= pos /\ end <= at + size /\ pos \in Nat /\ end \in Nat /\ at \in Nat /\ size \in Nat
      BY <1>12, <1>14
    <3>2. pos .. end - 1 \subseteq at .. at + size - 1
      BY <3>1
    <3> QED
      BY <1>5, <3>2
  <2>2. new \subseteq PieceBytes(l, k.piece)
    BY <1>18, <2>1
  <2>3. \A x \in PieceBytes(l, p) : x \notin new
    BY <1>27, <2>2 DEF PieceBytes
  <2> QED
    BY <1>8, <1>9, <2>3
<1> QED
  BY <1>24, <1>25, <1>26, <1>27 DEF n

(* Setting a piece leaves the others what they are.                        *)
LEMMA PieceSet ==
    ASSUME NEW l, Laid(l), NEW have \in SUBSET AllBlocks(l), NEW p \in Pieces(l)
    PROVE  /\ HasPiece(l, have \cup PieceBlocks(l, p), p)
           /\ ~HasPiece(l, have \ PieceBlocks(l, p), p)
           /\ \A q \in Pieces(l) : q # p =>
                 /\ HasPiece(l, have \cup PieceBlocks(l, p), q) <=> HasPiece(l, have, q)
                 /\ HasPiece(l, have \ PieceBlocks(l, p), q) <=> HasPiece(l, have, q)
<1>1. \A q \in Pieces(l) : q # p => PieceBlocks(l, q) \cap PieceBlocks(l, p) = {}
  <2>1. ASSUME NEW q \in Pieces(l), NEW b \in PieceBlocks(l, q), b \in PieceBlocks(l, p) PROVE q = p
    <3>1. b \in AllBlocks(l)
      BY PieceOfBlocks
    <3> DEFINE x == b * BlockSize(l)
    <3>2. \A r \in Pieces(l) : b \in PieceBlocks(l, r) <=> r = x \div l.pieceSize
      BY <3>1, BlockLies
    <3> HIDE DEF x
    <3> QED
      BY <2>1, <3>2
  <2> QED
    BY <2>1
<1>2. PieceBlocks(l, p) # {}
  <2> DEFINE first == (l.pieceSize * p) \div BlockSize(l)
             m == Cardinality(PieceBlocks(l, p))
  <2>1. first \in Nat /\ m \in Nat \ {0} /\ PieceBlocks(l, p) = first .. first + m - 1
    BY PieceBlocksRange
  <2> HIDE DEF first, m
  <2>2. first \in first .. first + m - 1
    BY <2>1
  <2> QED
    BY <2>1, <2>2
<1> QED
  BY <1>1, <1>2 DEF HasPiece

(* Where a verification is, and what the pieces that no call touched are   *)
(* then.                                                                   *)
Whole(l, have) == {p \in Pieces(l) : HasPiece(l, have, p)}
RightSoFar(l, k) ==
    {p \in Pieces(l) : IF p < k.piece THEN PieceBytes(l, p) \subseteq k.seen ELSE p \in k.before}

Verified(l, have, k) ==
    /\ k.piece \in 0 .. PieceCount(l)
    /\ k.before \subseteq Pieces(l)
    /\ k.piece < PieceCount(l) =>
          /\ InPlace(l, k) /\ HashedRight(l, k)
          /\ k.piecePos > 0 /\ k.piece \notin k.touched => (k.had <=> HasPiece(l, have, k.piece))
    /\ \A p \in Pieces(l) \ k.touched : HasPiece(l, have, p) <=> p \in RightSoFar(l, k)
    /\ k.touched = {} => (k.changed <=> RightSoFar(l, k) # k.before)

LEMMA VerifyBegins ==
    ASSUME NEW l, Laid(l), NEW have, NEW k,
           k = [Unchecked EXCEPT !.before = Whole(l, have)]
    PROVE  k \in Checks /\ Verified(l, have, k)
<1>1. /\ k.piece = 0 /\ k.piecePos = 0 /\ k.file = 1 /\ k.filePos = 0 /\ k.had = FALSE
      /\ k.changed = FALSE /\ k.hashed = 0 /\ k.good = TRUE /\ k.seen = {}
      /\ k.before = Whole(l, have) /\ k.touched = {}
  BY DEF Unchecked
<1>2. Bytes(l) # {} /\ 0 \in Pieces(l) /\ Pieces(l) \subseteq Nat
      /\ Pieces(l) = 0 .. PieceCount(l) - 1 /\ PieceCount(l) \in Nat \ {0}
  <2>1. 0 \in 0 .. TotalSize(l) - 1 /\ TotalSize(l) \in Nat \ {0}
    BY DEF Laid
  <2>2. 0 \in Bytes(l)
    BY <2>1 DEF Bytes
  <2>3. 0 \div l.pieceSize \in Pieces(l)
    BY <2>2, ByteLies
  <2>4. PieceCount(l) \in Nat \ {0} /\ Pieces(l) = 0 .. PieceCount(l) - 1
    BY <2>3, PieceLies
  <2> QED
    BY <2>2, <2>4
<1>3. k \in Checks
  <2>1. k = [piece |-> 0, piecePos |-> 0, file |-> 1, filePos |-> 0, had |-> FALSE,
             changed |-> FALSE, hashed |-> 0, good |-> TRUE, seen |-> {}, before |-> Whole(l, have),
             touched |-> {}]
    BY DEF Unchecked
  <2>2. Whole(l, have) \in SUBSET Nat
    BY <1>2 DEF Whole
  <2> DEFINE w == Whole(l, have)
  <2>3. w \in SUBSET Nat /\ {} \in SUBSET Nat
    BY <2>2
  <2> HIDE DEF w
  <2>4. [piece |-> 0, piecePos |-> 0, file |-> 1, filePos |-> 0, had |-> FALSE,
         changed |-> FALSE, hashed |-> 0, good |-> TRUE, seen |-> {}, before |-> w,
         touched |-> {}] \in Checks
    BY <2>3 DEF Checks
  <2> QED
    BY <2>1, <2>4 DEF w
<1>4. UnitAt(l.pieceSize, 0) = 0
  <2>1. l.pieceSize \in Nat
    BY DEF Laid
  <2> QED
    BY <2>1 DEF UnitAt
<1>5. 1 \in Files(l) /\ Offset(l, 1) = 0 /\ l.lengths[1] \in Nat
  <2> DEFINE n == Len(l.lengths)
  <2>1. l.lengths \in Seq(Nat) /\ TotalSize(l) # 0
    BY DEF Laid
  <2>2. n \in Nat /\ n # 0
    <3>1. n \in Nat
      BY <2>1
    <3>2. ASSUME n = 0 PROVE FALSE
      <4>1. PICK c : /\ PrefixSums(c, l.lengths) /\ TotalSize(l) = c[n]
        BY <2>1, OffsetsAdd
      <4>2. c[0] = 0
        BY <4>1 DEF PrefixSums
      <4> QED
        BY <2>1, <3>2, <4>1, <4>2
    <3> QED
      BY <3>1, <3>2
  <2>3. 1 \in 1 .. n
    BY <2>2
  <2>4. Offset(l, 1) = 0 /\ l.lengths[1] \in Nat
    <3> DEFINE g == 1
    <3>1. g \in 1 .. n
      BY <2>3
    <3> HIDE DEF g
    <3>2. l.lengths[g] \in Nat /\ (g = 1 => Offset(l, g) = 0)
      BY <2>1, <3>1, FilesLie
    <3> QED
      BY <3>2 DEF g
  <2>5. Files(l) = 1 .. n
    BY <2>1 DEF Files
  <2> QED
    BY <2>3, <2>4, <2>5
<1>6. InPlace(l, k)
  <2>1. PieceCountBytes(l, 0) \in Nat \ {0}
    BY <1>2, PieceLies
  <2> QED
    BY <1>1, <1>2, <1>4, <1>5, <2>1 DEF InPlace
<1>7. HashedRight(l, k)
  BY <1>1, <1>4 DEF HashedRight
<1>8. RightSoFar(l, k) = Whole(l, have)
  <2>1. \A p \in Pieces(l) : ~(p < 0)
    BY <1>2
  <2> QED
    BY <1>1, <2>1 DEF RightSoFar, Whole
<1>9. Whole(l, have) \subseteq Pieces(l)
      /\ \A p \in Pieces(l) : HasPiece(l, have, p) <=> p \in Whole(l, have)
  BY DEF Whole
<1> QED
  BY <1>1, <1>2, <1>3, <1>6, <1>7, <1>8, <1>9 DEF Verified

(* A turn, with the blocks there are after it, and that it keeps this.     *)
TurnOf(l, have, after, k, kk) ==
    \E read \in 0 .. Wanted(l, k), right \in BOOLEAN, had \in BOOLEAN, end \in BOOLEAN, found \in BOOLEAN :
       /\ kk = Turned(l, k, had, read, right)
       /\ end <=> Moves(l, k, read) = LeftInPiece(l, k)
       /\ found <=> FoundAfter(l, k, read, right)
       /\ k.piece \notin k.touched => (had <=> HasPiece(l, have, k.piece))
       /\ end /\ (found \/ had) =>
             /\ HasPiece(l, after, k.piece) <=> found
             /\ \A q \in Pieces(l) : q # k.piece => (HasPiece(l, after, q) <=> HasPiece(l, have, q))
       /\ ~(end /\ (found \/ had)) => after = have

LEMMA VerifyTurns ==
    ASSUME NEW l, Laid(l), NEW have, NEW after, NEW k \in Checks,
           Verified(l, have, k), k.piece < PieceCount(l), NEW kk, TurnOf(l, have, after, k, kk)
    PROVE  kk \in Checks /\ Verified(l, after, kk)
<1>0. PICK read \in 0 .. Wanted(l, k), right \in BOOLEAN, had \in BOOLEAN, end \in BOOLEAN, found \in BOOLEAN :
       /\ kk = Turned(l, k, had, read, right)
       /\ end <=> Moves(l, k, read) = LeftInPiece(l, k)
       /\ found <=> FoundAfter(l, k, read, right)
       /\ k.piece \notin k.touched => (had <=> HasPiece(l, have, k.piece))
       /\ end /\ (found \/ had) =>
             /\ HasPiece(l, after, k.piece) <=> found
             /\ \A q \in Pieces(l) : q # k.piece => (HasPiece(l, after, q) <=> HasPiece(l, have, q))
       /\ ~(end /\ (found \/ had)) => after = have
  BY Zenon DEF TurnOf
<1> USE <1>0
<1>1. /\ k.piece \in 0 .. PieceCount(l) /\ k.before \subseteq Pieces(l)
      /\ InPlace(l, k) /\ HashedRight(l, k)
      /\ \A p \in Pieces(l) \ k.touched : HasPiece(l, have, p) <=> p \in RightSoFar(l, k)
      /\ k.touched = {} => (k.changed <=> RightSoFar(l, k) # k.before)
  BY DEF Verified
<1>2. kk \in Checks
  BY <1>1, TurnTyped
<1>3. kk.piece \in 0 .. PieceCount(l) /\ (kk.piece < PieceCount(l) => InPlace(l, kk))
  BY <1>1, TurnInPlace
<1>4. kk.piece < PieceCount(l) => HashedRight(l, kk)
  BY <1>1, TurnHashes
<1>5. end => (found <=> PieceBytes(l, k.piece) \subseteq kk.seen)
  BY <1>1, TurnHashes
<1>6. \A p \in Pieces(l) : p # k.piece =>
         (PieceBytes(l, p) \subseteq kk.seen <=> PieceBytes(l, p) \subseteq k.seen)
  BY <1>1, TurnHashes
<1>7. /\ kk.had = had /\ kk.before = k.before /\ kk.touched = k.touched
      /\ end => kk.piece = k.piece + 1 /\ kk.piecePos = 0
      /\ ~end => kk.piece = k.piece
      /\ kk.changed <=> k.changed \/ (end /\ ~(found <=> had))
  <2>1. kk.had = had /\ kk.before = k.before /\ kk.touched = k.touched
        /\ kk.piece = (IF Moves(l, k, read) = LeftInPiece(l, k) THEN k.piece + 1 ELSE k.piece)
        /\ (Moves(l, k, read) = LeftInPiece(l, k) => kk.piecePos = 0)
    BY DEF Turned
  <2>2. kk.changed = (k.changed \/ ((Moves(l, k, read) = LeftInPiece(l, k))
                                       /\ FoundAfter(l, k, read, right) # had))
    BY Zenon DEF Turned
  <2>3. FoundAfter(l, k, read, right) \in BOOLEAN
    BY DEF FoundAfter
  <2>4. FoundAfter(l, k, read, right) # had <=> ~(found <=> had)
    BY <2>3
  <2> QED
    BY <2>1, <2>2, <2>4
<1>8. k.piece \in Pieces(l) /\ Pieces(l) \subseteq Int
  <2>1. k.piece \in Pieces(l)
    BY <1>1 DEF InPlace
  <2>2. PieceCount(l) \in Nat \ {0} /\ Pieces(l) = 0 .. PieceCount(l) - 1
    BY <1>1, <2>1, PieceLies
  <2>3. \A c \in Nat : 0 .. c - 1 \subseteq Int
    OBVIOUS
  <2> QED
    BY <2>1, <2>2, <2>3
<1>9. ASSUME ~end
      PROVE  /\ \A p \in Pieces(l) \ k.touched : HasPiece(l, after, p) <=> p \in RightSoFar(l, kk)
             /\ k.touched = {} => (kk.changed <=> RightSoFar(l, kk) # kk.before)
             /\ kk.piece \notin k.touched => (kk.had <=> HasPiece(l, after, kk.piece))
  <2>1. after = have /\ kk.piece = k.piece /\ kk.before = k.before /\ (kk.changed <=> k.changed)
    BY <1>7, <1>9
  <2>2. \A p \in Pieces(l) : p < k.piece => p # k.piece
    BY <1>8
  <2>3. RightSoFar(l, kk) = RightSoFar(l, k)
    BY <1>6, <2>1, <2>2 DEF RightSoFar
  <2> QED
    BY <1>1, <1>7, <2>1, <2>3
<1>10. ASSUME end
       PROVE  /\ \A p \in Pieces(l) \ k.touched : HasPiece(l, after, p) <=> p \in RightSoFar(l, kk)
              /\ k.touched = {} => (kk.changed <=> RightSoFar(l, kk) # kk.before)
  <2> DEFINE p == k.piece
             R == RightSoFar(l, k)
             S == RightSoFar(l, kk)
  <2>1. p \notin k.touched => (HasPiece(l, after, p) <=> found)
    BY <1>10
  <2>2. ASSUME NEW q \in Pieces(l), q # p PROVE HasPiece(l, after, q) <=> HasPiece(l, have, q)
    BY <1>10, <2>2
  <2>3. kk.piece = p + 1 /\ kk.before = k.before
    BY <1>7, <1>10
  <2>4. p \in S <=> found
    BY <1>5, <1>8, <1>10, <2>3 DEF RightSoFar
  <2>5. ASSUME NEW q \in Pieces(l), q # p PROVE q \in S <=> q \in R
    <3>1. q < p + 1 <=> q < p
      BY <1>8, <2>5
    <3>2. PieceBytes(l, q) \subseteq kk.seen <=> PieceBytes(l, q) \subseteq k.seen
      BY <1>6, <2>5
    <3> QED
      BY <2>3, <3>1, <3>2 DEF RightSoFar
  <2>6. p \in R <=> p \in k.before
    BY <1>8 DEF RightSoFar
  <2>7. p \notin k.touched => (p \in R <=> had)
    BY <1>1, <1>8
  <2>8. R \subseteq Pieces(l) /\ S \subseteq Pieces(l)
    BY DEF RightSoFar
  <2> HIDE DEF R, S
  <2>9. ASSUME NEW q \in Pieces(l) \ k.touched PROVE HasPiece(l, after, q) <=> q \in S
    <3>1. HasPiece(l, have, q) <=> q \in R
      BY <1>1 DEF R
    <3>2. CASE q = p
      BY <2>1, <2>4, <3>2
    <3>3. CASE q # p
      BY <2>2, <2>5, <3>1, <3>3
    <3> QED
      BY <3>2, <3>3
  <2>10. ASSUME k.touched = {} PROVE kk.changed <=> S # k.before
    <3>1. k.changed <=> R # k.before
      BY <1>1, <2>10 DEF R
    <3>2. kk.changed <=> k.changed \/ ~(found <=> had)
      BY <1>7, <1>10
    <3>3. ASSUME R # k.before PROVE S # k.before
      <4>1. PICK q \in Pieces(l) : ~(q \in R <=> q \in k.before)
        BY <1>1, <2>8, <3>3
      <4>2. q # p
        BY <2>6, <4>1
      <4> QED
        BY <2>5, <4>1, <4>2
    <3>4. ASSUME R = k.before, found <=> had PROVE S = k.before
      <4>1. \A q \in Pieces(l) : q \in S <=> q \in R
        BY <2>4, <2>5, <2>7, <2>10, <3>4
      <4> QED
        BY <2>8, <3>4, <4>1
    <3>5. ASSUME R = k.before, ~(found <=> had) PROVE S # k.before
      BY <2>4, <2>7, <2>10, <3>5
    <3> QED
      BY <3>1, <3>2, <3>3, <3>4, <3>5
  <2> QED
    BY <2>3, <2>9, <2>10 DEF S
<1>11. kk.piece < PieceCount(l) /\ kk.piecePos > 0 /\ kk.piece \notin kk.touched
         => (kk.had <=> HasPiece(l, after, kk.piece))
  <2>1. end => ~(kk.piecePos > 0)
    BY <1>7
  <2> QED
    BY <1>7, <1>9, <2>1
<1>12. kk.before \subseteq Pieces(l)
  BY <1>1, <1>7
<1>13. /\ \A p \in Pieces(l) \ kk.touched : HasPiece(l, after, p) <=> p \in RightSoFar(l, kk)
       /\ kk.touched = {} => (kk.changed <=> RightSoFar(l, kk) # kk.before)
  BY <1>7, <1>9, <1>10
<1>14. Verified(l, after, kk)
  BY <1>3, <1>4, <1>11, <1>12, <1>13 DEF Verified
<1> QED
  BY <1>2, <1>14
(* A call that changes the pieces T, and no others, leaves what can be     *)
(* said of a verification that has them down as touched.                   *)
LEMMA TouchedKeeps ==
    ASSUME NEW l, Laid(l), NEW have, NEW after, NEW k \in Checks, Verified(l, have, k),
           NEW T \in SUBSET Nat, T # {},
           \A q \in Pieces(l) \ T : HasPiece(l, after, q) <=> HasPiece(l, have, q),
           NEW kk, kk = [k EXCEPT !.touched = k.touched \cup T]
    PROVE  kk \in Checks /\ Verified(l, after, kk)
<1>1. /\ kk.piece = k.piece /\ kk.piecePos = k.piecePos /\ kk.file = k.file
      /\ kk.filePos = k.filePos /\ kk.had = k.had /\ kk.changed = k.changed
      /\ kk.hashed = k.hashed /\ kk.good = k.good /\ kk.seen = k.seen /\ kk.before = k.before
      /\ kk.touched = k.touched \cup T
      /\ kk \in Checks
  BY DEF Checks
<1>2. InPlace(l, k) => InPlace(l, kk)
  BY <1>1 DEF InPlace
<1>3. HashedRight(l, k) => HashedRight(l, kk)
  BY <1>1 DEF HashedRight
<1>4. RightSoFar(l, kk) = RightSoFar(l, k)
  BY <1>1 DEF RightSoFar
<1>5. k.piece < PieceCount(l) => k.piece \in Pieces(l)
  BY DEF Verified, InPlace
<1>6. /\ k.piece \in 0 .. PieceCount(l) /\ k.before \subseteq Pieces(l)
      /\ k.piece < PieceCount(l) => InPlace(l, k) /\ HashedRight(l, k)
      /\ k.piece < PieceCount(l) /\ k.piecePos > 0 /\ k.piece \notin k.touched
           => (k.had <=> HasPiece(l, have, k.piece))
      /\ \A p \in Pieces(l) \ k.touched : HasPiece(l, have, p) <=> p \in RightSoFar(l, k)
  BY DEF Verified
<1>7. kk.touched # {} /\ \A p : p \notin kk.touched => p \notin k.touched /\ p \notin T
  BY <1>1
<1>8. k.piece < PieceCount(l) /\ k.piecePos > 0 /\ k.piece \notin kk.touched
        => (k.had <=> HasPiece(l, after, k.piece))
  BY <1>5, <1>6, <1>7
<1>9. \A p \in Pieces(l) \ kk.touched : HasPiece(l, after, p) <=> p \in RightSoFar(l, kk)
  BY <1>4, <1>6, <1>7
<1> QED
  BY <1>1, <1>2, <1>3, <1>6, <1>7, <1>8, <1>9 DEF Verified
-----------------------------------------------------------------------------
(* The whole of the contents.                                              *)

(* The call that has the lock, and the completion it found.                *)
Calls(l) == [call : {"add", "bad", "sum"}, at : Nat, was : Completions(l), met : BOOLEAN]
CallRight(l, o) ==
    o # NoOp => /\ o \in Calls(l)
                /\ o.call = "add" => o.at \in AllBlocks(l)
                /\ o.call = "bad" => o.at \in Pieces(l)

(* The invariant of the counts and of a verification.  That a turn begins  *)
(* at the same byte by its piece and by its file, and that the hash tells  *)
(* whether all of the piece so far was seen, is what makes it inductive.   *)
CheckRight == check # NoCheck => Verified(torrent, cp.blocks, check)
CountsAgree ==
    /\ CountsRight(torrent, cp, pieces.dnd, raced)
    /\ check \in Checks
    /\ CheckRight
    /\ CallRight(torrent, op)

LEMMA NoCheckTyped == NoCheck \in Checks /\ NoCheck.piece = -1
<1> DEFINE m == -1
<1>1. NoCheck = [Unchecked EXCEPT !.piece = m] /\ m \in Int
  BY DEF NoCheck
<1> HIDE DEF m
<1>2. NoCheck = [piece |-> m, piecePos |-> 0, file |-> 1, filePos |-> 0, had |-> FALSE,
                 changed |-> FALSE, hashed |-> 0, good |-> TRUE, seen |-> {}, before |-> {},
                 touched |-> {}]
  BY <1>1 DEF Unchecked
<1> DEFINE none == {}
<1>3. none \in SUBSET Nat
  OBVIOUS
<1> HIDE DEF none
<1>4. [piece |-> m, piecePos |-> 0, file |-> 1, filePos |-> 0, had |-> FALSE,
       changed |-> FALSE, hashed |-> 0, good |-> TRUE, seen |-> none, before |-> none,
       touched |-> none] \in Checks
  BY <1>1, <1>3 DEF Checks
<1>5. NoCheck \in Checks /\ NoCheck.piece = m
  BY <1>2, <1>4 DEF none
<1> QED
  BY <1>5 DEF m

LEMMA CountsMade == ContentsInit => CountsAgree
<1> SUFFICES ASSUME ContentsInit PROVE CountsAgree
  OBVIOUS
<1>1. Laid(torrent)
  BY ParsedLaid DEF ContentsInit
<1>2. PICK blocks \in SUBSET AllBlocks(torrent) :
        cp = [blocks |-> blocks, sizeNow |-> BlockInit(torrent, blocks),
              haveValid |-> Dirty, sizeWhenDone |-> Dirty]
  BY DEF ContentsInit
<1>3. /\ BlockInit(torrent, blocks) = Cardinality(HeldBytes(torrent, blocks))
      /\ IsFiniteSet(HeldBytes(torrent, blocks))
  BY <1>1, HeldCounted
<1>4. BlockInit(torrent, blocks) \in Nat
  BY <1>3, FS_CardinalityType
<1>5. CountsRight(torrent, cp, pieces.dnd, raced)
  <2> DEFINE n == BlockInit(torrent, blocks)
  <2>1. n = Cardinality(HeldBytes(torrent, blocks)) /\ n \in Nat
    BY <1>3, <1>4
  <2>2. cp = [blocks |-> blocks, sizeNow |-> n, haveValid |-> Dirty, sizeWhenDone |-> Dirty]
    BY <1>2
  <2> HIDE DEF n
  <2>3. cp \in Completions(torrent)
    BY <2>1, <2>2 DEF Completions
  <2> QED
    BY <2>1, <2>2, <2>3 DEF CountsRight
<1>6. check = NoCheck /\ op = NoOp
  BY DEF ContentsInit
<1> QED
  BY <1>5, <1>6, NoCheckTyped DEF CountsAgree, CheckRight, CallRight

(* The sums a call makes are numbers.                                      *)
LEMMA SumsExact ==
    ASSUME NEW l, Laid(l), NEW dnd, NEW have \in SUBSET AllBlocks(l)
    PROVE  /\ HaveValid(l, have) = Cardinality(WholeBytes(l, have)) /\ HaveValid(l, have) \in Nat
           /\ SizeWhenDone(l, have, dnd) = Cardinality(DoneBytes(l, have, dnd))
           /\ SizeWhenDone(l, have, dnd) \in Nat
<1>1. HaveValid(l, have) = Cardinality(WholeBytes(l, have))
  BY HaveValidCounted
<1>2. SizeWhenDone(l, have, dnd) = Cardinality(DoneBytes(l, have, dnd))
  BY SizeWhenDoneCounted
<1>3. WholeBytes(l, have) \in SUBSET Bytes(l) /\ DoneBytes(l, have, dnd) \in SUBSET Bytes(l)
  BY DEF WholeBytes, DoneBytes, HeldBytes
<1>4. Cardinality(WholeBytes(l, have)) \in Nat /\ Cardinality(DoneBytes(l, have, dnd)) \in Nat
  BY <1>3, BytesFinite, FS_CardinalityType
<1> QED
  BY <1>1, <1>2, <1>4

(* Nothing is held against a completion when both its counts may be wrong. *)
AnyWrong == {"sizeNow", "sums"}

LEMMA AnyCounts ==
    ASSUME NEW l, NEW c, NEW dnd
    PROVE  CountsRight(l, c, dnd, AnyWrong) <=> c \in Completions(l)
BY DEF CountsRight, AnyWrong

(* What a call makes of a completion: its counts stay right, and only the  *)
(* piece it is about may change.                                           *)
LEMMA UpdateCounts ==
    ASSUME Laid(torrent), CallRight(torrent, op), op # NoOp, op.call \in {"add", "bad"},
           NEW dnd, NEW wrong, NEW c, CountsRight(torrent, c, dnd, wrong)
    PROVE  /\ CountsRight(torrent, Update(c), dnd, wrong)
           /\ UpdatedPiece \in Nat
           /\ \A q \in Pieces(torrent) : q # UpdatedPiece =>
                 (HasPiece(torrent, Update(c).blocks, q) <=> HasPiece(torrent, c.blocks, q))
<1>1. CASE op.call = "add"
  <2> DEFINE b == op.at
             x == b * BlockSize(torrent)
             p == x \div torrent.pieceSize
  <2>1. b \in AllBlocks(torrent) /\ Update(c) = BlockAdd(c, b)
    BY <1>1 DEF CallRight, Update
  <2>2. UpdatedPiece = p
    BY <1>1 DEF UpdatedPiece, BlockLocation
  <2> HIDE DEF b
  <2>3. x \in Bytes(torrent) /\ \A q \in Pieces(torrent) : b \in PieceBlocks(torrent, q) <=> q = p
    BY <2>1, BlockLies
  <2> HIDE DEF x
  <2>4. p \in Pieces(torrent)
    BY <2>3, ByteLies
  <2>5. p \in Nat
    BY <2>4, PieceLies
  <2>6. CountsRight(torrent, BlockAdd(c, b), dnd, wrong) /\ BlockAdd(c, b).blocks = c.blocks \cup {b}
    BY <2>1, BlockAddCounts
  <2> HIDE DEF p
  <2>7. \A q \in Pieces(torrent) : q # p =>
           (HasPiece(torrent, BlockAdd(c, b).blocks, q) <=> HasPiece(torrent, c.blocks, q))
    BY <2>3, <2>6 DEF HasPiece
  <2> QED
    BY <2>1, <2>2, <2>5, <2>6, <2>7
<1>2. CASE op.call = "bad"
  <2> DEFINE p == op.at
  <2>1. p \in Pieces(torrent) /\ Update(c) = PieceRem(c, p) /\ UpdatedPiece = p
    BY <1>2 DEF CallRight, Update, SetHasPiece, UpdatedPiece
  <2> HIDE DEF p
  <2>2. p \in Nat
    BY <2>1, PieceLies
  <2>3. /\ CountsRight(torrent, PieceRem(c, p), dnd, wrong)
        /\ PieceRem(c, p).blocks = c.blocks \ PieceBlocks(torrent, p)
    BY <2>1, PieceRemCounts
  <2>4. c.blocks \in SUBSET AllBlocks(torrent)
    BY DEF CountsRight, Completions
  <2>5. \A q \in Pieces(torrent) : q # p =>
           (HasPiece(torrent, PieceRem(c, p).blocks, q) <=> HasPiece(torrent, c.blocks, q))
    <3> DEFINE have == c.blocks
    <3>1. have \in SUBSET AllBlocks(torrent)
      BY <2>4
    <3> HIDE DEF have
    <3>2. \A q \in Pieces(torrent) : q # p =>
             (HasPiece(torrent, have \ PieceBlocks(torrent, p), q) <=> HasPiece(torrent, have, q))
      BY <2>1, <3>1, PieceSet
    <3> QED
      BY <2>3, <3>2 DEF have
  <2> QED
    BY <2>1, <2>2, <2>3, <2>5
<1> QED
  BY <1>1, <1>2

(* What is left of the completion by a call that met the verifier.         *)
LEMMA DisturbedTyped ==
    ASSUME Laid(torrent), CallRight(torrent, op), op # NoOp, op.call \in {"add", "bad"},
           cp \in Completions(torrent), NEW read \in Completions(torrent), NEW c \in Disturbed(read)
    PROVE  c = cp \/ (c \in Completions(torrent) /\ c.haveValid = Dirty /\ c.sizeWhenDone = Dirty)
<1> DEFINE grown == Update(read).sizeNow - read.sizeNow
           A == Update(op.was).blocks
           B == Update(cp).blocks
<1>1. op.was \in Completions(torrent)
  BY DEF CallRight, Calls
<1>2. ASSUME NEW d \in Completions(torrent) PROVE Update(d) \in Completions(torrent)
  <2> DEFINE none == {}
  <2>1. CountsRight(torrent, d, none, AnyWrong)
    BY AnyCounts
  <2> HIDE DEF none
  <2>2. CountsRight(torrent, Update(d), none, AnyWrong)
    BY <2>1, UpdateCounts
  <2> QED
    BY <2>2, AnyCounts
<1>3. /\ Update(read) \in Completions(torrent) /\ Update(op.was) \in Completions(torrent)
      /\ Update(cp) \in Completions(torrent)
  BY <1>1, <1>2
<1>4. \A d \in Completions(torrent) : d.blocks \in SUBSET AllBlocks(torrent) /\ d.sizeNow \in Int
  BY DEF Completions
<1>5. grown \in Int
  BY <1>3, <1>4
<1> HIDE DEF grown
<1> DEFINE M == op.was.sizeNow + grown
           N == cp.sizeNow + grown
<1>6. M \in Int /\ N \in Int /\ cp.sizeNow \in Int
  BY <1>1, <1>4, <1>5
<1>7. A \in SUBSET AllBlocks(torrent) /\ B \in SUBSET AllBlocks(torrent) /\ cp.blocks \in SUBSET AllBlocks(torrent)
  BY <1>3, <1>4
<1>8. CASE Update(read) = read
  BY <1>8 DEF Disturbed
<1>9. CASE Update(read) # read
  <2>1. c \in [blocks : {A, B, cp.blocks}, sizeNow : {M, N, cp.sizeNow}, haveValid : {Dirty},
               sizeWhenDone : {Dirty}]
    BY <1>9, Zenon DEF Disturbed, grown
  <2> HIDE DEF A, B, M, N
  <2> QED
    BY <1>6, <1>7, <2>1 DEF Completions
<1> QED
  BY <1>8, <1>9

(* A call that changes blocks ends, having met the verifier or not.        *)
LEMMA UpdateKept == ChoicesAgree /\ CountsAgree /\ FinishUpdate => CountsAgree'
<1> SUFFICES ASSUME ChoicesAgree, CountsAgree, FinishUpdate PROVE CountsAgree'
  OBVIOUS
<1>1. Laid(torrent)
  BY ParsedLaid DEF ChoicesAgree
<1>2. /\ CountsRight(torrent, cp, pieces.dnd, raced) /\ check \in Checks
      /\ check # NoCheck => Verified(torrent, cp.blocks, check)
      /\ cp \in Completions(torrent) /\ CallRight(torrent, op)
  BY DEF CountsAgree, CheckRight, CountsRight
<1>3. /\ op.call \in {"add", "bad"} /\ op # NoOp
      /\ torrent' = torrent /\ pieces' = pieces /\ op' = NoOp
  BY DEF FinishUpdate, NoOp
<1>4. op.was \in Completions(torrent)
  BY <1>2, <1>3 DEF CallRight, Calls
<1>5. CountsRight(torrent, cp', pieces.dnd, raced')
  <2>1. CASE ~op.met
    <3>1. cp' = Update(cp) /\ raced' = raced
      BY <2>1 DEF FinishUpdate
    <3> QED
      BY <1>1, <1>2, <1>3, <3>1, UpdateCounts
  <2>2. CASE op.met
    <3>1. (cp' \in Disturbed(op.was) \/ cp' \in Disturbed(cp)) /\ raced' = raced \cup {"sizeNow"}
      BY <2>2 DEF FinishUpdate
    <3>2. cp' = cp \/ (cp' \in Completions(torrent) /\ cp'.haveValid = Dirty /\ cp'.sizeWhenDone = Dirty)
      BY <1>1, <1>2, <1>3, <1>4, <3>1, DisturbedTyped
    <3> QED
      BY <1>2, <3>1, <3>2 DEF CountsRight
  <2> QED
    BY <2>1, <2>2
<1>6. check' \in Checks /\ (check' # NoCheck => Verified(torrent, cp'.blocks, check'))
  <2>1. CASE ~Checking
    <3>1. check' = NoCheck
      BY <2>1 DEF FinishUpdate
    <3> QED
      BY <3>1, NoCheckTyped
  <2>2. CASE Checking
    <3> DEFINE T == IF op.met THEN Pieces(torrent) ELSE {UpdatedPiece}
    <3>1. check' = [check EXCEPT !.touched = check.touched \cup T]
      BY <2>2, Zenon DEF FinishUpdate
    <3>2. Verified(torrent, cp.blocks, check) /\ check.piece \in Pieces(torrent)
      <4>1. check # NoCheck /\ check.piece < PieceCount(torrent)
        BY <2>2, NoCheckTyped DEF Checking
      <4> QED
        BY <1>2, <4>1 DEF Verified, InPlace
    <3>3. Pieces(torrent) \subseteq Nat
      BY DEF Pieces
    <3>4. T \in SUBSET Nat /\ T # {}
      <4>1. UpdatedPiece \in Nat
        BY <1>1, <1>2, <1>3, UpdateCounts
      <4> QED
        BY <3>2, <3>3, <4>1
    <3>5. \A q \in Pieces(torrent) \ T :
             HasPiece(torrent, cp'.blocks, q) <=> HasPiece(torrent, cp.blocks, q)
      <4>1. CASE op.met
        BY <4>1
      <4>2. CASE ~op.met
        <5>1. cp' = Update(cp)
          BY <4>2 DEF FinishUpdate
        <5>2. \A q \in Pieces(torrent) : q # UpdatedPiece =>
                 (HasPiece(torrent, Update(cp).blocks, q) <=> HasPiece(torrent, cp.blocks, q))
          BY <1>1, <1>2, <1>3, UpdateCounts
        <5> QED
          BY <4>2, <5>1, <5>2
      <4> QED
        BY <4>1, <4>2
    <3> HIDE DEF T
    <3> QED
      BY <1>1, <1>2, <3>1, <3>2, <3>4, <3>5, TouchedKeeps
  <2> QED
    BY <2>1, <2>2
<1> QED
  BY <1>3, <1>5, <1>6 DEF CountsAgree, CheckRight, CallRight

(* The sums a call makes are exact unless it met the verifier.             *)
LEMMA SumsKept == ChoicesAgree /\ CountsAgree /\ FinishSums => CountsAgree'
<1> SUFFICES ASSUME ChoicesAgree, CountsAgree, FinishSums PROVE CountsAgree'
  OBVIOUS
<1>1. Laid(torrent)
  BY ParsedLaid DEF ChoicesAgree
<1>2. /\ CountsRight(torrent, cp, pieces.dnd, raced) /\ check \in Checks
      /\ check # NoCheck => Verified(torrent, cp.blocks, check)
      /\ cp \in Completions(torrent) /\ cp.blocks \in SUBSET AllBlocks(torrent)
      /\ CallRight(torrent, op)
  BY DEF CountsAgree, CheckRight, CountsRight, Completions
<1>3. /\ op.call = "sum" /\ op # NoOp
      /\ torrent' = torrent /\ pieces' = pieces /\ check' = check /\ op' = NoOp
  BY DEF FinishSums, NoOp
<1>4. CountsRight(torrent, cp', pieces.dnd, raced') /\ cp'.blocks = cp.blocks
  <2>1. CASE ~op.met
    <3> DEFINE valid == IF cp.haveValid = Dirty THEN HaveValid(torrent, cp.blocks) ELSE cp.haveValid
               done == IF cp.sizeWhenDone = Dirty THEN SizeWhenDone(torrent, cp.blocks, pieces.dnd)
                       ELSE cp.sizeWhenDone
               V == Cardinality(WholeBytes(torrent, cp.blocks))
               D == Cardinality(DoneBytes(torrent, cp.blocks, pieces.dnd))
    <3>1. cp' = [cp EXCEPT !.haveValid = valid, !.sizeWhenDone = done] /\ raced' = raced
      BY <2>1 DEF FinishSums
    <3>2. /\ "sizeNow" \notin raced => cp.sizeNow = Cardinality(HeldBytes(torrent, cp.blocks))
          /\ "sums" \notin raced => cp.haveValid \in {Dirty, V} /\ cp.sizeWhenDone \in {Dirty, D}
          /\ cp.haveValid \in Nat \cup {Dirty} /\ cp.sizeWhenDone \in Nat \cup {Dirty}
      BY <1>2 DEF CountsRight, Completions
    <3>3. /\ HaveValid(torrent, cp.blocks) = V /\ V \in Nat
          /\ SizeWhenDone(torrent, cp.blocks, pieces.dnd) = D /\ D \in Nat
      BY <1>1, <1>2, SumsExact
    <3>4. /\ "sums" \notin raced => valid \in {Dirty, V} /\ done \in {Dirty, D}
          /\ valid \in Nat \cup {Dirty} /\ done \in Nat \cup {Dirty}
      BY <3>2, <3>3
    <3> HIDE DEF valid, done, V, D
    <3>5. /\ cp' \in Completions(torrent) /\ cp'.blocks = cp.blocks /\ cp'.sizeNow = cp.sizeNow
          /\ cp'.haveValid = valid /\ cp'.sizeWhenDone = done
      BY <1>2, <3>1, <3>4 DEF Completions
    <3> QED
      BY <3>1, <3>2, <3>4, <3>5 DEF CountsRight, V, D
  <2>2. CASE op.met
    <3>1. PICK valid \in Mixed, done \in Mixed :
             cp' \in [blocks : {cp.blocks}, sizeNow : {cp.sizeNow},
                      haveValid : {Dirty, HaveValid(torrent, valid)},
                      sizeWhenDone : {Dirty, SizeWhenDone(torrent, done, pieces.dnd)}]
      BY <2>2 DEF FinishSums
    <3>2. raced' = raced \cup {"sums"}
      BY <2>2 DEF FinishSums
    <3>3. op.was.blocks \in SUBSET AllBlocks(torrent)
      BY <1>2, <1>3 DEF CallRight, Calls, Completions
    <3>4. valid \in SUBSET AllBlocks(torrent) /\ done \in SUBSET AllBlocks(torrent)
      BY <1>2, <3>3 DEF Mixed
    <3> DEFINE V == HaveValid(torrent, valid)
               D == SizeWhenDone(torrent, done, pieces.dnd)
    <3>5. V \in Nat /\ D \in Nat
      BY <1>1, <3>4, SumsExact
    <3>6. cp' \in [blocks : {cp.blocks}, sizeNow : {cp.sizeNow}, haveValid : {Dirty, V},
                   sizeWhenDone : {Dirty, D}]
      BY <3>1
    <3> HIDE DEF V, D
    <3>7. cp.sizeNow \in Int
      BY <1>2 DEF Completions
    <3>8. cp' \in Completions(torrent) /\ cp'.blocks = cp.blocks /\ cp'.sizeNow = cp.sizeNow
      BY <1>2, <3>5, <3>6, <3>7 DEF Completions
    <3> QED
      BY <1>2, <3>2, <3>8 DEF CountsRight
  <2> QED
    BY <2>1, <2>2
<1> QED
  BY <1>2, <1>3, <1>4 DEF CountsAgree, CheckRight, CallRight

LEMMA CountsKept == ChoicesAgree /\ CountsAgree /\ [ContentsNext]_contents => CountsAgree'
<1> SUFFICES ASSUME ChoicesAgree, CountsAgree, [ContentsNext]_contents PROVE CountsAgree'
  OBVIOUS
<1>1. torrent \in Parsed /\ Laid(torrent)
  BY ParsedLaid DEF ChoicesAgree
<1>2. /\ CountsRight(torrent, cp, pieces.dnd, raced) /\ check \in Checks
      /\ check # NoCheck => Verified(torrent, cp.blocks, check)
      /\ cp.blocks \in SUBSET AllBlocks(torrent)
      /\ cp \in Completions(torrent) /\ CallRight(torrent, op)
  BY DEF CountsAgree, CheckRight, CountsRight, Completions
<1>3. ASSUME torrent' = torrent, CountsRight(torrent, cp', pieces'.dnd, raced'), check' \in Checks,
             check' # NoCheck => Verified(torrent, cp'.blocks, check'),
             CallRight(torrent, op')
      PROVE  CountsAgree'
  BY <1>3 DEF CountsAgree, CheckRight
<1>4. ASSUME NEW call \in {"add", "bad", "sum"}, NEW at \in Nat, Hold(call, at),
             call = "add" => at \in AllBlocks(torrent), call = "bad" => at \in Pieces(torrent)
      PROVE  CountsAgree'
  <2>1. /\ torrent' = torrent /\ pieces' = pieces /\ check' = check /\ cp' = cp /\ raced' = raced
        /\ op' = [call |-> call, at |-> at, was |-> cp, met |-> FALSE]
    BY <1>4 DEF Hold, Call
  <2>2. CallRight(torrent, op')
    BY <1>2, <1>4, <2>1 DEF CallRight, Calls
  <2> QED
    BY <1>2, <1>3, <2>1, <2>2
<1>5. ASSUME NEW b \in AllBlocks(torrent), AddBlock(b) PROVE CountsAgree'
  <2>1. b \in Nat
    BY <1>1, UnitsOfTorrent DEF AllBlocks, BlockCount
  <2> QED
    BY <1>4, <1>5, <2>1 DEF AddBlock
<1>6. ASSUME NEW p \in Pieces(torrent), BadPiece(p) PROVE CountsAgree'
  <2>1. p \in Nat
    BY <1>1, PieceLies
  <2> QED
    BY <1>4, <1>6, <2>1 DEF BadPiece
<1>12. ASSUME Sums PROVE CountsAgree'
  BY <1>4, <1>12 DEF Sums
<1>13. ASSUME VerifyStop PROVE CountsAgree'
  <2>1. UNCHANGED <<torrent, cp, pieces, op, raced>> /\ check' = NoCheck
    BY <1>13 DEF VerifyStop
  <2> QED
    BY <1>2, <1>3, <2>1, NoCheckTyped
<1>7. ASSUME NEW f \in Files(torrent), NEW dnd \in BOOLEAN, SetFileDLs(f, dnd) PROVE CountsAgree'
  <2>1. /\ torrent' = torrent /\ check' = check /\ op' = op /\ raced' = raced
        /\ cp' = [cp EXCEPT !.sizeWhenDone = Dirty]
    BY <1>7 DEF SetFileDLs, Call
  <2>2. /\ cp \in Completions(torrent)
        /\ "sizeNow" \notin raced => cp.sizeNow = Cardinality(HeldBytes(torrent, cp.blocks))
        /\ "sums" \notin raced => cp.haveValid \in {Dirty, Cardinality(WholeBytes(torrent, cp.blocks))}
    BY <1>2 DEF CountsRight
  <2>3. /\ cp' \in Completions(torrent) /\ cp'.blocks = cp.blocks /\ cp'.sizeNow = cp.sizeNow
        /\ cp'.haveValid = cp.haveValid /\ cp'.sizeWhenDone = Dirty
    BY <2>1, <2>2 DEF Completions
  <2>4. CountsRight(torrent, cp', pieces'.dnd, raced')
    BY <2>1, <2>2, <2>3 DEF CountsRight
  <2> QED
    BY <1>2, <1>3, <2>1, <2>3, <2>4
<1>8. ASSUME NEW f \in Files(torrent), NEW priority \in Priority, SetFilePriorities(f, priority)
      PROVE  CountsAgree'
  <2> DEFINE ps == SetFilePriority(torrent, files.priority, pieces.priority, f, priority)
  <2>1. /\ torrent' = torrent /\ check' = check /\ cp' = cp /\ op' = op /\ raced' = raced
        /\ pieces' = [pieces EXCEPT !.priority = ps]
    BY <1>8 DEF SetFilePriorities, Call
  <2> HIDE DEF ps
  <2>2. pieces'.dnd = pieces.dnd
    BY <2>1 DEF ChoicesAgree
  <2> QED
    BY <1>2, <1>3, <2>1, <2>2
<1>9. ASSUME VerifyBegin PROVE CountsAgree'
  <2>1. torrent' = torrent /\ pieces' = pieces /\ cp' = cp /\ op' = op /\ raced' = raced
        /\ check' = [Unchecked EXCEPT !.before = Whole(torrent, cp.blocks)]
    BY <1>9 DEF VerifyBegin, Call, Whole
  <2>2. check' \in Checks /\ Verified(torrent, cp.blocks, check')
    BY <1>1, <2>1, VerifyBegins
  <2> QED
    BY <1>2, <1>3, <2>1, <2>2
<1>10. ASSUME VerifyPass PROVE CountsAgree'
  <2>1. /\ torrent' = torrent /\ pieces' = pieces /\ raced' = raced
        /\ check.piece >= 0 /\ check.piece < PieceCount(torrent)
    BY <1>10 DEF VerifyPass, Checking
  <2>2. Verified(torrent, cp.blocks, check)
    <3>1. check # NoCheck
      BY <2>1, NoCheckTyped
    <3> QED
      BY <1>2, <3>1
  <2>3. PICK read \in 0 .. Wanted(torrent, check), right \in BOOLEAN :
              /\ check' = Turned(torrent, check, HadBefore, read, right)
              /\ cp' = IF /\ Moves(torrent, check, read) = LeftInPiece(torrent, check)
                          /\ FoundAfter(torrent, check, read, right) \/ HadBefore
                       THEN SetHasPiece(cp, check.piece, FoundAfter(torrent, check, read, right))
                       ELSE cp
    BY <1>2, <1>10, PassTurns
  <2> DEFINE end == Moves(torrent, check, read) = LeftInPiece(torrent, check)
             found == FoundAfter(torrent, check, read, right)
  <2>4. end \in BOOLEAN /\ found \in BOOLEAN
    BY DEF FoundAfter
  <2>5. check.piece \in Pieces(torrent) /\ check.piecePos \in Nat /\ check.had \in BOOLEAN
        /\ (check.piecePos > 0 /\ check.piece \notin check.touched => (check.had <=> HasPiece(torrent, cp.blocks, check.piece)))
    BY <1>2, <2>1, <2>2 DEF Verified, InPlace, Checks
  <2>6. HadBefore \in BOOLEAN
        /\ (check.piece \notin check.touched =>
              (HadBefore <=> HasPiece(torrent, cp.blocks, check.piece)))
    <3>1. HasPiece(torrent, cp.blocks, check.piece) \in BOOLEAN
      BY DEF HasPiece
    <3> QED
      BY <2>5, <3>1 DEF HadBefore
  <2>7. CountsRight(torrent, SetHasPiece(cp, check.piece, found), pieces.dnd, raced)
        /\ (found => SetHasPiece(cp, check.piece, found).blocks
                       = cp.blocks \cup PieceBlocks(torrent, check.piece))
        /\ (~found => SetHasPiece(cp, check.piece, found).blocks
                       = cp.blocks \ PieceBlocks(torrent, check.piece))
    <3> HIDE DEF found
    <3>1. found => SetHasPiece(cp, check.piece, found) = PieceAdd(cp, check.piece)
      BY DEF SetHasPiece
    <3>2. ~found => SetHasPiece(cp, check.piece, found) = PieceRem(cp, check.piece)
      BY DEF SetHasPiece
    <3>3. /\ CountsRight(torrent, PieceAdd(cp, check.piece), pieces.dnd, raced)
          /\ PieceAdd(cp, check.piece).blocks = cp.blocks \cup PieceBlocks(torrent, check.piece)
      BY <1>1, <1>2, <2>5, PieceAddCounts
    <3>4. /\ CountsRight(torrent, PieceRem(cp, check.piece), pieces.dnd, raced)
          /\ PieceRem(cp, check.piece).blocks = cp.blocks \ PieceBlocks(torrent, check.piece)
      BY <1>1, <1>2, <2>5, PieceRemCounts
    <3> QED
      BY <3>1, <3>2, <3>3, <3>4
  <2>8. end /\ (found \/ HadBefore) => cp' = SetHasPiece(cp, check.piece, found)
    BY <2>3
  <2>9. ~(end /\ (found \/ HadBefore)) => cp' = cp
    BY <2>3
  <2>10. (end <=> Moves(torrent, check, read) = LeftInPiece(torrent, check))
         /\ (found <=> FoundAfter(torrent, check, read, right))
    OBVIOUS
  <2> HIDE DEF end, found
  <2>11. CountsRight(torrent, cp', pieces.dnd, raced)
    BY <1>2, <2>7, <2>8, <2>9
  <2>12. end /\ (found \/ HadBefore) =>
            /\ HasPiece(torrent, cp'.blocks, check.piece) <=> found
            /\ \A q \in Pieces(torrent) : q # check.piece =>
                  (HasPiece(torrent, cp'.blocks, q) <=> HasPiece(torrent, cp.blocks, q))
    <3>1. /\ HasPiece(torrent, cp.blocks \cup PieceBlocks(torrent, check.piece), check.piece)
          /\ ~HasPiece(torrent, cp.blocks \ PieceBlocks(torrent, check.piece), check.piece)
          /\ \A q \in Pieces(torrent) : q # check.piece =>
               /\ HasPiece(torrent, cp.blocks \cup PieceBlocks(torrent, check.piece), q)
                     <=> HasPiece(torrent, cp.blocks, q)
               /\ HasPiece(torrent, cp.blocks \ PieceBlocks(torrent, check.piece), q)
                     <=> HasPiece(torrent, cp.blocks, q)
      BY <1>1, <1>2, <2>5, PieceSet
    <3>2. CASE found
      <4>1. end => cp'.blocks = cp.blocks \cup PieceBlocks(torrent, check.piece)
        BY <2>7, <2>8, <3>2
      <4> QED
        BY <3>1, <3>2, <4>1
    <3>3. CASE ~found
      <4>1. end /\ HadBefore => cp'.blocks = cp.blocks \ PieceBlocks(torrent, check.piece)
        BY <2>7, <2>8, <3>3
      <4> QED
        BY <3>1, <3>3, <4>1
    <3> QED
      BY <3>2, <3>3
  <2>13. ~(end /\ (found \/ HadBefore)) => cp'.blocks = cp.blocks
    BY <2>9
  <2>14. check' \in Checks /\ Verified(torrent, cp'.blocks, check')
    <3>1. check' = Turned(torrent, check, HadBefore, read, right)
      BY <2>3
    <3>2. Laid(torrent) /\ check \in Checks /\ check.piece < PieceCount(torrent)
      BY <1>1, <1>2, <2>1
    <3> QED
      <4>1. TurnOf(torrent, cp.blocks, cp'.blocks, check, check')
        BY <2>4, <2>6, <2>10, <2>12, <2>13, <3>1, Zenon DEF TurnOf
      <4> QED
        BY <2>2, <3>2, <4>1, VerifyTurns
  <2>15. CallRight(torrent, op')
    <3> DEFINE met == op.met \/ (op # NoOp /\ cp' # cp)
    <3>1. op' = [op EXCEPT !.met = met]
      BY <1>10, Zenon DEF VerifyPass
    <3>2. CASE op = NoOp
      <4>1. met = FALSE
        BY <3>2 DEF NoOp
      <4> HIDE DEF met
      <4>2. op' = NoOp
        BY <3>1, <3>2, <4>1 DEF NoOp
      <4> QED
        BY <4>2 DEF CallRight
    <3>3. CASE op # NoOp
      <4>1. op \in Calls(torrent)
        BY <1>2, <3>3 DEF CallRight
      <4>2. met \in BOOLEAN
        BY <4>1 DEF Calls
      <4> HIDE DEF met
      <4>3. op' \in Calls(torrent) /\ op'.call = op.call /\ op'.at = op.at
        BY <3>1, <4>1, <4>2 DEF Calls
      <4> QED
        BY <1>2, <3>3, <4>3 DEF CallRight
    <3> QED
      BY <3>2, <3>3
  <2> QED
    BY <1>3, <2>1, <2>11, <2>14, <2>15
<1>11. CASE UNCHANGED contents
  BY <1>2, <1>3, <1>11 DEF contents
<1> QED
  BY <1>5, <1>6, <1>7, <1>8, <1>9, <1>10, <1>11, <1>12, <1>13, UpdateKept, SumsKept DEF ContentsNext

(* Whatever calls come, with a verification under way or none, the counts  *)
(* and the verification agree with the blocks there are.                   *)
THEOREM CountsHold == ContentsSpec => [](ChoicesAgree /\ CountsAgree)
<1> DEFINE Inductive == ChoicesAgree /\ CountsAgree
<1>1. ContentsInit => Inductive
  BY ChoicesMade, CountsMade
<1>2. Inductive /\ [ContentsNext]_contents => Inductive'
  BY ChoicesKept, CountsKept
<1> QED
  BY <1>1, <1>2, PTL DEF ContentsSpec

(* tr_cpSizeWhenDone and tr_cpHaveValid may answer with the sums that      *)
(* completion.c keeps whenever it has not marked them dirty, as long as no *)
(* call that makes them has met pieces set by the verifier, and sizeNow is *)
(* right as long as no call that changes blocks has.                       *)
THEOREM SumsAreFresh == ContentsSpec => []SumsNeverStale
<1>1. ChoicesAgree /\ CountsAgree => SumsNeverStale
  BY DEF CountsAgree, CountsRight, WholeBytes, DoneBytes, SumsNeverStale
<1> QED
  BY <1>1, CountsHold, PTL

(* What completion.c and torrent.c count from whole blocks, corrected at   *)
(* the ends of a file or of the torrent, are bytes: of a file, of a piece, *)
(* and whether a file is complete.                                         *)
THEOREM CountsAreBytes == ContentsSpec => []CountsExact
<1>1. ChoicesAgree /\ CountsAgree => CountsExact
  <2> SUFFICES ASSUME ChoicesAgree, CountsAgree PROVE CountsExact
    OBVIOUS
  <2>1. Laid(torrent) /\ cp.blocks \in SUBSET AllBlocks(torrent)
    BY ParsedLaid DEF ChoicesAgree, CountsAgree, CountsRight, Completions
  <2>2. ASSUME NEW f \in Files(torrent)
        PROVE  /\ FileBytesCompleted(torrent, cp.blocks, f)
                    = Cardinality(FileBytes(torrent, f) \cap HeldBytes(torrent, cp.blocks))
               /\ FileIsComplete(torrent, cp.blocks, f)
                    <=> FileBytes(torrent, f) \subseteq HeldBytes(torrent, cp.blocks)
    BY <2>1, FileBytesCounted, FileIsCompleteIff
  <2>3. ASSUME NEW p \in Pieces(torrent)
        PROVE  MissingBytesInPiece(torrent, cp.blocks, p)
                 = Cardinality(PieceBytes(torrent, p) \ HeldBytes(torrent, cp.blocks))
    BY <2>1, MissingCounted
  <2> QED
    BY <2>2, <2>3 DEF CountsExact
<1> QED
  BY <1>1, CountsHold, PTL

(* verifyTorrent sets each piece it passes by whether it read all of it    *)
(* right, whatever the disk gives it and however the reads are cut, but    *)
(* for the pieces that calls touch meanwhile; if they touch none, it says  *)
(* that something changed if and only if it did.                           *)
THEOREM VerifyIsRight == ContentsSpec => []VerifyFindsPieces
<1>1. ChoicesAgree /\ CountsAgree => VerifyFindsPieces
  <2> SUFFICES ASSUME CountsAgree, check # NoCheck PROVE VerifyFindsPieces
    BY DEF VerifyFindsPieces
  <2>1. /\ \A p \in Pieces(torrent) \ check.touched :
              HasPiece(torrent, cp.blocks, p) <=> p \in RightSoFar(torrent, check)
        /\ check.touched = {} => (check.changed <=> RightSoFar(torrent, check) # check.before)
    BY DEF CountsAgree, CheckRight, Verified
  <2> QED
    BY <2>1 DEF VerifyFindsPieces, RightSoFar
<1> QED
  BY <1>1, CountsHold, PTL
-----------------------------------------------------------------------------
(* Where writes land.                                                      *)

(* found leads on to the first file that ends after the byte.              *)
LeadsTo(found, l, pos) ==
    found = [f \in Files(l) |-> IF pos < Offset(l, f) + l.lengths[f] THEN f ELSE found[f + 1]]

(* The first file that ends after a byte holds it.                         *)
LEMMA ByteHasFile ==
    ASSUME NEW l, Laid(l), NEW pos \in Bytes(l)
    PROVE  \E m \in Files(l) : /\ Offset(l, m) <= pos /\ pos < End(l, m)
                               /\ \A g \in Files(l) : g < m => ~(pos < End(l, g))
<1> DEFINE n == Len(l.lengths)
           S == {f \in 1 .. n : pos < End(l, f)}
<1>1. /\ n \in Nat /\ Files(l) = 1 .. n /\ TotalSize(l) \in Nat \ {0}
      /\ pos \in Nat /\ pos < TotalSize(l)
  BY DEF Laid, Files, Bytes
<1>2. \A f \in 1 .. n : /\ Offset(l, f) \in Nat /\ l.lengths[f] \in Nat
                        /\ f = 1 => Offset(l, f) = 0
                        /\ f # 1 => Offset(l, f) = End(l, f - 1)
                        /\ f = n => TotalSize(l) = End(l, f)
  BY FilesLie DEF Laid
<1>3. n # 0
  <2>1. ASSUME n = 0 PROVE FALSE
    <3>1. PICK c : PrefixSums(c, l.lengths) /\ TotalSize(l) = c[n]
      BY OffsetsAdd DEF Laid
    <3>2. c[0] = 0
      BY <3>1 DEF PrefixSums
    <3> QED
      BY <1>1, <2>1, <3>1, <3>2
  <2> QED
    BY <2>1
<1> HIDE DEF n
<1>4. n \in S /\ S \in SUBSET Nat
  BY <1>1, <1>2, <1>3
<1>5. PICK m \in S : \A f \in S : m <= f
  BY <1>4, LeastNumber
<1>6. m \in 1 .. n /\ pos < End(l, m)
  OBVIOUS
<1>7. \A g \in 1 .. n : g < m => ~(pos < End(l, g))
  BY <1>1, <1>5, <1>6
<1>8. Offset(l, m) <= pos
  <2>1. CASE m = 1
    BY <1>1, <1>2, <1>6, <2>1
  <2>2. CASE m # 1
    <3>1. m - 1 \in 1 .. n /\ m - 1 < m
      BY <1>1, <1>6, <2>2
    <3>2. Offset(l, m) = End(l, m - 1) /\ Offset(l, m) \in Nat /\ ~(pos < End(l, m - 1))
      BY <1>2, <1>6, <1>7, <2>2, <3>1
    <3> QED
      BY <1>1, <3>2
  <2> QED
    BY <2>1, <2>2
<1> QED
  BY <1>1, <1>6, <1>7, <1>8

(* tr_ioFindFileLocation finds it.                                         *)
LEMMA FileLocated ==
    ASSUME NEW l, Laid(l), NEW piece \in Nat, NEW offset \in Nat, NEW pos \in Bytes(l),
           pos = l.pieceSize * piece + offset
    PROVE  \E m \in Files(l) :
              /\ FindFileLocation(l, piece, offset) = [file |-> m, offset |-> pos - Offset(l, m)]
              /\ Offset(l, m) <= pos /\ pos < End(l, m)
<1> DEFINE n == Len(l.lengths)
<1>1. PICK m \in Files(l) : /\ Offset(l, m) <= pos /\ pos < End(l, m)
                            /\ \A g \in Files(l) : g < m => ~(pos < End(l, g))
  BY ByteHasFile
<1>2. n \in Nat /\ Files(l) = 1 .. n /\ pos \in Nat
  BY DEF Laid, Files, Bytes
<1>3. \A f \in 1 .. n : Offset(l, f) \in Nat /\ l.lengths[f] \in Nat
  BY FilesLie DEF Laid
<1>4. ASSUME NEW f \in 1 .. n, f >= m PROVE pos < End(l, f)
  <2>1. CASE f = m
    BY <1>1, <2>1
  <2>2. CASE f # m
    <3>1. m \in 1 .. n /\ f \in m + 1 .. n
      BY <1>2, <1>4, <2>2
    <3>2. End(l, m) <= Offset(l, f)
      BY <3>1, FilesInOrder DEF Laid
    <3>3. Offset(l, f) <= End(l, f) /\ End(l, f) \in Nat /\ End(l, m) \in Nat /\ Offset(l, f) \in Nat
      <4>1. /\ Offset(l, f) \in Nat /\ l.lengths[f] \in Nat
            /\ Offset(l, m) \in Nat /\ l.lengths[m] \in Nat
        BY <1>3, <3>1
      <4> DEFINE a == Offset(l, f)
                 b == l.lengths[f]
                 c == Offset(l, m)
                 d == l.lengths[m]
      <4>2. End(l, f) = a + b /\ End(l, m) = c + d
        BY DEF End
      <4>3. a \in Nat /\ b \in Nat /\ c \in Nat /\ d \in Nat
        BY <4>1
      <4> HIDE DEF a, b, c, d
      <4>4. a <= End(l, f) /\ End(l, f) \in Nat /\ End(l, m) \in Nat /\ a \in Nat
        BY <4>2, <4>3
      <4> QED
        BY <4>4 DEF a
    <3> QED
      BY <1>1, <1>2, <3>2, <3>3
  <2> QED
    BY <2>1, <2>2
<1> HIDE DEF n
<1> DEFINE x == [f \in 1 .. n |-> IF f <= m THEN m ELSE f]
           w == CHOOSE w : LeadsTo(w, l, pos)
<1>5. LeadsTo(x, l, pos)
  <2>1. ASSUME NEW f \in 1 .. n PROVE x[f] = IF pos < End(l, f) THEN f ELSE x[f + 1]
    <3>1. CASE f < m
      <4>1. f + 1 \in 1 .. n /\ f + 1 <= m
        BY <1>2, <3>1
      <4> QED
        BY <1>1, <1>2, <3>1, <4>1
    <3>2. CASE f >= m
      BY <1>2, <1>4, <3>2
    <3> QED
      BY <1>2, <3>1, <3>2
  <2>2. x = [f \in 1 .. n |-> x[f]]
    OBVIOUS
  <2> HIDE DEF x
  <2>3. x = [f \in 1 .. n |-> IF pos < End(l, f) THEN f ELSE x[f + 1]]
    BY <2>1, <2>2
  <2> QED
    BY <1>2, <2>3 DEF LeadsTo, End
<1>6. LeadsTo(w, l, pos)
  BY <1>5
<1>7. FindFileLocation(l, piece, offset) = [file |-> w[1], offset |-> pos - Offset(l, w[1])]
  BY Zenon DEF FindFileLocation, LeadsTo
<1> HIDE DEF w, x
<1>8. \A f \in 1 .. n : w[f] = IF pos < End(l, f) THEN f ELSE w[f + 1]
  BY <1>2, <1>6 DEF LeadsTo, End
<1> DEFINE G == {k \in 0 .. m - 1 : w[m - k] = m}
<1>9. 0 \in G
  <2>1. m - 0 = m /\ m \in 1 .. n /\ 0 \in 0 .. m - 1
    BY <1>2
  <2> QED
    BY <1>1, <1>8, <2>1
<1>10. ASSUME NEW k \in 1 .. m - 1, k - 1 \in G PROVE k \in G
  <2>1. m - k \in 1 .. n /\ m - k < m /\ (m - k) + 1 = m - (k - 1) /\ k \in 0 .. m - 1
    BY <1>2
  <2> QED
    BY <1>1, <1>2, <1>8, <1>10, <2>1
<1> HIDE DEF G
<1>11. m - 1 \in Nat /\ m - 1 \in 0 .. m - 1 /\ m - (m - 1) = 1
  BY <1>2
<1>12. 0 .. m - 1 \subseteq G
  BY <1>9, <1>10, <1>11, HandedOn
<1>13. w[1] = m
  BY <1>11, <1>12 DEF G
<1> QED
  BY <1>1, <1>7, <1>13

(* A call of readOrWriteBytes, and what the calls of a write are: each     *)
(* goes to its own place within its file and to none but the first n       *)
(* bytes, and each of these is written by one call and no other.           *)
WriteCalls == [file : Int, offset : Int, buf : Int, len : Int]
WriteStates == [buf : Int, offset : Int, calls : Seq(WriteCalls)]

InItsFile(l, from, c) ==
    /\ c.file \in Files(l)
    /\ Offset(l, c.file) + c.offset = from + c.buf
    /\ c.offset + c.len <= l.lengths[c.file]
Lands(l, from, cs, n) ==
    \A i \in DOMAIN cs : InItsFile(l, from, cs[i]) /\ cs[i].buf + cs[i].len <= n
WritesByte(l, c, x) ==
    Offset(l, c.file) + c.offset <= x /\ x < Offset(l, c.file) + c.offset + c.len
WritesAlone(l, cs, x, i) == \A j \in DOMAIN cs : WritesByte(l, cs[j], x) <=> j = i
Reaches(l, from, cs, n) ==
    \A x \in from .. from + n - 1 : \E i \in DOMAIN cs : WritesAlone(l, cs, x, i)

(* Before the pass for file f.                                             *)
WriteAt(l, from, buflen, st, f) ==
    /\ st \in WriteStates
    /\ st.buf \in 0 .. buflen
    /\ Lands(l, from, st.calls, st.buf)
    /\ Reaches(l, from, st.calls, st.buf)
    /\ st.buf < buflen => /\ f \in Files(l)
                          /\ from + st.buf = Offset(l, f) + st.offset
                          /\ st.offset \in Nat /\ st.offset <= l.lengths[f]

LEMMA CallAdded ==
    ASSUME NEW l, NEW from \in Nat, NEW cs \in Seq(WriteCalls), NEW c \in WriteCalls, NEW n \in Nat,
           Lands(l, from, cs, n), Reaches(l, from, cs, n), InItsFile(l, from, c), c.buf = n, c.len \in Nat
    PROVE  /\ Append(cs, c) \in Seq(WriteCalls)
           /\ Lands(l, from, Append(cs, c), n + c.len)
           /\ Reaches(l, from, Append(cs, c), n + c.len)
<1> DEFINE ds == Append(cs, c)
           m == Len(cs)
<1>1. /\ ds \in Seq(WriteCalls) /\ m \in Nat /\ DOMAIN cs = 1 .. m /\ DOMAIN ds = 1 .. m + 1
      /\ ds[m + 1] = c /\ \A i \in 1 .. m : ds[i] = cs[i] /\ cs[i] \in WriteCalls
  OBVIOUS
<1> HIDE DEF ds, m
<1>2. \A i \in 1 .. m + 1 : i \in 1 .. m \/ i = m + 1
  BY <1>1
<1>3. \A i \in 1 .. m : /\ InItsFile(l, from, cs[i]) /\ cs[i].buf + cs[i].len <= n
                        /\ cs[i].buf \in Int /\ cs[i].len \in Int
  BY <1>1 DEF Lands, WriteCalls
<1>4. Lands(l, from, ds, n + c.len)
  <2>1. \A i \in 1 .. m : cs[i].buf + cs[i].len <= n + c.len
    BY <1>3
  <2>2. \A i \in 1 .. m : InItsFile(l, from, ds[i]) /\ ds[i].buf + ds[i].len <= n + c.len
    BY <1>1, <1>3, <2>1
  <2>3. InItsFile(l, from, ds[m + 1]) /\ ds[m + 1].buf + ds[m + 1].len <= n + c.len
    BY <1>1 DEF WriteCalls
  <2> QED
    BY <1>1, <1>2, <2>2, <2>3 DEF Lands
<1>6. \A x \in Int : /\ WritesByte(l, c, x) <=> from + n <= x /\ x < from + n + c.len
                     /\ \A i \in 1 .. m : WritesByte(l, cs[i], x) => x < from + n
  <2>1. Offset(l, c.file) + c.offset = from + n
    BY DEF InItsFile
  <2>2. \A i \in 1 .. m : Offset(l, cs[i].file) + cs[i].offset = from + cs[i].buf
    BY <1>3 DEF InItsFile
  <2>3. ASSUME NEW x \in Int, NEW i \in 1 .. m, WritesByte(l, cs[i], x) PROVE x < from + n
    <3> DEFINE b == cs[i].buf
               k == cs[i].len
    <3>1. b \in Int /\ k \in Int /\ b + k <= n
      BY <1>3
    <3>2. x < from + b + k
      BY <2>2, <2>3 DEF WritesByte
    <3> HIDE DEF b, k
    <3> QED
      BY <3>1, <3>2
  <2> QED
    BY <2>1, <2>3 DEF WritesByte
<1>7. ASSUME NEW x \in from .. from + (n + c.len) - 1
      PROVE  \E i \in DOMAIN ds : WritesAlone(l, ds, x, i)
  <2>1. CASE x <= from + n - 1
    <3>1. x \in from .. from + n - 1
      BY <2>1
    <3>2. PICK i \in 1 .. m : WritesAlone(l, cs, x, i)
      BY <1>1, <3>1 DEF Reaches
    <3>3. ~WritesByte(l, c, x)
      BY <1>6, <2>1
    <3>4. i \in DOMAIN ds /\ i # m + 1
      BY <1>1, <3>2
    <3>5. ASSUME NEW j \in DOMAIN ds PROVE WritesByte(l, ds[j], x) <=> j = i
      <4>1. CASE j \in 1 .. m
        BY <1>1, <3>2, <4>1 DEF WritesAlone
      <4>2. CASE j = m + 1
        BY <1>1, <3>3, <3>4, <4>2
      <4> QED
        BY <1>1, <1>2, <4>1, <4>2
    <3> QED
      BY <3>4, <3>5 DEF WritesAlone
  <2>2. CASE ~(x <= from + n - 1)
    <3>1. from + n <= x /\ x < from + n + c.len /\ x \in Int
      BY <2>2
    <3>2. WritesByte(l, c, x) /\ \A j \in 1 .. m : ~WritesByte(l, cs[j], x)
      BY <1>6, <3>1
    <3>3. m + 1 \in DOMAIN ds
      BY <1>1
    <3>4. ASSUME NEW j \in DOMAIN ds PROVE WritesByte(l, ds[j], x) <=> j = m + 1
      <4>1. CASE j \in 1 .. m
        BY <1>1, <3>2, <4>1
      <4>2. CASE j = m + 1
        BY <1>1, <3>2, <4>2
      <4> QED
        BY <1>1, <1>2, <4>1, <4>2
    <3> QED
      BY <3>3, <3>4 DEF WritesAlone
  <2> QED
    BY <2>1, <2>2
<1>8. Reaches(l, from, ds, n + c.len)
  BY <1>7 DEF Reaches
<1> QED
  BY <1>1, <1>4, <1>8 DEF ds

(* A pass keeps that for the next file.                                    *)
LEMMA PassLands ==
    ASSUME NEW l, Laid(l), NEW from \in Nat, NEW buflen \in Nat, from + buflen <= TotalSize(l),
           NEW st, NEW f \in Files(l), WriteAt(l, from, buflen, st, f)
    PROVE  WriteAt(l, from, buflen, ReadOrWritePass(l, st, f, buflen), f + 1)
<1> DEFINE n == Lesser(buflen - st.buf, l.lengths[f] - st.offset)
           call == [file |-> f, offset |-> st.offset, buf |-> st.buf, len |-> n]
<1>1. /\ f \in 1 .. Len(l.lengths) /\ Len(l.lengths) \in Nat
      /\ l.lengths[f] \in Nat /\ Offset(l, f) \in Nat
      /\ f = Len(l.lengths) => TotalSize(l) = Offset(l, f) + l.lengths[f]
      /\ f # Len(l.lengths) => f + 1 \in 1 .. Len(l.lengths)
      /\ TotalSize(l) \in Nat
  <2>1. l.lengths \in Seq(Nat) /\ Len(l.lengths) \in Nat /\ f \in 1 .. Len(l.lengths)
    BY DEF Laid, Files
  <2>2. /\ TotalSize(l) \in Nat /\ Offset(l, f) \in Nat /\ l.lengths[f] \in Nat
        /\ f = Len(l.lengths) => TotalSize(l) = End(l, f)
    BY <2>1, FilesLie
  <2> QED
    BY <2>1, <2>2 DEF End
<1>2. f # Len(l.lengths) => Offset(l, f + 1) = Offset(l, f) + l.lengths[f] /\ l.lengths[f + 1] \in Nat
  <2>1. ASSUME f # Len(l.lengths) PROVE Offset(l, f + 1) = End(l, (f + 1) - 1) /\ l.lengths[f + 1] \in Nat
    <3>1. f + 1 \in 1 .. Len(l.lengths) /\ f + 1 # 1
      BY <1>1, <2>1
    <3> QED
      BY <3>1, FilesLie DEF Laid
  <2>2. (f + 1) - 1 = f
    BY <1>1
  <2> QED
    BY <2>1, <2>2 DEF End
<1>3. /\ st \in WriteStates /\ st.buf \in 0 .. buflen /\ st.buf \in Nat
      /\ Lands(l, from, st.calls, st.buf) /\ Reaches(l, from, st.calls, st.buf)
  BY DEF WriteAt
<1>4. CASE st.buf = buflen
  <2>1. ReadOrWritePass(l, st, f, buflen) = st
    BY <1>4 DEF ReadOrWritePass
  <2> QED
    BY <1>3, <1>4, <2>1 DEF WriteAt
<1>5. CASE st.buf # buflen
  <2>1. /\ from + st.buf = Offset(l, f) + st.offset /\ st.offset \in Nat
        /\ st.offset <= l.lengths[f] /\ st.buf < buflen
    BY <1>3, <1>5 DEF WriteAt
  <2>2. /\ n \in Nat /\ n <= buflen - st.buf /\ st.offset + n <= l.lengths[f]
        /\ n = buflen - st.buf \/ st.offset + n = l.lengths[f]
    <3> DEFINE u == buflen - st.buf
               v == l.lengths[f] - st.offset
    <3>1. u \in Nat /\ v \in Nat /\ st.offset + v = l.lengths[f]
      <4> DEFINE b == st.buf
                 o == st.offset
                 len == l.lengths[f]
      <4>1. b \in Nat /\ b <= buflen /\ o \in Nat /\ o <= len /\ len \in Nat
        BY <1>1, <1>3, <2>1
      <4>2. u = buflen - b /\ v = len - o
        OBVIOUS
      <4> HIDE DEF b, o, len, u, v
      <4>3. u \in Nat /\ v \in Nat /\ o + v = len
        BY <4>1, <4>2
      <4> QED
        BY <4>3 DEF o, len
    <3>2. n = Lesser(u, v)
      OBVIOUS
    <3> HIDE DEF u, n
    <3>3. /\ n \in Nat /\ n <= u /\ n <= v /\ (n = u \/ n = v)
      <4> HIDE DEF v
      <4> QED
        BY <3>1, <3>2 DEF Lesser
    <3> HIDE DEF v
    <3>4. st.offset + n <= l.lengths[f]
      BY <2>1, <3>1, <3>3
    <3> QED
      BY <3>1, <3>3, <3>4 DEF u
  <2>3. ReadOrWritePass(l, st, f, buflen)
          = [buf |-> st.buf + n, offset |-> 0, calls |-> Append(st.calls, call)]
    BY <1>5 DEF ReadOrWritePass
  <2> DEFINE cs == st.calls
             b == st.buf
             o == st.offset
  <2>4. cs \in Seq(WriteCalls) /\ b \in Nat /\ o \in Nat /\ f \in Int
    BY <1>1, <1>3, <2>1 DEF WriteStates
  <2> HIDE DEF n, cs, b, o
  <2>5. call = [file |-> f, offset |-> o, buf |-> b, len |-> n]
    BY DEF b, o
  <2> HIDE DEF call
  <2>6. call \in WriteCalls /\ call.buf = b /\ call.len = n /\ call.file = f /\ call.offset = o
    BY <2>2, <2>4, <2>5 DEF WriteCalls
  <2>7. InItsFile(l, from, call)
    BY <2>1, <2>2, <2>6 DEF InItsFile, b, o
  <2>8. Lands(l, from, cs, b) /\ Reaches(l, from, cs, b)
    BY <1>3 DEF cs, b
  <2> DEFINE ds == Append(cs, call)
  <2>9. ds \in Seq(WriteCalls) /\ Lands(l, from, ds, b + n) /\ Reaches(l, from, ds, b + n)
    <3>1. call.len \in Nat
      BY <2>2, <2>6
    <3>2. /\ ds \in Seq(WriteCalls)
          /\ Lands(l, from, ds, b + call.len) /\ Reaches(l, from, ds, b + call.len)
      BY <2>4, <2>6, <2>7, <2>8, <3>1, CallAdded
    <3> QED
      BY <2>6, <3>2
  <2>10. ReadOrWritePass(l, st, f, buflen) = [buf |-> b + n, offset |-> 0, calls |-> ds]
    BY <2>3 DEF b, cs
  <2> HIDE DEF ds
  <2> DEFINE r == [buf |-> b + n, offset |-> 0, calls |-> ds]
  <2>11. r \in WriteStates /\ r.buf = b + n /\ r.offset = 0 /\ r.calls = ds
    BY <2>2, <2>4, <2>9 DEF WriteStates
  <2>12. b + n \in 0 .. buflen
    BY <1>3, <2>2, <2>4 DEF b
  <2>13. ASSUME b + n < buflen
         PROVE  /\ f + 1 \in Files(l)
                /\ from + (b + n) = Offset(l, f + 1) + 0 /\ 0 <= l.lengths[f + 1]
    <3>1. o + n = l.lengths[f] /\ from + b = Offset(l, f) + o
      BY <1>3, <2>1, <2>2, <2>13 DEF b, o
    <3>2. from + (b + n) = Offset(l, f) + l.lengths[f]
      <4> DEFINE len == l.lengths[f]
                 at == Offset(l, f)
      <4>1. len \in Nat /\ at \in Nat /\ n \in Nat /\ o + n = len /\ from + b = at + o
        BY <1>1, <2>2, <3>1
      <4> HIDE DEF len, at, r
      <4>2. from + (b + n) = at + len
        BY <2>4, <4>1
      <4> QED
        BY <4>2 DEF at, len
    <3>3. f # Len(l.lengths)
      BY <1>1, <2>2, <2>4, <2>13, <3>2
    <3>4. Offset(l, f + 1) = from + (b + n) /\ l.lengths[f + 1] \in Nat
      BY <1>2, <3>2, <3>3
    <3>5. f + 1 \in Files(l)
      BY <1>1, <3>3 DEF Files, Laid
    <3> QED
      BY <2>2, <2>4, <3>4, <3>5
  <2> HIDE DEF r
  <2>14. WriteAt(l, from, buflen, r, f + 1)
    BY <2>9, <2>11, <2>12, <2>13 DEF WriteAt
  <2> QED
    BY <2>10, <2>14 DEF r
<1> QED
  BY <1>4, <1>5

LEMMA FileBegins ==
    ASSUME NEW l, Laid(l), NEW f \in Files(l)
    PROVE  Offset(l, f) \in Nat /\ l.lengths[f] \in Nat
<1>1. l.lengths \in Seq(Nat) /\ f \in 1 .. Len(l.lengths)
  BY DEF Laid, Files
<1> QED
  BY <1>1, FilesLie

(* A write, whole: readOrWritePiece calls readOrWriteBytes for the byte's  *)
(* file and the files after it, until the buffer is done.                  *)
LEMMA WriteLands ==
    ASSUME NEW l, Laid(l), NEW piece \in Nat, NEW offset \in Nat, NEW pos \in Bytes(l),
           pos = l.pieceSize * piece + offset, NEW buflen \in Nat, pos + buflen <= TotalSize(l)
    PROVE  /\ Lands(l, pos, ReadOrWritePiece(l, piece, offset, buflen), buflen)
           /\ Reaches(l, pos, ReadOrWritePiece(l, piece, offset, buflen), buflen)
<1> DEFINE at == FindFileLocation(l, piece, offset)
           ids == [i \in 1 .. Len(l.lengths) + 1 - at.file |-> at.file + i - 1]
           base == [buf |-> 0, offset |-> at.offset, calls |-> <<>>]
           Eq(it) == it = [u \in SUBSET (DOMAIN ids) |->
                             IF u = {} THEN base
                             ELSE ReadOrWritePass(l, it[u \ {Max(u)}], ids[Max(u)], buflen)]
           F == CHOOSE it : Eq(it)
           T == WriteStates
<1>1. ReadOrWritePiece(l, piece, offset, buflen) = F[DOMAIN ids].calls
  BY Zenon DEF ReadOrWritePiece, FoldLeft, MapThenFoldSet
<1>2. PICK m \in Files(l) : /\ at = [file |-> m, offset |-> pos - Offset(l, m)]
                            /\ Offset(l, m) <= pos /\ pos < End(l, m)
  BY FileLocated
<1>3. at.file = m /\ at.offset = pos - Offset(l, m)
  BY <1>2
<1> HIDE DEF at
<1> DEFINE n == Len(l.lengths) + 1 - m
<1>4. /\ n \in Nat \ {0} /\ m \in Nat /\ pos \in Nat
      /\ \A i \in 1 .. n : m + i - 1 \in Files(l) /\ m + i - 1 \in Int
      /\ m + n \notin Files(l)
  <2> DEFINE z == Len(l.lengths)
  <2>1. z \in Nat /\ Files(l) = 1 .. z
    <3>1. l.lengths \in Seq(Nat)
      BY Zenon DEF Laid
    <3>2. z \in Nat
      BY <3>1
    <3>3. Files(l) = 1 .. z
      BY <3>1 DEF Files
    <3> QED
      BY <3>2, <3>3
  <2>2. pos \in Nat
    BY DEF Bytes
  <2> HIDE DEF z
  <2>3. m \in 1 .. z /\ n = z + 1 - m
    BY <2>1 DEF z
  <2> HIDE DEF n
  <2>4. /\ n \in Nat \ {0} /\ m \in Nat
        /\ \A i \in 1 .. n : m + i - 1 \in 1 .. z /\ m + i - 1 \in Int
        /\ m + n \notin 1 .. z
    BY <2>1, <2>3
  <2> QED
    BY <2>1, <2>2, <2>4
<1>5. DOMAIN ids = 1 .. n /\ \A i \in 1 .. n : ids[i] = m + i - 1
  BY <1>3
<1>6. Offset(l, m) \in Nat /\ l.lengths[m] \in Nat
  BY FileBegins
<1>7. WriteAt(l, pos, buflen, base, m)
  <2> DEFINE o == at.offset
  <2>1. o \in Nat /\ pos = Offset(l, m) + o /\ o <= l.lengths[m]
    <3> DEFINE g == Offset(l, m)
               z == l.lengths[m]
    <3>1. o = pos - g /\ g <= pos /\ pos < g + z /\ g \in Nat /\ z \in Nat /\ pos \in Nat
      BY <1>2, <1>3, <1>4, <1>6 DEF End
    <3> HIDE DEF o, g, z
    <3>2. o \in Nat /\ pos = g + o /\ o <= z
      BY <3>1
    <3> QED
      BY <3>2 DEF g, z
  <2> HIDE DEF o
  <2> DEFINE none == <<>>
  <2>2. none \in Seq(WriteCalls) /\ DOMAIN none = {}
    OBVIOUS
  <2>3. base = [buf |-> 0, offset |-> o, calls |-> none]
    BY DEF o
  <2> HIDE DEF none, base
  <2>4. base \in WriteStates /\ base.buf = 0 /\ base.offset = o /\ base.calls = none
    BY <2>1, <2>2, <2>3 DEF WriteStates
  <2>5. Lands(l, pos, none, 0) /\ Reaches(l, pos, none, 0)
    <3>1. pos .. pos + 0 - 1 = {}
      BY <1>4
    <3> QED
      BY <2>2, <3>1 DEF Lands, Reaches
  <2>6. pos + 0 = Offset(l, m) + o
    BY <1>4, <2>1
  <2> QED
    BY <2>1, <2>4, <2>5, <2>6 DEF WriteAt
<1> HIDE DEF n, ids, base
<1>8. base \in T
  BY <1>7 DEF WriteAt
<1>9. ASSUME NEW st \in T, NEW i \in 1 .. n PROVE ReadOrWritePass(l, st, m + i - 1, buflen) \in T
  <2> DEFINE f == m + i - 1
             k == Lesser(buflen - st.buf, l.lengths[f] - st.offset)
             b == st.buf
             o == st.offset
             cs == st.calls
             len == l.lengths[f]
  <2>1. f \in Int /\ f \in Files(l)
    BY <1>4
  <2>2. len \in Nat
    BY <2>1, FileBegins
  <2>3. b \in Int /\ o \in Int /\ cs \in Seq(WriteCalls)
    BY DEF WriteStates
  <2>4. k = Lesser(buflen - b, len - o)
    OBVIOUS
  <2>5. ReadOrWritePass(l, st, f, buflen) =
          IF b = buflen THEN st
          ELSE [buf |-> b + k, offset |-> 0,
                calls |-> Append(cs, [file |-> f, offset |-> o, buf |-> b, len |-> k])]
    BY DEF ReadOrWritePass
  <2> HIDE DEF f, k, b, o, cs, len
  <2>6. k \in Int
    BY <2>2, <2>3, <2>4 DEF Lesser
  <2> DEFINE call == [file |-> f, offset |-> o, buf |-> b, len |-> k]
  <2>7. call \in WriteCalls
    BY <2>1, <2>3, <2>6 DEF WriteCalls
  <2> HIDE DEF call
  <2> DEFINE ds == Append(cs, call)
  <2>8. ds \in Seq(WriteCalls)
    BY <2>3, <2>7
  <2> HIDE DEF ds
  <2>9. [buf |-> b + k, offset |-> 0, calls |-> ds] \in WriteStates
    BY <2>3, <2>6, <2>8 DEF WriteStates
  <2> QED
    BY <2>5, <2>9 DEF ds, call, f
<1> DEFINE step == [q \in T \X (1 .. n) |-> ReadOrWritePass(l, q[1], m + q[2] - 1, buflen)]
<1>10. /\ step \in [T \X (1 .. n) -> T]
       /\ \A st \in T, i \in 1 .. n : step[<<st, i>>] = ReadOrWritePass(l, st, m + i - 1, buflen)
  <2> HIDE DEF T
  <2> QED
    BY <1>9
<1> HIDE DEF step, T
<1>11. PICK g : FoldsLeft(g, n, T, base, step)
  BY <1>4, <1>8, <1>10, FoldLeftExists
<1>12. Eq(g)
  <2>1. ASSUME NEW u \in SUBSET (1 .. n), u # {}
        PROVE  g[u] = ReadOrWritePass(l, g[u \ {Max(u)}], ids[Max(u)], buflen)
    <3> DEFINE top == Max(u)
               rest == u \ {Max(u)}
    <3>1. top \in 1 .. n /\ rest \in SUBSET (1 .. n)
      BY <1>4, <2>1, GreatestIsMax
    <3>2. g[u] = step[<<g[rest], top>>] /\ g[rest] \in T
      BY <1>11, <2>1, <3>1 DEF FoldsLeft
    <3> HIDE DEF top, rest
    <3>3. g[u] = ReadOrWritePass(l, g[rest], ids[top], buflen)
      BY <1>5, <1>10, <3>1, <3>2
    <3> QED
      BY <3>3 DEF top, rest
  <2>2. g[{}] = base /\ g \in [SUBSET (1 .. n) -> T]
    BY <1>11 DEF FoldsLeft
  <2>3. \A u \in SUBSET (1 .. n) :
           g[u] = IF u = {} THEN base
                  ELSE ReadOrWritePass(l, g[u \ {Max(u)}], ids[Max(u)], buflen)
    BY <2>1, <2>2
  <2> QED
    BY <1>5, <2>2, <2>3
<1>13. Eq(F)
  <2> HIDE DEF Eq
  <2> QED
    BY <1>12
<1>14. F[1 .. 0] = base
  <2>1. 1 .. 0 = {} /\ {} \in SUBSET (1 .. n)
    OBVIOUS
  <2> HIDE DEF F
  <2> QED
    BY <1>5, <1>13, <2>1
<1>15. ASSUME NEW i \in 1 .. n PROVE F[1 .. i] = ReadOrWritePass(l, F[1 .. i - 1], m + i - 1, buflen)
  <2>1. 1 .. i \in SUBSET (1 .. n) /\ 1 .. i # {} /\ Max(1 .. i) = i
        /\ (1 .. i) \ {Max(1 .. i)} = 1 .. i - 1
    BY <1>4, FoldAlong
  <2> HIDE DEF F
  <2>2. F[1 .. i] = ReadOrWritePass(l, F[(1 .. i) \ {Max(1 .. i)}], ids[Max(1 .. i)], buflen)
    BY <1>5, <1>13, <2>1
  <2> QED
    BY <1>5, <2>1, <2>2
<1> HIDE DEF F
<1> DEFINE G == {i \in 0 .. n : WriteAt(l, pos, buflen, F[1 .. i], m + i)}
<1>16. 0 \in G
  <2>1. m + 0 = m /\ 0 \in 0 .. n
    BY <1>4
  <2> QED
    BY <1>7, <1>14, <2>1
<1>17. ASSUME NEW i \in 1 .. n, i - 1 \in G PROVE i \in G
  <2> DEFINE f == m + i - 1
             st == F[1 .. i - 1]
  <2>1. f \in Files(l) /\ f = m + (i - 1) /\ f + 1 = m + i /\ i \in 0 .. n
    BY <1>4
  <2>2. WriteAt(l, pos, buflen, st, f)
    BY <1>17, <2>1
  <2>3. F[1 .. i] = ReadOrWritePass(l, st, f, buflen)
    BY <1>15
  <2> HIDE DEF f, st
  <2>4. WriteAt(l, pos, buflen, ReadOrWritePass(l, st, f, buflen), f + 1)
    BY <1>4, <2>1, <2>2, PassLands
  <2> QED
    BY <2>1, <2>3, <2>4
<1> HIDE DEF G
<1>18. 0 .. n \subseteq G
  BY <1>4, <1>16, <1>17, HandedOn
<1>19. WriteAt(l, pos, buflen, F[1 .. n], m + n)
  <2>1. n \in G
    BY <1>4, <1>18
  <2> QED
    BY <2>1 DEF G
<1> DEFINE last == F[1 .. n]
<1>20. last.buf = buflen /\ Lands(l, pos, last.calls, last.buf) /\ Reaches(l, pos, last.calls, last.buf)
  BY <1>4, <1>19 DEF WriteAt
<1> QED
  BY <1>1, <1>5, <1>20

(* What is said of the calls of one write.                                 *)
WritesOnce(l, from, n, done) ==
    LET At(c) == Offset(l, c.file) + c.offset
    IN  /\ \A i \in DOMAIN done :
              /\ At(done[i]) = from + done[i].buf
              /\ done[i].buf + done[i].len <= n
              /\ done[i].offset + done[i].len <= l.lengths[done[i].file]
        /\ \A x \in from .. from + n - 1 :
              \E i \in DOMAIN done : \A j \in DOMAIN done :
                 At(done[j]) <= x /\ x < At(done[j]) + done[j].len <=> j = i

(* Wherever a write begins and however long it is, its calls stop with the *)
(* buffer and each of its bytes is written once, to its own place in its   *)
(* file, across files and past empty ones (tr_ioFindFileLocation,          *)
(* readOrWritePiece).                                                      *)
THEOREM EachByteLands == ContentsSpec => []WritesLandInFiles
<1>1. ChoicesAgree => WritesLandInFiles
  <2> SUFFICES ASSUME ChoicesAgree PROVE WritesLandInFiles
    OBVIOUS
  <2>1. Laid(torrent) /\ torrent.pieceSize \in Nat \ {0} /\ TotalSize(torrent) \in Nat
    BY ParsedLaid DEF ChoicesAgree, Laid
  <2>2. ASSUME NEW from \in Bytes(torrent), NEW n \in 1 .. TotalSize(torrent) - from
        PROVE  WritesOnce(torrent, from, n, ReadOrWritePiece(torrent, from \div torrent.pieceSize,
                                                             from % torrent.pieceSize, n))
    <3> DEFINE piece == from \div torrent.pieceSize
               offset == from % torrent.pieceSize
               done == ReadOrWritePiece(torrent, piece, offset, n)
    <3>1. from \in Nat /\ n \in Nat /\ from + n <= TotalSize(torrent)
      BY <2>1 DEF Bytes
    <3>2. piece \in Nat /\ offset \in Nat /\ from = torrent.pieceSize * piece + offset
      BY <2>1, <3>1, DivMod
    <3> HIDE DEF piece, offset
    <3>3. Lands(torrent, from, done, n) /\ Reaches(torrent, from, done, n)
      BY <2>1, <3>1, <3>2, WriteLands
    <3> HIDE DEF done
    <3>4. WritesOnce(torrent, from, n, done)
      BY <3>3 DEF WritesOnce, Lands, Reaches, InItsFile, WritesAlone, WritesByte
    <3> QED
      BY <3>4 DEF done, piece, offset
  <2> QED
    BY <2>2, Zenon DEF WritesLandInFiles, WritesOnce
<1> QED
  BY <1>1, ChoicesHold, PTL
=============================================================================
