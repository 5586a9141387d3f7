-------------------------- MODULE BlockCacheProofs --------------------------
(***************************************************************************)
(* Lemmas about the operators of BlockCache: what a flush of some runs     *)
(* does to the cache and to the disk, for any cache that is sorted, any    *)
(* layout of blocks in pieces, files and torrents, and any fault.          *)
(***************************************************************************)
EXTENDS BlockCache, FoldLemmas

Entry == [block : Block, data : Data]

Stores == [cache : Seq(Entry), disk : [Block -> Data], err : BOOLEAN,
           failed : SUBSET Torrent, lost : SUBSET Block]

AnyFault == Faults \cup {NoFault}

LEMMA Entries ==
    ASSUME NEW c \in Seq(Entry)
    PROVE  \A i \in 1 .. Len(c) :
              /\ c[i] \in Entry /\ c[i].block \in Block /\ c[i].block \in Int
              /\ c[i].data \in Data
<1> TAKE i \in 1 .. Len(c)
<1>1. c[i] \in Entry
  OBVIOUS
<1>2. c[i].block \in Block /\ c[i].data \in Data
  BY <1>1 DEF Entry
<1>3. \A b \in Block : b \in Int
  BY CacheAssumption DEF Block
<1> QED
  BY <1>1, <1>2, <1>3

(* The cache is sorted; neighbours, and so all.                            *)
Sorted(c) == \A i \in 1 .. Len(c) - 1 : c[i].block < c[i + 1].block
Ordered(c) == \A i, j \in 1 .. Len(c) : i < j => c[i].block < c[j].block

LEMMA SortedIsOrdered == ASSUME NEW c \in Seq(Entry), Sorted(c) PROVE Ordered(c)
<1>1. \A k \in 1 .. Len(c) : c[k] \in Entry /\ c[k].block \in Int
  BY Entries
<1>2. ASSUME NEW i \in 1 .. Len(c), NEW j \in 1 .. Len(c), i < j
      PROVE  c[i].block < c[j].block
  <2> DEFINE n == j - i
             G == {k \in 0 .. n : k > 0 => c[i].block < c[i + k].block}
  <2>1. n \in Nat /\ n > 0
    BY <1>2
  <2>2. 0 \in G
    BY <2>1
  <2>3. ASSUME NEW k \in 1 .. n, k - 1 \in G PROVE k \in G
    <3>1. /\ i + k \in 1 .. Len(c) /\ i + (k - 1) \in 1 .. Len(c) - 1
          /\ (i + (k - 1)) + 1 = i + k
      BY <1>2, <2>1
    <3>2. c[i + (k - 1)].block < c[i + k].block
      BY <3>1 DEF Sorted
    <3>3. k - 1 = 0 \/ c[i].block < c[i + (k - 1)].block
      BY <2>3
    <3>4. k - 1 = 0 => i + (k - 1) = i
      OBVIOUS
    <3> QED
      BY <1>1, <2>1, <3>1, <3>2, <3>3, <3>4
  <2> HIDE DEF G, n
  <2>4. n \in G
    <3>1. 0 .. n \subseteq G
      BY <2>1, <2>2, <2>3, HandedOn
    <3> QED
      BY <2>1, <3>1
  <2>5. i + n = j
    BY DEF n
  <2> QED
    BY <2>1, <2>4, <2>5 DEF G
<1> QED
  BY <1>2 DEF Ordered

LEMMA OrderedIsSorted == ASSUME NEW c, Len(c) \in Nat, Ordered(c) PROVE Sorted(c)
BY DEF Ordered, Sorted

LEMMA OrderedOnce ==
    ASSUME NEW c \in Seq(Entry), Ordered(c),
           NEW i \in 1 .. Len(c), NEW j \in 1 .. Len(c), c[i].block = c[j].block
    PROVE  i = j
<1>1. c[i].block \in Int
  BY Entries
<1> QED
  BY <1>1 DEF Ordered

(* What is read of a block: the cache before the disk.                     *)
LEMMA ContentCached ==
    ASSUME NEW c \in Seq(Entry), Ordered(c), NEW disk, NEW i \in 1 .. Len(c), NEW b,
           c[i].block = b
    PROVE  Content(c, disk, b) = c[i].data
<1>1. DOMAIN c = 1 .. Len(c)
  OBVIOUS
<1> DEFINE k == CHOOSE k \in DOMAIN c : c[k].block = b
<1>2. k \in 1 .. Len(c) /\ c[k].block = b
  BY <1>1
<1>3. Content(c, disk, b) = c[k].data
  BY <1>1, Zenon DEF Content
<1> HIDE DEF k
<1>4. k = i
  BY <1>2, OrderedOnce
<1> QED
  BY <1>3, <1>4

LEMMA ContentOnDisk ==
    ASSUME NEW c \in Seq(Entry), NEW disk, NEW b, \A i \in 1 .. Len(c) : c[i].block # b
    PROVE  Content(c, disk, b) = disk[b]
BY DEF Content

(* s is what operations have made of s0 so far: blocks have left the       *)
(* cache, none of them changed, and each is on the disk now under its own  *)
(* number, or lost.                                                        *)
After(s0, s) ==
    /\ s \in Stores /\ Ordered(s.cache)
    /\ Len(s.cache) <= Len(s0.cache)
    /\ \A i \in 1 .. Len(s.cache) : \E j \in 1 .. Len(s0.cache) : s.cache[i] = s0.cache[j]
    /\ \A i \in 1 .. Len(s.cache) : s.cache[i].block \notin s.lost
    /\ \A j \in 1 .. Len(s0.cache) :
          \/ \E i \in 1 .. Len(s.cache) : s.cache[i] = s0.cache[j]
          \/ s.disk[s0.cache[j].block] = s0.cache[j].data
          \/ s0.cache[j].block \in s.lost
    /\ \A b \in Block : s.disk[b] \in {s0.disk[b], Content(s0.cache, s0.disk, b)}
    /\ s.lost \subseteq {s0.cache[j].block : j \in 1 .. Len(s0.cache)}
    /\ s0.failed \subseteq s.failed

LEMMA AfterNothing ==
    ASSUME NEW s \in Stores, Ordered(s.cache), s.lost = {}
    PROVE  After(s, s)
BY DEF After, Stores

(* A block reads as before, or it was lost and reads as it is on the disk. *)
LEMMA AfterContent ==
    ASSUME NEW s0 \in Stores, Ordered(s0.cache), NEW s, After(s0, s), NEW b \in Block
    PROVE  /\ \/ Content(s.cache, s.disk, b) = Content(s0.cache, s0.disk, b)
              \/ b \in s.lost /\ Content(s.cache, s.disk, b) = s.disk[b]
           /\ s.disk[b] \in {s0.disk[b], Content(s0.cache, s0.disk, b)}
<1>1. s0.cache \in Seq(Entry) /\ s.cache \in Seq(Entry) /\ Ordered(s.cache)
  BY DEF After, Stores
<1>0. \A j \in 1 .. Len(s0.cache) :
         s0.cache[j].block = b => Content(s0.cache, s0.disk, b) = s0.cache[j].data
  <2> DEFINE c == s0.cache
  <2>1. c \in Seq(Entry) /\ Ordered(c)
    BY <1>1
  <2> HIDE DEF c
  <2>2. ASSUME NEW j \in 1 .. Len(c), c[j].block = b PROVE Content(c, s0.disk, b) = c[j].data
    <3> DEFINE disk == s0.disk
    <3> HIDE DEF disk
    <3>1. Content(c, disk, b) = c[j].data
      BY <2>1, <2>2, ContentCached
    <3> QED
      BY <3>1 DEF disk
  <2> QED
    BY <2>2 DEF c
<1>2. CASE \E i \in 1 .. Len(s.cache) : s.cache[i].block = b
  <2>1. PICK i \in 1 .. Len(s.cache) : s.cache[i].block = b
    BY <1>2
  <2>2. PICK j \in 1 .. Len(s0.cache) : s.cache[i] = s0.cache[j]
    BY DEF After
  <2>3. Content(s.cache, s.disk, b) = s.cache[i].data
    BY <1>1, <2>1, ContentCached
  <2>4. Content(s0.cache, s0.disk, b) = s0.cache[j].data
    BY <1>0, <2>1, <2>2
  <2> QED
    BY <2>2, <2>3, <2>4 DEF After
<1>3. CASE \A i \in 1 .. Len(s.cache) : s.cache[i].block # b
  <2>1. Content(s.cache, s.disk, b) = s.disk[b]
    BY <1>1, <1>3, ContentOnDisk
  <2>2. CASE \E j \in 1 .. Len(s0.cache) : s0.cache[j].block = b
    <3>1. PICK j \in 1 .. Len(s0.cache) : s0.cache[j].block = b
      BY <2>2
    <3>2. Content(s0.cache, s0.disk, b) = s0.cache[j].data
      BY <1>0, <3>1
    <3>3. ~ \E i \in 1 .. Len(s.cache) : s.cache[i] = s0.cache[j]
      BY <1>3, <3>1
    <3>4. s.disk[b] = s0.cache[j].data \/ b \in s.lost
      BY <3>1, <3>3 DEF After
    <3> QED
      BY <2>1, <3>2, <3>4 DEF After
  <2>3. CASE \A j \in 1 .. Len(s0.cache) : s0.cache[j].block # b
    <3>1. Content(s0.cache, s0.disk, b) = s0.disk[b]
      BY <1>1, <2>3, ContentOnDisk
    <3> QED
      BY <2>1, <3>1 DEF After
  <2> QED
    BY <2>2, <2>3
<1> QED
  BY <1>2, <1>3
-----------------------------------------------------------------------------
(* One write.                                                              *)

(* n blocks of the cache c from pos on are consecutive blocks of a torrent.*)
RunAt(c, pos, n) ==
    /\ pos \in 1 .. Len(c) /\ n \in 1 .. Len(c) + 1 - pos
    /\ \A k \in 0 .. n - 1 : /\ c[pos + k].block = c[pos].block + k
                             /\ TorrentOf[c[pos + k].block] = TorrentOf[c[pos].block]

LEMMA RunFacts ==
    ASSUME NEW c \in Seq(Entry), NEW pos, NEW n, RunAt(c, pos, n)
    PROVE  /\ pos \in 1 .. Len(c) /\ n \in 1 .. Len(c) + 1 - pos /\ Len(c) \in Nat
           /\ \A k \in 0 .. n - 1 : /\ pos + k \in 1 .. Len(c)
                                    /\ c[pos + k].block = c[pos].block + k
                                    /\ c[pos + k].block \in Block
                                    /\ c[pos + k].block \in Int
                                    /\ c[pos + k].data \in Data
                                    /\ TorrentOf[c[pos + k].block] = TorrentOf[c[pos].block]
<1>1. pos \in 1 .. Len(c) /\ n \in 1 .. Len(c) + 1 - pos /\ Len(c) \in Nat
  BY DEF RunAt
<1>2. \A k \in 0 .. n - 1 : pos + k \in 1 .. Len(c)
  BY <1>1
<1> QED
  BY <1>1, <1>2, Entries DEF RunAt

(* r is c without its n elements from pos on.                              *)
CutOut(r, S, c, pos, n) ==
    /\ r \in Seq(S)
    /\ Len(r) = Len(c) - n
    /\ \A i \in 1 .. Len(c) - n : r[i] = IF i < pos THEN c[i] ELSE c[i + n]

LEMMA RestIsCutOut ==
    ASSUME NEW S, NEW c \in Seq(S), NEW pos \in 1 .. Len(c), NEW n \in 1 .. Len(c) + 1 - pos
    PROVE  CutOut(SubSeq(c, 1, pos - 1) \o SubSeq(c, pos + n, Len(c)), S, c, pos, n)
<1> DEFINE a == SubSeq(c, 1, pos - 1)
           b == SubSeq(c, pos + n, Len(c))
           m == Len(c) - n
<1>0. m \in Nat /\ pos - 1 \in 0 .. m
  OBVIOUS
<1>1. a \in Seq(S) /\ Len(a) = pos - 1 /\ \A i \in 1 .. pos - 1 : a[i] = c[i]
  BY SubSeqProperties
<1>2. /\ b \in Seq(S) /\ Len(b) = Len(c) - (pos + n) + 1
      /\ \A i \in 1 .. Len(c) - (pos + n) + 1 : b[i] = c[(pos + n) + i - 1]
  BY SubSeqProperties
<1> HIDE DEF a, b
<1>3. /\ a \o b \in Seq(S) /\ Len(a \o b) = m
      /\ \A i \in 1 .. m : (a \o b)[i] = IF i <= pos - 1 THEN a[i] ELSE b[i - (pos - 1)]
  BY <1>0, <1>1, <1>2, ConcatProperties
<1>4. \A i \in pos .. m : /\ i - (pos - 1) \in 1 .. Len(c) - (pos + n) + 1
                          /\ (pos + n) + (i - (pos - 1)) - 1 = i + n
  OBVIOUS
<1>5. \A i \in pos .. m : b[i - (pos - 1)] = c[i + n]
  BY <1>2, <1>4
<1>6. \A i \in 1 .. m : i < pos => i \in 1 .. pos - 1 /\ i <= pos - 1
  OBVIOUS
<1>7. \A i \in 1 .. m : ~(i < pos) => i \in pos .. m /\ ~(i <= pos - 1)
  OBVIOUS
<1>8. \A i \in 1 .. m : (a \o b)[i] = IF i < pos THEN c[i] ELSE c[i + n]
  BY <1>1, <1>3, <1>5, <1>6, <1>7
<1> QED
  BY <1>3, <1>8 DEF CutOut, a, b

(* r is s after a write of the run that was at pos, of which the first     *)
(* "done" blocks reached the disk.                                         *)
Flushed(r, s, pos, n, done) ==
    LET c == s.cache
        first == s.cache[pos].block
    IN  /\ done \in 0 .. n
        /\ r \in [cache : Seq(Entry), disk : [Block -> Data], err : BOOLEAN,
                  failed : SUBSET Torrent, lost : SUBSET Block]
        /\ CutOut(r.cache, Entry, c, pos, n)
        /\ \A b \in Block :
              r.disk[b] = IF b \in first .. first + done - 1 THEN c[pos + (b - first)].data
                                                             ELSE s.disk[b]
        /\ r.lost = s.lost \cup {c[pos + k].block : k \in done .. n - 1}
        /\ r.failed = s.failed \cup IF r.err THEN {TorrentOf[first]} ELSE {}

Writes(r, s, pos, n, fault) ==
    \E done \in 0 .. n : Flushed(r, s, pos, n, done) /\ (fault = NoFault => done = n)

LEMMA FlushContiguousFlushes ==
    ASSUME NEW s \in Stores, NEW pos, NEW n, RunAt(s.cache, pos, n), NEW fault \in AnyFault
    PROVE  Writes(FlushContiguous(s, pos, n, fault), s, pos, n, fault)
<1> DEFINE c == s.cache
           run == SubSeq(c, pos, pos + n - 1)
           first == run[1].block
           bad == {i \in 1 .. n : run[i].block = fault.at}
           at == CHOOSE i \in bad : TRUE
           done == IF bad = {} THEN n ELSE at - 1
           stop == bad # {} /\ fault.kind = "error"
           r == FlushContiguous(s, pos, n, fault)
<1>1. /\ c \in Seq(Entry) /\ s.disk \in [Block -> Data]
      /\ s.failed \in SUBSET Torrent /\ s.lost \in SUBSET Block
  BY DEF Stores
<1> HIDE DEF run, first, bad, at, done, stop, r
<1>0. RunAt(c, pos, n)
  OBVIOUS
<1> HIDE DEF c
<1>2. /\ pos \in 1 .. Len(c) /\ n \in 1 .. Len(c) + 1 - pos /\ Len(c) \in Nat
      /\ \A k \in 0 .. n - 1 : c[pos + k].block = c[pos].block + k
  BY <1>0, <1>1, RunFacts
<1> USE DEF run, first, bad, at, done, stop, r
<1>3. /\ run \in Seq(Entry) /\ Len(run) = n
      /\ \A i \in 1 .. n : run[i] = c[pos + i - 1]
  BY <1>1, <1>2, SubSeqProperties
<1> HIDE DEF run
<1>4. n \in Nat /\ n > 0 /\ 1 \in 1 .. n /\ pos + 1 - 1 = pos /\ pos \in Nat
  BY <1>2
<1>5. first = c[pos].block /\ first \in Block /\ first \in Int
  BY <1>1, <1>2, <1>3, <1>4, Entries
<1>6. done \in 0 .. n
  <2>1. CASE bad = {}
    BY <1>4, <2>1
  <2>2. CASE bad # {}
    <3>1. at \in 1 .. n
      BY <2>2
    <3> HIDE DEF bad, at
    <3> QED
      BY <1>4, <2>2, <3>1
  <2> QED
    BY <2>1, <2>2
<1>7. fault = NoFault => done = n
  <2>1. \A i \in 1 .. n : run[i].block \in Block
    BY <1>3, Entries
  <2>2. fault = NoFault => fault.at \notin Block
    BY CacheAssumption DEF NoFault
  <2> QED
    BY <2>1, <2>2
<1>8. stop \in BOOLEAN
  OBVIOUS
<1> HIDE DEF bad, stop, at
<1> DEFINE rest == SubSeq(c, 1, pos - 1) \o SubSeq(c, pos + n, Len(c))
           disk == [b \in Block |-> IF b \in first .. first + done - 1 THEN run[b - first + 1].data
                                                                      ELSE s.disk[b]]
           failed == s.failed \cup (IF stop THEN {TorrentOf[first]} ELSE {})
           lost == s.lost \cup {run[i].block : i \in done + 1 .. n}
<1>9. r = [cache |-> rest, disk |-> disk, err |-> stop, failed |-> failed, lost |-> lost]
  BY DEF FlushContiguous, c, run, bad, stop, at
<1>10. CutOut(rest, Entry, c, pos, n)
  BY <1>1, <1>2, RestIsCutOut
<1>11. rest \in Seq(Entry)
  BY <1>10 DEF CutOut
<1> HIDE DEF done
<1>12. ASSUME NEW b \in Block
       PROVE  disk[b] \in Data /\ disk[b] = IF b \in first .. first + done - 1
                                            THEN c[pos + (b - first)].data ELSE s.disk[b]
  <2>0. b \in Int
    BY CacheAssumption DEF Block
  <2>1. CASE b \in first .. first + done - 1
    <3> HIDE DEF first
    <3>1. b - first + 1 \in 1 .. n /\ pos + (b - first + 1) - 1 = pos + (b - first)
      <4>1. first \in Int /\ n \in Int /\ pos \in Int /\ done \in Int /\ done <= n
        BY <1>4, <1>5, <1>6
      <4> QED
        BY <2>0, <2>1, <4>1
    <3>2. run[b - first + 1] = c[pos + (b - first)]
      BY <1>3, <3>1
    <3>3. run[b - first + 1].data \in Data
      BY <1>3, <3>1, Entries
    <3> QED
      BY <2>1, <3>2, <3>3
  <2>2. CASE b \notin first .. first + done - 1
    BY <1>1, <2>2
  <2> QED
    BY <2>1, <2>2
<1>13. disk \in [Block -> Data]
  BY <1>12
<1>14. lost = s.lost \cup {c[pos + k].block : k \in done .. n - 1}
  <2>1. \A i \in done + 1 .. n : i - 1 \in done .. n - 1 /\ run[i] = c[pos + (i - 1)]
    <3> TAKE i \in done + 1 .. n
    <3>1. i \in 1 .. n /\ i - 1 \in done .. n - 1 /\ pos + i - 1 = pos + (i - 1)
      BY <1>4, <1>6
    <3> QED
      BY <1>3, <3>1
  <2>2. \A k \in done .. n - 1 : k + 1 \in done + 1 .. n /\ run[k + 1] = c[pos + k]
    <3> TAKE k \in done .. n - 1
    <3>1. k + 1 \in 1 .. n /\ k + 1 \in done + 1 .. n /\ pos + (k + 1) - 1 = pos + k
      BY <1>4, <1>6
    <3> QED
      BY <1>3, <3>1
  <2>3. {run[i].block : i \in done + 1 .. n} = {c[pos + k].block : k \in done .. n - 1}
    BY <2>1, <2>2
  <2> QED
    BY <2>3
<1>15. lost \in SUBSET Block
  <2>1. \A i \in done + 1 .. n : i \in 1 .. n
    BY <1>4, <1>6
  <2>2. \A i \in 1 .. n : run[i].block \in Block
    BY <1>3, Entries
  <2> QED
    BY <1>1, <2>1, <2>2
<1>16. failed \in SUBSET Torrent
  BY <1>1, <1>5 DEF Torrent
<1> HIDE DEF rest, disk, failed, lost, r
<1>17. /\ r \in [cache : Seq(Entry), disk : [Block -> Data], err : BOOLEAN,
                 failed : SUBSET Torrent, lost : SUBSET Block]
       /\ r.cache = rest /\ r.disk = disk /\ r.err = stop /\ r.failed = failed /\ r.lost = lost
  BY <1>8, <1>9, <1>11, <1>13, <1>15, <1>16
<1>18. failed = s.failed \cup IF r.err THEN {TorrentOf[first]} ELSE {}
  BY <1>17 DEF failed
<1>19. \A b \in Block : r.disk[b] = IF b \in first .. first + done - 1
                                    THEN c[pos + (b - first)].data ELSE s.disk[b]
  BY <1>12, <1>17
<1>20. Flushed(r, s, pos, n, done)
  <2> HIDE DEF first
  <2>1. first = s.cache[pos].block
    BY <1>5 DEF c
  <2> QED
    BY <1>6, <1>10, <1>14, <1>17, <1>18, <1>19, <2>1 DEF Flushed, c
<1> QED
  BY <1>6, <1>7, <1>20 DEF r, Writes

LEMMA CutFacts ==
    ASSUME NEW c \in Seq(Entry), NEW pos, NEW n, RunAt(c, pos, n),
           NEW d, CutOut(d, Entry, c, pos, n)
    PROVE  /\ d \in Seq(Entry) /\ Len(d) \in Nat /\ Len(d) = Len(c) - n /\ Len(d) < Len(c)
           /\ \A i \in 1 .. Len(d) : \E k \in 1 .. Len(c) : d[i] = c[k] /\ k \notin pos .. pos + n - 1
           /\ \A k \in 1 .. Len(c) :
                 k \notin pos .. pos + n - 1 => \E i \in 1 .. Len(d) : d[i] = c[k]
           /\ Ordered(c) => Ordered(d)
<1>1. pos \in 1 .. Len(c) /\ n \in 1 .. Len(c) + 1 - pos /\ Len(c) \in Nat
  BY RunFacts
<1>2. /\ d \in Seq(Entry) /\ Len(d) = Len(c) - n
      /\ \A i \in 1 .. Len(d) : d[i] = IF i < pos THEN c[i] ELSE c[i + n]
  BY DEF CutOut
<1>3. Len(d) \in Nat /\ Len(d) < Len(c)
  BY <1>1, <1>2
<1>4. ASSUME NEW i \in 1 .. Len(d)
      PROVE  \E k \in 1 .. Len(c) : d[i] = c[k] /\ k \notin pos .. pos + n - 1
  <2>1. CASE i < pos
    BY <1>1, <1>2, <1>3, <2>1
  <2>2. CASE ~(i < pos)
    <3>1. i + n \in 1 .. Len(c) /\ i + n \notin pos .. pos + n - 1
      BY <1>1, <1>2, <1>3, <2>2
    <3> QED
      BY <1>2, <2>2, <3>1
  <2> QED
    BY <2>1, <2>2
<1>5. ASSUME NEW k \in 1 .. Len(c), k \notin pos .. pos + n - 1
      PROVE  \E i \in 1 .. Len(d) : d[i] = c[k]
  <2>1. CASE k < pos
    <3>1. k \in 1 .. Len(d)
      BY <1>1, <1>2, <2>1
    <3> QED
      BY <1>2, <2>1, <3>1
  <2>2. CASE ~(k < pos)
    <3> DEFINE i == k - n
    <3>1. i \in 1 .. Len(d) /\ ~(i < pos) /\ i + n = k
      BY <1>1, <1>2, <1>5, <2>2
    <3> HIDE DEF i
    <3> QED
      BY <1>2, <3>1
  <2> QED
    BY <2>1, <2>2
<1>6. ASSUME Ordered(c) PROVE Ordered(d)
  <2>1. ASSUME NEW i \in 1 .. Len(d), NEW j \in 1 .. Len(d), i < j
        PROVE  d[i].block < d[j].block
    <3> DEFINE a == IF i < pos THEN i ELSE i + n
               b == IF j < pos THEN j ELSE j + n
    <3>1. a \in 1 .. Len(c) /\ b \in 1 .. Len(c) /\ a < b
      BY <1>1, <1>2, <2>1
    <3>2. d[i] = c[a] /\ d[j] = c[b]
      BY <1>2
    <3> HIDE DEF a, b
    <3> QED
      BY <1>6, <3>1, <3>2 DEF Ordered
  <2> QED
    BY <2>1 DEF Ordered
<1> QED
  BY <1>1, <1>2, <1>3, <1>4, <1>5, <1>6

(* What is left and what was taken are different blocks.                   *)
LEMMA CutApart ==
    ASSUME NEW c \in Seq(Entry), Ordered(c), NEW pos, NEW n, RunAt(c, pos, n),
           NEW d, CutOut(d, Entry, c, pos, n), NEW i \in 1 .. Len(d), NEW k \in 0 .. n - 1
    PROVE  d[i].block # c[pos + k].block
<1>1. PICK j \in 1 .. Len(c) : d[i] = c[j] /\ j \notin pos .. pos + n - 1
  BY CutFacts
<1>2. /\ pos \in 1 .. Len(c) /\ n \in 1 .. Len(c) + 1 - pos /\ Len(c) \in Nat
      /\ pos + k \in 1 .. Len(c)
  BY RunFacts
<1> DEFINE m == pos + k
<1>3. m \in 1 .. Len(c) /\ m # j
  BY <1>1, <1>2
<1> HIDE DEF m
<1>4. c[j].block # c[m].block
  BY <1>1, <1>3, OrderedOnce
<1> QED
  BY <1>1, <1>4 DEF m

LEMMA AfterFlush ==
    ASSUME NEW s0 \in Stores, Ordered(s0.cache), NEW s, After(s0, s),
           NEW pos, NEW n, RunAt(s.cache, pos, n),
           NEW r, NEW done, Flushed(r, s, pos, n, done)
    PROVE  After(s0, r) /\ Len(r.cache) < Len(s.cache)
<1> DEFINE c0 == s0.cache
           c == s.cache
           d == r.cache
           first == c[pos].block
<1>1. c0 \in Seq(Entry) /\ c \in Seq(Entry) /\ Ordered(c) /\ Ordered(c0) /\ s \in Stores
  BY DEF After, Stores
<1>2. /\ done \in 0 .. n /\ r \in Stores /\ CutOut(d, Entry, c, pos, n)
      /\ \A b \in Block : r.disk[b] = IF b \in first .. first + done - 1
                                      THEN c[pos + (b - first)].data ELSE s.disk[b]
      /\ r.lost = s.lost \cup {c[pos + k].block : k \in done .. n - 1}
      /\ s.failed \subseteq r.failed
  BY DEF Flushed, Stores
<1>3. RunAt(c, pos, n) /\ After(s0, s)
  OBVIOUS
<1>4. /\ Len(c) <= Len(c0)
      /\ \A i \in 1 .. Len(c) : \E j \in 1 .. Len(c0) : c[i] = c0[j]
      /\ \A i \in 1 .. Len(c) : c[i].block \notin s.lost
      /\ \A j \in 1 .. Len(c0) : \/ \E i \in 1 .. Len(c) : c[i] = c0[j]
                                 \/ s.disk[c0[j].block] = c0[j].data
                                 \/ c0[j].block \in s.lost
      /\ \A b \in Block : s.disk[b] \in {s0.disk[b], Content(c0, s0.disk, b)}
      /\ s.lost \subseteq {c0[j].block : j \in 1 .. Len(c0)}
      /\ s0.failed \subseteq s.failed
  BY <1>3 DEF After
<1> HIDE DEF c0, c, d, first
<1>5. /\ pos \in 1 .. Len(c) /\ n \in 1 .. Len(c) + 1 - pos /\ Len(c) \in Nat
      /\ \A k \in 0 .. n - 1 : /\ pos + k \in 1 .. Len(c)
                               /\ c[pos + k].block = c[pos].block + k
                               /\ c[pos + k].block \in Block
                               /\ c[pos + k].block \in Int
  BY <1>1, <1>3, RunFacts
<1>6. /\ Len(d) \in Nat /\ Len(d) < Len(c) /\ Ordered(d) /\ Len(c0) \in Nat
      /\ \A i \in 1 .. Len(d) : \E k \in 1 .. Len(c) : d[i] = c[k]
      /\ \A k \in 1 .. Len(c) :
            k \notin pos .. pos + n - 1 => \E i \in 1 .. Len(d) : d[i] = c[k]
  BY <1>1, <1>2, <1>3, CutFacts
<1>7. \A i \in 1 .. Len(d) : \A k \in 0 .. n - 1 : d[i].block # c[pos + k].block
  BY <1>1, <1>2, <1>3, CutApart
<1>8. first \in Int /\ done \in Nat /\ done <= n
  <2>1. 0 \in 0 .. n - 1 /\ pos + 0 = pos
    BY <1>5
  <2> QED
    BY <1>2, <1>5, <2>1 DEF first
<1>9. \A k \in 0 .. n - 1 : k < done => r.disk[c[pos + k].block] = c[pos + k].data
  <2> TAKE k \in 0 .. n - 1
  <2>1. ASSUME k < done PROVE r.disk[c[pos + k].block] = c[pos + k].data
    <3>1. c[pos + k].block = first + k
      BY <1>5 DEF first
    <3>2. first + k \in first .. first + done - 1 /\ (first + k) - first = k
      BY <1>8, <2>1
    <3> QED
      BY <1>2, <1>5, <3>1, <3>2
  <2> QED
    BY <2>1
<1>10. \A b \in Block : \/ r.disk[b] = s.disk[b]
                        \/ \E k \in 0 .. n - 1 : b = c[pos + k].block /\ r.disk[b] = c[pos + k].data
  <2> TAKE b \in Block
  <2>1. CASE b \in first .. first + done - 1
    <3>0. b \in Int
      BY CacheAssumption DEF Block
    <3>1. PICK k \in 0 .. n - 1 : k < done /\ first + k = b
      <4>1. b - first \in 0 .. n - 1 /\ b - first < done /\ first + (b - first) = b
        BY <1>5, <1>8, <2>1, <3>0
      <4> QED
        BY <4>1
    <3>2. c[pos + k].block = b
      BY <1>5, <3>1 DEF first
    <3> QED
      BY <1>9, <3>1, <3>2
  <2>2. CASE b \notin first .. first + done - 1
    BY <1>2, <2>2
  <2> QED
    BY <2>1, <2>2
<1>11. \A k \in 0 .. n - 1 : \E j \in 1 .. Len(c0) : c[pos + k] = c0[j]
  BY <1>4, <1>5
<1>12. \A i \in 1 .. Len(d) : \E j \in 1 .. Len(c0) : d[i] = c0[j]
  <2> TAKE i \in 1 .. Len(d)
  <2>1. PICK k \in 1 .. Len(c) : d[i] = c[k]
    BY <1>6
  <2> QED
    BY <1>4, <2>1
<1>13. \A i \in 1 .. Len(d) : d[i].block \notin r.lost
  <2> TAKE i \in 1 .. Len(d)
  <2>1. PICK k \in 1 .. Len(c) : d[i] = c[k]
    BY <1>6
  <2>2. d[i].block \notin s.lost
    BY <1>4, <2>1
  <2>3. \A m \in done .. n - 1 : m \in 0 .. n - 1
    BY <1>5, <1>8
  <2> QED
    BY <1>2, <1>7, <2>2, <2>3
<1>14. \A j \in 1 .. Len(c0) : \/ \E i \in 1 .. Len(d) : d[i] = c0[j]
                               \/ r.disk[c0[j].block] = c0[j].data
                               \/ c0[j].block \in r.lost
  <2> TAKE j \in 1 .. Len(c0)
  <2>0. c0[j].block \in Block
    BY <1>1, Entries
  <2>1. CASE \E i \in 1 .. Len(c) : c[i] = c0[j]
    <3>1. PICK i \in 1 .. Len(c) : c[i] = c0[j]
      BY <2>1
    <3>2. CASE i \in pos .. pos + n - 1
      <4>1. PICK k \in 0 .. n - 1 : pos + k = i
        <5>1. i - pos \in 0 .. n - 1 /\ pos + (i - pos) = i
          BY <1>5, <3>2
        <5> QED
          BY <5>1
      <4>2. CASE k < done
        BY <1>9, <3>1, <4>1, <4>2
      <4>3. CASE ~(k < done)
        <5>1. k \in done .. n - 1
          BY <1>8, <4>1, <4>3
        <5> QED
          BY <1>2, <3>1, <4>1, <5>1
      <4> QED
        BY <4>2, <4>3
    <3>3. CASE i \notin pos .. pos + n - 1
      BY <1>6, <3>1, <3>3
    <3> QED
      BY <3>2, <3>3
  <2>2. CASE s.disk[c0[j].block] = c0[j].data
    <3>1. CASE r.disk[c0[j].block] = s.disk[c0[j].block]
      BY <2>2, <3>1
    <3>2. CASE \E k \in 0 .. n - 1 : /\ c0[j].block = c[pos + k].block
                                     /\ r.disk[c0[j].block] = c[pos + k].data
      <4>1. PICK k \in 0 .. n - 1 : /\ c0[j].block = c[pos + k].block
                                    /\ r.disk[c0[j].block] = c[pos + k].data
        BY <3>2
      <4>2. PICK i \in 1 .. Len(c0) : c[pos + k] = c0[i]
        BY <1>11
      <4>3. i = j
        BY <1>1, <4>1, <4>2, OrderedOnce
      <4> QED
        BY <4>1, <4>2, <4>3
    <3> QED
      BY <1>10, <2>0, <3>1, <3>2
  <2>3. CASE c0[j].block \in s.lost
    BY <1>2, <2>3
  <2> QED
    BY <1>4, <2>1, <2>2, <2>3
<1>15. \A b \in Block : r.disk[b] \in {s0.disk[b], Content(c0, s0.disk, b)}
  <2> TAKE b \in Block
  <2>1. CASE r.disk[b] = s.disk[b]
    BY <1>4, <2>1
  <2>2. CASE \E k \in 0 .. n - 1 : b = c[pos + k].block /\ r.disk[b] = c[pos + k].data
    <3>1. PICK k \in 0 .. n - 1 : b = c[pos + k].block /\ r.disk[b] = c[pos + k].data
      BY <2>2
    <3>2. PICK j \in 1 .. Len(c0) : c[pos + k] = c0[j]
      BY <1>11
    <3>3. Content(c0, s0.disk, b) = c0[j].data
      BY <1>1, <3>1, <3>2, ContentCached
    <3> QED
      BY <3>1, <3>2, <3>3
  <2> QED
    BY <1>10, <2>1, <2>2
<1>16. r.lost \subseteq {c0[j].block : j \in 1 .. Len(c0)}
  <2> DEFINE old == {c0[j].block : j \in 1 .. Len(c0)}
  <2>1. ASSUME NEW k \in done .. n - 1 PROVE c[pos + k].block \in old
    <3>1. k \in 0 .. n - 1
      BY <1>5, <1>8
    <3>2. PICK j \in 1 .. Len(c0) : c[pos + k] = c0[j]
      BY <1>11, <3>1
    <3> QED
      BY <3>2
  <2>2. s.lost \subseteq old
    BY <1>4
  <2> HIDE DEF old
  <2>3. r.lost \subseteq old
    <3>1. r.lost = s.lost \cup {c[pos + k].block : k \in done .. n - 1}
      BY <1>2
    <3> QED
      BY <2>1, <2>2, <3>1
  <2> QED
    BY <2>3 DEF old
<1>17. s0.failed \subseteq r.failed
  BY <1>2, <1>4
<1>18. Len(d) <= Len(c0)
  BY <1>4, <1>5, <1>6
<1> QED
  BY <1>2, <1>6, <1>12, <1>13, <1>14, <1>15, <1>16, <1>17, <1>18 DEF After, c0, c, d
-----------------------------------------------------------------------------
(* The runs of the cache.                                                  *)

(* A run that cannot be prolonged.                                         *)
WholeRun(c, pos, n) ==
    /\ RunAt(c, pos, n)
    /\ \A i \in pos .. pos + n - 2 : Joined(c, i)
    /\ pos + n - 1 = Len(c) \/ ~Joined(c, pos + n - 1)

LEMMA JoinedRun ==
    ASSUME NEW c \in Seq(Entry), NEW pos \in 1 .. Len(c), NEW n \in 1 .. Len(c) + 1 - pos,
           \A i \in pos .. pos + n - 2 : Joined(c, i)
    PROVE  RunAt(c, pos, n)
<1> DEFINE G == {k \in 0 .. n - 1 : /\ c[pos + k].block = c[pos].block + k
                                    /\ TorrentOf[c[pos + k].block] = TorrentOf[c[pos].block]}
           m == n - 1
<1>0. \A k \in 0 .. n - 1 : pos + k \in 1 .. Len(c)
  OBVIOUS
<1>1. \A k \in 0 .. n - 1 : c[pos + k].block \in Int
  BY <1>0, Entries
<1>2. m \in Nat /\ 0 \in 0 .. n - 1 /\ pos + 0 = pos
  OBVIOUS
<1>3. 0 \in G
  <2>1. c[pos + 0] = c[pos] /\ c[pos].block \in Int
    BY <1>1, <1>2
  <2>2. c[pos].block = c[pos].block + 0
    BY <2>1
  <2> QED
    BY <1>2, <2>1, <2>2
<1>4. ASSUME NEW k \in 1 .. m, k - 1 \in G PROVE k \in G
  <2> DEFINE i == pos + (k - 1)
  <2>1. i \in pos .. pos + n - 2 /\ i + 1 = pos + k /\ k \in 0 .. n - 1 /\ k - 1 \in 0 .. n - 1
    BY <1>2
  <2>2. c[i].block = c[pos].block + (k - 1) /\ TorrentOf[c[i].block] = TorrentOf[c[pos].block]
    BY <1>4
  <2> HIDE DEF i
  <2>3. c[pos + k].block = c[i].block + 1 /\ TorrentOf[c[pos + k].block] = TorrentOf[c[i].block]
    <3>1. Joined(c, i)
      BY <2>1
    <3> QED
      BY <2>1, <3>1 DEF Joined
  <2>4. c[pos].block \in Int
    BY <1>1, <1>2
  <2>5. c[pos + k].block = c[pos].block + k
    BY <2>2, <2>3, <2>4
  <2> QED
    BY <2>1, <2>2, <2>3, <2>5
<1> HIDE DEF G, m
<1>5. 0 .. m \subseteq G
  BY <1>2, <1>3, <1>4, HandedOn
<1>6. \A k \in 0 .. n - 1 : /\ c[pos + k].block = c[pos].block + k
                            /\ TorrentOf[c[pos + k].block] = TorrentOf[c[pos].block]
  BY <1>5 DEF G, m
<1> QED
  BY <1>6 DEF RunAt

LEMMA RunLenIsWhole ==
    ASSUME NEW c \in Seq(Entry), NEW pos \in 1 .. Len(c)
    PROVE  WholeRun(c, pos, RunLen(c, pos))
<1> DEFINE top == Len(c) + 1 - pos
           S == {k \in 1 .. top : pos + k - 1 = Len(c) \/ ~Joined(c, pos + k - 1)}
           n == RunLen(c, pos)
<1>1. top \in 1 .. top /\ pos + top - 1 = Len(c) /\ top \in Nat
  OBVIOUS
<1> HIDE DEF n
<1>2. S \in SUBSET Nat /\ S # {}
  <2>1. top \in S
    BY <1>1
  <2>2. \A k \in 1 .. top : k \in Nat
    OBVIOUS
  <2> QED
    BY <2>1, <2>2
<1>3. PICK m \in S : \A k \in S : m <= k
  <2> HIDE DEF S
  <2> QED
    BY <1>2, LeastNumber
<1>4. ASSUME NEW i \in pos .. pos + m - 2 PROVE Joined(c, i)
  <2> DEFINE k == i - pos + 1
  <2>1. k \in 1 .. top /\ k < m /\ pos + k - 1 = i
    BY <1>1, <1>3
  <2>2. k \notin S
    <3>1. m \in Nat /\ k \in Nat
      BY <1>2, <1>3, <2>1
    <3> HIDE DEF S, k
    <3> QED
      BY <1>3, <2>1, <3>1
  <2> HIDE DEF k
  <2> QED
    BY <2>1, <2>2
<1>5. \E k \in 1 .. top : /\ \A i \in pos .. pos + k - 2 : Joined(c, i)
                          /\ pos + k - 1 = Len(c) \/ ~Joined(c, pos + k - 1)
  BY <1>3, <1>4
<1>6. /\ n \in 1 .. top
      /\ \A i \in pos .. pos + n - 2 : Joined(c, i)
      /\ pos + n - 1 = Len(c) \/ ~Joined(c, pos + n - 1)
  <2> HIDE DEF S
  <2> QED
    BY <1>5, Zenon DEF RunLen, n
<1>7. RunAt(c, pos, n)
  BY <1>6, JoinedRun
<1> QED
  BY <1>6, <1>7 DEF WholeRun, n

Starts(c) == {i \in DOMAIN c : i = 1 \/ ~Joined(c, i - 1)}

Run == [pos : Nat, len : Nat, flags : 0 .. 3]

(* Runs do not overlap, and every block is in one.                         *)
LEMMA StartsApart ==
    ASSUME NEW c \in Seq(Entry), NEW i \in Starts(c), NEW j \in Starts(c), i < j
    PROVE  i + RunLen(c, i) <= j
<1> DEFINE n == RunLen(c, i)
<1>1. i \in 1 .. Len(c) /\ j \in 1 .. Len(c) /\ (j = 1 \/ ~Joined(c, j - 1))
  BY DEF Starts
<1>2. WholeRun(c, i, n)
  BY <1>1, RunLenIsWhole
<1> HIDE DEF n
<1>3. n \in Nat /\ \A k \in i .. i + n - 2 : Joined(c, k)
  BY <1>1, <1>2 DEF WholeRun, RunAt
<1>4. ASSUME ~(i + n <= j) PROVE FALSE
  <2>1. j - 1 \in i .. i + n - 2 /\ j # 1
    BY <1>1, <1>3, <1>4
  <2> QED
    BY <1>1, <1>3, <2>1
<1> QED
  BY <1>4 DEF n

LEMMA EachInARun ==
    ASSUME NEW c \in Seq(Entry), NEW p \in 1 .. Len(c)
    PROVE  \E i \in Starts(c) : i <= p /\ p < i + RunLen(c, i)
<1> DEFINE S == {k \in 0 .. p - 1 : p - k \in Starts(c)}
<1>1. S \in SUBSET Nat
  OBVIOUS
<1>2. 1 \in Starts(c)
  BY DEF Starts
<1>3. S # {}
  <2>1. p - 1 \in 0 .. p - 1 /\ p - (p - 1) = 1
    OBVIOUS
  <2> QED
    BY <1>2, <2>1
<1>4. PICK k \in S : \A m \in S : k <= m
  <2> HIDE DEF S
  <2> QED
    BY <1>1, <1>3, LeastNumber
<1> DEFINE i == p - k
           n == RunLen(c, i)
<1>5. i \in Starts(c) /\ i <= p /\ i \in 1 .. Len(c) /\ k \in Nat
  BY <1>4 DEF Starts
<1>6. WholeRun(c, i, n)
  BY <1>5, RunLenIsWhole
<1> HIDE DEF n
<1>7. /\ n \in 1 .. Len(c) + 1 - i
      /\ i + n - 1 = Len(c) \/ ~Joined(c, i + n - 1)
  BY <1>6 DEF WholeRun, RunAt
<1>8. ASSUME ~(p < i + n) PROVE FALSE
  <2> DEFINE z == i + n
             m == p - z
  <2>1. z \in 1 .. Len(c) /\ z - 1 = i + n - 1 /\ z - 1 # Len(c) /\ z <= p /\ i < z
    BY <1>5, <1>7, <1>8
  <2>2. z \in Starts(c)
    BY <1>7, <2>1 DEF Starts
  <2>3. m \in 0 .. p - 1 /\ p - m = z /\ m < k
    BY <1>5, <2>1
  <2>4. m \in S
    BY <2>2, <2>3
  <2>5. k <= m
    BY <1>4, <2>4
  <2>6. m \in Nat
    BY <2>3
  <2> HIDE DEF m, z
  <2> QED
    BY <1>5, <2>3, <2>5, <2>6
<1> QED
  BY <1>5, <1>8 DEF n

(* A run that is not flushed by FlushDone is of one piece, an incomplete   *)
(* one.                                                                    *)
OfIncompletePiece(c, have, pos, n) ==
    /\ PieceOf[c[pos].block] = PieceOf[c[pos + n - 1].block]
    /\ ~PieceDone(have, PieceOf[c[pos + n - 1].block])

LEMMA RunInfoIs ==
    ASSUME NEW c \in Seq(Entry), NEW have, NEW i \in Starts(c)
    PROVE  LET r == RunInfo(c, have, i)
           IN  /\ r \in Run /\ r.pos = i /\ r.len = RunLen(c, i)
               /\ r.flags = 0 => OfIncompletePiece(c, have, r.pos, r.len)
<1> DEFINE n == RunLen(c, i)
           done == PieceDone(have, PieceOf[c[i + n - 1].block])
           multi == PieceOf[c[i + n - 1].block] # PieceOf[c[i].block]
           flags == (IF done THEN 2 ELSE 0) + (IF multi THEN 1 ELSE 0)
<1>1. i \in 1 .. Len(c)
  BY DEF Starts
<1>2. WholeRun(c, i, n)
  BY <1>1, RunLenIsWhole
<1>3. RunInfo(c, have, i) = [pos |-> i, len |-> n, flags |-> flags]
  BY DEF RunInfo
<1> HIDE DEF n
<1>4. n \in Nat /\ i \in Nat
  BY <1>1, <1>2 DEF WholeRun, RunAt
<1> HIDE DEF done, multi
<1>5. flags \in 0 .. 3 /\ (flags = 0 => ~done /\ ~multi)
  OBVIOUS
<1> HIDE DEF flags
<1> DEFINE r == [pos |-> i, len |-> n, flags |-> flags]
<1>6. r \in Run /\ r.pos = i /\ r.len = n /\ r.flags = flags
  BY <1>4, <1>5 DEF Run
<1>7. r.flags = 0 => OfIncompletePiece(c, have, r.pos, r.len)
  <2>1. ASSUME r.flags = 0 PROVE OfIncompletePiece(c, have, i, n)
    BY <1>5, <1>6, <2>1 DEF OfIncompletePiece, done, multi
  <2> HIDE DEF r
  <2> QED
    BY <1>6, <2>1
<1> QED
  BY <1>3, <1>6, <1>7 DEF n

(* The array calcRuns leaves.                                              *)
Apart(r, q) == r.pos + r.len <= q.pos \/ q.pos + q.len <= r.pos
AllRuns(order, c, have) ==
    /\ order \in Seq(Run)
    /\ \A j \in 1 .. Len(order) :
          /\ RunAt(c, order[j].pos, order[j].len)
          /\ order[j].flags = 0 => OfIncompletePiece(c, have, order[j].pos, order[j].len)
    /\ \A i, j \in 1 .. Len(order) : i # j => Apart(order[i], order[j])
    /\ \A p \in 1 .. Len(c) : \E j \in 1 .. Len(order) :
          order[j].pos <= p /\ p < order[j].pos + order[j].len
    /\ \A j \in 1 .. Len(order) - 1 : order[j].flags >= order[j + 1].flags

LEMMA CalcRunsAreAll ==
    ASSUME NEW c \in Seq(Entry), NEW have, NEW order \in CalcRuns(c, have)
    PROVE  AllRuns(order, c, have)
<1> DEFINE runs == {RunInfo(c, have, i) : i \in Starts(c)}
           f == [i \in Starts(c) |-> RunInfo(c, have, i)]
<1>1. IsFiniteSet(runs)
  <2>1. IsFiniteSet(Starts(c))
    <3> HIDE DEF f, runs
    <3>1. Starts(c) \in SUBSET (1 .. Len(c))
      BY DEF Starts
    <3>2. IsFiniteSet(1 .. Len(c))
      BY FS_Interval
    <3> QED
      BY <3>1, <3>2, FS_Subset
  <2>2. f \in Surjection(Starts(c), runs)
    BY DEF Surjection
  <2> HIDE DEF f, runs
  <2> QED
    BY <2>1, <2>2, FS_Surjection
<1>2. /\ order \in SetToSeqs(runs)
      /\ \A i \in 1 .. Len(order) - 1 : order[i].flags >= order[i + 1].flags
  BY DEF CalcRuns, Starts
<1>3. \A r \in runs : \E i \in Starts(c) : r = RunInfo(c, have, i)
  OBVIOUS
<1>4. \A i \in Starts(c) : RunInfo(c, have, i) \in runs
  OBVIOUS
<1> HIDE DEF runs, f
<1>5. Lists(order, runs)
  BY <1>1, <1>2, SetToSeqsLists
<1>6. /\ order \in Seq(runs)
      /\ \A i, j \in 1 .. Len(order) : order[i] = order[j] => i = j
      /\ \A x \in runs : \E j \in 1 .. Len(order) : order[j] = x
  BY <1>5 DEF Lists
<1>7. ASSUME NEW r \in runs
      PROVE  /\ r \in Run /\ r.pos \in Starts(c) /\ r.len = RunLen(c, r.pos)
             /\ r = RunInfo(c, have, r.pos)
             /\ RunAt(c, r.pos, r.len)
             /\ r.flags = 0 => OfIncompletePiece(c, have, r.pos, r.len)
  <2>1. PICK i \in Starts(c) : r = RunInfo(c, have, i)
    BY <1>3
  <2>2. /\ r \in Run /\ r.pos = i /\ r.len = RunLen(c, i)
        /\ r.flags = 0 => OfIncompletePiece(c, have, r.pos, r.len)
    BY <2>1, RunInfoIs
  <2>3. i \in 1 .. Len(c)
    BY DEF Starts
  <2>4. WholeRun(c, i, RunLen(c, i))
    BY <2>3, RunLenIsWhole
  <2> QED
    BY <2>1, <2>2, <2>4 DEF WholeRun
<1>8. \A j \in 1 .. Len(order) : order[j] \in runs
  BY <1>6
<1>9. order \in Seq(Run)
  <2>1. Len(order) \in Nat /\ order \in [1 .. Len(order) -> Run]
    BY <1>6, <1>7, <1>8
  <2> QED
    BY <2>1
<1>10. ASSUME NEW i \in 1 .. Len(order), NEW j \in 1 .. Len(order), i # j
       PROVE  Apart(order[i], order[j])
  <2>1. order[i] \in runs /\ order[j] \in runs /\ order[i] # order[j]
    BY <1>6, <1>8, <1>10
  <2> DEFINE r == order[i]
             q == order[j]
  <2> HIDE DEF r, q
  <2>2. r \in runs /\ q \in runs /\ r # q
    BY <2>1 DEF r, q
  <2>3. /\ r.pos \in Starts(c) /\ r.len = RunLen(c, r.pos) /\ r = RunInfo(c, have, r.pos)
        /\ q.pos \in Starts(c) /\ q.len = RunLen(c, q.pos) /\ q = RunInfo(c, have, q.pos)
    BY <1>7, <2>2
  <2>4. r.pos \in Int /\ q.pos \in Int
    BY <2>3 DEF Starts
  <2>5. r.pos # q.pos
    BY <2>2, <2>3
  <2>6. CASE r.pos < q.pos
    <3>1. r.pos + RunLen(c, r.pos) <= q.pos
      BY <2>3, <2>6, StartsApart
    <3> QED
      BY <2>3, <3>1 DEF Apart, r, q
  <2>7. CASE q.pos < r.pos
    <3>1. q.pos + RunLen(c, q.pos) <= r.pos
      BY <2>3, <2>7, StartsApart
    <3> QED
      BY <2>3, <3>1 DEF Apart, r, q
  <2> QED
    BY <2>4, <2>5, <2>6, <2>7
<1>11. ASSUME NEW p \in 1 .. Len(c)
       PROVE  \E j \in 1 .. Len(order) : order[j].pos <= p /\ p < order[j].pos + order[j].len
  <2>1. PICK i \in Starts(c) : i <= p /\ p < i + RunLen(c, i)
    BY EachInARun
  <2>2. PICK j \in 1 .. Len(order) : order[j] = RunInfo(c, have, i)
    BY <1>4, <1>6
  <2>3. order[j].pos = i /\ order[j].len = RunLen(c, i)
    BY <2>2, RunInfoIs
  <2> QED
    BY <2>1, <2>3
<1>12. \A j \in 1 .. Len(order) :
          /\ RunAt(c, order[j].pos, order[j].len)
          /\ order[j].flags = 0 => OfIncompletePiece(c, have, order[j].pos, order[j].len)
  BY <1>7, <1>8
<1> QED
  BY <1>2, <1>9, <1>10, <1>11, <1>12 DEF AllRuns
-----------------------------------------------------------------------------
(* A list of runs is flushed in turn.                                      *)

(* A run behind the one that is cut out moves forward, unchanged.          *)
LEMMA RunMoves ==
    ASSUME NEW c \in Seq(Entry), NEW pos, NEW n, RunAt(c, pos, n),
           NEW d, CutOut(d, Entry, c, pos, n),
           NEW p, NEW m, RunAt(c, p, m), p + m <= pos \/ pos + n <= p,
           NEW p1, p1 = IF p > pos THEN p - n ELSE p
    PROVE  RunAt(d, p1, m) /\ \A k \in 0 .. m - 1 : d[p1 + k] = c[p + k]
<1>1. /\ pos \in 1 .. Len(c) /\ n \in 1 .. Len(c) + 1 - pos /\ Len(c) \in Nat
      /\ p \in 1 .. Len(c) /\ m \in 1 .. Len(c) + 1 - p
  BY RunFacts
<1>2. /\ Len(d) = Len(c) - n
      /\ \A i \in 1 .. Len(d) : d[i] = IF i < pos THEN c[i] ELSE c[i + n]
  BY DEF CutOut
<1>3. p1 \in 1 .. Len(d) /\ m \in 1 .. Len(d) + 1 - p1
  BY <1>1, <1>2
<1>4. ASSUME NEW k \in 0 .. m - 1 PROVE d[p1 + k] = c[p + k]
  <2>1. p1 + k \in 1 .. Len(d)
    BY <1>1, <1>2, <1>3
  <2>2. CASE p + m <= pos
    <3>1. p1 + k = p + k /\ p + k < pos
      BY <1>1, <2>2
    <3> QED
      BY <1>2, <2>1, <3>1
  <2>3. CASE pos + n <= p
    <3>1. (p1 + k) + n = p + k /\ ~(p1 + k < pos)
      BY <1>1, <2>3
    <3> QED
      BY <1>2, <2>1, <3>1
  <2> QED
    BY <2>2, <2>3
<1>5. 0 \in 0 .. m - 1 /\ p1 + 0 = p1 /\ p + 0 = p
  BY <1>1, <1>3
<1>6. d[p1] = c[p]
  BY <1>4, <1>5
<1>7. \A k \in 0 .. m - 1 : /\ c[p + k].block = c[p].block + k
                            /\ TorrentOf[c[p + k].block] = TorrentOf[c[p].block]
  BY DEF RunAt
<1>8. \A k \in 0 .. m - 1 : /\ d[p1 + k].block = d[p1].block + k
                            /\ TorrentOf[d[p1 + k].block] = TorrentOf[d[p1].block]
  BY <1>4, <1>6, <1>7
<1> QED
  BY <1>3, <1>4, <1>8 DEF RunAt

Fit(runs, c) ==
    /\ \A j \in 1 .. Len(runs) : RunAt(c, runs[j].pos, runs[j].len)
    /\ \A i, j \in 1 .. Len(runs) : i # j => Apart(runs[i], runs[j])

FlushStep(st, i, fault) ==
    IF st.store.err THEN st
    ELSE [store |-> FlushContiguous(st.store, st.runs[i].pos, st.runs[i].len, fault),
          runs |-> MovedUp(st.runs, i)]

(* The function FlushRuns is made from is what its recursion says.         *)
FlushesBy(F, s, runs, fault) ==
    /\ F[0] = [store |-> s, runs |-> runs]
    /\ \A i \in 1 .. Len(runs) : F[i] = FlushStep(F[i - 1], i, fault)
    /\ FlushRuns(s, runs, fault) = F[Len(runs)].store

LEMMA FlushRunsByStep ==
    ASSUME NEW s, NEW runs, NEW fault, Len(runs) \in Nat
    PROVE  \E F : FlushesBy(F, s, runs, fault)
<1> DEFINE n == Len(runs)
           base == [store |-> s, runs |-> runs]
           Step(st, i) == FlushStep(st, i, fault)
           G == {k \in 0 .. n : \E g : /\ g[0] = base
                                       /\ \A i \in 1 .. k : g[i] = Step(g[i - 1], i)}
           Eq(it) == it = [i \in 0 .. n |-> IF i = 0 THEN base ELSE Step(it[i - 1], i)]
           F == CHOOSE it : Eq(it)
<1>1. n \in Nat
  OBVIOUS
<1>2. FlushRuns(s, runs, fault) = F[n].store
  BY Zenon DEF FlushRuns, FlushStep
<1> HIDE DEF n, base, Step
<1>3. 0 \in G
  <2> DEFINE g == [i \in {0} |-> base]
  <2>1. g[0] = base
    OBVIOUS
  <2> HIDE DEF g
  <2>2. \A i \in 1 .. 0 : g[i] = Step(g[i - 1], i)
    OBVIOUS
  <2>3. \E f : f[0] = base /\ \A i \in 1 .. 0 : f[i] = Step(f[i - 1], i)
    BY <2>1, <2>2
  <2> QED
    BY <1>1, <2>3
<1>4. ASSUME NEW k \in 1 .. n, k - 1 \in G PROVE k \in G
  <2>1. PICK g : g[0] = base /\ \A i \in 1 .. k - 1 : g[i] = Step(g[i - 1], i)
    BY <1>4
  <2> DEFINE h == [i \in 0 .. n |-> IF i = k THEN Step(g[k - 1], k) ELSE g[i]]
  <2>2. h[0] = base /\ h[k] = Step(h[k - 1], k)
    BY <1>1, <2>1
  <2>3. \A i \in 1 .. k - 1 : h[i] = Step(h[i - 1], i)
    BY <1>1, <2>1
  <2>4. \A i \in 1 .. k : i = k \/ i \in 1 .. k - 1
    OBVIOUS
  <2> HIDE DEF h
  <2> QED
    BY <2>2, <2>3, <2>4
<1>5. n \in G
  <2> HIDE DEF G
  <2>1. 0 .. n \subseteq G
    BY <1>1, <1>3, <1>4, HandedOn
  <2> QED
    BY <1>1, <2>1
<1>6. PICK g : g[0] = base /\ \A i \in 1 .. n : g[i] = Step(g[i - 1], i)
  BY <1>5
<1> DEFINE h == [i \in 0 .. n |-> g[i]]
<1>7. Eq(h)
  <2>1. \A i \in 0 .. n : i = 0 \/ (i \in 1 .. n /\ i - 1 \in 0 .. n)
    BY <1>1
  <2>2. \A i \in 0 .. n : h[i] = IF i = 0 THEN base ELSE Step(h[i - 1], i)
    BY <1>6, <2>1
  <2> QED
    BY <2>2
<1>8. Eq(F)
  <2> HIDE DEF Eq, h
  <2> QED
    BY <1>7
<1>9. F[0] = base /\ \A i \in 1 .. n : F[i] = Step(F[i - 1], i)
  <2>1. 0 \in 0 .. n /\ \A i \in 1 .. n : i \in 0 .. n /\ i # 0
    BY <1>1
  <2> HIDE DEF F
  <2> QED
    BY <1>8, <2>1
<1> HIDE DEF F
<1>10. FlushesBy(F, s, runs, fault)
  BY <1>2, <1>9 DEF FlushesBy, n, base, Step
<1> QED
  BY <1>10

(* Without a fault nothing is lost.                                        *)
Quiet(fault, s0, s) == fault = NoFault => s.lost = s0.lost

(* Runs i + 1 and on are still there, and those up to i are gone.          *)
Pending(s, runs, st, i) ==
    /\ \A j \in i + 1 .. Len(runs) :
          /\ RunAt(st.store.cache, st.runs[j].pos, runs[j].len)
          /\ \A k \in 0 .. runs[j].len - 1 :
                st.store.cache[st.runs[j].pos + k] = s.cache[runs[j].pos + k]
    /\ \A j, m \in i + 1 .. Len(runs) : j # m => Apart(st.runs[j], st.runs[m])
    /\ \A j \in 1 .. i : \A k \in 0 .. runs[j].len - 1 : \A m \in 1 .. Len(st.store.cache) :
          st.store.cache[m].block # s.cache[runs[j].pos + k].block

Flushing(s, runs, fault, st, i) ==
    /\ After(s, st.store) /\ Quiet(fault, s, st.store)
    /\ st.runs \in Seq(Run) /\ Len(st.runs) = Len(runs)
    /\ \A j \in 1 .. Len(runs) : st.runs[j].len = runs[j].len
    /\ i > 0 => Len(st.store.cache) < Len(s.cache)
    /\ ~st.store.err => Pending(s, runs, st, i)

LEMMA MovedUpIs ==
    ASSUME NEW runs \in Seq(Run), NEW i \in 1 .. Len(runs),
           \A j \in i + 1 .. Len(runs) : Apart(runs[i], runs[j])
    PROVE  LET m == MovedUp(runs, i)
           IN  /\ m \in Seq(Run) /\ Len(m) = Len(runs)
               /\ \A j \in 1 .. Len(runs) : m[j].len = runs[j].len
               /\ \A j \in i + 1 .. Len(runs) :
                     m[j].pos = IF runs[j].pos > runs[i].pos THEN runs[j].pos - runs[i].len
                                                             ELSE runs[j].pos
<1> DEFINE m == MovedUp(runs, i)
           n == Len(runs)
<1>1. n \in Nat /\ DOMAIN runs = 1 .. n /\ \A j \in 1 .. n : runs[j] \in Run
  OBVIOUS
<1>2. ASSUME NEW j \in 1 .. n
      PROVE  /\ m[j] \in Run /\ m[j].len = runs[j].len
             /\ j > i => m[j].pos = IF runs[j].pos > runs[i].pos THEN runs[j].pos - runs[i].len
                                                                 ELSE runs[j].pos
  <2> DEFINE q == runs[j]
             r == runs[i]
             z == q.pos - r.len
  <2>1. q \in Run /\ r \in Run
    BY <1>1
  <2>2. m[j] = IF j > i /\ q.pos > r.pos THEN [q EXCEPT !.pos = z] ELSE q
    BY <1>1 DEF MovedUp
  <2>3. j > i => Apart(r, q)
    BY <1>1
  <2> HIDE DEF q, r, m
  <2>4. /\ q.pos \in Nat /\ q.len \in Nat /\ r.pos \in Nat /\ r.len \in Nat
        /\ q = [pos |-> q.pos, len |-> q.len, flags |-> q.flags] /\ q.flags \in 0 .. 3
    BY <2>1 DEF Run
  <2>5. CASE j > i /\ q.pos > r.pos
    <3>1. z \in Nat
      BY <2>3, <2>4, <2>5 DEF Apart
    <3> HIDE DEF z
    <3>2. q \in [pos : Nat, len : Nat, flags : 0 .. 3]
      BY <2>1 DEF Run
    <3>3. /\ [q EXCEPT !.pos = z] \in [pos : Nat, len : Nat, flags : 0 .. 3]
          /\ [q EXCEPT !.pos = z].len = q.len /\ [q EXCEPT !.pos = z].pos = z
      BY <3>1, <3>2
    <3>4. m[j] \in Run /\ m[j].len = q.len /\ m[j].pos = z
      BY <2>2, <2>5, <3>3 DEF Run
    <3> QED
      BY <2>5, <3>4 DEF q, r, z
  <2>6. CASE ~(j > i /\ q.pos > r.pos)
    <3>1. m[j] = q
      BY <2>2, <2>6
    <3> QED
      BY <2>1, <2>6, <3>1 DEF q, r
  <2> QED
    BY <2>5, <2>6
<1>3. m \in Seq(Run) /\ Len(m) = n
  <2>1. DOMAIN m = 1 .. n /\ m = [j \in 1 .. n |-> m[j]]
    BY <1>1 DEF MovedUp
  <2> HIDE DEF m, n
  <2> QED
    BY <1>1, <1>2, <2>1
<1>4. \A j \in i + 1 .. n : j \in 1 .. n /\ j > i
  BY <1>1
<1> HIDE DEF m
<1> QED
  BY <1>2, <1>3, <1>4 DEF m

LEMMA FlushingStarts ==
    ASSUME NEW s \in Stores, Ordered(s.cache), s.lost = {},
           NEW runs \in Seq(Run), Fit(runs, s.cache), NEW fault
    PROVE  Flushing(s, runs, fault, [store |-> s, runs |-> runs], 0)
<1>1. After(s, s)
  BY AfterNothing
<1> DEFINE st == [store |-> s, runs |-> runs]
<1>2. st.store = s /\ st.runs = runs
  OBVIOUS
<1> HIDE DEF st
<1>3. Pending(s, runs, st, 0)
  BY <1>2 DEF Pending, Fit
<1> QED
  BY <1>1, <1>2, <1>3 DEF Flushing, Quiet, st

(* Two runs apart stay apart when both have moved forward.                 *)
LEMMA StillApart ==
    ASSUME NEW r, NEW q, NEW m, NEW r1, NEW q1,
           r.pos \in Nat /\ r.len \in Nat /\ r.len > 0 /\ r1.len = r.len,
           q.pos \in Nat /\ q.len \in Nat /\ q.len > 0 /\ q1.len = q.len,
           m.pos \in Nat /\ m.len \in Nat /\ m.len > 0,
           r1.pos = IF r.pos > m.pos THEN r.pos - m.len ELSE r.pos,
           q1.pos = IF q.pos > m.pos THEN q.pos - m.len ELSE q.pos,
           Apart(m, r), Apart(m, q), Apart(r, q)
    PROVE  Apart(r1, q1)
BY DEF Apart

LEMMA FlushingGoesOn ==
    ASSUME NEW s \in Stores, Ordered(s.cache), NEW runs \in Seq(Run), NEW fault \in AnyFault,
           NEW i \in 1 .. Len(runs), NEW st, Flushing(s, runs, fault, st, i - 1),
           i = 1 => ~st.store.err
    PROVE  Flushing(s, runs, fault, FlushStep(st, i, fault), i)
<1> DEFINE N == Len(runs)
           c == st.store.cache
           q == st.runs
           pos == q[i].pos
           n == runs[i].len
           r == FlushContiguous(st.store, pos, q[i].len, fault)
           d == r.cache
           z == i - 1
<1>1. /\ After(s, st.store) /\ Quiet(fault, s, st.store)
      /\ q \in Seq(Run) /\ Len(q) = N
      /\ \A j \in 1 .. N : q[j].len = runs[j].len
      /\ z > 0 => Len(c) < Len(s.cache)
      /\ ~st.store.err => Pending(s, runs, st, z)
  BY DEF Flushing
<1>2. i \in Nat /\ z \in Nat /\ N \in Nat /\ i \in 1 .. N /\ i \in z + 1 .. N /\ i > 0
  OBVIOUS
<1>3. CASE st.store.err
  <2>1. z > 0 /\ FlushStep(st, i, fault) = st
    BY <1>2, <1>3 DEF FlushStep
  <2> QED
    BY <1>1, <1>3, <2>1 DEF Flushing
<1>4. CASE ~st.store.err
  <2>1. Pending(s, runs, st, z)
    BY <1>1, <1>4
  <2>2. /\ \A j \in z + 1 .. N :
              /\ RunAt(c, q[j].pos, runs[j].len)
              /\ \A k \in 0 .. runs[j].len - 1 : c[q[j].pos + k] = s.cache[runs[j].pos + k]
        /\ \A j, m \in z + 1 .. N : j # m => Apart(q[j], q[m])
        /\ \A j \in 1 .. z : \A k \in 0 .. runs[j].len - 1 : \A m \in 1 .. Len(c) :
              c[m].block # s.cache[runs[j].pos + k].block
    BY <2>1 DEF Pending
  <2>3. st.store \in Stores /\ c \in Seq(Entry) /\ Ordered(c) /\ Len(c) <= Len(s.cache)
    <3>1. st.store \in Stores /\ Ordered(c) /\ Len(c) <= Len(s.cache)
      BY <1>1 DEF After
    <3> QED
      BY <3>1 DEF Stores
  <2>4. q[i].len = n /\ RunAt(c, pos, n)
    BY <1>1, <1>2, <2>2
  <2> HIDE DEF c, q, pos, n, N, z
  <2>5. PICK done \in 0 .. n : /\ Flushed(r, st.store, pos, n, done)
                               /\ fault = NoFault => done = n
    <3>1. RunAt(st.store.cache, pos, n)
      BY <2>4 DEF c
    <3>2. Writes(FlushContiguous(st.store, pos, n, fault), st.store, pos, n, fault)
      <4> DEFINE store == st.store
      <4>1. store \in Stores /\ RunAt(store.cache, pos, n)
        BY <2>3, <3>1
      <4> HIDE DEF store
      <4>2. Writes(FlushContiguous(store, pos, n, fault), store, pos, n, fault)
        BY <4>1, FlushContiguousFlushes
      <4> QED
        BY <4>2 DEF store
    <3>3. Writes(r, st.store, pos, n, fault)
      BY <2>4, <3>2
    <3> HIDE DEF r
    <3> QED
      BY <3>3 DEF Writes
  <2>6. FlushStep(st, i, fault) = [store |-> r, runs |-> MovedUp(q, i)]
    BY <1>4, <2>4 DEF FlushStep, q, pos
  <2> HIDE DEF r
  <2>7. After(s, r) /\ Len(d) < Len(c)
    <3>1. RunAt(st.store.cache, pos, n)
      BY <2>4 DEF c
    <3>2. After(s, r) /\ Len(r.cache) < Len(st.store.cache)
      BY <1>1, <2>5, <3>1, AfterFlush
    <3> QED
      BY <3>2 DEF c
  <2>8. CutOut(d, Entry, c, pos, n)
    BY <2>5 DEF Flushed, c
  <2>9. Quiet(fault, s, r)
    <3>1. r.lost = st.store.lost \cup {c[pos + k].block : k \in done .. n - 1}
      BY <2>5 DEF Flushed, c
    <3>2. done = n => done .. n - 1 = {}
      <4>1. n \in Nat
        BY <2>3, <2>4 DEF RunAt
      <4> QED
        BY <4>1
    <3> QED
      BY <1>1, <2>5, <3>1, <3>2 DEF Quiet
  <2>10. \A j \in i + 1 .. N : j \in z + 1 .. N /\ j \in 1 .. N /\ j # i
    BY <1>2 DEF z
  <2>11. \A j \in i + 1 .. N : Apart(q[i], q[j])
    BY <1>2, <2>2, <2>10
  <2> DEFINE u == MovedUp(q, i)
  <2>12. /\ u \in Seq(Run) /\ Len(u) = N
         /\ \A j \in 1 .. N : u[j].len = runs[j].len
         /\ \A j \in i + 1 .. N : u[j].pos = IF q[j].pos > pos THEN q[j].pos - n ELSE q[j].pos
    <3>1. i \in 1 .. Len(q) /\ \A j \in i + 1 .. Len(q) : Apart(q[i], q[j])
      BY <1>1, <1>2, <2>11
    <3>2. /\ u \in Seq(Run) /\ Len(u) = Len(q)
          /\ \A j \in 1 .. Len(q) : u[j].len = q[j].len
          /\ \A j \in i + 1 .. Len(q) :
                u[j].pos = IF q[j].pos > q[i].pos THEN q[j].pos - q[i].len ELSE q[j].pos
      BY <1>1, <3>1, MovedUpIs
    <3> HIDE DEF u
    <3> QED
      BY <1>1, <2>4, <3>2 DEF pos
  <2> HIDE DEF u
  <2> DEFINE new == [store |-> r, runs |-> u]
  <2>13. FlushStep(st, i, fault) = new /\ new.store = r /\ new.runs = u
    BY <2>6 DEF u
  <2>14. ASSUME NEW j \in i + 1 .. N
         PROVE  /\ RunAt(d, u[j].pos, runs[j].len)
                /\ \A k \in 0 .. runs[j].len - 1 : d[u[j].pos + k] = s.cache[runs[j].pos + k]
    <3> DEFINE p == q[j].pos
               m == runs[j].len
               p1 == u[j].pos
    <3>1. /\ RunAt(c, p, m) /\ p1 = IF p > pos THEN p - n ELSE p
          /\ \A k \in 0 .. m - 1 : c[p + k] = s.cache[runs[j].pos + k]
      BY <2>2, <2>10, <2>12
    <3>2. p + m <= pos \/ pos + n <= p
      BY <1>1, <2>4, <2>10, <2>11 DEF Apart, pos
    <3> HIDE DEF p, m, p1
    <3>3. RunAt(d, p1, m) /\ \A k \in 0 .. m - 1 : d[p1 + k] = c[p + k]
      <4> HIDE DEF d
      <4> QED
        BY <2>3, <2>4, <2>8, <3>1, <3>2, RunMoves
    <3>4. \A k \in 0 .. m - 1 : d[p1 + k] = s.cache[runs[j].pos + k]
      BY <3>1, <3>3
    <3> QED
      BY <3>3, <3>4 DEF p, m, p1
  <2>15. ASSUME NEW j \in i + 1 .. N, NEW m \in i + 1 .. N, j # m PROVE Apart(u[j], u[m])
    <3>1. Apart(q[i], q[j]) /\ Apart(q[i], q[m]) /\ Apart(q[j], q[m])
      BY <2>2, <2>10, <2>11, <2>15
    <3>2. \A k \in 1 .. N : q[k].pos \in Nat /\ q[k].len \in Nat
      <4>1. \A k \in 1 .. N : q[k] \in Run
        BY <1>1
      <4> QED
        BY <4>1 DEF Run
    <3>3. \A k \in z + 1 .. N : runs[k].len > 0
      <4> TAKE k \in z + 1 .. N
      <4>1. RunAt(c, q[k].pos, runs[k].len)
        BY <2>2
      <4> QED
        BY <2>3, <4>1, RunFacts
    <3>4. /\ q[j].pos \in Nat /\ q[j].len \in Nat /\ q[j].len > 0 /\ u[j].len = q[j].len
          /\ q[m].pos \in Nat /\ q[m].len \in Nat /\ q[m].len > 0 /\ u[m].len = q[m].len
          /\ q[i].pos \in Nat /\ q[i].len \in Nat /\ q[i].len > 0
      BY <1>1, <1>2, <2>10, <2>12, <3>2, <3>3
    <3>5. /\ u[j].pos = IF q[j].pos > q[i].pos THEN q[j].pos - q[i].len ELSE q[j].pos
          /\ u[m].pos = IF q[m].pos > q[i].pos THEN q[m].pos - q[i].len ELSE q[m].pos
      BY <2>4, <2>12 DEF pos
    <3> QED
      BY <3>1, <3>4, <3>5, StillApart
  <2>16. ASSUME NEW j \in 1 .. i, NEW k \in 0 .. runs[j].len - 1, NEW m \in 1 .. Len(d)
         PROVE  d[m].block # s.cache[runs[j].pos + k].block
    <3>1. CASE j = i
      <4>1. c[pos + k] = s.cache[runs[i].pos + k] /\ k \in 0 .. n - 1
        BY <1>2, <2>2, <3>1 DEF pos, n
      <4>2. d[m].block # c[pos + k].block
        <5> HIDE DEF d
        <5> QED
          BY <2>3, <2>4, <2>8, <4>1, CutApart
      <4> QED
        BY <3>1, <4>1, <4>2
    <3>2. CASE j # i
      <4>1. j \in 1 .. z
        BY <1>2, <3>2 DEF z
      <4>2. PICK l \in 1 .. Len(c) : d[m] = c[l]
        <5>1. \A a \in 1 .. Len(d) : \E l \in 1 .. Len(c) : d[a] = c[l] /\ l \notin pos .. pos + n - 1
          <6> HIDE DEF d
          <6> QED
            BY <2>3, <2>4, <2>8, CutFacts
        <5> QED
          BY <5>1
      <4> QED
        BY <2>2, <4>1, <4>2
    <3> QED
      BY <3>1, <3>2
  <2>17. Pending(s, runs, new, i)
    <3> HIDE DEF new
    <3> QED
      BY <2>13, <2>14, <2>15, <2>16 DEF Pending, N
  <2>18. Len(d) < Len(s.cache)
    <3>1. Len(c) \in Nat /\ Len(s.cache) \in Nat /\ Len(d) \in Nat
      <4>1. s.cache \in Seq(Entry) /\ d \in Seq(Entry)
        BY <2>7 DEF After, Stores
      <4> QED
        BY <2>3, <4>1
    <3> QED
      BY <2>3, <2>7, <3>1
  <2> HIDE DEF new
  <2> QED
    BY <2>7, <2>9, <2>12, <2>13, <2>17, <2>18 DEF Flushing, N
<1> QED
  BY <1>3, <1>4

RunsFlushed(r, s, runs, fault) ==
    /\ After(s, r) /\ Quiet(fault, s, r)
    /\ Len(runs) > 0 => Len(r.cache) < Len(s.cache)
    /\ ~r.err => \A j \in 1 .. Len(runs) : \A k \in 0 .. runs[j].len - 1 :
                    \A m \in 1 .. Len(r.cache) : r.cache[m].block # s.cache[runs[j].pos + k].block

LEMMA FlushRunsFlushes ==
    ASSUME NEW s \in Stores, Ordered(s.cache), s.lost = {}, ~s.err,
           NEW runs \in Seq(Run), Fit(runs, s.cache), NEW fault \in AnyFault
    PROVE  RunsFlushed(FlushRuns(s, runs, fault), s, runs, fault)
<1> DEFINE n == Len(runs)
<1>1. n \in Nat
  OBVIOUS
<1>2. PICK F : FlushesBy(F, s, runs, fault)
  BY <1>1, FlushRunsByStep
<1>3. /\ F[0] = [store |-> s, runs |-> runs]
      /\ \A i \in 1 .. n : F[i] = FlushStep(F[i - 1], i, fault)
      /\ FlushRuns(s, runs, fault) = F[n].store
  BY <1>2 DEF FlushesBy
<1>4. Flushing(s, runs, fault, F[0], 0) /\ ~F[0].store.err
  BY <1>3, FlushingStarts
<1> DEFINE G == {i \in 0 .. n : Flushing(s, runs, fault, F[i], i)}
<1>5. 0 \in G
  BY <1>1, <1>4
<1>6. ASSUME NEW i \in 1 .. n, i - 1 \in G PROVE i \in G
  <2> DEFINE st == F[i - 1]
  <2>1. Flushing(s, runs, fault, st, i - 1)
    BY <1>6
  <2>2. i = 1 => ~st.store.err
    BY <1>4
  <2> HIDE DEF st
  <2>3. Flushing(s, runs, fault, FlushStep(st, i, fault), i)
    BY <2>1, <2>2, FlushingGoesOn
  <2> QED
    BY <1>1, <1>3, <2>3 DEF st
<1> HIDE DEF G, n
<1>7. n \in G
  <2>1. 0 .. n \subseteq G
    BY <1>1, <1>5, <1>6, HandedOn
  <2> QED
    BY <1>1, <2>1
<1> DEFINE st == F[n]
<1>8. Flushing(s, runs, fault, st, n)
  BY <1>7 DEF G
<1>9. FlushRuns(s, runs, fault) = st.store
  BY <1>3
<1> HIDE DEF st
<1>10. RunsFlushed(st.store, s, runs, fault)
  BY <1>8 DEF Flushing, Pending, RunsFlushed, n
<1> QED
  BY <1>9, <1>10

(* The first runs of the list.                                             *)
LEMMA ChosenRunsFit ==
    ASSUME NEW c, NEW have, NEW order, AllRuns(order, c, have), NEW k \in 0 .. Len(order)
    PROVE  LET runs == SubSeq(order, 1, k)
           IN  /\ runs \in Seq(Run) /\ Len(runs) = k /\ Fit(runs, c)
               /\ \A j \in 1 .. k : runs[j] = order[j]
<1> DEFINE runs == SubSeq(order, 1, k)
<1>1. /\ order \in Seq(Run) /\ k \in Nat
      /\ \A j \in 1 .. Len(order) : RunAt(c, order[j].pos, order[j].len)
      /\ \A i, j \in 1 .. Len(order) : i # j => Apart(order[i], order[j])
  BY DEF AllRuns
<1>2. runs \in Seq(Run) /\ Len(runs) = k /\ \A j \in 1 .. k : runs[j] = order[j]
  BY <1>1, SubSeqProperties
<1>3. \A j \in 1 .. k : j \in 1 .. Len(order)
  BY <1>1
<1> HIDE DEF runs
<1>4. Fit(runs, c)
  BY <1>1, <1>2, <1>3 DEF Fit
<1> QED
  BY <1>2, <1>4 DEF runs

(* What onSaveTimer's flush leaves in the cache when it did not fail.      *)
LeavesIncomplete(r, have) ==
    ~r.err => \A m \in 1 .. Len(r.cache) : ~PieceDone(have, PieceOf[r.cache[m].block])

LEMMA RunTyped ==
    ASSUME NEW e \in Run
    PROVE  e.pos \in Nat /\ e.len \in Nat /\ e.flags \in 0 .. 3
BY DEF Run

LEMMA FlagsFall ==
    ASSUME NEW order \in Seq(Run),
           \A j \in 1 .. Len(order) - 1 : order[j].flags >= order[j + 1].flags,
           NEW i \in 1 .. Len(order), NEW j \in 1 .. Len(order), i <= j
    PROVE  order[i].flags >= order[j].flags
<1> DEFINE n == j - i
           G == {k \in 0 .. n : order[i].flags >= order[i + k].flags}
<1>1. n \in Nat /\ \A k \in 0 .. n : i + k \in 1 .. Len(order)
  OBVIOUS
<1>2. \A k \in 1 .. Len(order) : order[k].flags \in Int
  <2> TAKE k \in 1 .. Len(order)
  <2>1. order[k] \in Run
    OBVIOUS
  <2>2. order[k].flags \in 0 .. 3
    BY <2>1, RunTyped
  <2> QED
    BY <2>2
<1>3. 0 \in G
  <2>1. i + 0 = i /\ order[i].flags \in Int
    BY <1>2
  <2>2. order[i].flags >= order[i + 0].flags
    BY <2>1
  <2> QED
    BY <1>1, <2>2
<1>4. ASSUME NEW k \in 1 .. n, k - 1 \in G PROVE k \in G
  <2> DEFINE m == i + (k - 1)
  <2>1. /\ m \in 1 .. Len(order) - 1 /\ m \in 1 .. Len(order) /\ m + 1 = i + k
        /\ m + 1 \in 1 .. Len(order) /\ k \in 0 .. n
    BY <1>1
  <2>2. order[i].flags >= order[m].flags
    BY <1>4
  <2> HIDE DEF m
  <2>3. order[m].flags >= order[m + 1].flags
    BY <2>1
  <2>4. order[i].flags >= order[m + 1].flags
    BY <1>2, <2>1, <2>2, <2>3
  <2> QED
    BY <2>1, <2>4
<1> HIDE DEF G
<1>5. n \in G
  <2> HIDE DEF n
  <2>1. 0 .. n \subseteq G
    BY <1>1, <1>3, <1>4, HandedOn
  <2> QED
    BY <1>1, <2>1
<1>6. i + n = j
  OBVIOUS
<1> HIDE DEF n
<1> QED
  BY <1>5, <1>6 DEF G

(* A run of one incomplete piece has no block of a complete one.           *)
LEMMA WholeRunIncomplete ==
    ASSUME NEW c \in Seq(Entry), NEW have, NEW pos, NEW n, RunAt(c, pos, n),
           OfIncompletePiece(c, have, pos, n), NEW k \in 0 .. n - 1
    PROVE  ~PieceDone(have, PieceOf[c[pos + k].block])
<1> DEFINE e == n - 1
           x == c[pos].block
           y == c[pos + k].block
           z == c[pos + e].block
<1>1. /\ n \in Nat /\ n > 0 /\ pos + n - 1 = pos + e /\ e \in 0 .. n - 1 /\ 0 \in 0 .. n - 1
      /\ pos + 0 = pos /\ k <= e
  BY RunFacts
<1>2. /\ x \in Block /\ x \in Int /\ y \in Block /\ z \in Block
      /\ y = x + k /\ z = x + e
  <2>1. \A m \in 0 .. n - 1 : /\ c[pos + m].block = x + m
                             /\ c[pos + m].block \in Block /\ c[pos + m].block \in Int
    <3> HIDE DEF e
    <3>1. \A m \in 0 .. n - 1 : /\ c[pos + m].block = c[pos].block + m
                               /\ c[pos + m].block \in Block /\ c[pos + m].block \in Int
      <4> HIDE DEF x, y, z
      <4> QED
        BY RunFacts
    <3> QED
      BY <3>1
  <2> HIDE DEF e
  <2>2. c[pos + 0].block \in Block /\ c[pos + 0].block \in Int
    BY <1>1, <2>1
  <2> QED
    BY <1>1, <2>1, <2>2
<1>3. PieceOf[x] = PieceOf[z] /\ ~PieceDone(have, PieceOf[z])
  BY <1>1 DEF OfIncompletePiece
<1>4. x <= y /\ y <= z
  BY <1>1, <1>2
<1> HIDE DEF x, y, z
<1>5. PieceOf[y] = PieceOf[x]
  BY <1>2, <1>3, <1>4, CacheAssumption
<1> QED
  BY <1>3, <1>5 DEF y

LEMMA FlushDoneFlushes ==
    ASSUME NEW s \in Stores, Ordered(s.cache), s.lost = {}, ~s.err,
           NEW have, NEW fault \in AnyFault, NEW r \in FlushDone(s, have, fault)
    PROVE  After(s, r) /\ Quiet(fault, s, r) /\ LeavesIncomplete(r, have)
<1> DEFINE c == s.cache
           chosen(order) == {n \in DOMAIN order : \A i \in 1 .. n : order[i].flags > 0}
<1>1. PICK order \in CalcRuns(c, have) :
         r = FlushRuns(s, SubSeq(order, 1, Cardinality(chosen(order))), fault)
  BY DEF FlushDone
<1>2. c \in Seq(Entry)
  BY DEF Stores
<1> DEFINE N == Len(order)
           S == chosen(order)
           K == Cardinality(S)
           runs == SubSeq(order, 1, K)
<1>3. AllRuns(order, c, have)
  <2> HIDE DEF c
  <2> QED
    BY <1>2, CalcRunsAreAll
<1>4. /\ order \in Seq(Run) /\ N \in Nat
      /\ \A j \in 1 .. N :
            /\ RunAt(c, order[j].pos, order[j].len)
            /\ order[j].flags = 0 => OfIncompletePiece(c, have, order[j].pos, order[j].len)
      /\ \A p \in 1 .. Len(c) : \E j \in 1 .. N :
            order[j].pos <= p /\ p < order[j].pos + order[j].len
      /\ \A j \in 1 .. N - 1 : order[j].flags >= order[j + 1].flags
  BY <1>3 DEF AllRuns
<1>5. \A j \in 1 .. N : /\ order[j].pos \in Nat /\ order[j].len \in Nat
                        /\ order[j].flags \in 0 .. 3
  <2>1. \A j \in 1 .. N : order[j] \in Run
    BY <1>4
  <2> QED
    BY <2>1 DEF Run
<1>6. S \in SUBSET (1 .. N) /\ \A i \in S : 1 .. i \subseteq S
  BY <1>4
<1>7. K \in 0 .. N /\ S = 1 .. K
  <2> HIDE DEF S, N
  <2> QED
    BY <1>4, <1>6, FirstPlaces
<1>8. \A j \in 1 .. N : j \notin S => order[j].flags = 0
  <2> TAKE j \in 1 .. N
  <2>1. ASSUME j \notin S PROVE order[j].flags = 0
    <3>1. PICK i \in 1 .. j : ~(order[i].flags > 0)
      BY <1>4, <2>1
    <3>2. i \in 1 .. N /\ i <= j
      BY <1>4
    <3>3. order[i].flags >= order[j].flags
      <4> HIDE DEF S, N
      <4>1. i \in 1 .. Len(order) /\ j \in 1 .. Len(order)
        BY <3>2 DEF N
      <4> QED
        BY <1>4, <3>2, <4>1, FlagsFall DEF N
    <3>4. order[i].flags \in 0 .. 3 /\ order[j].flags \in 0 .. 3
      BY <1>5, <3>2
    <3> DEFINE fi == order[i].flags
               fj == order[j].flags
    <3>5. fi \in 0 .. 3 /\ fj \in 0 .. 3 /\ ~(fi > 0) /\ fi >= fj
      BY <3>1, <3>3, <3>4
    <3> HIDE DEF fi, fj
    <3>6. fj = 0
      BY <3>5
    <3> QED
      BY <3>6 DEF fj
  <2> QED
    BY <2>1
<1> HIDE DEF S, N, K
<1>9. /\ runs \in Seq(Run) /\ Len(runs) = K /\ Fit(runs, c)
      /\ \A j \in 1 .. K : runs[j] = order[j]
  <2> HIDE DEF c
  <2> QED
    BY <1>3, <1>7, ChosenRunsFit DEF N
<1> HIDE DEF runs
<1>10. r = FlushRuns(s, runs, fault)
  BY <1>1 DEF runs, K, S
<1>11. RunsFlushed(r, s, runs, fault)
  BY <1>9, <1>10, FlushRunsFlushes
<1>12. After(s, r) /\ Quiet(fault, s, r)
  BY <1>11 DEF RunsFlushed
<1>13. ASSUME ~r.err, NEW m \in 1 .. Len(r.cache)
       PROVE  ~PieceDone(have, PieceOf[r.cache[m].block])
  <2>1. PICK p \in 1 .. Len(c) : r.cache[m] = c[p]
    BY <1>12 DEF After
  <2>2. PICK j \in 1 .. N : order[j].pos <= p /\ p < order[j].pos + order[j].len
    BY <1>4
  <2> DEFINE pos == order[j].pos
             len == order[j].len
             k == p - pos
  <2>3. k \in 0 .. len - 1 /\ pos + k = p
    <3>1. pos \in Nat /\ len \in Nat /\ pos <= p /\ p < pos + len
      BY <1>5, <2>2
    <3>2. p \in Nat
      BY <1>2
    <3> HIDE DEF pos, len
    <3> QED
      BY <3>1, <3>2
  <2>4. j \notin 1 .. K
    <3>1. ASSUME j \in 1 .. K PROVE FALSE
      <4>1. runs[j].pos = pos /\ runs[j].len = len /\ j \in 1 .. Len(runs)
        BY <1>9, <3>1
      <4>2. r.cache[m].block # s.cache[runs[j].pos + k].block
        BY <1>11, <1>13, <2>3, <4>1 DEF RunsFlushed
      <4> QED
        BY <2>1, <2>3, <4>1, <4>2
    <3> QED
      BY <3>1
  <2>5. order[j].flags = 0
    BY <1>7, <1>8, <2>4
  <2>6. RunAt(c, pos, len) /\ OfIncompletePiece(c, have, pos, len)
    BY <1>4, <2>5
  <2> HIDE DEF k, pos, len, c
  <2>7. ~PieceDone(have, PieceOf[c[pos + k].block])
    BY <1>2, <2>3, <2>6, WholeRunIncomplete
  <2> QED
    BY <2>1, <2>3, <2>7
<1> QED
  BY <1>12, <1>13 DEF LeavesIncomplete

(* Among the runs of a whole list there are as many blocks as in the cache.*)
CountsBlocks(blocks, order) ==
    /\ blocks \in [0 .. Len(order) -> Nat]
    /\ blocks[0] = 0
    /\ \A i \in 1 .. Len(order) : blocks[i] = blocks[i - 1] + order[i].len

LEMMA BlocksOfAllRuns ==
    ASSUME NEW c \in Seq(Entry), NEW have, NEW order, AllRuns(order, c, have),
           NEW blocks, CountsBlocks(blocks, order)
    PROVE  Len(c) <= blocks[Len(order)]
<1> DEFINE N == Len(order)
           In(j) == order[j].pos .. order[j].pos + order[j].len - 1
           W(n) == {p \in 1 .. Len(c) : \E j \in 1 .. n : p \in In(j)}
           G == {n \in 0 .. N : IsFiniteSet(W(n)) /\ Cardinality(W(n)) <= blocks[n]}
<1>1. /\ order \in Seq(Run) /\ N \in Nat /\ Len(c) \in Nat
      /\ \A j \in 1 .. N : RunAt(c, order[j].pos, order[j].len)
      /\ \A p \in 1 .. Len(c) : \E j \in 1 .. N :
            order[j].pos <= p /\ p < order[j].pos + order[j].len
  BY DEF AllRuns
<1>2. \A j \in 1 .. N : order[j].pos \in Nat /\ order[j].len \in Nat
  <2>1. \A j \in 1 .. N : order[j] \in Run
    BY <1>1
  <2> QED
    BY <2>1 DEF Run
<1>3. /\ blocks[0] = 0 /\ \A i \in 0 .. N : blocks[i] \in Nat
      /\ \A i \in 1 .. N : blocks[i] = blocks[i - 1] + order[i].len
  BY DEF CountsBlocks
<1>4. 0 \in G
  <2>1. W(0) = {}
    OBVIOUS
  <2>2. IsFiniteSet(W(0)) /\ Cardinality(W(0)) = 0
    BY <2>1, FS_EmptySet
  <2> HIDE DEF W, N
  <2> QED
    BY <1>1, <1>3, <2>2
<1>5. ASSUME NEW i \in 1 .. N, i - 1 \in G PROVE i \in G
  <2> DEFINE a == order[i].pos
             l == order[i].len
             z == i - 1
  <2>1. /\ i \in Nat /\ a \in Nat /\ l \in Nat /\ z \in 0 .. N /\ i \in 0 .. N
        /\ blocks[z] \in Nat /\ blocks[i] = blocks[z] + l
    BY <1>2, <1>3
  <2>2. IsFiniteSet(W(z)) /\ Cardinality(W(z)) <= blocks[z]
    BY <1>5
  <2>3. \A j \in 1 .. i : j = i \/ j \in 1 .. z
    BY <2>1
  <2>4. W(i) \subseteq W(z) \cup In(i)
    BY <2>3
  <2>5. IsFiniteSet(In(i)) /\ Cardinality(In(i)) = l
    <3> HIDE DEF a, l, W, In
    <3> DEFINE e == a + l - 1
    <3>1. e \in Int /\ a \in Int /\ (IF a > e THEN 0 ELSE e - a + 1) = l
      BY <2>1
    <3> HIDE DEF e
    <3>2. IsFiniteSet(a .. e) /\ Cardinality(a .. e) = IF a > e THEN 0 ELSE e - a + 1
      BY <3>1, FS_Interval
    <3> QED
      BY <3>1, <3>2 DEF a, e, l, In
  <2> HIDE DEF W, In, a, l, z
  <2> DEFINE A == W(z)
             B == In(i)
  <2>6. IsFiniteSet(A) /\ IsFiniteSet(B)
    BY <2>2, <2>5
  <2> HIDE DEF A, B
  <2>7. /\ IsFiniteSet(A \cup B)
        /\ Cardinality(A \cup B) = Cardinality(A) + Cardinality(B) - Cardinality(A \cap B)
    BY <2>6, FS_Union
  <2>8. /\ Cardinality(A) \in Nat /\ Cardinality(B) \in Nat
        /\ IsFiniteSet(A \cap B) /\ Cardinality(A \cap B) \in Nat
    <3>1. IsFiniteSet(A \cap B)
      BY <2>6, FS_Intersection
    <3> QED
      BY <2>6, <3>1, FS_CardinalityType
  <2> DEFINE C == W(i)
  <2>9. C \in SUBSET (A \cup B)
    BY <2>4 DEF A, B
  <2> HIDE DEF C
  <2>10. IsFiniteSet(C) /\ Cardinality(C) <= Cardinality(A \cup B) /\ Cardinality(C) \in Nat
    <3>1. IsFiniteSet(C) /\ Cardinality(C) <= Cardinality(A \cup B)
      BY <2>7, <2>9, FS_Subset
    <3> QED
      BY <3>1, FS_CardinalityType
  <2>11. Cardinality(A) <= blocks[z] /\ Cardinality(B) = l
    BY <2>2, <2>5 DEF A, B
  <2>12. Cardinality(A \cup B) \in Nat /\ Cardinality(A \cup B) <= blocks[i]
    <3>1. Cardinality(A \cup B) \in Nat
      BY <2>7, FS_CardinalityType
    <3> QED
      BY <2>1, <2>7, <2>8, <2>11, <3>1
  <2>13. IsFiniteSet(W(i)) /\ Cardinality(W(i)) <= blocks[i]
    <3>1. blocks[i] \in Nat
      BY <1>3, <2>1
    <3> QED
      BY <2>10, <2>12, <3>1 DEF C
  <2> QED
    BY <2>1, <2>13
<1> HIDE DEF G
<1>6. N \in G
  <2> HIDE DEF N
  <2>1. 0 .. N \subseteq G
    BY <1>1, <1>4, <1>5, HandedOn
  <2> QED
    BY <1>1, <2>1
<1>7. W(N) = 1 .. Len(c)
  <2>1. ASSUME NEW p \in 1 .. Len(c) PROVE \E j \in 1 .. N : p \in In(j)
    <3>1. PICK j \in 1 .. N : order[j].pos <= p /\ p < order[j].pos + order[j].len
      BY <1>1
    <3>2. p \in In(j)
      BY <1>1, <1>2, <3>1
    <3> QED
      BY <3>2
  <2> HIDE DEF In
  <2> QED
    BY <2>1
<1>8. Cardinality(1 .. Len(c)) = Len(c)
  <2> DEFINE L == Len(c)
  <2>1. L \in Nat
    BY <1>1
  <2> HIDE DEF L
  <2>2. Cardinality(1 .. L) = L
    BY <2>1, FS_Interval
  <2> QED
    BY <2>2 DEF L
<1>9. Cardinality(W(N)) <= blocks[N]
  BY <1>6 DEF G
<1> HIDE DEF W
<1> QED
  BY <1>7, <1>8, <1>9

Trimmed(r, s, limit, fault) ==
    /\ After(s, r) /\ Quiet(fault, s, r)
    /\ Len(s.cache) > limit => Len(r.cache) < Len(s.cache)

LEMMA CacheTrimTrims ==
    ASSUME NEW s \in Stores, Ordered(s.cache), s.lost = {}, ~s.err,
           NEW limit \in Nat, NEW have, NEW fault \in AnyFault,
           NEW r \in CacheTrim(s, limit, have, fault)
    PROVE  Trimmed(r, s, limit, fault)
<1>1. CASE ~(Len(s.cache) > limit)
  <2>1. r = s
    BY <1>1 DEF CacheTrim
  <2> QED
    BY <1>1, <2>1, AfterNothing DEF Trimmed, Quiet
<1>2. CASE Len(s.cache) > limit
  <2> DEFINE c == s.cache
             Sums(order, it) == it = [n \in 0 .. Len(order) |-> IF n = 0 THEN 0
                                                               ELSE it[n - 1] + order[n].len]
             Blocks(order) == CHOOSE it : Sums(order, it)
             Z(order) == {n \in DOMAIN order : Blocks(order)[n] >= CutOff(limit)}
  <2>1. PICK order \in CalcRuns(c, have) :
           r = FlushRuns(s, SubSeq(order, 1, Min(Z(order))), fault)
    BY <1>2, Zenon DEF CacheTrim
  <2>2. c \in Seq(Entry)
    BY DEF Stores
  <2>3. AllRuns(order, c, have)
    <3> HIDE DEF c
    <3> QED
      BY <2>2, CalcRunsAreAll
  <2> DEFINE N == Len(order)
             blocks == Blocks(order)
             z == Z(order)
             K == Min(z)
             runs == SubSeq(order, 1, K)
  <2>4. order \in Seq(Run) /\ N \in Nat
    BY <2>3 DEF AllRuns
  <2>5. \A j \in 1 .. N : order[j].len \in Nat
    <3>1. \A j \in 1 .. N : order[j] \in Run
      BY <2>4
    <3> QED
      BY <3>1 DEF Run
  <2>6. CountsBlocks(blocks, order)
    <3> DEFINE step == [p \in Nat \X (1 .. N) |-> p[1] + order[p[2]].len]
    <3>1. step \in [Nat \X (1 .. N) -> Nat]
      BY <2>5
    <3>2. \A a \in Nat, i \in 1 .. N : step[<<a, i>>] = a + order[i].len
      OBVIOUS
    <3> HIDE DEF step, N, blocks
    <3>3. PICK g : Recursion(g, N, Nat, 0, step)
      BY <2>4, <3>1, RecursionExists
    <3>4. Sums(order, g)
      <4>1. \A n \in 0 .. N : n = 0 \/ (n \in 1 .. N /\ n - 1 \in 0 .. N)
        BY <2>4
      <4>2. \A n \in 0 .. N : g[n] = IF n = 0 THEN 0 ELSE g[n - 1] + order[n].len
        BY <3>2, <3>3, <4>1 DEF Recursion
      <4> QED
        BY <3>3, <4>2 DEF N, Recursion
    <3>5. Sums(order, blocks)
      <4> HIDE DEF Sums
      <4> QED
        BY <3>4 DEF blocks
    <3>6. /\ blocks[0] = 0 /\ DOMAIN blocks = 0 .. N /\ blocks = [n \in 0 .. N |-> blocks[n]]
          /\ \A i \in 1 .. N : blocks[i] = blocks[i - 1] + order[i].len
      <4>1. 0 \in 0 .. N /\ \A i \in 1 .. N : i \in 0 .. N /\ i # 0
        BY <2>4
      <4> QED
        BY <3>5, <4>1 DEF N
    <3> DEFINE G == {i \in 0 .. N : blocks[i] \in Nat}
    <3>7. 0 \in G
      BY <2>4, <3>6
    <3>8. ASSUME NEW i \in 1 .. N, i - 1 \in G PROVE i \in G
      <4>1. blocks[i - 1] \in Nat /\ order[i].len \in Nat
        BY <2>5, <3>8
      <4>2. blocks[i] = blocks[i - 1] + order[i].len
        BY <3>6
      <4>3. blocks[i] \in Nat /\ i \in 0 .. N
        BY <2>4, <4>1, <4>2
      <4> QED
        BY <4>3
    <3> HIDE DEF G
    <3>9. 0 .. N \subseteq G
      BY <2>4, <3>7, <3>8, HandedOn
    <3>10. blocks \in [0 .. N -> Nat]
      BY <3>6, <3>9 DEF G
    <3> QED
      BY <3>6, <3>10 DEF CountsBlocks, N
  <2> HIDE DEF blocks
  <2>7. Len(c) <= blocks[N]
    <3> HIDE DEF c
    <3> QED
      BY <2>2, <2>3, <2>6, BlocksOfAllRuns
  <2>8. N \in z
    <3>1. Len(c) > limit /\ Len(c) \in Nat
      BY <1>2, <2>2
    <3> HIDE DEF c
    <3>2. CutOff(limit) <= limit + 1 /\ CutOff(limit) \in Int
      BY DEF CutOff
    <3>3. N # 0
      <4>1. ASSUME N = 0 PROVE FALSE
        <5>1. blocks[N] = 0
          BY <2>6, <4>1 DEF CountsBlocks
        <5> QED
          BY <2>7, <3>1, <5>1
      <4> QED
        BY <4>1
    <3>4. N \in DOMAIN order
      BY <2>4, <3>3
    <3>5. blocks[N] \in Nat
      BY <2>4, <2>6 DEF CountsBlocks
    <3>6. blocks[N] >= CutOff(limit)
      BY <2>7, <3>1, <3>2, <3>5
    <3> QED
      BY <3>4, <3>6 DEF blocks
  <2>9. K \in z /\ K \in 1 .. N
    <3>0. z \subseteq 1 .. N
      <4>1. DOMAIN order = 1 .. N
        BY <2>4
      <4>2. z \subseteq DOMAIN order
        BY Zenon
      <4> QED
        BY <4>1, <4>2
    <3> HIDE DEF z, N
    <3>1. z \in SUBSET Nat /\ z # {} /\ z \subseteq 1 .. N
      BY <2>8, <3>0
    <3> HIDE DEF z
    <3> QED
      BY <3>1, LeastIsMin
  <2> HIDE DEF z, K
  <2>10. /\ runs \in Seq(Run) /\ Len(runs) = K /\ Fit(runs, c)
    <3>1. K \in 0 .. Len(order)
      BY <2>4, <2>9
    <3> HIDE DEF c
    <3> QED
      BY <2>3, <3>1, ChosenRunsFit
  <2> HIDE DEF runs
  <2>11. r = FlushRuns(s, runs, fault)
    BY <2>1 DEF runs, K, z
  <2>12. RunsFlushed(r, s, runs, fault)
    BY <2>10, <2>11, FlushRunsFlushes
  <2>13. Len(runs) > 0
    BY <2>4, <2>9, <2>10
  <2> QED
    BY <2>12, <2>13 DEF RunsFlushed, Trimmed
<1> QED
  BY <1>1, <1>2
-----------------------------------------------------------------------------
(* A block comes in.                                                       *)

(* p is c with the data d for the block b.                                 *)
Placed(p, c, b, d) ==
    /\ p \in Seq(Entry) /\ Ordered(p)
    /\ Len(p) = Len(c) \/ Len(p) = Len(c) + 1
    /\ \E i \in 1 .. Len(p) : p[i] = [block |-> b, data |-> d]
    /\ \A i \in 1 .. Len(p) : p[i].block = b \/ \E j \in 1 .. Len(c) : p[i] = c[j]
    /\ \A j \in 1 .. Len(c) : c[j].block = b \/ \E i \in 1 .. Len(p) : p[i] = c[j]

LEMMA PlaceIsPlaced ==
    ASSUME NEW c \in Seq(Entry), Ordered(c), NEW b \in Block, NEW d \in Data
    PROVE  Placed(Place(c, b, d), c, b, d)
<1> DEFINE new == [block |-> b, data |-> d]
           S == {i \in DOMAIN c : c[i].block < b}
           K == Cardinality(S)
           e == K + 1
           n == Len(c)
           p == Place(c, b, d)
<1>1. /\ n \in Nat /\ DOMAIN c = 1 .. n /\ b \in Int
      /\ \A i \in 1 .. n : c[i] \in Entry /\ c[i].block \in Int
  BY Entries, CacheAssumption DEF Block
<1>2. new \in Entry /\ new.block = b /\ new.data = d
  BY DEF Entry
<1> HIDE DEF new
<1>3. /\ \A i, j \in 1 .. n : i < j => c[i].block < c[j].block
      /\ \A i, j \in 1 .. n : c[i].block = c[j].block => i = j
  <2>1. \A i, j \in 1 .. n : c[i].block = c[j].block => i = j
    BY OrderedOnce
  <2> QED
    BY <2>1 DEF Ordered
<1>4. \A i \in 1 .. n : i \in S <=> c[i].block < b
  BY <1>1
<1>5. K \in 0 .. n /\ S = 1 .. K
  <2>1. S \in SUBSET (1 .. n)
    BY <1>1
  <2>2. \A i \in S : 1 .. i \subseteq S
    <3> TAKE i \in S
    <3>1. i \in 1 .. n /\ c[i].block < b
      BY <2>1, <1>4
    <3>2. ASSUME NEW j \in 1 .. i PROVE j \in S
      <4>1. j \in 1 .. n /\ (j = i \/ j < i)
        BY <1>1, <3>1
      <4>2. c[j].block < b
        BY <1>1, <1>3, <3>1, <4>1
      <4> QED
        BY <1>4, <4>1, <4>2
    <3> QED
      BY <3>2
  <2> HIDE DEF S, n
  <2> QED
    BY <1>1, <2>1, <2>2, FirstPlaces
<1> HIDE DEF S
<1>6. \A i \in 1 .. n : i <= K <=> c[i].block < b
  BY <1>1, <1>4, <1>5
<1> HIDE DEF K
<1>7. e \in 1 .. n + 1 /\ e \in Nat /\ K \in Nat
  BY <1>1, <1>5
<1>8. CASE \E i \in DOMAIN c : c[i].block = b
  <2>1. PICK i \in 1 .. n : c[i].block = b
    BY <1>1, <1>8
  <2>2. i = e
    <3>1. ~(i <= K)
      BY <1>1, <1>6, <2>1
    <3>2. ASSUME K + 1 < i PROVE FALSE
      <4>1. e \in 1 .. n /\ e < i /\ ~(e <= K)
        BY <1>1, <1>5, <3>2
      <4>2. c[e].block < b
        BY <1>3, <2>1, <4>1
      <4> QED
        BY <1>6, <4>1, <4>2
    <3> QED
      BY <1>1, <1>5, <3>1, <3>2
  <2>3. p = [c EXCEPT ![e] = new]
    BY <1>8 DEF Place, new, K, S
  <2> HIDE DEF p, e
  <2>4. /\ p \in Seq(Entry) /\ Len(p) = n
        /\ \A j \in 1 .. n : p[j] = IF j = i THEN new ELSE c[j]
    BY <1>1, <1>2, <2>1, <2>2, <2>3
  <2>5. \A j \in 1 .. n : p[j].block = c[j].block
    BY <1>2, <2>1, <2>4
  <2>6. Ordered(p)
    BY <1>3, <2>4, <2>5 DEF Ordered
  <2>7. \E j \in 1 .. n : p[j] = new
    BY <2>1, <2>4
  <2>8. \A j \in 1 .. n : p[j].block = b \/ p[j] = c[j]
    BY <1>2, <2>4
  <2>9. \A j \in 1 .. n : c[j].block = b \/ p[j] = c[j]
    BY <2>1, <2>4
  <2>10. Placed(p, c, b, d)
    BY <2>4, <2>6, <2>7, <2>8, <2>9 DEF Placed, new
  <2> QED
    BY <2>10 DEF p
<1>9. CASE ~ \E i \in DOMAIN c : c[i].block = b
  <2>1. p = InsertAt(c, e, new)
    BY <1>9 DEF Place, new, K, S
  <2> HIDE DEF p, e
  <2>2. PutIn(p, Entry, c, e, new)
    BY <1>2, <1>7, <2>1, Inserted
  <2>3. /\ p \in Seq(Entry) /\ Len(p) = n + 1
        /\ \A i \in 1 .. n + 1 : p[i] = IF i < e THEN c[i] ELSE IF i = e THEN new ELSE c[i - 1]
    BY <2>2 DEF PutIn
  <2>4. \A i \in 1 .. n : c[i].block # b
    BY <1>1, <1>9
  <2>5. \A i \in 1 .. n : i < e <=> c[i].block < b
    BY <1>1, <1>5, <1>6 DEF e
  <2>6. \A i \in 1 .. n + 1 : /\ i < e => i \in 1 .. n
                              /\ i > e => i - 1 \in 1 .. n /\ ~(i - 1 < e)
    BY <1>1, <1>7
  <2>7. \A i \in 1 .. n + 1 : /\ i < e => p[i].block < b
                              /\ i = e => p[i].block = b
                              /\ i > e => p[i].block > b
    <3> TAKE i \in 1 .. n + 1
    <3>1. i < e => p[i].block < b
      BY <2>3, <2>5, <2>6
    <3>2. i = e => p[i].block = b
      BY <1>2, <1>7, <2>3
    <3>3. ASSUME i > e PROVE p[i].block > b
      <4> DEFINE j == i - 1
      <4>1. j \in 1 .. n /\ ~(j < e) /\ ~(i < e) /\ i # e
        BY <1>7, <2>6, <3>3
      <4>2. p[i] = c[j]
        BY <2>3, <4>1
      <4> HIDE DEF j
      <4> QED
        BY <1>1, <2>4, <2>5, <4>1, <4>2
    <3> QED
      BY <3>1, <3>2, <3>3
  <2>8. ASSUME NEW i \in 1 .. n + 1, NEW j \in 1 .. n + 1, i < j
        PROVE  p[i].block < p[j].block
    <3>0. \A k \in 1 .. n + 1 : p[k].block \in Int
      <4>1. \A k \in 1 .. Len(p) : p[k].block \in Int
        BY <2>3, Entries
      <4> QED
        BY <2>3, <4>1
    <3>1. CASE j < e
      <4>1. i < e /\ i \in 1 .. n /\ j \in 1 .. n
        BY <1>7, <2>6, <2>8, <3>1
      <4> QED
        BY <1>3, <2>3, <2>8, <3>1, <4>1
    <3>2. CASE i < e /\ ~(j < e)
      <4>1. j = e \/ j > e
        BY <1>7, <3>2
      <4> QED
        BY <1>1, <2>7, <3>0, <3>2, <4>1
    <3>3. CASE i = e
      <4>1. j > e
        BY <1>7, <2>8, <3>3
      <4> QED
        BY <1>1, <2>7, <3>0, <3>3, <4>1
    <3>4. CASE i > e
      <4> DEFINE a == i - 1
                 z == j - 1
      <4>1. j > e /\ ~(i < e) /\ i # e /\ ~(j < e) /\ j # e
        BY <1>7, <2>8, <3>4
      <4>2. a \in 1 .. n /\ z \in 1 .. n /\ a < z
        BY <2>6, <2>8, <3>4, <4>1
      <4>3. p[i] = c[a] /\ p[j] = c[z]
        BY <2>3, <4>1
      <4> HIDE DEF a, z
      <4> QED
        BY <1>3, <4>2, <4>3
    <3>5. i < e \/ i = e \/ i > e
      BY <1>7
    <3> QED
      BY <3>1, <3>2, <3>3, <3>4, <3>5
  <2>9. Ordered(p)
    BY <2>3, <2>8 DEF Ordered
  <2>10. ASSUME NEW i \in 1 .. n + 1 PROVE p[i].block = b \/ \E j \in 1 .. n : p[i] = c[j]
    <3>1. CASE i < e
      BY <2>3, <2>6, <3>1
    <3>2. CASE i = e
      BY <2>7, <3>2
    <3>3. CASE i > e
      <4> DEFINE a == i - 1
      <4>1. a \in 1 .. n /\ ~(i < e) /\ i # e
        BY <1>7, <2>6, <3>3
      <4>2. p[i] = c[a]
        BY <2>3, <4>1
      <4> HIDE DEF a
      <4> QED
        BY <4>1, <4>2
    <3> QED
      BY <1>7, <3>1, <3>2, <3>3
  <2>11. ASSUME NEW j \in 1 .. n PROVE \E i \in 1 .. n + 1 : p[i] = c[j]
    <3>1. CASE j < e
      <4>1. j \in 1 .. n + 1
        BY <1>1
      <4> QED
        BY <2>3, <3>1, <4>1
    <3>2. CASE ~(j < e)
      <4> DEFINE i == j + 1
      <4>1. i \in 1 .. n + 1 /\ ~(i < e) /\ i # e /\ i - 1 = j
        BY <1>1, <1>7, <3>2
      <4> HIDE DEF i
      <4> QED
        BY <2>3, <4>1
    <3> QED
      BY <3>1, <3>2
  <2>12. \E i \in 1 .. n + 1 : p[i] = new
    BY <1>7, <2>3
  <2>13. Placed(p, c, b, d)
    BY <2>3, <2>9, <2>10, <2>11, <2>12 DEF Placed, new
  <2> QED
    BY <2>13 DEF p
<1> QED
  BY <1>8, <1>9

(* The blocks of the cache read as it has them.                            *)
Reads(c, disk) == \A i \in 1 .. Len(c) : Content(c, disk, c[i].block) = c[i].data

LEMMA AllRead ==
    ASSUME NEW c \in Seq(Entry), Ordered(c), NEW disk
    PROVE  Reads(c, disk)
<1>1. ASSUME NEW i \in 1 .. Len(c) PROVE Content(c, disk, c[i].block) = c[i].data
  <2> DEFINE b == c[i].block
  <2>1. c[i].block = b
    OBVIOUS
  <2> HIDE DEF b
  <2>2. Content(c, disk, b) = c[i].data
    BY <2>1, ContentCached
  <2> QED
    BY <2>2 DEF b
<1> QED
  BY <1>1 DEF Reads

(* The block reads as the data that came, the others as before.            *)
LEMMA PlacedContent ==
    ASSUME NEW c \in Seq(Entry), Ordered(c), NEW b, NEW d, NEW p, Placed(p, c, b, d),
           NEW disk, NEW x
    PROVE  Content(p, disk, x) = IF x = b THEN d ELSE Content(c, disk, x)
<1> DEFINE new == [block |-> b, data |-> d]
<1>1. /\ p \in Seq(Entry) /\ Ordered(p)
      /\ \E i \in 1 .. Len(p) : p[i] = new
      /\ \A i \in 1 .. Len(p) : p[i].block = b \/ \E j \in 1 .. Len(c) : p[i] = c[j]
      /\ \A j \in 1 .. Len(c) : c[j].block = b \/ \E i \in 1 .. Len(p) : p[i] = c[j]
  BY DEF Placed
<1>2. new.block = b /\ new.data = d
  OBVIOUS
<1> HIDE DEF new
<1>5. Reads(p, disk) /\ Reads(c, disk)
  BY <1>1, AllRead
<1>3. CASE x = b
  <2>1. PICK i \in 1 .. Len(p) : p[i] = new
    BY <1>1
  <2>2. p[i].block = x
    BY <1>2, <1>3, <2>1
  <2>3. Content(p, disk, x) = p[i].data
    BY <1>5, <2>2 DEF Reads
  <2> QED
    BY <1>2, <1>3, <2>1, <2>3
<1>4. CASE x # b
  <2>1. CASE \E j \in 1 .. Len(c) : c[j].block = x
    <3>1. PICK j \in 1 .. Len(c) : c[j].block = x
      BY <2>1
    <3>2. PICK i \in 1 .. Len(p) : p[i] = c[j]
      BY <1>1, <1>4, <3>1
    <3>3. p[i].block = x
      BY <3>1, <3>2
    <3>4. Content(p, disk, x) = p[i].data
      BY <1>5, <3>3 DEF Reads
    <3>5. Content(c, disk, x) = c[j].data
      BY <1>5, <3>1 DEF Reads
    <3> QED
      BY <1>4, <3>2, <3>4, <3>5
  <2>2. CASE \A j \in 1 .. Len(c) : c[j].block # x
    <3>1. \A i \in 1 .. Len(p) : p[i].block # x
      BY <1>1, <1>4, <2>2
    <3>2. Content(p, disk, x) = disk[x]
      BY <1>1, <3>1, ContentOnDisk
    <3>3. Content(c, disk, x) = disk[x]
      BY <2>2, ContentOnDisk
    <3> QED
      BY <1>4, <3>2, <3>3
  <2> QED
    BY <2>1, <2>2
<1> QED
  BY <1>3, <1>4

LEMMA WriteBlockWrites ==
    ASSUME NEW c \in Seq(Entry), Ordered(c), NEW disk \in [Block -> Data],
           NEW b \in Block, NEW d \in Data, NEW limit \in Nat, NEW have, NEW fault \in AnyFault,
           NEW r \in WriteBlock(Store(c, disk), b, d, limit, have, fault)
    PROVE  \E p : /\ Placed(p, c, b, d)
                  /\ Store(p, disk) \in Stores /\ Ordered(p)
                  /\ Trimmed(r, Store(p, disk), limit, fault)
<1> DEFINE p == Place(c, b, d)
           s == Store(p, disk)
<1>1. Placed(p, c, b, d)
  BY PlaceIsPlaced
<1> HIDE DEF p
<1>3. p \in Seq(Entry) /\ Ordered(p)
  BY <1>1 DEF Placed
<1>4. s \in Stores /\ s.cache = p /\ s.lost = {} /\ ~s.err
  BY <1>3 DEF Store, Stores
<1>2. [Store(c, disk) EXCEPT !.cache = p] = s
  <2> DEFINE t == Store(c, disk)
             u == [t EXCEPT !.cache = p]
  <2>1. t \in Stores /\ t.disk = disk /\ t.lost = {} /\ t.failed = {} /\ t.err = FALSE
    BY DEF Store, Stores
  <2>2. s.disk = disk /\ s.lost = {} /\ s.failed = {} /\ s.err = FALSE
    BY DEF Store
  <2> HIDE DEF t, s
  <2>3. /\ u \in Stores /\ u.cache = p /\ u.disk = t.disk
        /\ u.lost = t.lost /\ u.failed = t.failed /\ u.err = t.err
    BY <1>3, <2>1 DEF Stores
  <2> HIDE DEF u
  <2>4. /\ u = [cache |-> u.cache, disk |-> u.disk, err |-> u.err, failed |-> u.failed, lost |-> u.lost]
        /\ s = [cache |-> s.cache, disk |-> s.disk, err |-> s.err, failed |-> s.failed, lost |-> s.lost]
    BY <1>4, <2>3 DEF Stores
  <2> QED
    BY <1>4, <2>1, <2>2, <2>3, <2>4 DEF u, t
<1>5. r \in CacheTrim(s, limit, have, fault)
  <2>1. Place(Store(c, disk).cache, b, d) = p
    BY DEF p, Store
  <2> HIDE DEF s
  <2> QED
    BY <1>2, <2>1 DEF WriteBlock
<1> HIDE DEF s
<1>6. Trimmed(r, s, limit, fault)
  BY <1>3, <1>4, <1>5, CacheTrimTrims
<1> QED
  BY <1>1, <1>3, <1>4, <1>6 DEF s
-----------------------------------------------------------------------------
(* The flush of a range: a file, or a torrent.                             *)

(* st has no block that s had not; what failed and what was lost remain.   *)
Since(s, st) ==
    /\ s.failed \subseteq st.failed /\ s.lost \subseteq st.lost
    /\ Len(st.cache) <= Len(s.cache)
    /\ \A i \in 1 .. Len(st.cache) : \E j \in 1 .. Len(s.cache) : st.cache[i] = s.cache[j]

InRange(first, last) == {b \in Block : first <= b /\ b <= last}

(* The error of a range is of a torrent in it.                             *)
Blamed(st, first, last) ==
    st.err => \E b \in InRange(first, last) : TorrentOf[b] \in st.failed

Underway(s0, s, pos, first, last, fault) ==
    {st \in Stores : /\ After(s0, st) /\ Quiet(fault, s, st) /\ Since(s, st)
                     /\ Blamed(st, first, last)
                     /\ \A i \in 1 .. Len(st.cache) : i < pos <=> st.cache[i].block < first}

Finished(st, pos, first, last) ==
    st.err \/ ~(pos <= Len(st.cache)) \/ st.cache[pos].block \notin first .. last

FlushOne(st, pos, first, last, fault) ==
    IF /\ ~st.err
       /\ pos <= Len(st.cache)
       /\ st.cache[pos].block \in first .. last
    THEN FlushContiguous(st, pos, RunLen(st.cache, pos), fault)
    ELSE st

LEMMA FlushOneGoesOn ==
    ASSUME NEW s0 \in Stores, Ordered(s0.cache), NEW s, NEW pos \in Nat \ {0},
           NEW first \in Block, NEW last \in Block, NEW fault \in AnyFault,
           Len(s.cache) \in Nat, NEW st \in Underway(s0, s, pos, first, last, fault)
    PROVE  LET r == FlushOne(st, pos, first, last, fault)
           IN  /\ r \in Underway(s0, s, pos, first, last, fault)
               /\ Finished(st, pos, first, last) => r = st
               /\ ~Finished(st, pos, first, last) => Len(r.cache) < Len(st.cache)
<1> DEFINE c == st.cache
           n == RunLen(c, pos)
           r == FlushContiguous(st, pos, n, fault)
           d == r.cache
<1>1. CASE Finished(st, pos, first, last)
  <2>1. FlushOne(st, pos, first, last, fault) = st
    BY <1>1 DEF Finished, FlushOne
  <2> QED
    BY <1>1, <2>1
<1>2. CASE ~Finished(st, pos, first, last)
  <2>1. /\ FlushOne(st, pos, first, last, fault) = r
        /\ pos <= Len(c) /\ c[pos].block \in first .. last
    BY <1>2 DEF Finished, FlushOne
  <2>2. /\ st \in Stores /\ After(s0, st) /\ Quiet(fault, s, st)
        /\ s.failed \subseteq st.failed /\ s.lost \subseteq st.lost /\ Len(c) <= Len(s.cache)
        /\ \A i \in 1 .. Len(c) : \E j \in 1 .. Len(s.cache) : c[i] = s.cache[j]
        /\ \A i \in 1 .. Len(c) : i < pos <=> c[i].block < first
    BY DEF Underway, Since
  <2>3. c \in Seq(Entry)
    BY <2>2 DEF Stores
  <2> HIDE DEF c
  <2>4. pos \in 1 .. Len(c)
    BY <2>1, <2>3
  <2>5. WholeRun(c, pos, n)
    BY <2>3, <2>4, RunLenIsWhole
  <2> HIDE DEF n
  <2>6. RunAt(c, pos, n)
    BY <2>5 DEF WholeRun
  <2>7. RunAt(st.cache, pos, n)
    BY <2>6 DEF c
  <2>8. Writes(r, st, pos, n, fault)
    BY <2>2, <2>7, FlushContiguousFlushes
  <2> HIDE DEF r
  <2>9. PICK done \in 0 .. n : Flushed(r, st, pos, n, done) /\ (fault = NoFault => done = n)
    BY <2>8 DEF Writes
  <2>10. After(s0, r) /\ Len(d) < Len(c)
    <3>1. After(s0, r) /\ Len(r.cache) < Len(st.cache)
      BY <2>2, <2>7, <2>9, AfterFlush
    <3> QED
      BY <3>1 DEF c
  <2>11. /\ CutOut(d, Entry, c, pos, n) /\ r \in Stores
         /\ r.lost = st.lost \cup {c[pos + k].block : k \in done .. n - 1}
         /\ r.failed = st.failed \cup IF r.err THEN {TorrentOf[c[pos].block]} ELSE {}
    BY <2>9 DEF Flushed, c, Stores
  <2> HIDE DEF d
  <2>12. Quiet(fault, s, r)
    <3>1. n \in Nat
      BY <2>3, <2>6, RunFacts
    <3>2. done = n => done .. n - 1 = {}
      BY <3>1
    <3> QED
      BY <2>2, <2>9, <2>11, <3>2 DEF Quiet
  <2>13. /\ \A i \in 1 .. Len(d) : \E k \in 1 .. Len(c) : d[i] = c[k]
         /\ \A i \in 1 .. Len(d) : d[i] = IF i < pos THEN c[i] ELSE c[i + n]
         /\ Len(d) = Len(c) - n /\ Len(c) \in Nat /\ n \in Nat /\ n \in 1 .. Len(c) + 1 - pos
    <3>1. \A i \in 1 .. Len(d) : \E k \in 1 .. Len(c) : d[i] = c[k] /\ k \notin pos .. pos + n - 1
      BY <2>3, <2>6, <2>11, CutFacts
    <3>2. /\ \A i \in 1 .. Len(d) : d[i] = IF i < pos THEN c[i] ELSE c[i + n]
          /\ Len(d) = Len(c) - n
      BY <2>11 DEF CutOut
    <3>3. Len(c) \in Nat /\ n \in Nat /\ n \in 1 .. Len(c) + 1 - pos
      BY <2>3, <2>6, RunFacts
    <3> QED
      BY <3>1, <3>2, <3>3
  <2>14. Since(s, r)
    <3>1. s.failed \subseteq r.failed /\ s.lost \subseteq r.lost /\ Len(d) <= Len(s.cache)
      BY <2>2, <2>10, <2>11, <2>13
    <3>2. \A i \in 1 .. Len(d) : \E j \in 1 .. Len(s.cache) : d[i] = s.cache[j]
      <4> TAKE i \in 1 .. Len(d)
      <4>1. PICK k \in 1 .. Len(c) : d[i] = c[k]
        BY <2>13
      <4> QED
        BY <2>2, <4>1
    <3> QED
      BY <3>1, <3>2 DEF Since, d
  <2>15. Blamed(r, first, last)
    <3> DEFINE b == c[pos].block
    <3>1. b \in Block /\ b \in Int
      BY <2>3, <2>4, Entries
    <3>2. first \in Int /\ last \in Int
      BY CacheAssumption DEF Block
    <3>3. b \in first .. last
      BY <2>1
    <3> HIDE DEF b
    <3>4. b \in InRange(first, last)
      BY <3>1, <3>2, <3>3 DEF InRange
    <3>5. r.err => TorrentOf[b] \in r.failed
      BY <2>11 DEF b
    <3> QED
      BY <3>4, <3>5 DEF Blamed
  <2>16. ASSUME NEW i \in 1 .. Len(d) PROVE i < pos <=> d[i].block < first
    <3>1. CASE i < pos
      <4>1. i \in 1 .. Len(c)
        BY <2>4, <3>1
      <4> QED
        BY <2>2, <2>13, <3>1, <4>1
    <3>2. CASE ~(i < pos)
      <4> DEFINE k == i + n
      <4>1. k \in 1 .. Len(c) /\ ~(k < pos)
        BY <2>4, <2>13, <3>2
      <4>2. d[i] = c[k]
        BY <2>13, <3>2
      <4> HIDE DEF k
      <4> QED
        BY <2>2, <3>2, <4>1, <4>2
    <3> QED
      BY <3>1, <3>2
  <2>17. r \in Underway(s0, s, pos, first, last, fault)
    BY <2>10, <2>11, <2>12, <2>14, <2>15, <2>16 DEF Underway, d
  <2> QED
    BY <1>2, <2>1, <2>10, <2>17 DEF c, d
<1> QED
  BY <1>1, <1>2

RangeFlushed(r, s0, s, first, last, fault) ==
    /\ After(s0, r) /\ Quiet(fault, s, r) /\ Since(s, r) /\ Blamed(r, first, last)
    /\ ~r.err => \A i \in 1 .. Len(r.cache) : r.cache[i].block \notin first .. last

(* Where the range begins in a sorted cache.                               *)
LEMMA RangeBegins ==
    ASSUME NEW c \in Seq(Entry), Ordered(c), NEW first \in Block,
           NEW pos, pos = Cardinality({i \in DOMAIN c : c[i].block < first}) + 1
    PROVE  pos \in Nat \ {0} /\ \A i \in 1 .. Len(c) : i < pos <=> c[i].block < first
<1> DEFINE S == {i \in DOMAIN c : c[i].block < first}
           K == Cardinality(S)
           n == Len(c)
<1>1. /\ n \in Nat /\ DOMAIN c = 1 .. n /\ first \in Int
      /\ \A i \in 1 .. n : c[i].block \in Int
  BY Entries, CacheAssumption DEF Block
<1>2. \A i \in 1 .. n : i \in S <=> c[i].block < first
  BY <1>1
<1>3. S \in SUBSET (1 .. n)
  BY <1>1
<1>4. \A i \in S : 1 .. i \subseteq S
  <2> TAKE i \in S
  <2>1. i \in 1 .. n /\ c[i].block < first
    BY <1>2, <1>3
  <2>2. ASSUME NEW j \in 1 .. i PROVE j \in S
    <3>1. j \in 1 .. n /\ (j = i \/ j < i)
      BY <1>1, <2>1
    <3>2. c[j].block < first
      BY <1>1, <2>1, <3>1 DEF Ordered
    <3> QED
      BY <1>2, <3>1, <3>2
  <2> QED
    BY <2>2
<1> HIDE DEF S, n
<1>5. K \in 0 .. n /\ S = 1 .. K
  BY <1>1, <1>3, <1>4, FirstPlaces
<1>6. pos = K + 1
  BY DEF K, S
<1> HIDE DEF K
<1>7. \A i \in 1 .. n : i < pos <=> c[i].block < first
  BY <1>1, <1>2, <1>5, <1>6
<1> QED
  BY <1>1, <1>5, <1>6, <1>7 DEF n

LEMMA FinishedRange ==
    ASSUME NEW s0, NEW s, NEW pos \in Nat \ {0}, NEW first \in Block, NEW last \in Block,
           NEW fault, NEW st \in Underway(s0, s, pos, first, last, fault),
           Finished(st, pos, first, last)
    PROVE  RangeFlushed(st, s0, s, first, last, fault)
<1> DEFINE c == st.cache
<1>1. /\ After(s0, st) /\ Quiet(fault, s, st) /\ Since(s, st) /\ Blamed(st, first, last)
      /\ st \in Stores /\ Ordered(c)
      /\ \A i \in 1 .. Len(c) : i < pos <=> c[i].block < first
  BY DEF Underway, After
<1>2. c \in Seq(Entry)
  BY <1>1 DEF Stores
<1>3. st.err \/ ~(pos <= Len(c)) \/ c[pos].block \notin first .. last
  BY DEF Finished
<1> HIDE DEF c
<1>4. /\ Len(c) \in Nat /\ first \in Int /\ last \in Int
      /\ \A i \in 1 .. Len(c) : c[i].block \in Int
  BY <1>2, Entries, CacheAssumption DEF Block
<1>5. ASSUME ~st.err, NEW i \in 1 .. Len(c) PROVE c[i].block \notin first .. last
  <2>1. CASE i < pos
    BY <1>1, <1>4, <2>1
  <2>2. CASE ~(i < pos)
    <3>1. pos \in 1 .. Len(c) /\ ~(pos < pos) /\ (pos = i \/ pos < i)
      BY <1>4, <2>2
    <3>2. c[pos].block \notin first .. last
      BY <1>3, <1>5, <3>1
    <3>3. ~(c[pos].block < first)
      BY <1>1, <3>1
    <3>4. c[pos].block > last
      BY <1>4, <3>1, <3>2, <3>3
    <3>5. c[pos].block <= c[i].block
      BY <1>1, <1>4, <3>1 DEF Ordered
    <3> QED
      BY <1>4, <3>1, <3>4, <3>5
  <2> QED
    BY <2>1, <2>2
<1> QED
  BY <1>1, <1>5 DEF RangeFlushed, c

LEMMA FlushRangeFlushes ==
    ASSUME NEW s0 \in Stores, Ordered(s0.cache), NEW s, After(s0, s),
           NEW fault \in AnyFault, ~s.err,
           NEW first \in Block, NEW last \in Block
    PROVE  RangeFlushed(FlushRange(s, first, last, fault), s0, s, first, last, fault)
<1> DEFINE c == s.cache
           n == Len(c)
           ids == [i \in DOMAIN c |-> i]
           pos == Cardinality({i \in DOMAIN c : c[i].block < first}) + 1
           T == Underway(s0, s, pos, first, last, fault)
           Step(st, i) == FlushOne(st, pos, first, last, fault)
           step == [p \in T \X (1 .. n) |-> Step(p[1], p[2])]
<1>1. s \in Stores /\ c \in Seq(Entry) /\ Ordered(c) /\ n \in Nat /\ DOMAIN c = 1 .. n
  <2>1. s \in Stores /\ Ordered(c)
    BY DEF After
  <2>2. c \in Seq(Entry)
    BY <2>1 DEF Stores
  <2> QED
    BY <2>1, <2>2
<1>2. DOMAIN ids = 1 .. n
  BY <1>1
<1>3. pos \in Nat \ {0} /\ \A i \in 1 .. n : i < pos <=> c[i].block < first
  <2> HIDE DEF c
  <2> QED
    BY <1>1, RangeBegins DEF n
<1> HIDE DEF ids
<1>4. s \in T
  <2> HIDE DEF pos
  <2> QED
    BY <1>1, <1>3 DEF Underway, Since, Blamed, Quiet
<1> DEFINE Eq(it) == it = [u \in SUBSET (DOMAIN ids) |->
                             IF u = {} THEN s ELSE Step(it[u \ {Max(u)}], Max(u))]
           F == CHOOSE it : Eq(it)
<1>5. FlushRange(s, first, last, fault) = F[DOMAIN ids]
  BY Zenon DEF FlushRange, FoldLeftDomain, FoldLeft, MapThenFoldSet, FlushOne, ids
<1> HIDE DEF c, n, pos
<1>6. ASSUME NEW st \in T
      PROVE  /\ \A i : Step(st, i) \in T
             /\ \A i : Finished(st, pos, first, last) => Step(st, i) = st
             /\ \A i : ~Finished(st, pos, first, last) => Len(Step(st, i).cache) < Len(st.cache)
  <2> DEFINE r == FlushOne(st, pos, first, last, fault)
  <2>1. st \in Underway(s0, s, pos, first, last, fault) /\ Len(s.cache) \in Nat
    BY <1>1 DEF n, c
  <2>2. /\ r \in Underway(s0, s, pos, first, last, fault)
        /\ Finished(st, pos, first, last) => r = st
        /\ ~Finished(st, pos, first, last) => Len(r.cache) < Len(st.cache)
    <3> HIDE DEF T
    <3> QED
      BY <1>3, <2>1, FlushOneGoesOn
  <2> HIDE DEF r
  <2>3. \A i : Step(st, i) = r
    BY DEF r
  <2> HIDE DEF Step
  <2> QED
    BY <2>2, <2>3
<1>7. step \in [T \X (1 .. n) -> T] /\ \A st \in T, i \in 1 .. n : step[<<st, i>>] = Step(st, i)
  <2> HIDE DEF T, Step
  <2> QED
    BY <1>6
<1> HIDE DEF step, T
<1>8. PICK g : FoldsLeft(g, n, T, s, step)
  <2> HIDE DEF Step
  <2> QED
    BY <1>1, <1>4, <1>7, FoldLeftExists
<1>9. Eq(g)
  <2> HIDE DEF Step
  <2>1. ASSUME NEW u \in SUBSET (1 .. n), u # {}
        PROVE  g[u] = Step(g[u \ {Max(u)}], Max(u))
    <3>1. Max(u) \in 1 .. n /\ u \ {Max(u)} \in SUBSET (1 .. n)
      BY <1>1, <2>1, GreatestIsMax
    <3> QED
      BY <1>7, <1>8, <2>1, <3>1 DEF FoldsLeft
  <2>2. g[{}] = s /\ g \in [SUBSET (1 .. n) -> T]
    BY <1>8 DEF FoldsLeft
  <2>3. \A u \in SUBSET (1 .. n) : g[u] = IF u = {} THEN s ELSE Step(g[u \ {Max(u)}], Max(u))
    BY <2>1, <2>2
  <2> QED
    BY <1>2, <2>2, <2>3
<1>10. Eq(F)
  <2> HIDE DEF Eq
  <2> QED
    BY <1>9
<1>11. F[1 .. 0] = s
  <2>1. 1 .. 0 = {} /\ {} \in SUBSET (1 .. n)
    OBVIOUS
  <2> HIDE DEF F, Step
  <2> QED
    BY <1>2, <1>10, <2>1
<1>12. ASSUME NEW i \in 1 .. n PROVE F[1 .. i] = Step(F[1 .. i - 1], i)
  <2>1. 1 .. i \in SUBSET (1 .. n) /\ 1 .. i # {} /\ Max(1 .. i) = i
        /\ (1 .. i) \ {Max(1 .. i)} = 1 .. i - 1
    BY <1>1, FoldAlong
  <2> HIDE DEF F, Step
  <2>2. F[1 .. i] = Step(F[(1 .. i) \ {Max(1 .. i)}], Max(1 .. i))
    BY <1>2, <1>10, <2>1
  <2> QED
    BY <2>1, <2>2
<1> HIDE DEF F
<1> DEFINE Done(st) == Finished(st, pos, first, last)
           G == {i \in 0 .. n : /\ F[1 .. i] \in T
                                /\ Done(F[1 .. i]) \/ Len(F[1 .. i].cache) + i <= n}
<1>13. 0 \in G
  BY <1>1, <1>4, <1>11 DEF n, c
<1>14. ASSUME NEW i \in 1 .. n, i - 1 \in G PROVE i \in G
  <2> DEFINE a == F[1 .. i - 1]
             b == F[1 .. i]
             z == i - 1
  <2>1. a \in T /\ (Done(a) \/ Len(a.cache) + z <= n) /\ i \in 0 .. n
    BY <1>14
  <2>2. b = Step(a, i)
    BY <1>12
  <2> HIDE DEF a, b, Step, Done
  <2>3. /\ b \in T
        /\ Done(a) => b = a
        /\ ~Done(a) => Len(b.cache) < Len(a.cache)
    BY <1>6, <2>1, <2>2 DEF Done
  <2>4. Len(a.cache) \in Nat /\ Len(b.cache) \in Nat
    <3>1. \A x \in T : x.cache \in Seq(Entry)
      BY DEF T, Underway, Stores
    <3> QED
      BY <2>1, <2>3, <3>1
  <2>5. Done(b) \/ Len(b.cache) + i <= n
    BY <1>1, <2>1, <2>3, <2>4
  <2> QED
    BY <2>1, <2>3, <2>5 DEF b
<1> HIDE DEF G
<1>15. n \in G
  <2>1. 0 .. n \subseteq G
    BY <1>1, <1>13, <1>14, HandedOn
  <2> QED
    BY <1>1, <2>1
<1> DEFINE r == F[1 .. n]
<1>16. r \in T /\ (Done(r) \/ Len(r.cache) + n <= n)
  BY <1>15 DEF G
<1> HIDE DEF r
<1>17. Finished(r, pos, first, last)
  <2>1. Len(r.cache) \in Nat
    <3>1. r.cache \in Seq(Entry)
      BY <1>16 DEF T, Underway, Stores
    <3> QED
      BY <3>1
  <2>2. CASE Len(r.cache) + n <= n
    <3>1. ~(pos <= Len(r.cache))
      BY <1>1, <1>3, <2>1, <2>2
    <3> QED
      BY <3>1 DEF Finished
  <2> QED
    BY <1>16, <2>2
<1>18. RangeFlushed(r, s0, s, first, last, fault)
  BY <1>3, <1>16, <1>17, FinishedRange DEF T
<1> QED
  BY <1>2, <1>5, <1>18 DEF r

TorrentFlushed(r, s0, s, t, fault) ==
    /\ After(s0, r) /\ Quiet(fault, s, r) /\ Since(s, r)
    /\ r.err => t \in r.failed
    /\ ~r.err => \A i \in 1 .. Len(r.cache) : TorrentOf[r.cache[i].block] # t

LEMMA FlushTorrentFlushes ==
    ASSUME NEW s0 \in Stores, Ordered(s0.cache), NEW s, After(s0, s),
           NEW fault \in AnyFault, ~s.err, NEW t \in Torrent
    PROVE  TorrentFlushed(FlushTorrent(s, t, fault), s0, s, t, fault)
<1> DEFINE mine == {b \in Block : TorrentOf[b] = t}
           first == Min(mine)
           last == Max(mine)
           r == FlushRange(s, first, last, fault)
<1>1. FlushTorrent(s, t, fault) = r
  BY DEF FlushTorrent
<1>2. NumBlocks \in Nat /\ mine \in SUBSET (1 .. NumBlocks) /\ mine # {}
  <2>1. NumBlocks \in Nat
    BY CacheAssumption
  <2>2. mine \in SUBSET (1 .. NumBlocks)
    BY DEF Block
  <2>3. PICK b \in Block : TorrentOf[b] = t
    BY CacheAssumption DEF Torrent
  <2> QED
    BY <2>1, <2>2, <2>3
<1>3. mine \in SUBSET Nat
  BY <1>2
<1>4. \A b \in Block : b \in mine <=> TorrentOf[b] = t
  OBVIOUS
<1> HIDE DEF mine
<1>5. /\ first \in mine /\ \A y \in mine : first <= y
      /\ last \in mine /\ \A y \in mine : y <= last
  BY <1>2, <1>3, LeastIsMin, GreatestIsMax
<1>6. first \in Block /\ last \in Block /\ mine \subseteq Block
  BY <1>2, <1>5 DEF Block
<1> HIDE DEF first, last, r
<1>7. RangeFlushed(r, s0, s, first, last, fault)
  BY <1>6, FlushRangeFlushes DEF r
<1>8. /\ After(s0, r) /\ Quiet(fault, s, r) /\ Since(s, r) /\ Blamed(r, first, last)
      /\ ~r.err => \A i \in 1 .. Len(r.cache) : r.cache[i].block \notin first .. last
  BY <1>7 DEF RangeFlushed
<1>9. \A b \in InRange(first, last) : TorrentOf[b] = t
  <2> TAKE b \in InRange(first, last)
  <2>1. b \in Block /\ first <= b /\ b <= last
    BY DEF InRange
  <2>2. TorrentOf[first] = t /\ TorrentOf[last] = t
    BY <1>4, <1>5, <1>6
  <2> QED
    BY <1>6, <2>1, <2>2, CacheAssumption
<1>10. r.err => t \in r.failed
  BY <1>8, <1>9 DEF Blamed
<1>11. ASSUME ~r.err, NEW i \in 1 .. Len(r.cache) PROVE TorrentOf[r.cache[i].block] # t
  <2> DEFINE b == r.cache[i].block
  <2>1. b \in Block /\ b \in Int
    <3> DEFINE c == r.cache
    <3>1. c \in Seq(Entry) /\ i \in 1 .. Len(c)
      BY <1>8 DEF After, Stores
    <3> HIDE DEF c
    <3>2. c[i].block \in Block /\ c[i].block \in Int
      BY <3>1, Entries
    <3> QED
      BY <3>2 DEF c
  <2>2. b \notin first .. last
    BY <1>8, <1>11
  <2> HIDE DEF b
  <2>3. ASSUME b \in mine PROVE FALSE
    <3>1. first <= b /\ b <= last
      BY <1>5, <2>3
    <3>2. first \in Int /\ last \in Int
      BY <1>6, CacheAssumption DEF Block
    <3> QED
      BY <2>1, <2>2, <3>1, <3>2
  <2> QED
    BY <1>4, <2>1, <2>3 DEF b
<1> QED
  BY <1>1, <1>8, <1>10, <1>11 DEF TorrentFlushed

LEMMA FlushFileFlushes ==
    ASSUME NEW s0 \in Stores, Ordered(s0.cache), NEW s, After(s0, s),
           NEW fault \in AnyFault, ~s.err, NEW f \in File
    PROVE  LET r == FlushFile(s, f, fault)
           IN  After(s0, r) /\ Quiet(fault, s, r) /\ Since(s, r)
<1>1. FirstBlock[f] \in Block /\ LastBlock[f] \in Block
  BY CacheAssumption
<1> DEFINE first == FirstBlock[f]
           last == LastBlock[f]
<1> HIDE DEF first, last
<1>2. RangeFlushed(FlushRange(s, first, last, fault), s0, s, first, last, fault)
  BY <1>1, FlushRangeFlushes DEF first, last
<1>3. FlushFile(s, f, fault) = FlushRange(s, first, last, fault)
  BY DEF FlushFile, first, last
<1> QED
  BY <1>2, <1>3 DEF RangeFlushed

(* Clearing the error leaves the rest.                                     *)
LEMMA ErrorCleared ==
    ASSUME NEW s0, NEW s, After(s0, s)
    PROVE  LET u == [s EXCEPT !.err = FALSE]
           IN  /\ After(s0, u) /\ ~u.err
               /\ u.cache = s.cache /\ u.lost = s.lost /\ u.failed = s.failed
<1> DEFINE u == [s EXCEPT !.err = FALSE]
<1>1. s \in Stores
  BY DEF After
<1>2. /\ u \in Stores /\ u.cache = s.cache /\ u.disk = s.disk /\ u.err = FALSE
      /\ u.failed = s.failed /\ u.lost = s.lost
  BY <1>1 DEF Stores
<1> HIDE DEF u
<1>3. After(s0, u)
  BY <1>2 DEF After
<1> QED
  BY <1>2, <1>3 DEF u
=============================================================================
