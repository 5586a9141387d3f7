--------------------------- MODULE WritePathProofs ---------------------------
(***************************************************************************)
(* What the write path keeps, for any torrents, pieces, files and faults:  *)
(* the types, the order of the cache, that a verified piece reads right,   *)
(* that the resume file promises what the disk has, that the cache does    *)
(* not grow beyond its limit, and that cache and disk together are a       *)
(* write-back store (BlockStore).                                          *)
(***************************************************************************)
EXTENDS WritePath, BlockCacheProofs

(* The operation's store when it begins: what After of BlockCacheProofs is *)
(* about.                                                                  *)
Inventory == cache \in Seq(Entry) /\ Ordered(cache) /\ disk \in [Block -> Data]

LEMMA HereIsAStore ==
    ASSUME Inventory
    PROVE  /\ Here \in Stores /\ Here.cache = cache /\ Here.disk = disk
           /\ Ordered(Here.cache) /\ Here.lost = {} /\ ~Here.err /\ Here.failed = {}
           /\ After(Here, Here)
<1>1. /\ Here \in Stores /\ Here.cache = cache /\ Here.disk = disk
      /\ Here.lost = {} /\ ~Here.err /\ Here.failed = {}
  BY DEF Here, Store, Stores, Inventory
<1>2. Ordered(Here.cache)
  BY <1>1 DEF Inventory
<1> HIDE DEF Here
<1> QED
  BY <1>1, <1>2, AfterNothing

LEMMA MayMeetIs ==
    ASSUME NEW blocks, NEW fault \in MayMeet(blocks)
    PROVE  fault \in AnyFault /\ (fault # NoFault => faults < MaxFaults)
BY DEF MayMeet, AnyFault

(* Once a piece is complete, each of its files that is complete is flushed.*)
LEMMA SinceThen ==
    ASSUME NEW a, NEW b, NEW c, Since(a, b), Since(b, c),
           Len(a.cache) \in Nat, Len(b.cache) \in Nat, Len(c.cache) \in Nat
    PROVE  Since(a, c)
<1>1. a.failed \subseteq c.failed /\ a.lost \subseteq c.lost
  BY DEF Since
<1>2. Len(c.cache) <= Len(b.cache) /\ Len(b.cache) <= Len(a.cache)
  BY DEF Since
<1>3. Len(c.cache) <= Len(a.cache)
  BY <1>2
<1>4. \A i \in 1 .. Len(c.cache) : \E j \in 1 .. Len(a.cache) : c.cache[i] = a.cache[j]
  <2> TAKE i \in 1 .. Len(c.cache)
  <2>1. PICK k \in 1 .. Len(b.cache) : c.cache[i] = b.cache[k]
    BY DEF Since
  <2>2. PICK j \in 1 .. Len(a.cache) : b.cache[k] = a.cache[j]
    BY DEF Since
  <2> QED
    BY <2>1, <2>2
<1> QED
  BY <1>1, <1>3, <1>4 DEF Since

LEMMA FlushFilesFlush ==
    ASSUME NEW s0 \in Stores, Ordered(s0.cache), NEW s, After(s0, s),
           NEW fault \in AnyFault, NEW p, NEW done
    PROVE  LET r == FlushFiles(s, p, done, fault)
           IN  After(s0, r) /\ Quiet(fault, s, r) /\ Since(s, r)
<1> DEFINE complete == {f \in File : /\ \E b \in BlocksOf(p) : b \in FirstBlock[f] .. LastBlock[f]
                                     /\ FirstBlock[f] .. LastBlock[f] \subseteq done}
           n == NumFiles
           ids == [f \in File |-> f]
           T == {st \in Stores : After(s0, st) /\ Quiet(fault, s, st) /\ Since(s, st)}
           Step(st, f) == IF f \in complete
                          THEN FlushFile([st EXCEPT !.err = FALSE], f, fault) ELSE st
           step == [q \in T \X (1 .. n) |-> Step(q[1], q[2])]
<1>1. n \in Nat /\ File = 1 .. n /\ complete \subseteq File /\ DOMAIN ids = 1 .. n
      /\ \A f \in 1 .. n : ids[f] = f
  BY CacheAssumption DEF File
<1>2. s \in T
  BY DEF After, Since, Quiet, Stores
<1> DEFINE Eq(it) == it = [u \in SUBSET (DOMAIN ids) |->
                             IF u = {} THEN s ELSE Step(it[u \ {Max(u)}], ids[Max(u)])]
           F == CHOOSE it : Eq(it)
<1> HIDE DEF ids
<1>3. FlushFiles(s, p, done, fault) = F[DOMAIN ids]
  BY Zenon DEF FlushFiles, FoldLeft, MapThenFoldSet, ids
<1> HIDE DEF complete, n
<1>4. ASSUME NEW st \in T, NEW f \in 1 .. n PROVE Step(st, f) \in T
  <2>1. CASE f \notin complete
    BY <2>1
  <2>2. CASE f \in complete
    <3> DEFINE u == [st EXCEPT !.err = FALSE]
               r == FlushFile(u, f, fault)
    <3>1. st \in Stores /\ After(s0, st) /\ Quiet(fault, s, st) /\ Since(s, st)
      OBVIOUS
    <3>2. /\ After(s0, u) /\ ~u.err
          /\ u.cache = st.cache /\ u.lost = st.lost /\ u.failed = st.failed
      BY <3>1, ErrorCleared
    <3> HIDE DEF u
    <3>3. f \in File
      BY <1>1
    <3>4. After(s0, r) /\ Quiet(fault, u, r) /\ Since(u, r)
      BY <3>2, <3>3, FlushFileFlushes
    <3> HIDE DEF r
    <3>5. r \in Stores /\ Quiet(fault, s, r)
      BY <3>1, <3>2, <3>4 DEF After, Quiet
    <3>6. Since(s, r)
      <4>1. s.cache \in Seq(Entry) /\ u.cache \in Seq(Entry) /\ r.cache \in Seq(Entry)
        BY <3>2, <3>5 DEF After, Stores
      <4>2. Since(s, u)
        BY <3>1, <3>2 DEF Since
      <4> QED
        BY <3>4, <4>1, <4>2, SinceThen
    <3>7. Step(st, f) = r
      BY <2>2 DEF r, u
    <3> QED
      BY <3>4, <3>5, <3>6, <3>7
  <2> QED
    BY <2>1, <2>2
<1>5. step \in [T \X (1 .. n) -> T] /\ \A st \in T, f \in 1 .. n : step[<<st, f>>] = Step(st, f)
  <2> HIDE DEF T, Step
  <2> QED
    BY <1>4
<1> HIDE DEF step, T
<1>6. PICK g : FoldsLeft(g, n, T, s, step)
  <2> HIDE DEF Step
  <2> QED
    BY <1>1, <1>2, <1>5, FoldLeftExists
<1>7. Eq(g)
  <2> HIDE DEF Step
  <2>1. ASSUME NEW u \in SUBSET (1 .. n), u # {}
        PROVE  g[u] = Step(g[u \ {Max(u)}], ids[Max(u)])
    <3>1. Max(u) \in 1 .. n /\ u \ {Max(u)} \in SUBSET (1 .. n)
      BY <1>1, <2>1, GreatestIsMax
    <3> DEFINE top == Max(u)
               rest == u \ {Max(u)}
    <3>2. top \in 1 .. n /\ rest \in SUBSET (1 .. n) /\ ids[top] = top
      BY <1>1, <3>1
    <3>3. g[u] = step[<<g[rest], top>>] /\ g[rest] \in T
      BY <1>6, <2>1, <3>2 DEF FoldsLeft
    <3> HIDE DEF top, rest
    <3>4. g[u] = Step(g[rest], ids[top])
      BY <1>5, <3>2, <3>3
    <3> QED
      BY <3>4 DEF top, rest
  <2>2. g[{}] = s /\ g \in [SUBSET (1 .. n) -> T]
    BY <1>6 DEF FoldsLeft
  <2>3. \A u \in SUBSET (1 .. n) : g[u] = IF u = {} THEN s ELSE Step(g[u \ {Max(u)}], ids[Max(u)])
    BY <2>1, <2>2
  <2> QED
    BY <1>1, <2>2, <2>3
<1>8. Eq(F)
  <2> HIDE DEF Eq
  <2> QED
    BY <1>7
<1>9. F[1 .. 0] = s
  <2>1. 1 .. 0 = {} /\ {} \in SUBSET (1 .. n)
    OBVIOUS
  <2> HIDE DEF F, Step
  <2> QED
    BY <1>1, <1>8, <2>1
<1>10. ASSUME NEW i \in 1 .. n PROVE F[1 .. i] = Step(F[1 .. i - 1], i)
  <2>1. 1 .. i \in SUBSET (1 .. n) /\ 1 .. i # {} /\ Max(1 .. i) = i
        /\ (1 .. i) \ {Max(1 .. i)} = 1 .. i - 1
    BY <1>1, FoldAlong
  <2> HIDE DEF F, Step
  <2>2. F[1 .. i] = Step(F[(1 .. i) \ {Max(1 .. i)}], ids[Max(1 .. i)])
    BY <1>1, <1>8, <2>1
  <2> QED
    BY <1>1, <2>1, <2>2
<1> HIDE DEF F
<1> DEFINE G == {i \in 0 .. n : F[1 .. i] \in T}
<1>11. 0 \in G
  BY <1>1, <1>2, <1>9
<1>12. ASSUME NEW i \in 1 .. n, i - 1 \in G PROVE i \in G
  <2>1. F[1 .. i - 1] \in T
    BY <1>12
  <2> HIDE DEF Step
  <2>2. F[1 .. i] \in T
    BY <1>4, <1>10, <2>1
  <2> QED
    BY <1>1, <2>2
<1> HIDE DEF G
<1>13. n \in G
  <2>1. 0 .. n \subseteq G
    BY <1>1, <1>11, <1>12, HandedOn
  <2> QED
    BY <1>1, <2>1
<1>14. F[1 .. n] \in T
  BY <1>13 DEF G
<1> QED
  BY <1>1, <1>3, <1>14 DEF T

(* closeAllTorrents: each torrent's flush failed, or left nothing of it.   *)
Settled(st, t) ==
    t \in st.failed \/ \A i \in 1 .. Len(st.cache) : TorrentOf[st.cache[i].block] # t

AllFlushed(r, s0, torrents, fault) ==
    After(s0, r) /\ Quiet(fault, s0, r) /\ \A t \in torrents : Settled(r, t)

FlushNext(st, t, fault) == FlushTorrent([st EXCEPT !.err = FALSE], t, fault)

LEMMA FlushNextFlushes ==
    ASSUME NEW s0 \in Stores, Ordered(s0.cache), NEW fault \in AnyFault,
           NEW st, After(s0, st), Quiet(fault, s0, st), NEW t \in Torrent
    PROVE  LET r == FlushNext(st, t, fault)
           IN  After(s0, r) /\ Quiet(fault, s0, r) /\ Since(st, r) /\ Settled(r, t)
<1> DEFINE u == [st EXCEPT !.err = FALSE]
           r == FlushTorrent(u, t, fault)
<1>1. /\ After(s0, u) /\ ~u.err
      /\ u.cache = st.cache /\ u.lost = st.lost /\ u.failed = st.failed
  BY ErrorCleared
<1>2. FlushNext(st, t, fault) = r
  BY DEF FlushNext
<1> HIDE DEF u
<1>3. TorrentFlushed(r, s0, u, t, fault)
  BY <1>1, FlushTorrentFlushes
<1> HIDE DEF r
<1>4. /\ After(s0, r) /\ Quiet(fault, u, r) /\ Since(u, r)
      /\ r.err => t \in r.failed
      /\ ~r.err => \A i \in 1 .. Len(r.cache) : TorrentOf[r.cache[i].block] # t
  BY <1>3 DEF TorrentFlushed
<1>5. Since(st, r)
  BY <1>1, <1>4 DEF Since
<1>6. Quiet(fault, s0, r)
  BY <1>1, <1>4 DEF Quiet
<1>7. Settled(r, t)
  BY <1>4 DEF Settled
<1> QED
  BY <1>2, <1>4, <1>5, <1>6, <1>7

LEMMA SettledStays ==
    ASSUME NEW a, NEW b, Since(a, b), NEW t, Settled(a, t)
    PROVE  Settled(b, t)
<1>1. CASE t \in a.failed
  BY <1>1 DEF Since, Settled
<1>2. CASE t \notin a.failed
  <2>1. \A i \in 1 .. Len(b.cache) : TorrentOf[b.cache[i].block] # t
    <3> TAKE i \in 1 .. Len(b.cache)
    <3>1. PICK j \in 1 .. Len(a.cache) : b.cache[i] = a.cache[j]
      BY DEF Since
    <3> QED
      BY <1>2, <3>1 DEF Settled
  <2> QED
    BY <2>1 DEF Settled
<1> QED
  BY <1>1, <1>2

LEMMA FlushAllFlushes ==
    ASSUME NEW s0 \in Stores, Ordered(s0.cache), s0.lost = {}, NEW fault \in AnyFault,
           NEW torrents, torrents \subseteq Torrent, IsFiniteSet(torrents)
    PROVE  AllFlushed(FoldLeft(LAMBDA st, t : FlushNext(st, t, fault), s0, SetToSeq(torrents)),
                      s0, torrents, fault)
<1> DEFINE o == SetToSeq(torrents)
           n == Len(o)
           T == {st \in Stores : After(s0, st) /\ Quiet(fault, s0, st)}
           step == [q \in T \X (1 .. n) |-> FlushNext(q[1], o[q[2]], fault)]
<1>1. Lists(o, torrents) /\ n \in Nat
  BY SetToSeqLists
<1> DEFINE Eq(it) == it = [u \in SUBSET (DOMAIN o) |->
                             IF u = {} THEN s0 ELSE FlushNext(it[u \ {Max(u)}], o[Max(u)], fault)]
           F == CHOOSE it : Eq(it)
           r == FoldLeft(LAMBDA st, t : FlushNext(st, t, fault), s0, o)
<1> HIDE DEF o
<1>2. /\ DOMAIN o = 1 .. n /\ (\A i \in 1 .. n : o[i] \in torrents)
      /\ \A t \in torrents : \E i \in 1 .. n : o[i] = t
  BY <1>1 DEF Lists
<1>3. r = F[DOMAIN o]
  BY Zenon DEF FoldLeft, MapThenFoldSet
<1> HIDE DEF n
<1>4. s0 \in T
  BY AfterNothing DEF Quiet
<1>5. ASSUME NEW st \in T, NEW i \in 1 .. n
      PROVE  /\ FlushNext(st, o[i], fault) \in T
             /\ Since(st, FlushNext(st, o[i], fault))
             /\ Settled(FlushNext(st, o[i], fault), o[i])
  <2> DEFINE t == o[i]
             w == FlushNext(st, t, fault)
  <2>1. t \in Torrent
    BY <1>2
  <2> HIDE DEF t
  <2>2. After(s0, w) /\ Quiet(fault, s0, w) /\ Since(st, w) /\ Settled(w, t)
    BY <2>1, FlushNextFlushes
  <2> HIDE DEF w
  <2>3. w \in T
    BY <2>2 DEF After
  <2> QED
    BY <2>2, <2>3 DEF w, t
<1>6. /\ step \in [T \X (1 .. n) -> T]
      /\ \A st \in T, i \in 1 .. n : step[<<st, i>>] = FlushNext(st, o[i], fault)
  <2> HIDE DEF T
  <2> QED
    BY <1>5
<1> HIDE DEF step, T
<1>7. PICK g : FoldsLeft(g, n, T, s0, step)
  BY <1>1, <1>4, <1>6, FoldLeftExists
<1>8. Eq(g)
  <2>1. ASSUME NEW u \in SUBSET (1 .. n), u # {}
        PROVE  g[u] = FlushNext(g[u \ {Max(u)}], o[Max(u)], fault)
    <3> DEFINE top == Max(u)
               rest == u \ {Max(u)}
    <3>1. top \in 1 .. n /\ rest \in SUBSET (1 .. n)
      BY <1>1, <2>1, GreatestIsMax
    <3>2. g[u] = step[<<g[rest], top>>] /\ g[rest] \in T
      BY <1>7, <2>1, <3>1 DEF FoldsLeft
    <3> HIDE DEF top, rest
    <3>3. g[u] = FlushNext(g[rest], o[top], fault)
      BY <1>6, <3>1, <3>2
    <3> QED
      BY <3>3 DEF top, rest
  <2>2. g[{}] = s0 /\ g \in [SUBSET (1 .. n) -> T]
    BY <1>7 DEF FoldsLeft
  <2>3. \A u \in SUBSET (1 .. n) :
           g[u] = IF u = {} THEN s0 ELSE FlushNext(g[u \ {Max(u)}], o[Max(u)], fault)
    BY <2>1, <2>2
  <2> QED
    BY <1>2, <2>2, <2>3
<1>9. Eq(F)
  <2> HIDE DEF Eq
  <2> QED
    BY <1>8
<1>10. F[1 .. 0] = s0
  <2>1. 1 .. 0 = {} /\ {} \in SUBSET (1 .. n)
    OBVIOUS
  <2> HIDE DEF F
  <2> QED
    BY <1>2, <1>9, <2>1
<1>11. ASSUME NEW i \in 1 .. n PROVE F[1 .. i] = FlushNext(F[1 .. i - 1], o[i], fault)
  <2>1. 1 .. i \in SUBSET (1 .. n) /\ 1 .. i # {} /\ Max(1 .. i) = i
        /\ (1 .. i) \ {Max(1 .. i)} = 1 .. i - 1
    BY <1>1, FoldAlong
  <2> HIDE DEF F
  <2>2. F[1 .. i] = FlushNext(F[(1 .. i) \ {Max(1 .. i)}], o[Max(1 .. i)], fault)
    BY <1>2, <1>9, <2>1
  <2> QED
    BY <2>1, <2>2
<1> HIDE DEF F
<1> DEFINE G == {i \in 0 .. n : F[1 .. i] \in T /\ \A j \in 1 .. i : Settled(F[1 .. i], o[j])}
<1>12. 0 \in G
  BY <1>1, <1>4, <1>10
<1>13. ASSUME NEW i \in 1 .. n, i - 1 \in G PROVE i \in G
  <2> DEFINE a == F[1 .. i - 1]
             b == F[1 .. i]
  <2>1. a \in T /\ (\A j \in 1 .. i - 1 : Settled(a, o[j])) /\ b = FlushNext(a, o[i], fault)
    BY <1>11, <1>13
  <2> HIDE DEF a, b
  <2>2. b \in T /\ Since(a, b) /\ Settled(b, o[i])
    BY <1>5, <2>1
  <2>3. ASSUME NEW j \in 1 .. i PROVE Settled(b, o[j])
    <3>1. CASE j = i
      BY <2>2, <3>1
    <3>2. CASE j # i
      <4>1. j \in 1 .. i - 1
        BY <3>2
      <4> DEFINE t == o[j]
      <4>2. Settled(a, t)
        BY <2>1, <4>1
      <4> HIDE DEF t
      <4>3. Settled(b, t)
        BY <2>2, <4>2, SettledStays
      <4> QED
        BY <4>3 DEF t
    <3> QED
      BY <3>1, <3>2
  <2>4. b \in T /\ \A j \in 1 .. i : Settled(b, o[j])
    BY <2>2, <2>3
  <2> QED
    BY <1>1, <2>4 DEF b
<1> HIDE DEF G
<1>14. n \in G
  <2>1. 0 .. n \subseteq G
    BY <1>1, <1>12, <1>13, HandedOn
  <2> QED
    BY <1>1, <2>1
<1>15. F[1 .. n] \in T /\ \A j \in 1 .. n : Settled(F[1 .. n], o[j])
  BY <1>14 DEF G
<1>16. r \in T /\ \A j \in 1 .. n : Settled(r, o[j])
  <2> HIDE DEF r
  <2> QED
    BY <1>2, <1>3, <1>15
<1> HIDE DEF r
<1>17. AllFlushed(r, s0, torrents, fault)
  BY <1>2, <1>16 DEF AllFlushed, T
<1> QED
  BY <1>17 DEF r, o
-----------------------------------------------------------------------------
(* The invariant.                                                          *)

States == {"running", "stopping", "stopped", "removed", "closed"}

(* A block of a complete piece reads right, whatever became of its torrent.*)
Intact ==
    \A b \in have : PieceDone(have, PieceOf[b]) /\ b \notin lost \cup rewritten
                    => Content(cache, disk, b) = b

(* What the resume file calls complete is there, and complete.             *)
ResumeHeld == \A b \in resume : PieceDone(resume, PieceOf[b]) => b \in Complete

WriteInv ==
    /\ TypeOK /\ Ordered(cache) /\ ClosedLeavesNothing
    /\ Intact /\ ResumeHeld /\ ResumeOnDisk

LEMMA InvIsInventory == TypeOK /\ Ordered(cache) => Inventory
BY DEF TypeOK, Inventory, Entry

(* Open in the next state.                                                 *)
OpenNext(t) == run'[t] \notin {"removed", "closed"}

(* What Leave does, whatever it is that the operation left.                *)
LEMMA LeaveKeeps ==
    ASSUME TypeOK, NEW s \in Stores, NEW runs \in [Torrent -> States], Leave(s, runs),
           NEW blocks, NEW fault \in MayMeet(blocks), fault = NoFault => s.lost = {}
    PROVE  /\ cache' = s.cache /\ disk' = s.disk
           /\ cache' \in Seq([block : Block, data : Data]) /\ disk' \in [Block -> Data]
           /\ run' \in [Torrent -> States] /\ error' \subseteq Torrent
           /\ error \subseteq error' /\ s.failed \subseteq error'
           /\ faults' \in 0 .. MaxFaults + 1
           /\ faults' \in {faults, faults + 1} /\ (s.lost # {} => faults' # faults)
           /\ \A t \in Torrent : OpenNext(t) <=> runs[t] \notin {"removed", "closed"}
<1>1. cache' = s.cache /\ disk' = s.disk /\ error' = error \cup s.failed
  BY DEF Leave
<1>2. s.cache \in Seq(Entry) /\ s.disk \in [Block -> Data] /\ s.failed \subseteq Torrent
  BY DEF Stores
<1>3. error' \subseteq Torrent /\ error \subseteq error' /\ s.failed \subseteq error'
  BY <1>1, <1>2 DEF TypeOK
<1>4. /\ faults' \in 0 .. MaxFaults + 1
      /\ faults' \in {faults, faults + 1} /\ (s.lost # {} => faults' # faults)
  <2>1. fault # NoFault => faults < MaxFaults
    BY MayMeetIs
  <2>2. faults' = IF s.lost = {} THEN faults ELSE faults + 1
    BY DEF Leave
  <2>3. faults \in 0 .. MaxFaults + 1 /\ MaxFaults \in Nat
    BY WritePathAssumption DEF TypeOK
  <2> QED
    BY <2>1, <2>2, <2>3
<1>5. ASSUME NEW t \in Torrent
      PROVE  /\ run'[t] \in States
             /\ OpenNext(t) <=> runs[t] \notin {"removed", "closed"}
  <2>1. run'[t] = IF t \in s.failed \ error /\ runs[t] \in {"running", "stopping"}
                  THEN "stopping" ELSE runs[t]
    BY DEF Leave
  <2>2. runs[t] \in States
    OBVIOUS
  <2> QED
    BY <2>1, <2>2 DEF OpenNext, States
<1>6. run' = [t \in Torrent |-> run'[t]]
  BY DEF Leave
<1>7. run' \in [Torrent -> States]
  BY <1>5, <1>6
<1> QED
  BY <1>1, <1>2, <1>3, <1>4, <1>5, <1>7 DEF Entry
-----------------------------------------------------------------------------
(* A block arrives: s is what the cache and the disk are then.             *)
Received(b, d, s, fault) ==
    \E p : /\ Placed(p, cache, b, d)
           /\ Store(p, disk) \in Stores /\ Ordered(p)
           /\ After(Store(p, disk), s)
           /\ fault = NoFault => s.lost = {}
           /\ Len(p) > limit => Len(s.cache) < Len(p)

(* What was complete stays so; what is complete now was, or has passed.    *)
Gained(b, s) ==
    /\ have' \in SUBSET Block /\ lost' \in SUBSET Block
    /\ \A x \in Complete : x \in have' /\ PieceDone(have', PieceOf[x])
    /\ \A x \in Complete \ {b} : x \notin lost' => x \notin lost /\ x \notin s.lost
    /\ \A x \in have' : PieceDone(have', PieceOf[x]) =>
          x \in Complete \/ (x \notin lost' => Content(s.cache, s.disk, x) = x)

LEMMA StoreIs ==
    ASSUME NEW c, NEW d
    PROVE  /\ Store(c, d).cache = c /\ Store(c, d).disk = d /\ Store(c, d).lost = {}
           /\ ~Store(c, d).err /\ Store(c, d).failed = {}
BY DEF Store

LEMMA BlockReceived ==
    ASSUME Inventory, limit \in Nat, NEW b \in Block, NEW d \in Data, NEW fault \in AnyFault,
           NEW s \in WriteBlock(Here, b, d, limit, have, fault)
    PROVE  Received(b, d, s, fault)
<1>1. PICK p : /\ Placed(p, cache, b, d)
               /\ Store(p, disk) \in Stores /\ Ordered(p)
               /\ Trimmed(s, Store(p, disk), limit, fault)
  BY WriteBlockWrites DEF Inventory, Here
<1> DEFINE q == Store(p, disk)
<1>2. q.cache = p /\ q.lost = {}
  BY StoreIs
<1> HIDE DEF q
<1>3. After(q, s) /\ Quiet(fault, q, s) /\ (Len(p) > limit => Len(s.cache) < Len(p))
  BY <1>1, <1>2 DEF Trimmed, q
<1>4. fault = NoFault => s.lost = {}
  BY <1>2, <1>3 DEF Quiet
<1> QED
  BY <1>1, <1>3, <1>4 DEF Received, q

(* The files of a piece that passes are flushed.                           *)
LEMMA FilesReceived ==
    ASSUME NEW b, NEW d, NEW s, NEW fault \in AnyFault, Received(b, d, s, fault),
           NEW p, NEW done,
           NEW r, r = FlushFiles(s, p, done, IF s.lost = {} THEN fault ELSE NoFault)
    PROVE  Received(b, d, r, fault) /\ s.lost \subseteq r.lost
<1> DEFINE f2 == IF s.lost = {} THEN fault ELSE NoFault
<1>1. f2 \in AnyFault /\ (fault = NoFault => f2 = NoFault)
  BY DEF AnyFault
<1>2. r = FlushFiles(s, p, done, f2)
  OBVIOUS
<1> HIDE DEF f2
<1>3. PICK c : /\ Placed(c, cache, b, d)
               /\ Store(c, disk) \in Stores /\ Ordered(c)
               /\ After(Store(c, disk), s)
               /\ fault = NoFault => s.lost = {}
               /\ Len(c) > limit => Len(s.cache) < Len(c)
  BY DEF Received
<1> DEFINE s0 == Store(c, disk)
<1>4. s0 \in Stores /\ Ordered(s0.cache) /\ After(s0, s)
  BY <1>3, StoreIs
<1> HIDE DEF s0
<1>5. After(s0, r) /\ Quiet(f2, s, r) /\ Since(s, r)
  BY <1>1, <1>2, <1>4, FlushFilesFlush
<1>6. fault = NoFault => r.lost = {}
  BY <1>1, <1>3, <1>5 DEF Quiet
<1>7. s.lost \subseteq r.lost /\ Len(r.cache) <= Len(s.cache)
  BY <1>5 DEF Since
<1>8. Len(c) > limit => Len(r.cache) < Len(c)
  <2>1. c \in Seq(Entry) /\ s.cache \in Seq(Entry) /\ r.cache \in Seq(Entry)
    BY <1>3, <1>4, <1>5 DEF After, Stores, Placed
  <2>2. Len(c) \in Nat /\ Len(s.cache) \in Nat /\ Len(r.cache) \in Nat
    BY <2>1
  <2> QED
    BY <1>3, <1>7, <2>2
<1>9. After(Store(c, disk), r)
  BY <1>5 DEF s0
<1> QED
  BY <1>3, <1>6, <1>7, <1>8, <1>9 DEF Received

(* What is read of a block then.                                           *)
Written(b, d, x) == IF x = b THEN d ELSE Content(cache, disk, x)

LEMMA ReceivedContent ==
    ASSUME Inventory, NEW b, NEW d, NEW s, NEW fault, Received(b, d, s, fault)
    PROVE  /\ s \in Stores /\ Ordered(s.cache)
           /\ \A x \in Block :
                 /\ \/ Content(s.cache, s.disk, x) = Written(b, d, x)
                    \/ x \in s.lost /\ Content(s.cache, s.disk, x) = s.disk[x]
                 /\ s.disk[x] \in {disk[x], Written(b, d, x)}
           /\ \A i \in 1 .. Len(s.cache) :
                 s.cache[i].block = b \/ \E j \in 1 .. Len(cache) : s.cache[i] = cache[j]
           /\ limit \in Nat /\ Len(s.cache) > limit => Len(s.cache) <= Len(cache)
<1>1. PICK p : /\ Placed(p, cache, b, d)
               /\ Store(p, disk) \in Stores /\ Ordered(p)
               /\ After(Store(p, disk), s)
               /\ Len(p) > limit => Len(s.cache) < Len(p)
  BY DEF Received
<1> DEFINE s0 == Store(p, disk)
<1>2. /\ s0 \in Stores /\ s0.cache = p /\ s0.disk = disk /\ Ordered(s0.cache)
      /\ After(s0, s)
  BY <1>1, StoreIs
<1> HIDE DEF s0
<1>3. /\ s \in Stores /\ Ordered(s.cache) /\ Len(s.cache) <= Len(p)
      /\ \A i \in 1 .. Len(s.cache) : \E j \in 1 .. Len(p) : s.cache[i] = p[j]
  BY <1>2 DEF After
<1>4. cache \in Seq(Entry) /\ Ordered(cache)
  BY DEF Inventory
<1>5. ASSUME NEW x \in Block
      PROVE  /\ \/ Content(s.cache, s.disk, x) = Written(b, d, x)
                \/ x \in s.lost /\ Content(s.cache, s.disk, x) = s.disk[x]
             /\ s.disk[x] \in {disk[x], Written(b, d, x)}
  <2>1. Content(p, disk, x) = Written(b, d, x)
    BY <1>1, <1>4, PlacedContent DEF Written
  <2> QED
    BY <1>2, <2>1, AfterContent
<1>6. ASSUME NEW i \in 1 .. Len(s.cache)
      PROVE  s.cache[i].block = b \/ \E j \in 1 .. Len(cache) : s.cache[i] = cache[j]
  <2>1. PICK k \in 1 .. Len(p) : s.cache[i] = p[k]
    BY <1>3
  <2>2. p[k].block = b \/ \E j \in 1 .. Len(cache) : p[k] = cache[j]
    BY <1>1 DEF Placed
  <2> QED
    BY <2>1, <2>2
<1>7. ASSUME limit \in Nat, Len(s.cache) > limit PROVE Len(s.cache) <= Len(cache)
  <2>1. p \in Seq(Entry) /\ s.cache \in Seq(Entry) /\ (Len(p) = Len(cache) \/ Len(p) = Len(cache) + 1)
    BY <1>1, <1>3 DEF Stores, Placed
  <2>2. Len(p) \in Nat /\ Len(s.cache) \in Nat /\ Len(cache) \in Nat
    BY <1>4, <2>1
  <2> QED
    BY <1>1, <1>3, <1>7, <2>1, <2>2
<1> QED
  BY <1>3, <1>5, <1>6, <1>7

(* TR_PEER_CLIENT_GOT_BLOCK: what fails the check is forgotten, what was   *)
(* complete stays, and what is complete now has just been read.            *)
GotIt(b, d, fault) == \E r : Received(b, d, r, fault) /\ Gained(b, r) /\ Leave(r, run)

LEMMA BlockGained ==
    ASSUME TypeOK, Inventory, NEW b \in Block, NEW d, NEW fault \in AnyFault,
           NEW s, Received(b, d, s, fault),
           NEW f2, f2 = IF s.lost = {} THEN fault ELSE NoFault,
           GotBlock(s, b, f2)
    PROVE  GotIt(b, d, fault)
<1> DEFINE p == PieceOf[b]
           now == have \cup {b}
           full == b \notin have /\ PieceDone(now, p)
           pass == full /\ CheckPiece(s, p)
           files == FlushFiles(s, p, now, f2)
           r == IF pass THEN files ELSE s
<1>1. /\ have' = IF full /\ ~pass THEN now \ BlocksOf(p) ELSE now
      /\ Leave(r, run)
      /\ lost' = ((lost \ {b}) \cup r.lost) \cap (Complete \cup IF pass THEN BlocksOf(p) ELSE {})
  BY DEF GotBlock
<1>2. Received(b, d, files, fault) /\ s.lost \subseteq files.lost
  <2>1. files = FlushFiles(s, p, now, IF s.lost = {} THEN fault ELSE NoFault)
    OBVIOUS
  <2> HIDE DEF p, now, files
  <2> QED
    BY <2>1, FilesReceived
<1>3. Received(b, d, r, fault) /\ s.lost \subseteq r.lost
  BY <1>2
<1>4. r \in Stores /\ s \in Stores
  BY <1>3, ReceivedContent
<1>5. have \subseteq Block /\ lost \subseteq Block /\ s.lost \subseteq Block /\ r.lost \subseteq Block
  BY <1>4 DEF TypeOK, Stores
<1>6. pass => \A x \in BlocksOf(p) : Content(s.cache, s.disk, x) = x
  BY DEF CheckPiece
<1>7. /\ Complete \subseteq have /\ b \in BlocksOf(p)
      /\ \A x \in have : x \in Complete <=> PieceDone(have, PieceOf[x])
      /\ \A x \in Block : x \in BlocksOf(PieceOf[x])
      /\ \A q : BlocksOf(q) \subseteq Block /\ \A x \in BlocksOf(q) : PieceOf[x] = q
  BY DEF Complete, BlocksOf
<1> HIDE DEF files, r
<1>8. pass \in BOOLEAN /\ (pass => full) /\ (full <=> b \notin have /\ PieceDone(now, p))
  OBVIOUS
<1> HIDE DEF pass, full
<1>9. have' \in SUBSET Block /\ lost' \in SUBSET Block
  BY <1>1, <1>5, <1>7
<1>10. ASSUME NEW x \in Complete PROVE x \in have' /\ PieceDone(have', PieceOf[x])
  <2>1. x \in have /\ BlocksOf(PieceOf[x]) \subseteq have
    BY <1>7 DEF PieceDone
  <2>2. CASE full /\ ~pass
    <3>1. PieceOf[x] # p
      BY <1>7, <1>8, <2>1, <2>2
    <3> QED
      BY <1>1, <1>7, <2>1, <2>2, <3>1 DEF PieceDone
  <2>3. CASE ~(full /\ ~pass)
    BY <1>1, <2>1, <2>3 DEF PieceDone
  <2> QED
    BY <2>2, <2>3
<1>11. \A x \in Complete \ {b} : x \notin lost' => x \notin lost /\ x \notin r.lost
  BY <1>1
<1>12. ASSUME NEW x \in have', PieceDone(have', PieceOf[x]), x \notin Complete, x \notin lost'
       PROVE  Content(r.cache, r.disk, x) = x
  <2>1. BlocksOf(PieceOf[x]) \subseteq have' /\ have' \subseteq now /\ x \in Block
    BY <1>1, <1>5, <1>12 DEF PieceDone
  <2>2. PieceOf[x] = p /\ b \notin have
    <3>1. CASE b \in have
      BY <1>7, <1>12, <2>1, <3>1 DEF PieceDone
    <3>2. CASE b \notin have /\ PieceOf[x] # p
      <4>1. x \in have /\ BlocksOf(PieceOf[x]) \subseteq have
        BY <1>7, <2>1, <3>2
      <4> QED
        BY <1>7, <1>12, <4>1 DEF PieceDone
    <3> QED
      BY <3>1, <3>2
  <2>3. x \in BlocksOf(p) /\ BlocksOf(p) \subseteq have' /\ BlocksOf(p) \subseteq now
    BY <1>7, <2>1, <2>2
  <2>4. full
    BY <1>8, <2>2, <2>3 DEF PieceDone
  <2>5. pass
    BY <1>1, <2>3, <2>4
  <2>6. x \notin r.lost /\ x \notin s.lost
    BY <1>1, <1>3, <1>12, <2>3, <2>5
  <2>7. Content(s.cache, s.disk, x) = Written(b, d, x)
    BY <2>1, <2>6, ReceivedContent
  <2>8. Content(r.cache, r.disk, x) = Written(b, d, x)
    BY <1>3, <2>1, <2>6, ReceivedContent
  <2> QED
    BY <1>6, <2>3, <2>5, <2>7, <2>8
<1>13. Gained(b, r)
  BY <1>9, <1>10, <1>11, <1>12 DEF Gained
<1> QED
  BY <1>1, <1>3, <1>13 DEF GotIt

(* From a peer or from a web seed.                                         *)
Arrival(b, d, fault) ==
    /\ Open(TorrentOf[b])
    /\ GotIt(b, d, fault)
    /\ UNCHANGED <<limit, resume, unsafe>>
    /\ late' \in 0 .. MaxLate
    /\ rewritten' \in SUBSET Block /\ rewritten \subseteq rewritten'
    /\ b \in Complete => b \in rewritten'

LEMMA WriteKnown ==
    ASSUME TypeOK, Ordered(cache), NEW b \in Block, NEW d \in Data, NEW fault \in MayMeet({b}),
           ClientGotBlock(b, d, fault) \/ WebWrite(b, d, fault)
    PROVE  Arrival(b, d, fault)
<1>1. Inventory /\ limit \in Nat /\ fault \in AnyFault
  BY InvIsInventory, MayMeetIs, WritePathAssumption DEF TypeOK
<1>2. CASE ClientGotBlock(b, d, fault)
  <2>1. PICK s \in WriteBlock(Here, b, d, limit, have, fault) :
           \/ s.err /\ Leave(s, run) /\ lost' = (lost \cup s.lost) \cap Complete /\ UNCHANGED have
           \/ ~s.err /\ GotBlock(s, b, IF s.lost = {} THEN fault ELSE NoFault)
    BY <1>2 DEF ClientGotBlock
  <2>2. Received(b, d, s, fault)
    BY <1>1, BlockReceived
  <2>3. /\ IsRunning(TorrentOf[b]) /\ b \notin have
        /\ UNCHANGED <<limit, resume, late, rewritten, unsafe>>
    BY <1>2 DEF ClientGotBlock
  <2>4. GotIt(b, d, fault)
    <3>1. CASE s.err /\ Leave(s, run) /\ lost' = (lost \cup s.lost) \cap Complete /\ UNCHANGED have
      <4>1. s \in Stores
        BY <1>1, <2>2, ReceivedContent
      <4>2. Gained(b, s)
        BY <3>1, <4>1 DEF Gained, TypeOK, Stores, Complete
      <4> QED
        BY <2>2, <3>1, <4>2 DEF GotIt
    <3>2. CASE ~s.err /\ GotBlock(s, b, IF s.lost = {} THEN fault ELSE NoFault)
      <4> DEFINE f2 == IF s.lost = {} THEN fault ELSE NoFault
      <4>1. GotBlock(s, b, f2) /\ f2 = IF s.lost = {} THEN fault ELSE NoFault
        BY <3>2
      <4> HIDE DEF f2
      <4> QED
        BY <1>1, <2>2, <4>1, BlockGained
    <3> QED
      BY <2>1, <3>1, <3>2
  <2> QED
    BY <2>3, <2>4 DEF Arrival, IsRunning, Open, Complete, TypeOK
<1>3. CASE WebWrite(b, d, fault)
  <2>1. PICK s \in WriteBlock(Here, b, d, limit, have, fault) :
           GotBlock(s, b, IF s.lost = {} THEN fault ELSE NoFault)
    BY <1>3 DEF WebWrite
  <2>2. Received(b, d, s, fault)
    BY <1>1, BlockReceived
  <2>3. GotIt(b, d, fault)
    <3> DEFINE f2 == IF s.lost = {} THEN fault ELSE NoFault
    <3>1. GotBlock(s, b, f2) /\ f2 = IF s.lost = {} THEN fault ELSE NoFault
      BY <2>1
    <3> HIDE DEF f2
    <3> QED
      BY <1>1, <2>2, <3>1, BlockGained
  <2>4. /\ Open(TorrentOf[b]) /\ rewritten' = rewritten \cup ({b} \cap Complete)
        /\ UNCHANGED <<limit, resume, unsafe>>
        /\ late' = (IF b \in have THEN late + 1 ELSE late) /\ late' <= MaxLate
    BY <1>3 DEF WebWrite, Found
  <2>5. late' \in 0 .. MaxLate
    BY <2>4, WritePathAssumption DEF TypeOK
  <2> QED
    BY <2>3, <2>4, <2>5 DEF Arrival, TypeOK
<1> QED
  BY <1>2, <1>3

LEMMA ArrivingArrives ==
    ASSUME TypeOK, Ordered(cache), Arriving
    PROVE  \E b \in Block, d \in Data, fault \in AnyFault :
              fault \in MayMeet({b}) /\ Arrival(b, d, fault)
<1>1. PICK b \in Block : \E d \in {b} \cup IF b \in MayBeBad THEN {Bad} ELSE {}, fault \in MayMeet({b}) :
         ClientGotBlock(b, d, fault) \/ WebWrite(b, d, fault)
  BY DEF Arriving
<1>2. PICK d \in {b} \cup IF b \in MayBeBad THEN {Bad} ELSE {} : \E fault \in MayMeet({b}) :
         ClientGotBlock(b, d, fault) \/ WebWrite(b, d, fault)
  BY <1>1
<1>3. PICK fault \in MayMeet({b}) : ClientGotBlock(b, d, fault) \/ WebWrite(b, d, fault)
  BY <1>2
<1>4. d \in Data
  BY DEF Data
<1>5. Arrival(b, d, fault)
  BY <1>3, <1>4, WriteKnown
<1>6. fault \in AnyFault
  BY MayMeetIs
<1> QED
  BY <1>4, <1>5, <1>6
-----------------------------------------------------------------------------
(* The operations that flush: s is what they leave of Here.                *)
Rinsed(s, fault) == After(Here, s) /\ (fault = NoFault => s.lost = {})

LEMMA RinsedContent ==
    ASSUME Inventory, NEW s, NEW fault, Rinsed(s, fault)
    PROVE  /\ s \in Stores /\ Ordered(s.cache) /\ Len(s.cache) <= Len(cache)
           /\ \A i \in 1 .. Len(s.cache) : \E j \in 1 .. Len(cache) : s.cache[i] = cache[j]
           /\ \A x \in Block :
                 /\ \/ Content(s.cache, s.disk, x) = Content(cache, disk, x)
                    \/ x \in s.lost /\ Content(s.cache, s.disk, x) = s.disk[x]
                 /\ s.disk[x] \in {disk[x], Content(cache, disk, x)}
<1>1. Here \in Stores /\ Here.cache = cache /\ Here.disk = disk /\ Ordered(Here.cache)
  BY HereIsAStore
<1> HIDE DEF Here
<1>2. After(Here, s)
  BY DEF Rinsed
<1>3. /\ s \in Stores /\ Ordered(s.cache) /\ Len(s.cache) <= Len(cache)
      /\ \A i \in 1 .. Len(s.cache) : \E j \in 1 .. Len(cache) : s.cache[i] = cache[j]
  BY <1>1, <1>2 DEF After
<1>4. ASSUME NEW x \in Block
      PROVE  /\ \/ Content(s.cache, s.disk, x) = Content(cache, disk, x)
                \/ x \in s.lost /\ Content(s.cache, s.disk, x) = s.disk[x]
             /\ s.disk[x] \in {disk[x], Content(cache, disk, x)}
  BY <1>1, <1>2, AfterContent
<1> QED
  BY <1>3, <1>4

LEMMA TimerRinses ==
    ASSUME Inventory, NEW fault \in AnyFault, NEW s \in FlushDone(Here, have, fault)
    PROVE  Rinsed(s, fault) /\ LeavesIncomplete(s, have)
<1>1. Here \in Stores /\ Ordered(Here.cache) /\ Here.lost = {} /\ ~Here.err
  BY HereIsAStore
<1> HIDE DEF Here
<1>2. After(Here, s) /\ Quiet(fault, Here, s) /\ LeavesIncomplete(s, have)
  BY <1>1, FlushDoneFlushes
<1> QED
  BY <1>1, <1>2 DEF Rinsed, Quiet

LEMMA TrimRinses ==
    ASSUME Inventory, NEW fault \in AnyFault, NEW n \in Nat, NEW s \in CacheTrim(Here, n, have, fault)
    PROVE  Rinsed(s, fault)
<1>1. Here \in Stores /\ Ordered(Here.cache) /\ Here.lost = {} /\ ~Here.err
  BY HereIsAStore
<1> HIDE DEF Here
<1>2. Trimmed(s, Here, n, fault)
  BY <1>1, CacheTrimTrims
<1> QED
  BY <1>1, <1>2 DEF Rinsed, Quiet, Trimmed

LEMMA StopRinses ==
    ASSUME Inventory, NEW fault \in AnyFault, NEW t \in Torrent,
           NEW s, s = FlushTorrent(Here, t, fault)
    PROVE  /\ Rinsed(s, fault)
           /\ s.err => t \in s.failed
           /\ ~s.err => \A i \in 1 .. Len(s.cache) : TorrentOf[s.cache[i].block] # t
<1>1. Here \in Stores /\ Ordered(Here.cache) /\ Here.lost = {} /\ ~Here.err /\ After(Here, Here)
  BY HereIsAStore
<1> HIDE DEF Here
<1>2. TorrentFlushed(s, Here, Here, t, fault)
  BY <1>1, FlushTorrentFlushes
<1>3. /\ After(Here, s) /\ Quiet(fault, Here, s)
      /\ s.err => t \in s.failed
      /\ ~s.err => \A i \in 1 .. Len(s.cache) : TorrentOf[s.cache[i].block] # t
  BY <1>2 DEF TorrentFlushed
<1> QED
  BY <1>1, <1>3 DEF Rinsed, Quiet

LEMMA FewTorrents ==
    ASSUME NEW T, T \subseteq Torrent
    PROVE  IsFiniteSet(T)
<1> DEFINE f == [b \in Block |-> TorrentOf[b]]
<1>1. IsFiniteSet(Block)
  <2>1. NumBlocks \in Int /\ 1 \in Int /\ Block = 1 .. NumBlocks
    BY CacheAssumption DEF Block
  <2>2. IsFiniteSet(1 .. NumBlocks)
    BY <2>1, FS_Interval
  <2> QED
    BY <2>1, <2>2
<1>2. Torrent = {f[b] : b \in Block}
  BY DEF Torrent
<1>3. IsFiniteSet({f[b] : b \in Block})
  <2> DEFINE S == {f[b] : b \in Block}
  <2>1. f \in Surjection(Block, S)
    BY DEF Surjection
  <2> HIDE DEF f, S
  <2>2. IsFiniteSet(S)
    BY <1>1, <2>1, FS_Surjection
  <2> QED
    BY <2>2 DEF S
<1> QED
  BY <1>2, <1>3, FS_Subset

LEMMA CloseRinses ==
    ASSUME Inventory, NEW fault \in AnyFault, NEW T, T \subseteq Torrent,
           NEW s, s = FoldLeft(LAMBDA st, t : FlushNext(st, t, fault), Here, SetToSeq(T))
    PROVE  Rinsed(s, fault) /\ \A t \in T : Settled(s, t)
<1>1. Here \in Stores /\ Ordered(Here.cache) /\ Here.lost = {}
  BY HereIsAStore
<1>2. IsFiniteSet(T)
  BY FewTorrents
<1> HIDE DEF Here
<1>3. AllFlushed(s, Here, T, fault)
  BY <1>1, <1>2, FlushAllFlushes
<1> QED
  BY <1>1, <1>3 DEF Rinsed, Quiet, AllFlushed
-----------------------------------------------------------------------------
(* What a flush keeps.                                                     *)

(* The blocks of a piece are of one torrent.                               *)
LEMMA PieceOfOne ==
    ASSUME NEW x \in Block, NEW y \in BlocksOf(PieceOf[x])
    PROVE  y \in Block /\ PieceOf[y] = PieceOf[x] /\ TorrentOf[y] = TorrentOf[x]
<1>1. y \in Block /\ PieceOf[y] = PieceOf[x]
  BY DEF BlocksOf
<1> QED
  BY <1>1, CacheAssumption

LEMMA CompleteIs ==
    ASSUME TypeOK
    PROVE  /\ Complete \subseteq have /\ Complete \subseteq Block
           /\ \A x : x \in Complete <=> x \in have /\ PieceDone(have, PieceOf[x])
BY DEF Complete, TypeOK

LEMMA FlushKeepsIntact ==
    ASSUME TypeOK, Ordered(cache), Intact, NEW s, NEW fault, Rinsed(s, fault),
           cache' = s.cache, disk' = s.disk, UNCHANGED <<have, rewritten>>,
           lost' = (lost \cup s.lost) \cap Complete
    PROVE  Intact' /\ Ordered(cache)' /\ lost' \in SUBSET Block
<1>1. Inventory
  BY InvIsInventory
<1>2. Ordered(s.cache)
  BY <1>1, RinsedContent
<1>3. ASSUME NEW b \in have, PieceDone(have, PieceOf[b]), b \notin lost' \cup rewritten
      PROVE  Content(s.cache, s.disk, b) = b
  <2>1. b \in Complete /\ b \in Block
    BY <1>3, CompleteIs
  <2>2. b \notin lost /\ b \notin s.lost
    BY <1>3, <2>1
  <2>3. Content(cache, disk, b) = b
    BY <1>3, <2>2 DEF Intact
  <2> QED
    BY <1>1, <2>1, <2>2, <2>3, RinsedContent
<1>4. Intact'
  BY <1>3 DEF Intact
<1>5. Ordered(cache)'
  BY <1>2 DEF Ordered
<1> QED
  BY <1>4, <1>5, CompleteIs

LEMMA OpenKeepsClosed ==
    ASSUME TypeOK, ClosedLeavesNothing, cache' \in Seq(Entry), error \subseteq error',
           \A t \in Torrent : Open(t) =>
              \/ OpenNext(t) \/ t \in error'
              \/ \A i \in 1 .. Len(cache') : TorrentOf[cache'[i].block] # t,
           \A i \in 1 .. Len(cache') :
              \/ OpenNext(TorrentOf[cache'[i].block])
              \/ \E j \in 1 .. Len(cache) : cache'[i] = cache[j]
    PROVE  ClosedLeavesNothing'
<1>1. cache \in Seq(Entry)
  BY DEF TypeOK, Entry
<1>2. DOMAIN cache = 1 .. Len(cache) /\ DOMAIN cache' = 1 .. Len(cache')
  BY <1>1
<1>3. ASSUME NEW i \in DOMAIN cache'
      PROVE  OpenNext(TorrentOf[cache'[i].block]) \/ TorrentOf[cache'[i].block] \in error'
  <2>1. CASE \E j \in 1 .. Len(cache) : cache'[i] = cache[j]
    <3>1. PICK j \in 1 .. Len(cache) : cache'[i] = cache[j]
      BY <2>1
    <3>2. cache[j].block \in Block
      BY <1>1, Entries
    <3> DEFINE t == TorrentOf[cache[j].block]
    <3>3. t \in Torrent /\ (Open(t) \/ t \in error)
      BY <1>2, <3>2 DEF ClosedLeavesNothing, Torrent
    <3>4. TorrentOf[cache'[i].block] = t
      BY <3>1
    <3> HIDE DEF t
    <3>5. OpenNext(t) \/ t \in error'
      BY <1>2, <3>3, <3>4
    <3> QED
      BY <3>4, <3>5
  <2> QED
    BY <1>2, <2>1
<1> QED
  BY <1>3 DEF ClosedLeavesNothing, Open, OpenNext

LEMMA SameResume ==
    ASSUME TypeOK, Ordered(cache), Intact, ResumeHeld, ResumeOnDisk,
           NEW s, NEW fault, Rinsed(s, fault),
           disk' = s.disk, UNCHANGED <<have, rewritten, resume, unsafe>>,
           lost' = (lost \cup s.lost) \cap Complete
    PROVE  ResumeHeld' /\ ResumeOnDisk'
<1>1. Inventory
  BY InvIsInventory
<1>2. ResumeHeld'
  BY DEF ResumeHeld, Complete
<1>3. ASSUME NEW b \in resume, PieceDone(resume, PieceOf[b]),
             b \notin lost' \cup rewritten, TorrentOf[b] \notin unsafe
      PROVE  s.disk[b] = b
  <2>1. b \in Complete /\ b \in Block
    BY <1>3, CompleteIs DEF ResumeHeld
  <2>2. b \notin lost /\ b \notin s.lost
    BY <1>3, <2>1
  <2>3. Content(cache, disk, b) = b
    BY <1>3, <2>1, <2>2, CompleteIs DEF Intact
  <2>4. disk[b] = b
    BY <1>3, <2>2 DEF ResumeOnDisk
  <2> QED
    BY <1>1, <2>1, <2>3, <2>4, RinsedContent
<1> QED
  BY <1>2, <1>3 DEF ResumeOnDisk

(* tr_torrentSave of torrents of which the flush left no complete block    *)
(* in the cache, or failed.                                                *)
LEMMA SaveKeeps ==
    ASSUME TypeOK, Ordered(cache), Intact, ResumeHeld, ResumeOnDisk,
           NEW s, NEW fault, Rinsed(s, fault),
           disk' = s.disk, UNCHANGED <<have, rewritten>>,
           lost' = (lost \cup s.lost) \cap Complete,
           NEW T \in SUBSET Torrent, NEW failed, Save(T, failed),
           ~failed => \A i \in 1 .. Len(s.cache) :
                         TorrentOf[s.cache[i].block] \in T => s.cache[i].block \notin Complete
    PROVE  ResumeHeld' /\ ResumeOnDisk' /\ resume' \in SUBSET Block /\ unsafe' \subseteq Torrent
<1> DEFINE mine == {b \in Block : TorrentOf[b] \in T}
           changed == {b \in mine : (b \in resume) # (b \in have)}
<1>1. Inventory
  BY InvIsInventory
<1>2. /\ resume' = (resume \ mine) \cup (have \cap mine)
      /\ unsafe' = IF failed THEN unsafe \cup {TorrentOf[b] : b \in changed} ELSE unsafe \ T
  BY DEF Save
<1>3. have \subseteq Block /\ resume \subseteq Block /\ unsafe \subseteq Torrent
  BY DEF TypeOK
<1>4. resume' \in SUBSET Block /\ unsafe' \subseteq Torrent
  BY <1>2, <1>3 DEF Torrent
<1>5. \A x \in Block : x \in mine <=> TorrentOf[x] \in T
  OBVIOUS
<1>6. \A x \in Block : (x \in changed <=> TorrentOf[x] \in T /\ (x \in resume) # (x \in have))
  OBVIOUS
<1>7. failed => \A x \in changed : TorrentOf[x] \in unsafe'
  BY <1>2
<1> HIDE DEF mine, changed
<1>8. ASSUME NEW x \in resume', PieceDone(resume', PieceOf[x])
      PROVE  /\ x \in Complete
             /\ TorrentOf[x] \notin T => x \in resume /\ PieceDone(resume, PieceOf[x])
  <2>1. x \in Block /\ BlocksOf(PieceOf[x]) \subseteq resume'
    BY <1>4, <1>8 DEF PieceDone
  <2>2. CASE TorrentOf[x] \in T
    <3>1. x \in have /\ BlocksOf(PieceOf[x]) \subseteq have
      BY <1>2, <1>5, <2>1, <2>2, PieceOfOne
    <3> QED
      BY <2>2, <3>1, CompleteIs DEF PieceDone
  <2>3. CASE TorrentOf[x] \notin T
    <3>1. x \in resume /\ BlocksOf(PieceOf[x]) \subseteq resume
      BY <1>2, <1>5, <2>1, <2>3, PieceOfOne
    <3> QED
      BY <3>1 DEF ResumeHeld, PieceDone
  <2> QED
    BY <2>2, <2>3
<1>9. ResumeHeld'
  BY <1>8 DEF ResumeHeld, Complete
<1>10. ASSUME NEW x \in resume', PieceDone(resume', PieceOf[x]),
              x \notin lost' \cup rewritten, TorrentOf[x] \notin unsafe'
       PROVE  s.disk[x] = x
  <2>1. x \in Complete /\ x \in Block
    BY <1>4, <1>8, <1>10
  <2>2. x \notin lost /\ x \notin s.lost
    BY <1>10, <2>1
  <2>3. Content(cache, disk, x) = x
    BY <1>10, <2>1, <2>2, CompleteIs DEF Intact
  <2>4. ASSUME x \in resume, PieceDone(resume, PieceOf[x]), TorrentOf[x] \notin unsafe
        PROVE  s.disk[x] = x
    <3>1. disk[x] = x
      BY <1>10, <2>2, <2>4 DEF ResumeOnDisk
    <3> QED
      BY <1>1, <2>1, <2>3, <3>1, RinsedContent
  <2>5. CASE TorrentOf[x] \notin T
    BY <1>2, <1>8, <1>10, <2>4, <2>5
  <2>6. CASE TorrentOf[x] \in T /\ failed
    <3>1. \A y \in BlocksOf(PieceOf[x]) : y \in resume <=> y \in have
      BY <1>6, <1>7, <1>10, <2>1, <2>6, PieceOfOne
    <3>2. x \in BlocksOf(PieceOf[x]) /\ BlocksOf(PieceOf[x]) \subseteq have
      BY <2>1, CompleteIs DEF BlocksOf, PieceDone
    <3>3. TorrentOf[x] \notin unsafe
      BY <1>2, <1>10, <2>6
    <3> QED
      BY <2>4, <3>1, <3>2, <3>3 DEF PieceDone
  <2>7. CASE TorrentOf[x] \in T /\ ~failed
    <3>1. s.cache \in Seq(Entry)
      BY <1>1, RinsedContent DEF Stores
    <3>2. \A i \in 1 .. Len(s.cache) : s.cache[i].block # x
      BY <2>1, <2>7
    <3>3. Content(s.cache, s.disk, x) = s.disk[x]
      BY <3>1, <3>2, ContentOnDisk
    <3>4. Content(s.cache, s.disk, x) = x
      BY <1>1, <2>1, <2>2, <2>3, RinsedContent
    <3> QED
      BY <3>3, <3>4
  <2> QED
    BY <2>5, <2>6, <2>7
<1>11. ResumeOnDisk'
  BY <1>10 DEF ResumeOnDisk
<1> QED
  BY <1>4, <1>9, <1>11
-----------------------------------------------------------------------------
(* Every step keeps the invariant.                                         *)

(* How a flush appears in the step: what it leaves in the cache and on the *)
(* disk, and that a fault is counted.                                      *)
Flushes(s, fault) ==
    /\ Rinsed(s, fault)
    /\ cache' = s.cache /\ disk' = s.disk
    /\ faults' \in {faults, faults + 1} /\ (s.lost # {} => faults' # faults)

FlushStepTaken == \E s, fault : Flushes(s, fault)

Taken(s, runs) ==
    /\ cache' \in Seq(Entry) /\ disk' \in [Block -> Data]
    /\ run' \in [Torrent -> States] /\ error' \subseteq Torrent
    /\ error \subseteq error' /\ s.failed \subseteq error'
    /\ faults' \in 0 .. MaxFaults + 1
    /\ \A t \in Torrent : OpenNext(t) <=> runs[t] \notin {"removed", "closed"}

LEMMA FlushTaken ==
    ASSUME WriteInv, NEW fault \in MayMeet({}), NEW s, Rinsed(s, fault),
           NEW runs \in [Torrent -> States], Leave(s, runs)
    PROVE  Flushes(s, fault) /\ Taken(s, runs)
<1>1. TypeOK /\ Inventory
  BY InvIsInventory DEF WriteInv
<1>2. s \in Stores /\ (fault = NoFault => s.lost = {})
  BY <1>1, RinsedContent DEF Rinsed
<1> DEFINE blocks == {}
<1>3. fault \in MayMeet(blocks)
  OBVIOUS
<1> HIDE DEF blocks
<1>4. /\ cache' = s.cache /\ disk' = s.disk
      /\ cache' \in Seq([block : Block, data : Data]) /\ disk' \in [Block -> Data]
      /\ run' \in [Torrent -> States] /\ error' \subseteq Torrent
      /\ error \subseteq error' /\ s.failed \subseteq error'
      /\ faults' \in 0 .. MaxFaults + 1
      /\ faults' \in {faults, faults + 1} /\ (s.lost # {} => faults' # faults)
      /\ \A t \in Torrent : OpenNext(t) <=> runs[t] \notin {"removed", "closed"}
  BY <1>1, <1>2, <1>3, LeaveKeeps
<1> QED
  BY <1>4 DEF Flushes, Taken, Entry

LEMMA RunsAre ==
    ASSUME TypeOK
    PROVE  /\ run \in [Torrent -> States]
           /\ \A t \in Torrent : Open(t) <=> run[t] \notin {"removed", "closed"}
           /\ \A t \in Torrent, r \in States :
                 /\ [run EXCEPT ![t] = r] \in [Torrent -> States]
                 /\ [run EXCEPT ![t] = r][t] = r
                 /\ \A u \in Torrent \ {t} : [run EXCEPT ![t] = r][u] = run[u]
BY DEF TypeOK, States, Open

LEMMA FlushKeepsClosed ==
    ASSUME WriteInv, NEW fault, NEW s, Flushes(s, fault), NEW runs, Taken(s, runs),
           \A t \in Torrent : Open(t) => runs[t] \notin {"removed", "closed"} \/ Settled(s, t)
    PROVE  ClosedLeavesNothing'
<1>1. TypeOK /\ Inventory /\ ClosedLeavesNothing
  BY InvIsInventory DEF WriteInv
<1>2. /\ Rinsed(s, fault) /\ cache' = s.cache
      /\ cache' \in Seq(Entry) /\ error \subseteq error' /\ s.failed \subseteq error'
      /\ \A t \in Torrent : OpenNext(t) <=> runs[t] \notin {"removed", "closed"}
  BY DEF Flushes, Taken
<1>3. \A i \in 1 .. Len(cache') : \E j \in 1 .. Len(cache) : cache'[i] = cache[j]
  BY <1>1, <1>2, RinsedContent
<1>4. \A t \in Torrent : Open(t) =>
         \/ OpenNext(t) \/ t \in error'
         \/ \A i \in 1 .. Len(cache') : TorrentOf[cache'[i].block] # t
  BY <1>2 DEF Settled
<1> QED
  BY <1>1, <1>2, <1>3, <1>4, OpenKeepsClosed

LEMMA SaveTimerKeeps ==
    ASSUME WriteInv, NEW fault \in MayMeet({}), SaveTimer(fault)
    PROVE  WriteInv' /\ FlushStepTaken
<1>1. TypeOK /\ Inventory /\ fault \in AnyFault
  BY InvIsInventory, MayMeetIs DEF WriteInv
<1> DEFINE T == {t \in Torrent : Open(t)}
<1>2. PICK s \in FlushDone(Here, have, fault) :
         /\ Leave(s, run)
         /\ lost' = (lost \cup s.lost) \cap Complete
         /\ Save(T, s.err)
  BY DEF SaveTimer
<1>3. UNCHANGED <<limit, have, late, rewritten>>
  BY DEF SaveTimer
<1>4. Rinsed(s, fault) /\ LeavesIncomplete(s, have)
  BY <1>1, TimerRinses
<1>5. Flushes(s, fault) /\ Taken(s, run)
  BY <1>1, <1>2, <1>4, FlushTaken, RunsAre
<1>6. Intact' /\ Ordered(cache)' /\ lost' \in SUBSET Block
  BY <1>1, <1>2, <1>3, <1>4, <1>5, FlushKeepsIntact DEF WriteInv, Flushes
<1>7. T \in SUBSET Torrent
  OBVIOUS
<1> HIDE DEF T
<1>8. ~s.err => \A i \in 1 .. Len(s.cache) :
                   TorrentOf[s.cache[i].block] \in T => s.cache[i].block \notin Complete
  BY <1>1, <1>4, CompleteIs DEF LeavesIncomplete
<1> DEFINE failed == s.err
<1>9. Save(T, failed) /\ (~failed => \A i \in 1 .. Len(s.cache) :
                   TorrentOf[s.cache[i].block] \in T => s.cache[i].block \notin Complete)
  BY <1>2, <1>8
<1> HIDE DEF failed
<1>10. ResumeHeld' /\ ResumeOnDisk' /\ resume' \in SUBSET Block /\ unsafe' \subseteq Torrent
  BY <1>1, <1>2, <1>3, <1>4, <1>5, <1>7, <1>9, SaveKeeps DEF WriteInv, Flushes
<1>11. ClosedLeavesNothing'
  BY <1>1, <1>5, FlushKeepsClosed, RunsAre DEF WriteInv
<1>12. TypeOK'
  BY <1>1, <1>3, <1>5, <1>6, <1>10 DEF TypeOK, Taken, States, Entry
<1> QED
  BY <1>5, <1>6, <1>10, <1>11, <1>12 DEF WriteInv, FlushStepTaken

LEMMA SetLimitKeeps ==
    ASSUME WriteInv, NEW fault \in MayMeet({}), NEW n \in Limits, SetLimit(n, fault)
    PROVE  WriteInv' /\ FlushStepTaken
<1>1. TypeOK /\ Inventory /\ fault \in AnyFault /\ n \in Nat
  BY InvIsInventory, MayMeetIs, WritePathAssumption DEF WriteInv
<1>2. PICK s \in CacheTrim(Here, n, have, fault) :
         Leave(s, run) /\ lost' = (lost \cup s.lost) \cap Complete
  BY DEF SetLimit
<1>3. limit' = n /\ UNCHANGED <<have, resume, late, rewritten, unsafe>>
  BY DEF SetLimit
<1>4. Rinsed(s, fault)
  BY <1>1, TrimRinses
<1>5. Flushes(s, fault) /\ Taken(s, run)
  BY <1>1, <1>2, <1>4, FlushTaken, RunsAre
<1>6. Intact' /\ Ordered(cache)' /\ lost' \in SUBSET Block
  BY <1>1, <1>2, <1>3, <1>4, <1>5, FlushKeepsIntact DEF WriteInv, Flushes
<1>7. ResumeHeld' /\ ResumeOnDisk'
  BY <1>1, <1>2, <1>3, <1>4, <1>5, SameResume DEF WriteInv, Flushes
<1>8. ClosedLeavesNothing'
  BY <1>1, <1>5, FlushKeepsClosed, RunsAre DEF WriteInv
<1>9. TypeOK'
  BY <1>1, <1>3, <1>5, <1>6 DEF TypeOK, Taken, States, Entry
<1> QED
  BY <1>5, <1>6, <1>7, <1>8, <1>9 DEF WriteInv, FlushStepTaken

LEMMA StopTorrentKeeps ==
    ASSUME WriteInv, NEW fault \in MayMeet({}), NEW t \in Torrent, StopTorrent(t, fault)
    PROVE  WriteInv' /\ FlushStepTaken
<1>1. TypeOK /\ Inventory /\ fault \in AnyFault
  BY InvIsInventory, MayMeetIs DEF WriteInv
<1> DEFINE s == FlushTorrent(Here, t, fault)
           runs == [run EXCEPT ![t] = "stopped"]
           T == {t}
           failed == s.err
<1>2. /\ Leave(s, runs)
      /\ lost' = (lost \cup s.lost) \cap Complete
      /\ Save(T, failed)
      /\ UNCHANGED <<limit, have, late, rewritten>>
  BY DEF StopTorrent
<1>3. s = FlushTorrent(Here, t, fault)
  OBVIOUS
<1> HIDE DEF s
<1>4. /\ Rinsed(s, fault)
      /\ ~failed => \A i \in 1 .. Len(s.cache) : TorrentOf[s.cache[i].block] # t
  BY <1>1, <1>3, StopRinses
<1>5. /\ runs \in [Torrent -> States]
      /\ \A u \in Torrent : Open(u) => runs[u] \notin {"removed", "closed"}
  BY <1>1, RunsAre DEF States
<1>6. T \in SUBSET Torrent /\ \A u \in T : u = t
  OBVIOUS
<1> HIDE DEF runs, failed, T
<1>7. Flushes(s, fault) /\ Taken(s, runs)
  BY <1>2, <1>4, <1>5, FlushTaken
<1>8. Intact' /\ Ordered(cache)' /\ lost' \in SUBSET Block
  BY <1>1, <1>2, <1>4, <1>7, FlushKeepsIntact DEF WriteInv, Flushes
<1>9. ~failed => \A i \in 1 .. Len(s.cache) :
                    TorrentOf[s.cache[i].block] \in T => s.cache[i].block \notin Complete
  BY <1>4, <1>6
<1>10. ResumeHeld' /\ ResumeOnDisk' /\ resume' \in SUBSET Block /\ unsafe' \subseteq Torrent
  BY <1>1, <1>2, <1>4, <1>6, <1>7, <1>9, SaveKeeps DEF WriteInv, Flushes
<1>11. ClosedLeavesNothing'
  BY <1>5, <1>7, FlushKeepsClosed
<1>12. TypeOK'
  BY <1>1, <1>2, <1>7, <1>8, <1>10 DEF TypeOK, Taken, States, Entry
<1> QED
  BY <1>7, <1>8, <1>10, <1>11, <1>12 DEF WriteInv, FlushStepTaken

LEMMA SessionCloseKeeps ==
    ASSUME WriteInv, NEW fault \in MayMeet({}), SessionClose(fault)
    PROVE  WriteInv' /\ FlushStepTaken
<1>1. TypeOK /\ Inventory /\ fault \in AnyFault
  BY InvIsInventory, MayMeetIs DEF WriteInv
<1> DEFINE T == {t \in Torrent : Open(t)}
           s == FoldLeft(LAMBDA st, t : FlushNext(st, t, fault), Here, SetToSeq(T))
           runs == [t \in Torrent |-> IF t \in T THEN "closed" ELSE run[t]]
           failed == s.failed # {}
<1>2. /\ Leave(s, runs)
      /\ lost' = (lost \cup s.lost) \cap Complete
      /\ Save(T, failed)
      /\ UNCHANGED <<limit, have, late, rewritten>>
  BY Zenon DEF SessionClose, FlushNext
<1>3. T \in SUBSET Torrent /\ \A t \in Torrent : t \in T <=> Open(t)
  OBVIOUS
<1> HIDE DEF T
<1>4. Rinsed(s, fault) /\ \A t \in T : Settled(s, t)
  BY <1>1, <1>3, CloseRinses
<1> HIDE DEF s
<1>5. runs \in [Torrent -> States]
  BY <1>1, RunsAre DEF States
<1> HIDE DEF runs
<1>6. ~failed => \A i \in 1 .. Len(s.cache) :
                    TorrentOf[s.cache[i].block] \in T => s.cache[i].block \notin Complete
  BY <1>4 DEF Settled
<1> HIDE DEF failed
<1>7. Flushes(s, fault) /\ Taken(s, runs)
  BY <1>2, <1>4, <1>5, FlushTaken
<1>8. Intact' /\ Ordered(cache)' /\ lost' \in SUBSET Block
  BY <1>1, <1>2, <1>4, <1>7, FlushKeepsIntact DEF WriteInv, Flushes
<1>9. ResumeHeld' /\ ResumeOnDisk' /\ resume' \in SUBSET Block /\ unsafe' \subseteq Torrent
  BY <1>1, <1>2, <1>3, <1>4, <1>6, <1>7, SaveKeeps DEF WriteInv, Flushes
<1>10. ClosedLeavesNothing'
  BY <1>3, <1>4, <1>7, FlushKeepsClosed
<1>11. TypeOK'
  BY <1>1, <1>2, <1>7, <1>8, <1>9 DEF TypeOK, Taken, States, Entry
<1> QED
  BY <1>7, <1>8, <1>9, <1>10, <1>11 DEF WriteInv, FlushStepTaken

LEMMA RemoveTorrentKeeps ==
    ASSUME WriteInv, NEW fault \in MayMeet({}), NEW t \in Torrent, RemoveTorrent(t, fault)
    PROVE  WriteInv' /\ FlushStepTaken
<1>1. TypeOK /\ Inventory /\ fault \in AnyFault
  BY InvIsInventory, MayMeetIs DEF WriteInv
<1> DEFINE s == FlushTorrent(Here, t, fault)
           runs == [run EXCEPT ![t] = "removed"]
<1>2. /\ Leave(s, runs)
      /\ have' = have \ Mine(t)
      /\ resume' = resume \ Mine(t) /\ unsafe' = unsafe \ {t}
      /\ lost' = ((lost \cup s.lost) \cap Complete) \ Mine(t)
      /\ rewritten' = rewritten \ Mine(t)
      /\ UNCHANGED <<limit, late>>
  BY DEF RemoveTorrent
<1>3. s = FlushTorrent(Here, t, fault)
  OBVIOUS
<1> HIDE DEF s
<1>4. Rinsed(s, fault) /\ Settled(s, t)
  BY <1>1, <1>3, StopRinses DEF Settled
<1>5. /\ runs \in [Torrent -> States]
      /\ \A u \in Torrent \ {t} : Open(u) => runs[u] \notin {"removed", "closed"}
  BY <1>1, RunsAre DEF States
<1> HIDE DEF runs
<1>6. Flushes(s, fault) /\ Taken(s, runs)
  BY <1>2, <1>4, <1>5, FlushTaken
<1>7. /\ have \subseteq Block /\ resume \subseteq Block /\ lost \subseteq Block
      /\ Complete \subseteq have
      /\ \A x \in Block : x \in Mine(t) <=> TorrentOf[x] = t
  BY <1>1, CompleteIs DEF TypeOK, Mine
<1>8. ASSUME NEW S \in SUBSET Block, NEW x \in S \ Mine(t), PieceDone(S \ Mine(t), PieceOf[x])
      PROVE  /\ x \in S /\ PieceDone(S, PieceOf[x]) /\ x \in Block
             /\ BlocksOf(PieceOf[x]) \cap Mine(t) = {}
  BY <1>7, <1>8, PieceOfOne DEF PieceDone
<1>9. ASSUME NEW x \in have', PieceDone(have', PieceOf[x]), x \notin lost' \cup rewritten'
      PROVE  Content(s.cache, s.disk, x) = x
  <2>1. /\ x \in have /\ PieceDone(have, PieceOf[x]) /\ x \in Block /\ x \notin Mine(t)
    BY <1>2, <1>7, <1>8, <1>9
  <2>2. x \in Complete
    BY <1>1, <2>1, CompleteIs
  <2>3. x \notin lost /\ x \notin s.lost /\ x \notin rewritten
    BY <1>2, <1>9, <2>1, <2>2
  <2>4. Content(cache, disk, x) = x
    BY <2>1, <2>3 DEF WriteInv, Intact
  <2> QED
    BY <1>1, <1>4, <2>1, <2>3, <2>4, RinsedContent
<1>10. Intact'
  BY <1>6, <1>9 DEF Intact, Flushes
<1>11. ASSUME NEW x \in resume', PieceDone(resume', PieceOf[x])
       PROVE  /\ x \in resume /\ PieceDone(resume, PieceOf[x]) /\ x \in Block /\ x \notin Mine(t)
              /\ x \in Complete /\ x \in have' /\ PieceDone(have', PieceOf[x])
  <2>1. /\ x \in resume /\ PieceDone(resume, PieceOf[x]) /\ x \in Block /\ x \notin Mine(t)
        /\ BlocksOf(PieceOf[x]) \cap Mine(t) = {}
    BY <1>2, <1>7, <1>8, <1>11
  <2>2. x \in Complete
    BY <2>1 DEF WriteInv, ResumeHeld
  <2>3. x \in have /\ BlocksOf(PieceOf[x]) \subseteq have
    BY <1>1, <2>2, CompleteIs DEF PieceDone
  <2> QED
    BY <1>2, <2>1, <2>2, <2>3 DEF PieceDone
<1>12. ResumeHeld'
  BY <1>11 DEF ResumeHeld, Complete
<1>13. ASSUME NEW x \in resume', PieceDone(resume', PieceOf[x]),
              x \notin lost' \cup rewritten', TorrentOf[x] \notin unsafe'
       PROVE  s.disk[x] = x
  <2>1. /\ x \in resume /\ PieceDone(resume, PieceOf[x]) /\ x \in Block /\ x \notin Mine(t)
        /\ x \in Complete
    BY <1>11, <1>13
  <2>2. x \notin lost /\ x \notin s.lost /\ x \notin rewritten /\ TorrentOf[x] \notin unsafe
    BY <1>2, <1>7, <1>13, <2>1
  <2>3. x \in have /\ PieceDone(have, PieceOf[x])
    BY <1>1, <2>1, CompleteIs
  <2>4. Content(cache, disk, x) = x
    BY <2>2, <2>3 DEF WriteInv, Intact
  <2>5. disk[x] = x
    BY <2>1, <2>2 DEF WriteInv, ResumeOnDisk
  <2> QED
    BY <1>1, <1>4, <2>1, <2>4, <2>5, RinsedContent
<1>14. ResumeOnDisk'
  BY <1>6, <1>13 DEF ResumeOnDisk, Flushes
<1>15. ClosedLeavesNothing'
  BY <1>4, <1>5, <1>6, FlushKeepsClosed
<1>16. Ordered(cache)'
  BY <1>1, <1>4, <1>6, RinsedContent DEF Flushes, Ordered
<1>17. TypeOK'
  BY <1>1, <1>2, <1>6, <1>7 DEF TypeOK, Taken, States, Entry
<1> QED
  BY <1>6, <1>10, <1>12, <1>14, <1>15, <1>16, <1>17 DEF WriteInv, FlushStepTaken

LEMMA StartKeeps ==
    ASSUME WriteInv, NEW t \in Torrent, Start(t)
    PROVE  WriteInv'
<1>1. /\ run[t] = "stopped"
      /\ run' = [run EXCEPT ![t] = "running"] /\ error' = error \ {t}
      /\ UNCHANGED <<cache, limit, disk, have, resume, faults, late, lost, rewritten, unsafe>>
  BY DEF Start
<1>2. TypeOK /\ ClosedLeavesNothing
  BY DEF WriteInv
<1>3. /\ run' \in [Torrent -> States]
      /\ \A u \in Torrent : (Open(u) => OpenNext(u)) /\ (u \in error => u \in error' \/ OpenNext(u))
  <2> DEFINE to == "running"
  <2>1. to \in States /\ to \notin {"removed", "closed"} /\ run' = [run EXCEPT ![t] = to]
    BY <1>1 DEF States
  <2> HIDE DEF to
  <2>2. /\ run' \in [Torrent -> States] /\ run'[t] = to
        /\ \A u \in Torrent \ {t} : run'[u] = run[u]
    BY <1>2, <2>1, RunsAre
  <2> QED
    BY <1>1, <2>1, <2>2 DEF Open, OpenNext
<1>4. cache \in Seq(Entry)
  BY <1>2 DEF TypeOK, Entry
<1>5. \A i \in DOMAIN cache : TorrentOf[cache[i].block] \in Torrent
  BY <1>4, Entries DEF Torrent
<1>6. ClosedLeavesNothing'
  BY <1>1, <1>2, <1>3, <1>5 DEF ClosedLeavesNothing, Open, OpenNext
<1>7. TypeOK'
  BY <1>1, <1>2, <1>3 DEF TypeOK, States
<1>8. Ordered(cache)' /\ Intact' /\ ResumeHeld' /\ ResumeOnDisk'
  BY <1>1 DEF WriteInv, Ordered, Intact, ResumeHeld, ResumeOnDisk, Complete
<1> QED
  BY <1>6, <1>7, <1>8 DEF WriteInv

(* The next process has what the resume files say.                         *)
LEMMA RestartKeeps ==
    ASSUME WriteInv, Restart
    PROVE  WriteInv'
<1>1. /\ faults' \in {faults, faults + 1} /\ faults' <= MaxFaults + 1
      /\ cache' = <<>> /\ have' = resume
      /\ run' = [t \in Torrent |-> IF run[t] = "removed" THEN "removed" ELSE "stopped"]
      /\ error' = {}
      /\ lost' = lost \cup {b \in Cached \cap Complete : TorrentOf[b] \in unsafe}
      /\ UNCHANGED <<limit, disk, resume, late, rewritten, unsafe>>
  BY DEF Restart
<1>2. TypeOK /\ Intact /\ ResumeHeld /\ ResumeOnDisk
  BY DEF WriteInv
<1>3. \A b : Content(cache', disk', b) = disk[b]
  BY <1>1 DEF Content
<1>4. cache \in Seq(Entry)
  BY <1>2 DEF TypeOK, Entry
<1>5. ASSUME NEW b \in resume, PieceDone(resume, PieceOf[b]), b \notin lost' \cup rewritten
      PROVE  disk[b] = b
  <2>1. b \in Complete /\ b \in have /\ PieceDone(have, PieceOf[b])
    BY <1>2, <1>5, CompleteIs DEF ResumeHeld
  <2>2. CASE TorrentOf[b] \notin unsafe
    BY <1>1, <1>2, <1>5, <2>2 DEF ResumeOnDisk
  <2>3. CASE TorrentOf[b] \in unsafe
    <3>1. b \notin Cached /\ b \notin lost
      BY <1>1, <1>5, <2>1, <2>3
    <3>2. \A i \in 1 .. Len(cache) : cache[i].block # b
      BY <1>4, <3>1 DEF Cached
    <3>3. Content(cache, disk, b) = b
      BY <1>2, <1>5, <2>1, <3>1 DEF Intact
    <3> QED
      BY <1>4, <3>2, <3>3, ContentOnDisk
  <2> QED
    BY <2>2, <2>3
<1>6. Intact'
  BY <1>1, <1>3, <1>5 DEF Intact
<1>7. ResumeHeld'
  BY <1>1 DEF ResumeHeld, Complete
<1>8. ResumeOnDisk'
  BY <1>1, <1>2 DEF ResumeOnDisk
<1>9. ClosedLeavesNothing' /\ Ordered(cache)'
  BY <1>1 DEF ClosedLeavesNothing, Ordered
<1>10. TypeOK'
  <2>1. run' \in [Torrent -> States]
    BY <1>1 DEF States
  <2>2. faults' \in 0 .. MaxFaults + 1
    BY <1>1, <1>2, WritePathAssumption DEF TypeOK
  <2>3. lost' \in SUBSET Block
    BY <1>1, <1>2, CompleteIs DEF TypeOK
  <2>4. cache' \in Seq([block : Block, data : Data])
    BY <1>1
  <2> QED
    BY <1>1, <1>2, <2>1, <2>2, <2>3, <2>4 DEF TypeOK, States
<1> QED
  BY <1>6, <1>7, <1>8, <1>9, <1>10 DEF WriteInv

LEMMA ArrivalKeeps ==
    ASSUME WriteInv, NEW b \in Block, NEW d \in Data, NEW fault \in AnyFault,
           fault \in MayMeet({b}), Arrival(b, d, fault)
    PROVE  WriteInv'
<1>1. TypeOK /\ Inventory /\ Intact /\ ResumeHeld /\ ResumeOnDisk /\ ClosedLeavesNothing
  BY InvIsInventory DEF WriteInv
<1>2. PICK s : Received(b, d, s, fault) /\ Gained(b, s) /\ Leave(s, run)
  BY DEF Arrival, GotIt
<1>3. /\ Open(TorrentOf[b]) /\ UNCHANGED <<limit, resume, unsafe>>
      /\ late' \in 0 .. MaxLate
      /\ rewritten' \in SUBSET Block /\ rewritten \subseteq rewritten'
      /\ b \in Complete => b \in rewritten'
  BY DEF Arrival
<1>4. s \in Stores /\ (fault = NoFault => s.lost = {})
  BY <1>1, <1>2, ReceivedContent DEF Received
<1> DEFINE blocks == {b}
<1>5. fault \in MayMeet(blocks)
  OBVIOUS
<1> HIDE DEF blocks
<1>6. /\ cache' = s.cache /\ disk' = s.disk
      /\ cache' \in Seq([block : Block, data : Data]) /\ disk' \in [Block -> Data]
      /\ run' \in [Torrent -> States] /\ error' \subseteq Torrent
      /\ error \subseteq error' /\ faults' \in 0 .. MaxFaults + 1
      /\ \A t \in Torrent : OpenNext(t) <=> run[t] \notin {"removed", "closed"}
  BY <1>1, <1>2, <1>4, <1>5, LeaveKeeps, RunsAre
<1>7. /\ have' \in SUBSET Block /\ lost' \in SUBSET Block
      /\ \A x \in Complete : x \in have' /\ PieceDone(have', PieceOf[x])
      /\ \A x \in Complete \ {b} : x \notin lost' => x \notin lost /\ x \notin s.lost
      /\ \A x \in have' : PieceDone(have', PieceOf[x]) =>
            x \in Complete \/ (x \notin lost' => Content(s.cache, s.disk, x) = x)
  BY <1>2 DEF Gained
<1>8. ASSUME NEW x \in Complete, x \notin lost' \cup rewritten'
      PROVE  x \in Block /\ Content(s.cache, s.disk, x) = x /\ (disk[x] = x => s.disk[x] = x)
  <2>1. x # b /\ x \in Block /\ x \in have /\ PieceDone(have, PieceOf[x])
    BY <1>1, <1>3, <1>8, CompleteIs
  <2>2. x \notin lost /\ x \notin s.lost /\ x \notin rewritten
    BY <1>3, <1>7, <1>8, <2>1
  <2>3. Written(b, d, x) = x
    BY <1>1, <2>1, <2>2 DEF Intact, Written
  <2> QED
    BY <1>1, <1>2, <2>1, <2>2, <2>3, ReceivedContent
<1>9. Intact'
  BY <1>6, <1>7, <1>8 DEF Intact
<1>10. ResumeHeld'
  BY <1>1, <1>3, <1>7 DEF ResumeHeld, Complete
<1>11. ResumeOnDisk'
  <2>1. ASSUME NEW x \in resume, PieceDone(resume, PieceOf[x]),
               x \notin lost' \cup rewritten', TorrentOf[x] \notin unsafe
        PROVE  s.disk[x] = x
    <3>1. x \in Complete
      BY <1>1, <2>1 DEF ResumeHeld
    <3>2. x # b /\ x \notin lost /\ x \notin rewritten
      BY <1>3, <1>7, <2>1, <3>1
    <3>3. disk[x] = x
      BY <1>1, <2>1, <3>2 DEF ResumeOnDisk
    <3> QED
      BY <1>8, <2>1, <3>1, <3>3
  <2> QED
    BY <1>3, <1>6, <2>1 DEF ResumeOnDisk
<1>12. ClosedLeavesNothing'
  <2>1. \A t \in Torrent : Open(t) => OpenNext(t)
    BY <1>6 DEF Open
  <2>2. OpenNext(TorrentOf[b])
    BY <1>3, <2>1 DEF Torrent
  <2>3. \A i \in 1 .. Len(cache') :
           \/ OpenNext(TorrentOf[cache'[i].block])
           \/ \E j \in 1 .. Len(cache) : cache'[i] = cache[j]
    BY <1>1, <1>2, <1>6, <2>2, ReceivedContent
  <2> QED
    BY <1>1, <1>6, <2>1, <2>3, OpenKeepsClosed DEF Entry
<1>13. Ordered(cache)'
  BY <1>1, <1>2, <1>6, ReceivedContent DEF Ordered
<1>14. TypeOK'
  BY <1>1, <1>3, <1>6, <1>7 DEF TypeOK, States
<1> QED
  BY <1>9, <1>10, <1>11, <1>12, <1>13, <1>14 DEF WriteInv

(* What a step can be.                                                     *)
StepKinds ==
    \/ \E b \in Block, d \in Data, fault \in AnyFault :
          fault \in MayMeet({b}) /\ Arrival(b, d, fault)
    \/ FlushStepTaken
    \/ \E t \in Torrent : Start(t)
    \/ Restart

LEMMA StepKeeps ==
    ASSUME WriteInv, Next
    PROVE  WriteInv' /\ StepKinds
<1>1. CASE Arriving
  <2>1. TypeOK /\ Ordered(cache)
    BY DEF WriteInv
  <2>2. PICK b \in Block, d \in Data, fault \in AnyFault :
           fault \in MayMeet({b}) /\ Arrival(b, d, fault)
    BY <1>1, <2>1, ArrivingArrives
  <2>3. WriteInv'
    BY <2>2, ArrivalKeeps
  <2> QED
    BY <2>2, <2>3 DEF StepKinds
<1>2. CASE Saving
  <2>1. PICK fault \in MayMeet({}) : SaveTimer(fault) \/ \E n \in Limits : SetLimit(n, fault)
    BY <1>2 DEF Saving
  <2>2. CASE SaveTimer(fault)
    BY <2>2, SaveTimerKeeps DEF StepKinds
  <2>3. CASE \E n \in Limits : SetLimit(n, fault)
    BY <2>3, SetLimitKeeps DEF StepKinds
  <2> QED
    BY <2>1, <2>2, <2>3
<1>3. CASE Stopping
  <2>1. CASE \E t \in Torrent : Start(t)
    BY <2>1, StartKeeps DEF StepKinds
  <2>2. CASE \E fault \in MayMeet({}) :
                \/ \E t \in Torrent : StopTorrent(t, fault) \/ RemoveTorrent(t, fault)
                \/ SessionClose(fault)
    <3>1. PICK fault \in MayMeet({}) :
             \/ \E t \in Torrent : StopTorrent(t, fault) \/ RemoveTorrent(t, fault)
             \/ SessionClose(fault)
      BY <2>2
    <3>2. CASE \E t \in Torrent : StopTorrent(t, fault)
      BY <3>2, StopTorrentKeeps DEF StepKinds
    <3>3. CASE \E t \in Torrent : RemoveTorrent(t, fault)
      BY <3>3, RemoveTorrentKeeps DEF StepKinds
    <3>4. CASE SessionClose(fault)
      BY <3>4, SessionCloseKeeps DEF StepKinds
    <3> QED
      BY <3>1, <3>2, <3>3, <3>4
  <2> QED
    BY <1>3, <2>1, <2>2 DEF Stopping
<1>4. CASE Restart
  BY <1>4, RestartKeeps DEF StepKinds
<1> QED
  BY <1>1, <1>2, <1>3, <1>4 DEF Next

LEMMA StutterKeeps ==
    ASSUME WriteInv, UNCHANGED vars
    PROVE  WriteInv'
BY DEF WriteInv, vars, TypeOK, Ordered, ClosedLeavesNothing, Open, Intact, ResumeHeld,
       ResumeOnDisk, Complete

LEMMA InitHolds ==
    ASSUME Init
    PROVE  WriteInv
<1>1. /\ cache = <<>> /\ limit \in Limits
      /\ disk = [b \in Block |-> Blank]
      /\ have = {} /\ resume = {}
      /\ run = [t \in Torrent |-> "running"] /\ error = {}
      /\ faults = 0 /\ late = 0 /\ lost = {} /\ rewritten = {} /\ unsafe = {}
  BY DEF Init
<1>2. TypeOK
  <2>1. disk \in [Block -> Data]
    BY <1>1 DEF Data
  <2>2. faults \in 0 .. MaxFaults + 1 /\ late \in 0 .. MaxLate
    BY <1>1, WritePathAssumption
  <2> QED
    BY <1>1, <2>1, <2>2 DEF TypeOK
<1>3. Ordered(cache) /\ ClosedLeavesNothing /\ Intact /\ ResumeHeld /\ ResumeOnDisk
  BY <1>1 DEF Ordered, ClosedLeavesNothing, Intact, ResumeHeld, ResumeOnDisk
<1> QED
  BY <1>2, <1>3 DEF WriteInv

LEMMA InvariantHolds == Spec => []WriteInv
<1>1. Init => WriteInv
  BY InitHolds
<1>2. WriteInv /\ [Next]_vars => WriteInv'
  BY StepKeeps, StutterKeeps
<1> QED
  BY <1>1, <1>2, PTL DEF Spec

-----------------------------------------------------------------------------
(* The theorems.                                                           *)

(* Every variable of the write path keeps its type: what the cache holds   *)
(* are blocks of torrents (cache.c), the disk holds one value per block,   *)
(* and every fault is counted.                                             *)
THEOREM WriteTypeOK == Spec => []TypeOK
<1>1. WriteInv => TypeOK
  BY DEF WriteInv
<1> QED
  BY <1>1, InvariantHolds, PTL

(* The array of tr_cache stays sorted and without duplicates, through      *)
(* insertions, replacements and flushes in any order: findBlock's binary   *)
(* search finds what is there, and getBlockRun's neighbours are the next   *)
(* blocks (cache.c).                                                       *)
THEOREM CacheStaysSorted == Spec => []CacheSorted
<1>1. WriteInv => CacheSorted
  <2> SUFFICES ASSUME WriteInv PROVE CacheSorted
    OBVIOUS
  <2>1. cache \in Seq(Entry) /\ Ordered(cache)
    BY DEF WriteInv, TypeOK, Entry
  <2>2. Sorted(cache)
    BY <2>1, OrderedIsSorted
  <2> QED
    BY <2>2 DEF Sorted, CacheSorted
<1> QED
  BY <1>1, InvariantHolds, PTL

(* A block of a piece that passed its check reads right through the cache, *)
(* whatever is written, flushed, saved, stopped or restarted, unless a     *)
(* fault lost it or a web seed wrote it again (torrent.c, webseed.c).      *)
THEOREM VerifiedStaysIntact == Spec => []VerifiedIntact
<1>1. WriteInv => VerifiedIntact
  BY DEF WriteInv, Intact, VerifiedIntact
<1> QED
  BY <1>1, InvariantHolds, PTL

(* What a resume file calls complete is on the disk, at every moment at    *)
(* which the process may end, unless it was written after a flush that     *)
(* failed (resume.c, tr_torrentSave).                                      *)
THEOREM ResumeFileIsTrue == Spec => []ResumeOnDisk
<1>1. WriteInv => ResumeOnDisk
  BY DEF WriteInv
<1> QED
  BY <1>1, InvariantHolds, PTL

(* When a torrent is freed none of its blocks is in the cache, unless its  *)
(* last flush failed (closeTorrent, tr_cacheFlushTorrent).                 *)
THEOREM NothingOfTheClosed == Spec => []ClosedLeavesNothing
<1>1. WriteInv => ClosedLeavesNothing
  BY DEF WriteInv
<1> QED
  BY <1>1, InvariantHolds, PTL

LEMMA StepNeverOvergrows ==
    ASSUME WriteInv, StepKinds, Len(cache') > limit'
    PROVE  Len(cache') <= Len(cache)
<1>1. TypeOK /\ Inventory
  BY InvIsInventory DEF WriteInv
<1>2. cache \in Seq(Entry) /\ limit \in Nat
  BY <1>1, WritePathAssumption DEF TypeOK, Entry
<1>3. CASE \E b \in Block, d \in Data, fault \in AnyFault :
              fault \in MayMeet({b}) /\ Arrival(b, d, fault)
  <2>1. PICK b \in Block, d \in Data, fault \in AnyFault : Arrival(b, d, fault)
    BY <1>3
  <2>2. PICK s : Received(b, d, s, fault) /\ Leave(s, run)
    BY <2>1 DEF Arrival, GotIt
  <2>3. limit' = limit /\ cache' = s.cache
    BY <2>1, <2>2 DEF Arrival, Leave
  <2> QED
    BY <1>1, <1>2, <2>2, <2>3, ReceivedContent
<1>4. CASE FlushStepTaken
  <2>1. PICK s, fault : Flushes(s, fault)
    BY <1>4 DEF FlushStepTaken
  <2> QED
    BY <1>1, <2>1, RinsedContent DEF Flushes
<1>5. CASE \E t \in Torrent : Start(t)
  <2>1. cache' = cache
    BY <1>5 DEF Start
  <2>2. Len(cache) \in Nat
    BY <1>2
  <2> QED
    BY <2>1, <2>2
<1>6. CASE Restart
  <2>1. cache' = <<>>
    BY <1>6 DEF Restart
  <2>2. Len(cache') = 0 /\ Len(cache) \in Nat
    BY <1>2, <2>1
  <2> QED
    BY <2>2
<1> QED
  BY <1>3, <1>4, <1>5, <1>6 DEF StepKinds

(* tr_cacheWriteBlock trims before it returns: no step leaves the cache    *)
(* both over max_blocks and longer than it was, also when the limit was    *)
(* lowered and when the trim met a fault (cache.c, cacheTrim).             *)
THEOREM CacheKeepsItsLimit == Spec => CacheNeverOvergrows
<1>1. /\ WriteInv /\ [Next]_vars
      => [Len(cache') > limit' => Len(cache') <= Len(cache)]_vars
  BY StepKeeps, StepNeverOvergrows
<1> QED
  BY <1>1, InvariantHolds, PTL DEF Spec, CacheNeverOvergrows
-----------------------------------------------------------------------------
(* The cache and the disk are a write-back store (BlockStore): what each   *)
(* kind of step is there.                                                  *)

(* A step of the store that writes w, in terms of the cache and the disk.  *)
StoreStep(w) ==
    /\ faults' \in {faults, faults + 1}
    /\ \A x \in Block :
         LET written == IF x = w.block THEN w.data ELSE Content(cache, disk, x)
         IN  /\ disk'[x] \in {disk[x], written}
             /\ \/ Content(cache', disk', x) = written
                \/ faults' # faults /\ Content(cache', disk', x) = disk'[x]

LEMMA WriteIsStoreStep ==
    ASSUME WriteInv, NEW b \in Block, NEW d \in Data, NEW fault \in AnyFault,
           fault \in MayMeet({b}), Arrival(b, d, fault)
    PROVE  StoreStep([block |-> b, data |-> d])
<1>1. TypeOK /\ Inventory
  BY InvIsInventory DEF WriteInv
<1>2. PICK s : Received(b, d, s, fault) /\ Leave(s, run)
  BY DEF Arrival, GotIt
<1>3. s \in Stores /\ (fault = NoFault => s.lost = {})
  BY <1>1, <1>2, ReceivedContent DEF Received
<1> DEFINE blocks == {b}
<1>4. fault \in MayMeet(blocks)
  OBVIOUS
<1> HIDE DEF blocks
<1>5. /\ cache' = s.cache /\ disk' = s.disk
      /\ faults' \in {faults, faults + 1} /\ (s.lost # {} => faults' # faults)
  BY <1>1, <1>2, <1>3, <1>4, LeaveKeeps, RunsAre
<1> DEFINE w == [block |-> b, data |-> d]
<1>6. w.block = b /\ w.data = d
  OBVIOUS
<1> HIDE DEF w
<1>7. ASSUME NEW x \in Block
      PROVE  LET written == IF x = w.block THEN w.data ELSE Content(cache, disk, x)
             IN  /\ disk'[x] \in {disk[x], written}
                 /\ \/ Content(cache', disk', x) = written
                    \/ faults' # faults /\ Content(cache', disk', x) = disk'[x]
  <2>1. Written(b, d, x) = IF x = w.block THEN w.data ELSE Content(cache, disk, x)
    BY <1>6 DEF Written
  <2>2. /\ \/ Content(s.cache, s.disk, x) = Written(b, d, x)
           \/ x \in s.lost /\ Content(s.cache, s.disk, x) = s.disk[x]
        /\ s.disk[x] \in {disk[x], Written(b, d, x)}
    BY <1>1, <1>2, ReceivedContent
  <2> QED
    BY <1>5, <2>1, <2>2
<1>8. StoreStep(w)
  BY <1>5, <1>7 DEF StoreStep
<1> QED
  BY <1>8 DEF w

LEMMA OtherIsStoreStep ==
    ASSUME WriteInv, NEW w, w.block \notin Block,
           FlushStepTaken \/ (\E t \in Torrent : Start(t)) \/ Restart
    PROVE  StoreStep(w)
<1>1. Inventory /\ TypeOK
  BY InvIsInventory DEF WriteInv
<1>2. CASE FlushStepTaken
  <2>1. PICK s, fault : Flushes(s, fault)
    BY <1>2 DEF FlushStepTaken
  <2>2. \A x \in Block :
           /\ \/ Content(s.cache, s.disk, x) = Content(cache, disk, x)
              \/ x \in s.lost /\ Content(s.cache, s.disk, x) = s.disk[x]
           /\ s.disk[x] \in {disk[x], Content(cache, disk, x)}
    BY <1>1, <2>1, RinsedContent DEF Flushes
  <2> QED
    BY <2>1, <2>2 DEF Flushes, StoreStep
<1>3. CASE \E t \in Torrent : Start(t)
  <2>1. cache' = cache /\ disk' = disk /\ faults' = faults
    BY <1>3 DEF Start
  <2> QED
    BY <2>1 DEF StoreStep
<1>4. CASE Restart
  <2>1. /\ cache' = <<>> /\ disk' = disk
        /\ faults' \in {faults, faults + 1}
        /\ cache # <<>> => faults' = faults + 1
    BY <1>4 DEF Restart
  <2>2. faults + 1 # faults
    BY <1>1 DEF TypeOK
  <2>3. \A x : Content(<<>>, disk, x) = disk[x]
    BY DEF Content
  <2> QED
    BY <2>1, <2>2, <2>3 DEF StoreStep
<1> QED
  BY <1>2, <1>3, <1>4

LEMMA NextIsStore ==
    ASSUME WriteInv, Next
    PROVE  Blocks!Next
<1>1. StepKinds
  BY StepKeeps
<1>2. ASSUME NEW w \in Blocks!Writes \cup {Blocks!NoWrite}, StoreStep(w)
      PROVE  Blocks!Next
  BY <1>2 DEF StoreStep, Blocks!Next, Blocks!Step
<1>3. CASE \E b \in Block, d \in Data, fault \in AnyFault :
              fault \in MayMeet({b}) /\ Arrival(b, d, fault)
  <2>1. PICK b \in Block, d \in Data, fault \in AnyFault :
           fault \in MayMeet({b}) /\ Arrival(b, d, fault)
    BY <1>3
  <2> DEFINE w == [block |-> b, data |-> d]
  <2>2. StoreStep(w)
    BY <2>1, WriteIsStoreStep
  <2>3. w \in Blocks!Writes
    BY DEF Blocks!Writes
  <2> HIDE DEF w
  <2> QED
    BY <1>2, <2>2, <2>3
<1>4. CASE FlushStepTaken \/ (\E t \in Torrent : Start(t)) \/ Restart
  <2> DEFINE w == Blocks!NoWrite
  <2>1. w.block \notin Block
    BY CacheAssumption DEF Blocks!NoWrite
  <2>2. w \in Blocks!Writes \cup {Blocks!NoWrite}
    OBVIOUS
  <2> HIDE DEF w
  <2>3. StoreStep(w)
    BY <1>4, <2>1, OtherIsStoreStep
  <2> QED
    BY <1>2, <2>2, <2>3
<1> QED
  BY <1>1, <1>3, <1>4 DEF StepKinds

(* tr_cacheReadBlock returns the last data written to a block, from the    *)
(* cache or from the disk; data reaches the disk under its own number, at  *)
(* times of the cache's choosing; and only a fault takes a block back.     *)
THEOREM WritePathImplementsStore == Spec => ImplementsBlockStore
<1>1. Init => Blocks!Init
  <2> SUFFICES ASSUME Init PROVE Blocks!Init
    OBVIOUS
  <2>1. cache = <<>> /\ disk = [b \in Block |-> Blank] /\ faults = 0
    BY DEF Init
  <2>2. \A b : Content(<<>>, disk, b) = disk[b]
    BY DEF Content
  <2> QED
    BY <2>1, <2>2 DEF Blocks!Init
<1>2. WriteInv /\ [Next]_vars
      => [Blocks!Next]_<<[b \in Block |-> Content(cache, disk, b)], disk, faults>>
  <2>1. CASE UNCHANGED vars
    BY <2>1 DEF vars
  <2> QED
    BY <2>1, NextIsStore
<1> QED
  BY <1>1, <1>2, InvariantHolds, PTL DEF Spec, ImplementsBlockStore, Blocks!Spec
=============================================================================
