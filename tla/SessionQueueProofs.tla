------------------------- MODULE SessionQueueProofs -------------------------
(***************************************************************************)
(* Proofs about SessionQueue: when one thread does all the queue work, the *)
(* positions are sequenced after every operation, the operations implement *)
(* those of QueueOrder, and batches end where they were asked to, for any  *)
(* set of torrents that an int can count.                                  *)
(***************************************************************************)
EXTENDS SessionQueue, FoldLemmas

(* Every operation is called from the same thread.                         *)
OneThread == \A th, o \in Thread : th = o

(* What the loop of tr_torrentSetQueuePosition has established after each  *)
(* visit: no visited torrent sits at the place asked for, "back" is the    *)
(* last place taken by a visited torrent, and with every shift undone the  *)
(* positions are still a permutation.                                      *)
WalkSound(w) ==
    /\ w.tor \in inSession
    /\ w.todo \subseteq inSession
    /\ pos[w.tor] = -1
    /\ w.back \in Int /\ w.back >= -1
    /\ \A u \in inSession \ (w.todo \cup {w.tor}) : pos[u] <= w.back /\ pos[u] # w.new
    /\ w.back = -1 \/ \E u \in inSession \ (w.todo \cup {w.tor}) : pos[u] = w.back

(* A batch waits only for torrents of the session.                         *)
BatchSound(b) ==
    /\ b.who \subseteq inSession
    /\ \A i \in 1 .. Len(b.rest) : b.rest[i] \in inSession

IInv ==
    /\ TypeOK
    /\ \A th \in Thread :
          /\ IsSequenced(Settled(th))
          /\ Walking(th) => WalkSound(walk[th])
          /\ InBatch(th) => BatchSound(batch[th])
-----------------------------------------------------------------------------
(* A visit can be undone, and never lands on the place asked for.          *)
LEMMA ShiftUndone ==
    ASSUME NEW old \in Int, NEW new \in Int, NEW q \in Int, q # old
    PROVE  /\ Shift(old, new, q) \in Int
           /\ Shift(old, new, q) # new
           /\ Unshift(old, new, Shift(old, new, q)) = q
BY DEF Shift, Unshift

(* The parked torrent, at -1, is in the range of no shift.                 *)
LEMMA ParkedStays ==
    ASSUME NEW old \in Nat, NEW new \in Nat
    PROVE  Shift(old, new, -1) = -1
BY DEF Shift

LEMMA InitIInv == Init => IInv
<1> SUFFICES ASSUME Init PROVE IInv
  OBVIOUS
<1>1. TypeOK
  BY DEF Init, TypeOK
<1>2. ASSUME NEW th \in Thread PROVE ~Walking(th) /\ ~InBatch(th)
  BY DEF Init, Walking, InBatch
<1>3. ASSUME NEW th \in Thread PROVE IsSequenced(Settled(th))
  BY <1>2 DEF Init, IsSequenced
<1> QED
  BY <1>1, <1>2, <1>3 DEF IInv

(* Adding at the back keeps the positions sequenced.                       *)
LEMMA TorrentInitIInv ==
    ASSUME OneThread, IInv, NEW th \in Thread, NEW t \in Torrent, TorrentInit(th, t)
    PROVE  IInv'
<1>1. TypeOK'
  BY DEF IInv, TypeOK, TorrentInit
<1>2. ASSUME NEW o \in Thread
      PROVE  ~Walking(o) /\ ~InBatch(o) /\ ~Walking(o)' /\ ~InBatch(o)'
  BY DEF OneThread, TorrentInit, Free, Walking, InBatch
<1>3. IsSequenced(pos)
  <2>1. Settled(th) = pos
    BY <1>2 DEF Settled, IInv, TypeOK
  <2> QED
    BY <2>1 DEF IInv
<1>4. IsSequenced(pos)'
  <2>1. ASSUME NEW u \in inSession'
        PROVE  pos'[u] \in 0 .. torrentCount' - 1
    BY <1>3 DEF IInv, TypeOK, TorrentInit, IsSequenced
  <2>2. ASSUME NEW u \in inSession', NEW v \in inSession', pos'[u] = pos'[v]
        PROVE  u = v
    BY <1>3, <2>2 DEF IInv, TypeOK, TorrentInit, IsSequenced
  <2>3. ASSUME NEW i \in 0 .. torrentCount' - 1
        PROVE  \E u \in inSession' : pos'[u] = i
    <3>1. CASE i = torrentCount
      BY <3>1 DEF IInv, TypeOK, TorrentInit
    <3>2. CASE i # torrentCount
      <4>1. PICK u \in inSession : pos[u] = i
        BY <1>3, <3>2 DEF IInv, TypeOK, TorrentInit, IsSequenced
      <4> QED
        BY <4>1 DEF IInv, TypeOK, TorrentInit
    <3> QED
      BY <3>1, <3>2
  <2> QED
    BY <2>1, <2>2, <2>3 DEF IsSequenced
<1>5. ASSUME NEW o \in Thread PROVE IsSequenced(Settled(o))'
  <2>1. Settled(o)' = pos'
    BY <1>1, <1>2 DEF Settled, TypeOK
  <2> QED
    BY <1>4, <2>1 DEF IsSequenced
<1> QED
  BY <1>1, <1>2, <1>5 DEF IInv

(* Closing the gap of a freed torrent keeps the positions sequenced.       *)
LEMMA FreeTorrentIInv ==
    ASSUME OneThread, IInv, NEW th \in Thread, NEW t \in Torrent, FreeTorrent(th, t)
    PROVE  IInv'
<1>2. ASSUME NEW o \in Thread
      PROVE  ~Walking(o) /\ ~InBatch(o) /\ ~Walking(o)' /\ ~InBatch(o)'
  BY DEF OneThread, FreeTorrent, Free, Walking, InBatch
<1>3. IsSequenced(pos)
  <2>1. Settled(th) = pos
    BY <1>2 DEF Settled, IInv, TypeOK
  <2> QED
    BY <2>1 DEF IInv
<1>1. TypeOK'
  <2>1. torrentCount' \in Nat /\ pos' \in [Torrent -> Int] /\ inSession' \subseteq Torrent
    BY <1>3 DEF IInv, TypeOK, FreeTorrent, IsSequenced
  <2>2. walk' = walk /\ batch' = batch
    BY <1>2 DEF IInv, TypeOK, FreeTorrent
  <2> QED
    BY <2>1, <2>2 DEF IInv, TypeOK
<1>4. IsSequenced(pos)'
  <2>1. /\ t \in inSession /\ inSession' = inSession \ {t}
        /\ torrentCount \in Nat /\ torrentCount' = torrentCount - 1
        /\ \A u \in inSession : pos[u] \in 0 .. torrentCount - 1
        /\ \A u, v \in inSession : pos[u] = pos[v] => u = v
        /\ \A u \in inSession' :
              pos'[u] = IF pos[u] > pos[t] THEN pos[u] - 1 ELSE pos[u]
    BY <1>3 DEF IInv, TypeOK, FreeTorrent, IsSequenced
  <2>2. ASSUME NEW u \in inSession'
        PROVE  pos'[u] \in 0 .. torrentCount' - 1
    BY <2>1
  <2>3. ASSUME NEW u \in inSession', NEW v \in inSession', pos'[u] = pos'[v]
        PROVE  u = v
    <3>1. pos[u] # pos[t] /\ pos[v] # pos[t]
      BY <2>1
    <3> QED
      BY <2>1, <2>3, <3>1
  <2>4. ASSUME NEW i \in 0 .. torrentCount' - 1
        PROVE  \E u \in inSession' : pos'[u] = i
    <3>1. CASE i < pos[t]
      <4>1. PICK u \in inSession : pos[u] = i
        BY <1>3, <2>1 DEF IsSequenced
      <4> QED
        BY <2>1, <3>1, <4>1
    <3>2. CASE i >= pos[t]
      <4>1. PICK u \in inSession : pos[u] = i + 1
        BY <1>3, <2>1 DEF IsSequenced
      <4> QED
        BY <2>1, <3>2, <4>1
    <3> QED
      BY <2>1, <3>1, <3>2
  <2> QED
    BY <2>2, <2>3, <2>4 DEF IsSequenced
<1>5. ASSUME NEW o \in Thread PROVE IsSequenced(Settled(o))'
  <2>1. Settled(o)' = pos'
    BY <1>1, <1>2 DEF Settled, TypeOK
  <2> QED
    BY <1>4, <2>1 DEF IsSequenced
<1> QED
  BY <1>1, <1>2, <1>5 DEF IInv

(* Parking a torrent of the session hides nothing: the walk starts from    *)
(* the positions it found.                                                 *)
LEMMA BeginWalkSound ==
    ASSUME TypeOK, NEW th \in Thread, NEW t \in inSession, NEW p \in Int,
           ~Walking(th), IsSequenced(pos), BeginWalk(th, t, p),
           UNCHANGED <<inSession, torrentCount>>
    PROVE  /\ walk' \in [Thread -> Walk \cup {None}]
           /\ pos' \in [Torrent -> Int]
           /\ Walking(th)'
           /\ WalkSound(walk[th])'
           /\ IsSequenced(Settled(th))'
           /\ \A u \in inSession : Settled(th)'[u] = Settled(th)[u]
<1> DEFINE w == [tor |-> t, old |-> pos[t], new |-> GreaterOf(p, 0),
                 todo |-> inSession, back |-> -1]
<1>1. w \in Walk
  BY DEF TypeOK, Walk, GreaterOf
<1>2. walk' = [walk EXCEPT ![th] = w] /\ pos' = [pos EXCEPT ![t] = -1]
  BY DEF BeginWalk
<1>3. /\ walk' \in [Thread -> Walk \cup {None}] /\ walk'[th] = w
      /\ pos' \in [Torrent -> Int] /\ pos'[t] = -1
  BY <1>1, <1>2 DEF TypeOK
<1>4. Walking(th)'
  BY <1>1, <1>3, QueueAssumption DEF Walking
<1>5. WalkSound(walk[th])'
  <2>1. /\ walk'[th].tor = t /\ walk'[th].todo = inSession /\ walk'[th].back = -1
    BY <1>3
  <2> QED
    BY <1>3, <2>1 DEF WalkSound
<1>6. ASSUME NEW u \in inSession PROVE Settled(th)'[u] = pos[u]
  <2>1. u \in Torrent
    BY DEF TypeOK
  <2>2. Settled(th)'[u] = IF u = t THEN pos[t] ELSE pos'[u]
    BY <1>3, <1>4, <2>1 DEF Settled
  <2> QED
    BY <1>2, <2>1, <2>2 DEF TypeOK
<1>7. IsSequenced(Settled(th))'
  BY <1>6 DEF IsSequenced
<1>8. \A u \in inSession : Settled(th)[u] = pos[u]
  BY DEF Settled, TypeOK
<1> QED
  BY <1>3, <1>4, <1>5, <1>6, <1>7, <1>8

LEMMA SetQueuePositionIInv ==
    ASSUME OneThread, IInv, NEW th \in Thread, NEW t \in Torrent, NEW p \in Int,
           SetQueuePosition(th, t, p)
    PROVE  /\ IInv'
           /\ \A v \in inSession : Settled(th)'[v] = Settled(th)[v]
<1>1. ~Walking(th) /\ t \in inSession /\ TypeOK
  BY DEF SetQueuePosition, Free, IInv
<1>2. IsSequenced(pos)
  <2>1. Settled(th) = pos
    BY <1>1 DEF Settled, TypeOK
  <2> QED
    BY <2>1 DEF IInv
<1>3. /\ walk' \in [Thread -> Walk \cup {None}] /\ pos' \in [Torrent -> Int]
      /\ Walking(th)' /\ WalkSound(walk[th])' /\ IsSequenced(Settled(th))'
      /\ \A u \in inSession : Settled(th)'[u] = Settled(th)[u]
  BY <1>1, <1>2, BeginWalkSound DEF SetQueuePosition
<1>4. TypeOK'
  BY <1>1, <1>3 DEF TypeOK, SetQueuePosition
<1>5. ASSUME NEW o \in Thread PROVE o = th /\ ~InBatch(o)'
  BY DEF OneThread, SetQueuePosition, Free, InBatch
<1> QED
  BY <1>3, <1>4, <1>5 DEF IInv

LEMMA NextMoveIInv ==
    ASSUME OneThread, IInv, NEW th \in Thread, NextMove(th)
    PROVE  /\ IInv'
           /\ \A v \in inSession : Settled(th)'[v] = Settled(th)[v]
<1> DEFINE b == batch[th]
           t == Head(b.rest)
<1>1. ~Walking(th) /\ TypeOK /\ InBatch(th) /\ b \in Batch /\ b.rest # <<>>
  BY DEF NextMove, IInv, TypeOK, InBatch
<1>2. b.rest \in Seq(Torrent) /\ BatchSound(b)
  BY <1>1 DEF Batch, IInv
<1>3. t \in inSession /\ t \in Torrent
  BY <1>1, <1>2 DEF BatchSound, TypeOK
<1>4. Target(b.op, t) \in Int
  <2>1. pos[t] \in Int /\ b.op \in MoveOp
    BY <1>1, <1>3 DEF TypeOK, Batch
  <2> QED
    BY <2>1, QueueAssumption DEF Target, MoveOp
<1>5. IsSequenced(pos)
  <2>1. Settled(th) = pos
    BY <1>1 DEF Settled, TypeOK
  <2> QED
    BY <2>1 DEF IInv
<1>6. /\ walk' \in [Thread -> Walk \cup {None}] /\ pos' \in [Torrent -> Int]
      /\ Walking(th)' /\ WalkSound(walk[th])' /\ IsSequenced(Settled(th))'
      /\ \A u \in inSession : Settled(th)'[u] = Settled(th)[u]
  BY <1>1, <1>3, <1>4, <1>5, BeginWalkSound DEF NextMove
<1> DEFINE c == [b EXCEPT !.rest = Tail(b.rest)]
<1>7. c \in Batch /\ c.who = b.who /\ c.rest = Tail(b.rest) /\ batch' = [batch EXCEPT ![th] = c]
  <2>1. Tail(b.rest) \in Seq(Torrent)
    BY <1>1, <1>2
  <2>2. batch' = [batch EXCEPT ![th] = c]
    BY DEF NextMove
  <2>3. \A r \in Seq(Torrent) :
           LET e == [b EXCEPT !.rest = r]
           IN  e \in Batch /\ e.who = b.who /\ e.rest = r
    BY <1>1 DEF Batch
  <2> QED
    BY <2>1, <2>2, <2>3
<1>8. TypeOK' /\ batch'[th] = c
  BY <1>1, <1>6, <1>7 DEF TypeOK, NextMove
<1>9. BatchSound(batch[th])'
  <2>1. ASSUME NEW i \in 1 .. Len(c.rest) PROVE c.rest[i] \in inSession
    <3>1. c.rest[i] = b.rest[i + 1] /\ i + 1 \in 1 .. Len(b.rest)
      BY <1>1, <1>2, <1>7
    <3> QED
      BY <1>2, <3>1 DEF BatchSound
  <2> QED
    BY <1>2, <1>7, <1>8, <2>1 DEF BatchSound, NextMove
<1>10. ASSUME NEW o \in Thread PROVE o = th
  BY DEF OneThread
<1> QED
  BY <1>6, <1>8, <1>9, <1>10 DEF IInv

LEMMA QueueMoveIInv ==
    ASSUME OneThread, IInv, NEW th \in Thread, NEW op \in MoveOp, NEW S \in SUBSET Torrent,
           QueueMove(th, op, S)
    PROVE  /\ IInv'
           /\ \A v \in inSession : Settled(th)'[v] = Settled(th)[v]
<1>1. TypeOK /\ S \subseteq inSession /\ ~Walking(th)
  BY DEF IInv, QueueMove, Free
<1>2. Cardinality(S) \in Nat
  BY FS_Subset, FS_CardinalityType, QueueAssumption
<1>3. PICK s \in LoopOrder(op, S) :
          batch' = [batch EXCEPT ![th] = [op |-> op, rest |-> s, who |-> S, start |-> pos]]
  BY DEF QueueMove
<1>4. s \in [1 .. Cardinality(S) -> S]
  BY DEF LoopOrder
<1>5. s \in Seq(Torrent) /\ Len(s) = Cardinality(S)
  BY <1>2, <1>4
<1> DEFINE b == [op |-> op, rest |-> s, who |-> S, start |-> pos]
<1>6. b \in Batch
  BY <1>1, <1>5 DEF Batch, TypeOK
<1>7. TypeOK' /\ batch'[th] = b
  BY <1>1, <1>3, <1>6 DEF TypeOK, QueueMove
<1>8. BatchSound(batch[th])'
  <2>1. batch'[th].rest = s /\ batch'[th].who = S /\ inSession' = inSession
    BY <1>7 DEF QueueMove
  <2>2. \A i \in 1 .. Len(s) : s[i] \in inSession
    BY <1>1, <1>4, <1>5
  <2> QED
    BY <1>1, <2>1, <2>2 DEF BatchSound
<1>9. ASSUME NEW o \in Thread PROVE o = th
  BY DEF OneThread
<1>10. ~Walking(th)' /\ Settled(th)' = Settled(th)
  BY <1>1 DEF QueueMove, Walking, Settled
<1>11. IsSequenced(Settled(th))'
  BY <1>10 DEF IInv, IsSequenced, QueueMove
<1> QED
  BY <1>7, <1>8, <1>9, <1>10, <1>11 DEF IInv

(* A visit moves one torrent out of the way; undoing the shift gives the   *)
(* same permutation as before it.                                          *)
LEMMA VisitTorrentIInv ==
    ASSUME OneThread, IInv, NEW th \in Thread, NEW u \in Torrent, VisitTorrent(th, u)
    PROVE  /\ IInv'
           /\ \A v \in inSession : Settled(th)'[v] = Settled(th)[v]
<1> DEFINE w == walk[th]
           q == Shift(w.old, w.new, pos[u])
<1>1. /\ TypeOK /\ Walking(th) /\ w \in Walk /\ u \in w.todo /\ u \in inSession
      /\ WalkSound(w) /\ IsSequenced(Settled(th))
  <2>1. TypeOK /\ Walking(th) /\ u \in w.todo /\ w \in Walk
    BY DEF VisitTorrent, IInv, TypeOK, Walking
  <2>2. WalkSound(w) /\ IsSequenced(Settled(th))
    BY <2>1 DEF IInv
  <2> QED
    BY <2>1, <2>2 DEF WalkSound
<1>2. /\ w.tor \in Torrent /\ w.old \in Int /\ w.new \in Nat /\ w.back \in Int
      /\ w.todo \subseteq Torrent
  BY <1>1 DEF Walk
<1>3. \A v \in inSession :
         Settled(th)[v] = IF v = w.tor THEN w.old
                          ELSE IF v \in w.todo THEN pos[v]
                          ELSE Unshift(w.old, w.new, pos[v])
  BY <1>1 DEF Settled, TypeOK
<1>4. w.old \in Nat
  <2>1. w.tor \in inSession /\ torrentCount \in Nat
    BY <1>1 DEF WalkSound, TypeOK
  <2> QED
    BY <1>1, <1>3, <2>1 DEF IsSequenced
<1>5. /\ q \in Int
      /\ u = w.tor => q = pos[u]
      /\ u # w.tor => q # w.new /\ Unshift(w.old, w.new, q) = pos[u]
  <2>1. CASE u = w.tor
    <3>1. pos[u] = -1
      BY <1>1, <2>1 DEF WalkSound
    <3>2. Shift(w.old, w.new, -1) = -1
      BY <1>2, <1>4, ParkedStays
    <3> QED
      BY <2>1, <3>1, <3>2
  <2>2. CASE u # w.tor
    <3>1. w.tor \in inSession
      BY <1>1 DEF WalkSound
    <3>2. Settled(th)[u] = pos[u] /\ Settled(th)[w.tor] = w.old
      BY <1>1, <1>3, <2>2, <3>1
    <3>3. pos[u] # w.old
      BY <1>1, <2>2, <3>1, <3>2 DEF IsSequenced
    <3>4. pos[u] \in Int
      BY <1>1 DEF TypeOK
    <3>5. w.old \in Int /\ w.new \in Int
      BY <1>2
    <3>6. \A a, b, c \in Int : c # a =>
             /\ Shift(a, b, c) \in Int /\ Shift(a, b, c) # b
             /\ Unshift(a, b, Shift(a, b, c)) = c
      BY ShiftUndone
    <3> QED
      BY <2>2, <3>3, <3>4, <3>5, <3>6
  <2> QED
    BY <2>1, <2>2
<1> DEFINE z == [w EXCEPT !.todo = w.todo \ {u}, !.back = GreaterOf(w.back, q)]
<1>6. GreaterOf(w.back, q) \in Int /\ GreaterOf(w.back, q) >= w.back /\ GreaterOf(w.back, q) >= q
  BY <1>2, <1>5 DEF GreaterOf
<1>7. /\ z \in Walk /\ z.tor = w.tor /\ z.old = w.old /\ z.new = w.new
      /\ z.todo = w.todo \ {u} /\ z.back = GreaterOf(w.back, q)
  <2> DEFINE S == w.todo \ {u}
             k == GreaterOf(w.back, q)
  <2>1. S \in SUBSET Torrent /\ k \in Int
    BY <1>2, <1>6
  <2> HIDE DEF S, k
  <2>2. z = [w EXCEPT !.todo = S, !.back = k]
    BY DEF S, k
  <2> HIDE DEF z
  <2>3. /\ z \in Walk /\ z.tor = w.tor /\ z.old = w.old /\ z.new = w.new
        /\ z.todo = S /\ z.back = k
    BY <1>1, <2>1, <2>2 DEF Walk
  <2> QED
    BY <2>3 DEF S, k
<1>8. walk' = [walk EXCEPT ![th] = z] /\ pos' = [pos EXCEPT ![u] = q]
  BY DEF VisitTorrent
<1>9. /\ walk'[th] = z /\ walk' \in [Thread -> Walk \cup {None}]
      /\ pos'[u] = q /\ pos' \in [Torrent -> Int]
      /\ \A v \in Torrent \ {u} : pos'[v] = pos[v]
  BY <1>1, <1>5, <1>7, <1>8 DEF TypeOK
<1>10. TypeOK' /\ Walking(th)' /\ UNCHANGED <<inSession, torrentCount, batch>>
  BY <1>1, <1>7, <1>9, QueueAssumption DEF TypeOK, VisitTorrent, Walking
<1>11. \A v \in inSession : Settled(th)'[v] = Settled(th)[v]
  <2> SUFFICES ASSUME NEW v \in inSession PROVE Settled(th)'[v] = Settled(th)[v]
    OBVIOUS
  <2>1. v \in Torrent
    BY <1>1 DEF TypeOK
  <2>2. Settled(th)'[v] = IF v = w.tor THEN w.old
                          ELSE IF v \in w.todo \ {u} THEN pos'[v]
                          ELSE Unshift(w.old, w.new, pos'[v])
    BY <1>7, <1>9, <1>10, <2>1 DEF Settled
  <2>3. CASE v = u
    BY <1>1, <1>3, <1>5, <1>9, <2>2, <2>3
  <2>4. CASE v # u
    BY <1>3, <1>9, <2>1, <2>2, <2>4
  <2> QED
    BY <2>3, <2>4
<1>12. IsSequenced(Settled(th))'
  BY <1>1, <1>10, <1>11 DEF IsSequenced
<1>13. WalkSound(walk[th])'
  <2> DEFINE seen == inSession \ (w.todo \cup {w.tor})
             seen2 == inSession \ (z.todo \cup {w.tor})
  <2>1. /\ w.tor \in inSession /\ w.todo \subseteq inSession /\ pos[w.tor] = -1 /\ w.back >= -1
        /\ \A v \in seen : pos[v] <= w.back /\ pos[v] # w.new
        /\ w.back = -1 \/ \E v \in seen : pos[v] = w.back
    BY <1>1 DEF WalkSound
  <2>2. \A v \in seen : v # u /\ v \in Torrent /\ pos'[v] = pos[v] /\ v \in seen2 /\ pos[v] \in Int
    BY <1>1, <1>7, <1>9 DEF TypeOK
  <2>3. u # w.tor => seen2 = seen \cup {u}
    BY <1>1, <1>7
  <2>4. u = w.tor => seen2 = seen
    BY <1>7
  <2>5. pos'[w.tor] = -1
    BY <1>2, <1>5, <1>9, <2>1
  <2>6. \A v \in seen2 : pos'[v] <= z.back /\ pos'[v] # w.new
    <3> SUFFICES ASSUME NEW v \in seen2 PROVE pos'[v] <= z.back /\ pos'[v] # w.new
      OBVIOUS
    <3>1. CASE v \in seen
      BY <1>2, <1>6, <1>7, <2>1, <2>2, <3>1
    <3>2. CASE v \notin seen
      <4>1. v = u /\ u # w.tor
        BY <2>3, <2>4, <3>2
      <4> QED
        BY <1>5, <1>6, <1>7, <1>9, <4>1
    <3> QED
      BY <3>1, <3>2
  <2>7. z.back = -1 \/ \E v \in seen2 : pos'[v] = z.back
    <3>1. CASE z.back = w.back
      BY <2>1, <2>2, <3>1
    <3>2. CASE z.back # w.back
      <4>1. z.back = q /\ q > w.back
        BY <1>2, <1>5, <1>7, <3>2 DEF GreaterOf
      <4>2. u # w.tor
        BY <1>2, <1>5, <2>1, <4>1
      <4> QED
        BY <1>9, <2>3, <4>1, <4>2
    <3> QED
      BY <3>1, <3>2
  <2>8. z.back \in Int /\ z.back >= -1
    BY <1>2, <1>6, <1>7, <2>1
  <2> QED
    BY <1>7, <1>9, <1>10, <2>1, <2>5, <2>6, <2>7, <2>8 DEF WalkSound
<1>14. \A o \in Thread : o = th
  BY DEF OneThread
<1>15. InBatch(th)' => BatchSound(batch[th])'
  BY <1>10 DEF IInv, InBatch, BatchSound
<1> QED
  BY <1>10, <1>11, <1>12, <1>13, <1>14, <1>15 DEF IInv

(* The end of a walk over the torrents S, in terms of the positions p      *)
(* alone: "settled" is p with every shift undone.                          *)
WalkEnd(S, t, n, old, new, back, p, settled) ==
    /\ t \in S /\ n \in Nat /\ old \in 0 .. n - 1 /\ new \in Nat /\ back \in Int
    /\ \A u \in S : p[u] \in Int
    /\ back >= -1
    /\ \A u \in S \ {t} : p[u] <= back /\ p[u] # new
    /\ back = -1 \/ \E u \in S \ {t} : p[u] = back
    /\ settled[t] = old
    /\ \A u \in S \ {t} : settled[u] = Unshift(old, new, p[u])
    /\ \A u \in S : settled[u] \in 0 .. n - 1
    /\ \A u, v \in S : settled[u] = settled[v] => u = v
    /\ \A i \in 0 .. n - 1 : \E u \in S : settled[u] = i

(* "place" is the one place that no torrent of S but t holds.              *)
LastFreePlace(S, t, n, p, place) ==
    /\ place \in 0 .. n - 1
    /\ \A u \in S \ {t} : p[u] \in 0 .. n - 1 /\ p[u] # place
    /\ \A u, v \in S \ {t} : p[u] = p[v] => u = v
    /\ \A i \in 0 .. n - 1 : i = place \/ \E u \in S \ {t} : p[u] = i

(* Positions q are p with t taken out of its place and put in "place".     *)
Repositioned(S, n, p, t, place, q) ==
    /\ t \in S /\ place \in 0 .. n - 1
    /\ q[t] = place
    /\ \A u \in S \ {t} :
          LET r == IF p[u] > p[t] THEN p[u] - 1 ELSE p[u]
          IN  q[u] = IF r >= place THEN r + 1 ELSE r

(* The place before a shift and the place after it name each other.        *)
LEMMA ShiftedTo ==
    ASSUME NEW old \in Int, NEW new \in Int, NEW i \in Int, i # new, NEW q \in Int, q # new,
           Unshift(old, new, q) = IF old < new /\ old <= i /\ i < new THEN i + 1
                                  ELSE IF old > new /\ new < i /\ i <= old THEN i - 1
                                  ELSE i
    PROVE  q = i
BY DEF Unshift

(* MIN (pos, back+1) is the place that the visits left free.               *)
LEMMA PlaceSequenced ==
    ASSUME NEW S, NEW t, NEW n, NEW old, NEW new, NEW back, NEW p, NEW settled,
           WalkEnd(S, t, n, old, new, back, p, settled)
    PROVE  /\ LastFreePlace(S, t, n, p, LesserOf(new, back + 1))
           /\ LesserOf(new, back + 1) = IF new < n THEN new ELSE n - 1
<1> DEFINE place == LesserOf(new, back + 1)
<1> USE DEF WalkEnd
<1>1. \A u \in S \ {t} : p[u] \in 0 .. n - 1
  BY DEF Unshift
<1>2. \A u, v \in S \ {t} : p[u] = p[v] => u = v
  OBVIOUS
<1>3. ASSUME NEW i \in 0 .. n - 1,
             i # (IF new < n THEN new ELSE n - 1)
      PROVE  \E u \in S \ {t} : p[u] = i
  <2> DEFINE j == IF old < new /\ old <= i /\ i < new THEN i + 1
                  ELSE IF old > new /\ new < i /\ i <= old THEN i - 1
                  ELSE i
  <2>1. j \in 0 .. n - 1 /\ j # old
    BY <1>3
  <2>2. PICK u \in S : settled[u] = j
    BY <2>1
  <2>3. u # t
    BY <2>1, <2>2
  <2>4. Unshift(old, new, p[u]) = j /\ p[u] # new /\ p[u] \in Int
    BY <2>2, <2>3
  <2>5. p[u] = i
    <3>1. old \in Int /\ new \in Int /\ i \in Int /\ i # new
      BY <1>3
    <3>2. Unshift(old, new, p[u]) = IF old < new /\ old <= i /\ i < new THEN i + 1
                                    ELSE IF old > new /\ new < i /\ i <= old THEN i - 1
                                    ELSE i
      BY <2>4
    <3> DEFINE at == p[u]
    <3>3. at \in Int /\ at # new
      BY <2>4
    <3> HIDE DEF at
    <3> HIDE DEF WalkEnd
    <3>4. at = i
      BY <3>1, <3>2, <3>3, ShiftedTo DEF at
    <3> QED
      BY <3>4 DEF at
  <2> QED
    BY <2>3, <2>5
<1>4. \A u \in S \ {t} : p[u] # n - 1 \/ new < n
  <2> SUFFICES ASSUME NEW u \in S \ {t}, p[u] = n - 1, new >= n PROVE FALSE
    OBVIOUS
  <2>1. Unshift(old, new, p[u]) = n
    BY DEF Unshift
  <2> QED
    BY <2>1
<1>5. place = IF new < n THEN new ELSE n - 1
  <2> DEFINE hole == IF new < n THEN new ELSE n - 1
  <2>1. \A u \in S \ {t} : p[u] # hole
    BY <1>4
  <2>2. hole \in 0 .. n - 1 /\ hole <= new
    OBVIOUS
  <2>3. back >= hole - 1
    <3>1. CASE hole = 0
      BY <3>1
    <3>2. CASE hole > 0
      <4>1. hole - 1 \in 0 .. n - 1 /\ hole - 1 # hole
        BY <2>2, <3>2
      <4>2. PICK u \in S \ {t} : p[u] = hole - 1
        BY <1>3, <4>1
      <4> QED
        BY <4>2
    <3> QED
      BY <2>2, <3>1, <3>2
  <2>4. CASE new < n
    BY <2>3, <2>4 DEF LesserOf
  <2>5. CASE new >= n
    <3>1. back <= n - 2
      <4>1. back = -1 \/ (back \in 0 .. n - 1 /\ back # n - 1)
        BY <1>1, <1>4, <2>5
      <4> QED
        BY <4>1
    <3> QED
      BY <2>3, <2>5, <3>1 DEF LesserOf
  <2> QED
    BY <2>4, <2>5
<1>6. place \in 0 .. n - 1
  BY <1>5
<1>7. \A u \in S \ {t} : p[u] # place
  BY <1>4, <1>5
<1> QED
  BY <1>1, <1>2, <1>3, <1>5, <1>6, <1>7 DEF LastFreePlace

LEMMA PlaceTorrentIInv ==
    ASSUME OneThread, IInv, NEW th \in Thread, PlaceTorrent(th)
    PROVE  /\ IInv'
           /\ Repositioned(inSession, torrentCount, Settled(th), walk[th].tor,
                           LesserOf(walk[th].new, walk[th].back + 1), pos')
           /\ Settled(th)' = pos'
           /\ LesserOf(walk[th].new, walk[th].back + 1)
              = IF walk[th].new < torrentCount THEN walk[th].new ELSE torrentCount - 1
<1> DEFINE w == walk[th]
           place == LesserOf(w.new, w.back + 1)
<1>1. /\ TypeOK /\ Walking(th) /\ w \in Walk /\ w.todo = {}
      /\ WalkSound(w) /\ IsSequenced(Settled(th))
  <2>1. TypeOK /\ Walking(th) /\ w.todo = {} /\ w \in Walk
    BY DEF PlaceTorrent, IInv, TypeOK, Walking
  <2> QED
    BY <2>1 DEF IInv
<1>2. /\ w.tor \in inSession /\ w.old \in Int /\ w.new \in Nat /\ w.back \in Int
      /\ inSession \subseteq Torrent /\ torrentCount \in Nat
      /\ \A u \in inSession : pos[u] \in Int
  BY <1>1 DEF Walk, WalkSound, TypeOK
<1>3. /\ Settled(th)[w.tor] = w.old
      /\ \A u \in inSession \ {w.tor} : Settled(th)[u] = Unshift(w.old, w.new, pos[u])
  BY <1>1, <1>2 DEF Settled
<1>4. /\ w.back >= -1
      /\ \A u \in inSession \ {w.tor} : pos[u] <= w.back /\ pos[u] # w.new
      /\ w.back = -1 \/ \E u \in inSession \ {w.tor} : pos[u] = w.back
  BY <1>1 DEF WalkSound
<1>5. /\ \A u \in inSession : Settled(th)[u] \in 0 .. torrentCount - 1
      /\ \A u, v \in inSession : Settled(th)[u] = Settled(th)[v] => u = v
      /\ \A i \in 0 .. torrentCount - 1 : \E u \in inSession : Settled(th)[u] = i
  BY <1>1 DEF IsSequenced
<1>6. w.old \in 0 .. torrentCount - 1
  BY <1>2, <1>3, <1>5
<1>7. /\ place \in 0 .. torrentCount - 1
      /\ \A u \in inSession \ {w.tor} : pos[u] \in 0 .. torrentCount - 1 /\ pos[u] # place
      /\ \A u, v \in inSession \ {w.tor} : pos[u] = pos[v] => u = v
      /\ \A i \in 0 .. torrentCount - 1 :
            i = place \/ \E u \in inSession \ {w.tor} : pos[u] = i
      /\ place = IF w.new < torrentCount THEN w.new ELSE torrentCount - 1
  <2>1. WalkEnd(inSession, w.tor, torrentCount, w.old, w.new, w.back, pos, Settled(th))
    BY <1>2, <1>3, <1>4, <1>5, <1>6 DEF WalkEnd
  <2>2. /\ LastFreePlace(inSession, w.tor, torrentCount, pos, place)
        /\ place = IF w.new < torrentCount THEN w.new ELSE torrentCount - 1
    BY <2>1, PlaceSequenced
  <2> QED
    BY <2>2 DEF LastFreePlace
<1>8. /\ pos' = [pos EXCEPT ![w.tor] = place] /\ walk' = [walk EXCEPT ![th] = None]
      /\ UNCHANGED <<inSession, torrentCount>>
  BY DEF PlaceTorrent
<1>9. /\ pos' \in [Torrent -> Int] /\ pos'[w.tor] = place
      /\ \A u \in inSession \ {w.tor} : pos'[u] = pos[u]
  BY <1>1, <1>2, <1>7, <1>8 DEF TypeOK
<1>10. IsSequenced(pos)'
  <2>1. \A u \in inSession : pos'[u] \in 0 .. torrentCount - 1
    BY <1>7, <1>9
  <2>2. \A u, v \in inSession : pos'[u] = pos'[v] => u = v
    BY <1>7, <1>9
  <2>3. \A i \in 0 .. torrentCount - 1 : \E u \in inSession : pos'[u] = i
    BY <1>2, <1>7, <1>9
  <2> QED
    BY <1>8, <2>1, <2>2, <2>3 DEF IsSequenced
<1>11. ~Walking(th)' /\ walk' \in [Thread -> Walk \cup {None}]
  BY <1>1, <1>8 DEF Walking, TypeOK
<1>12. Settled(th)' = pos'
  BY <1>9, <1>11 DEF Settled
<1>13. IsSequenced(Settled(th))'
  BY <1>10, <1>12 DEF IsSequenced
<1>14. batch' \in [Thread -> Batch \cup {None}]
  BY <1>1 DEF TypeOK, PlaceTorrent
<1>15. InBatch(th)' => BatchSound(batch[th])'
  BY <1>1, <1>8 DEF IInv, InBatch, BatchSound, PlaceTorrent, TypeOK
<1>16. TypeOK'
  BY <1>1, <1>8, <1>9, <1>11, <1>14 DEF TypeOK
<1>17. \A o \in Thread : o = th
  BY DEF OneThread
<1>18. IInv'
  BY <1>11, <1>13, <1>15, <1>16, <1>17 DEF IInv
<1>19. Repositioned(inSession, torrentCount, Settled(th), w.tor, place, pos')
  <2>1. \A u \in inSession \ {w.tor} :
           LET r == IF Settled(th)[u] > w.old THEN Settled(th)[u] - 1 ELSE Settled(th)[u]
           IN  pos[u] = IF r >= place THEN r + 1 ELSE r
    <3> TAKE u \in inSession \ {w.tor}
    <3> DEFINE q == pos[u]
               g == Settled(th)[u]
    <3>1. /\ q \in 0 .. torrentCount - 1 /\ q # place /\ q # w.new
          /\ g = Unshift(w.old, w.new, q) /\ g # w.old
      BY <1>2, <1>3, <1>4, <1>5, <1>7
    <3> HIDE DEF q, g
    <3>2. LET r == IF g > w.old THEN g - 1 ELSE g
          IN  q = IF r >= place THEN r + 1 ELSE r
      BY <1>2, <1>6, <1>7, <3>1 DEF Unshift
    <3> QED
      BY <3>2 DEF q, g
  <2>2. /\ w.tor \in inSession /\ place \in 0 .. torrentCount - 1 /\ pos'[w.tor] = place
        /\ \A u \in inSession \ {w.tor} : pos'[u] = pos[u]
        /\ Settled(th)[w.tor] = w.old
    BY <1>2, <1>3, <1>7, <1>9
  <2> HIDE DEF w, place
  <2>3. Repositioned(inSession, torrentCount, Settled(th), w.tor, place, pos')
    BY <2>1, <2>2 DEF Repositioned
  <2> QED
    BY <2>3 DEF w, place
<1> QED
  BY <1>7, <1>12, <1>18, <1>19

LEMMA NextIInv == OneThread /\ IInv /\ [Next]_vars => IInv'
<1> SUFFICES ASSUME OneThread, IInv, [Next]_vars PROVE IInv'
  OBVIOUS
<1>1. ASSUME NEW th \in Thread, NEW t \in Torrent, TorrentInit(th, t) PROVE IInv'
  BY <1>1, TorrentInitIInv
<1>2. ASSUME NEW th \in Thread, NEW t \in Torrent, FreeTorrent(th, t) PROVE IInv'
  BY <1>2, FreeTorrentIInv
<1>3. ASSUME NEW th \in Thread, NEW t \in Torrent, NEW p \in -1 .. torrentCount,
             SetQueuePosition(th, t, p)
      PROVE  IInv'
  <2>1. p \in Int
    BY DEF IInv, TypeOK
  <2> QED
    BY <1>3, <2>1, SetQueuePositionIInv
<1>4. ASSUME NEW th \in Thread, NEW t \in Torrent, VisitTorrent(th, t) PROVE IInv'
  BY <1>4, VisitTorrentIInv
<1>5. ASSUME NEW th \in Thread, PlaceTorrent(th) PROVE IInv'
  BY <1>5, PlaceTorrentIInv
<1>6. ASSUME NEW th \in Thread, NEW op \in MoveOp, NEW S \in SUBSET Torrent,
             QueueMove(th, op, S)
      PROVE  IInv'
  BY <1>6, QueueMoveIInv
<1>7. ASSUME NEW th \in Thread, NextMove(th) PROVE IInv'
  BY <1>7, NextMoveIInv
<1>8. CASE UNCHANGED vars
  <2>1. /\ inSession' = inSession /\ torrentCount' = torrentCount /\ pos' = pos
        /\ walk' = walk /\ batch' = batch
    BY <1>8 DEF vars
  <2>2. TypeOK'
    BY <2>1 DEF IInv, TypeOK
  <2>3. ASSUME NEW th \in Thread
        PROVE  /\ IsSequenced(Settled(th))'
               /\ Walking(th)' => WalkSound(walk[th])'
               /\ InBatch(th)' => BatchSound(batch[th])'
    <3>1. Settled(th)' = Settled(th)
      BY <2>1 DEF Settled, Walking
    <3>2. IsSequenced(Settled(th))'
      BY <2>1, <3>1 DEF IInv, IsSequenced
    <3>3. Walking(th)' => WalkSound(walk[th])'
      BY <2>1 DEF IInv, Walking, WalkSound
    <3>4. InBatch(th)' => BatchSound(batch[th])'
      BY <2>1 DEF IInv, InBatch, BatchSound
    <3> QED
      BY <3>2, <3>3, <3>4
  <2> QED
    BY <2>2, <2>3 DEF IInv
<1> QED
  BY <1>1, <1>2, <1>3, <1>4, <1>5, <1>6, <1>7, <1>8 DEF Next

(* The inductive invariant holds throughout when one thread does the work. *)
LEMMA InvariantHolds == ASSUME OneThread PROVE Spec => []IInv
<1>1. Init => IInv
  BY InitIInv
<1>2. IInv /\ [Next]_vars => IInv'
  BY NextIInv
<1> QED
  BY <1>1, <1>2, PTL DEF Spec

(* Type correctness of the queue, when one thread does the work.           *)
THEOREM QueueTypeOK == ASSUME OneThread PROVE Spec => []TypeOK
<1>1. IInv => TypeOK
  BY DEF IInv
<1> QED
  BY <1>1, InvariantHolds, PTL

(* The assert of tr_torrentSetQueuePosition and freeTorrent never fails    *)
(* while a single thread adds, frees and reorders torrents: after any      *)
(* sequence of these operations the n positions are 0..n-1, each once.     *)
THEOREM QueueStaysSequenced == ASSUME OneThread PROVE Spec => []QueueSequenced
<1>1. IInv => QueueSequenced
  <2> SUFFICES ASSUME IInv, \A th \in Thread : ~Walking(th) PROVE IsSequenced(pos)
    BY DEF QueueSequenced
  <2>1. PICK th \in Thread : TRUE
    BY QueueAssumption
  <2>2. Settled(th) = pos
    BY DEF Settled, IInv, TypeOK
  <2> QED
    BY <2>2 DEF IInv
<1> QED
  BY <1>1, InvariantHolds, PTL
-----------------------------------------------------------------------------
(* The queue as a line.                                                    *)

(* IsSequenced and Line for any set of torrents S and positions p.         *)
Sequenced(S, n, p) ==
    /\ \A t \in S : p[t] \in 0 .. n - 1
    /\ \A t, u \in S : p[t] = p[u] => t = u
    /\ \A i \in 0 .. n - 1 : \E t \in S : p[t] = i

LineOf(S, n, p) == [i \in 1 .. n |-> CHOOSE t \in S : p[t] = i - 1]

(* s is the line: it holds each torrent of S once, at its position.        *)
InPlace(s, S, n, p) ==
    /\ s \in Seq(S) /\ Len(s) = n
    /\ \A i \in 1 .. n : s[i] \in S /\ p[s[i]] = i - 1
    /\ \A i, j \in 1 .. n : s[i] = s[j] => i = j
    /\ \A t \in S : p[t] + 1 \in 1 .. n /\ s[p[t] + 1] = t

(* Sequenced positions put each torrent of S in one place of the line.     *)
LEMMA LineIs ==
    ASSUME NEW S, NEW n \in Nat, NEW p, Sequenced(S, n, p), NEW s, s = LineOf(S, n, p)
    PROVE  InPlace(s, S, n, p)
<1>1. ASSUME NEW i \in 1 .. n PROVE s[i] \in S /\ p[s[i]] = i - 1
  <2>1. i - 1 \in 0 .. n - 1
    OBVIOUS
  <2>2. \E t \in S : p[t] = i - 1
    BY <2>1 DEF Sequenced
  <2>3. s[i] = CHOOSE t \in S : p[t] = i - 1
    BY DEF LineOf
  <2> QED
    BY <2>2, <2>3
<1>2. s \in [1 .. n -> S]
  BY <1>1 DEF LineOf
<1>3. s \in Seq(S) /\ Len(s) = n
  BY <1>2
<1>4. ASSUME NEW i \in 1 .. n, NEW j \in 1 .. n, s[i] = s[j] PROVE i = j
  BY <1>1, <1>4
<1>5. ASSUME NEW t \in S PROVE p[t] + 1 \in 1 .. n /\ s[p[t] + 1] = t
  <2>1. p[t] \in 0 .. n - 1
    BY DEF Sequenced
  <2>2. p[t] + 1 \in 1 .. n /\ (p[t] + 1) - 1 = p[t]
    BY <2>1
  <2>3. s[p[t] + 1] \in S /\ p[s[p[t] + 1]] = p[t]
    BY <1>1, <2>2
  <2> QED
    BY <2>2, <2>3 DEF Sequenced
<1> QED
  BY <1>1, <1>3, <1>4, <1>5 DEF InPlace

(* No other sequence has each torrent in its place.                        *)
LEMMA LineIsOnly ==
    ASSUME NEW S, NEW n \in Nat, NEW q, Sequenced(S, n, q),
           NEW s \in Seq(S), Len(s) = n, \A i \in 1 .. n : q[s[i]] = i - 1
    PROVE  s = LineOf(S, n, q)
<1> DEFINE l == LineOf(S, n, q)
<1>1. l \in Seq(S) /\ Len(l) = n /\ \A i \in 1 .. n : l[i] \in S /\ q[l[i]] = i - 1
  BY LineIs DEF InPlace
<1> HIDE DEF l
<1>2. ASSUME NEW i \in 1 .. n PROVE s[i] = l[i]
  <2>1. s[i] \in S
    OBVIOUS
  <2> QED
    BY <1>1, <2>1 DEF Sequenced
<1>3. s = l
  BY <1>1, <1>2, SeqEqual
<1> QED
  BY <1>3 DEF l

(* q is the line of p with t at the back.                                  *)
LineGrows(S, n, p, t, q) ==
    LineOf(S \cup {t}, n + 1, q) = Append(LineOf(S, n, p), t)

(* torrentInit, on the line.                                               *)
LEMMA LineAppended ==
    ASSUME NEW S, NEW n \in Nat, NEW p, Sequenced(S, n, p), NEW t, t \notin S,
           NEW q, q[t] = n, \A u \in S : q[u] = p[u]
    PROVE  LineGrows(S, n, p, t, q)
<1> DEFINE l == LineOf(S, n, p)
           R == S \cup {t}
<1>1. /\ l \in Seq(S) /\ Len(l) = n
      /\ \A i \in 1 .. n : l[i] \in S /\ p[l[i]] = i - 1
  BY LineIs DEF InPlace
<1>2. Sequenced(R, n + 1, q)
  <2>1. \A u \in R : q[u] \in 0 .. n
    BY DEF Sequenced
  <2>2. \A u, v \in R : q[u] = q[v] => u = v
    BY DEF Sequenced
  <2>3. \A i \in 0 .. n : \E u \in R : q[u] = i
    BY DEF Sequenced
  <2>4. (n + 1) - 1 = n
    OBVIOUS
  <2> HIDE DEF R
  <2> QED
    BY <2>1, <2>2, <2>3, <2>4 DEF Sequenced
<1> HIDE DEF l
<1> DEFINE s == Append(l, t)
<1>3. l \in Seq(R) /\ t \in R
  BY <1>1
<1> HIDE DEF R
<1>4. /\ s \in Seq(R) /\ Len(s) = n + 1 /\ s[n + 1] = t
      /\ \A i \in 1 .. n : s[i] = l[i]
  BY <1>1, <1>3
<1> HIDE DEF s
<1>5. \A i \in 1 .. n + 1 : q[s[i]] = i - 1
  <2> TAKE i \in 1 .. n + 1
  <2>1. CASE i = n + 1
    BY <1>4, <2>1
  <2>2. CASE i # n + 1
    <3>1. i \in 1 .. n
      BY <2>2
    <3> QED
      BY <1>1, <1>4, <3>1
  <2> QED
    BY <2>1, <2>2
<1>6. s = LineOf(R, n + 1, q)
  BY <1>2, <1>4, <1>5, LineIsOnly
<1> QED
  BY <1>6 DEF R, s, l, LineGrows

(* Positions q are p without the place of t.                               *)
ClosesGap(S, p, t, q) ==
    \A u \in S \ {t} : q[u] = IF p[u] > p[t] THEN p[u] - 1 ELSE p[u]

(* q is the line of p without t.                                           *)
LineLosesOne(S, n, p, t, q) ==
    /\ n - 1 \in Nat
    /\ Sequenced(S \ {t}, n - 1, q)
    /\ LineOf(S \ {t}, n - 1, q) = RemoveFirst(LineOf(S, n, p), t)

(* freeTorrent, on the line: the later torrents move up.                   *)
LEMMA LineWithout ==
    ASSUME NEW S, NEW n \in Nat, NEW p, Sequenced(S, n, p), NEW t \in S,
           NEW q, ClosesGap(S, p, t, q)
    PROVE  LineLosesOne(S, n, p, t, q)
<1> DEFINE l == LineOf(S, n, p)
           R == S \ {t}
           k == p[t] + 1
<1>1. /\ l \in Seq(S) /\ Len(l) = n
      /\ \A i \in 1 .. n : l[i] \in S /\ p[l[i]] = i - 1
      /\ \A i, j \in 1 .. n : l[i] = l[j] => i = j
      /\ k \in 1 .. n /\ l[k] = t
  <2>1. InPlace(l, S, n, p)
    BY LineIs
  <2> HIDE DEF l
  <2> QED
    BY <2>1 DEF InPlace
<1>2. n - 1 \in Nat
  BY <1>1
<1>3. /\ \A u \in R : u \in S /\ u # t /\ p[u] \in 0 .. n - 1 /\ p[u] # p[t]
      /\ \A u, v \in R : p[u] = p[v] => u = v
      /\ \A u \in R : q[u] = IF p[u] > p[t] THEN p[u] - 1 ELSE p[u]
      /\ p[t] \in 0 .. n - 1
      /\ \A i \in 0 .. n - 1 : i # p[t] => \E u \in R : p[u] = i
  BY DEF Sequenced, ClosesGap
<1>4. Sequenced(R, n - 1, q)
  <2> HIDE DEF R
  <2>1. \A u \in R : q[u] \in 0 .. (n - 1) - 1
    BY <1>3
  <2>2. \A u, v \in R : q[u] = q[v] => u = v
    BY <1>3
  <2>3. \A i \in 0 .. (n - 1) - 1 : \E u \in R : q[u] = i
    <3> TAKE i \in 0 .. (n - 1) - 1
    <3>1. CASE i < p[t]
      BY <1>3, <3>1
    <3>2. CASE i >= p[t]
      <4>1. i + 1 \in 0 .. n - 1 /\ i + 1 # p[t]
        BY <1>3, <3>2
      <4>2. PICK u \in R : p[u] = i + 1
        BY <1>3, <4>1
      <4> QED
        BY <1>3, <3>2, <4>2
    <3> QED
      BY <1>3, <3>1, <3>2
  <2> QED
    BY <2>1, <2>2, <2>3 DEF Sequenced
<1> HIDE DEF l, k
<1> DEFINE s == RemoveFirst(l, t)
<1>5. /\ s \in Seq(S) /\ Len(s) = n - 1
      /\ \A i \in 1 .. n - 1 : s[i] = IF i < k THEN l[i] ELSE l[i + 1]
  <2>1. k \in 1 .. Len(l) /\ t = l[k] /\ \A i, j \in 1 .. Len(l) : l[i] = l[j] => i = j
    BY <1>1
  <2>2. TakenOut(RemoveFirst(l, t), S, l, k)
    BY <1>1, <2>1, RemovedFirst
  <2> QED
    BY <1>1, <2>2 DEF TakenOut
<1> HIDE DEF s
<1>6. \A i \in 1 .. n - 1 : s[i] \in R /\ q[s[i]] = i - 1
  <2> TAKE i \in 1 .. n - 1
  <2>1. CASE i < k
    <3>1. i \in 1 .. n /\ i # k /\ s[i] = l[i]
      BY <1>1, <1>2, <1>5, <2>1
    <3>2. s[i] \in S /\ s[i] # t /\ p[s[i]] = i - 1
      BY <1>1, <3>1
    <3> QED
      BY <1>1, <1>3, <2>1, <3>2 DEF k
  <2>2. CASE i >= k
    <3>1. i + 1 \in 1 .. n /\ i + 1 # k /\ s[i] = l[i + 1]
      <4>1. k \in Int /\ i \in Int /\ i <= n - 1
        BY <1>1, <1>2
      <4> QED
        BY <1>5, <2>2, <4>1
    <3>2. s[i] \in S /\ s[i] # t /\ p[s[i]] = i
      BY <1>1, <3>1
    <3> QED
      BY <1>1, <1>3, <2>2, <3>2 DEF k
  <2> QED
    BY <1>1, <2>1, <2>2
<1>7. s \in Seq(R)
  BY <1>2, <1>5, <1>6
<1>8. s = LineOf(R, n - 1, q)
  <2> DEFINE z == n - 1
  <2>1. /\ z \in Nat /\ Sequenced(R, z, q) /\ s \in Seq(R) /\ Len(s) = z
        /\ \A i \in 1 .. z : q[s[i]] = i - 1
    BY <1>2, <1>4, <1>5, <1>6, <1>7
  <2> HIDE DEF R, z
  <2>2. s = LineOf(R, z, q)
    BY <2>1, LineIsOnly
  <2> QED
    BY <2>2 DEF z
<1> QED
  BY <1>2, <1>4, <1>8 DEF R, s, l, LineLosesOne

(* q is the line of p with t at "place".                                   *)
LineMovesOne(S, n, p, t, place, q) ==
    LET others == RemoveFirst(LineOf(S, n, p), t)
    IN  /\ Len(others) = n - 1
        /\ LineOf(S, n, q) = InsertAt(others, place + 1, t)

(* A torrent that takes another place: out of the line and in again.       *)
LEMMA LineMoved ==
    ASSUME NEW S, NEW n \in Nat, NEW p, Sequenced(S, n, p), NEW t \in S,
           NEW place, NEW q, Sequenced(S, n, q), Repositioned(S, n, p, t, place, q)
    PROVE  LineMovesOne(S, n, p, t, place, q)
<1> DEFINE R == S \ {t}
           m == [u \in R |-> IF p[u] > p[t] THEN p[u] - 1 ELSE p[u]]
           o == RemoveFirst(LineOf(S, n, p), t)
<1>1. ClosesGap(S, p, t, m)
  BY DEF ClosesGap
<1>2. /\ \A u \in R : u \in S /\ u # t /\ q[u] = IF m[u] >= place THEN m[u] + 1 ELSE m[u]
      /\ place \in 0 .. n - 1 /\ q[t] = place
  BY DEF Repositioned
<1> HIDE DEF m
<1>3. n - 1 \in Nat /\ Sequenced(R, n - 1, m) /\ LineOf(R, n - 1, m) = o
  <2>1. LineLosesOne(S, n, p, t, m)
    BY <1>1, LineWithout
  <2> QED
    BY <2>1 DEF LineLosesOne
<1> HIDE DEF R
<1>4. /\ o \in Seq(R) /\ Len(o) = n - 1
      /\ \A i \in 1 .. n - 1 : o[i] \in R /\ m[o[i]] = i - 1
  <2> DEFINE z == n - 1
  <2>1. z \in Nat /\ Sequenced(R, z, m) /\ o = LineOf(R, z, m)
    BY <1>3
  <2> HIDE DEF o, z
  <2>2. /\ o \in Seq(R) /\ Len(o) = z
        /\ \A i \in 1 .. z : o[i] \in R /\ m[o[i]] = i - 1
    BY <2>1, LineIs DEF InPlace
  <2> QED
    BY <2>2 DEF z
<1> HIDE DEF o
<1> DEFINE s == InsertAt(o, place + 1, t)
<1>5. o \in Seq(S) /\ place + 1 \in 1 .. Len(o) + 1
  BY <1>2, <1>3, <1>4 DEF R
<1>6. /\ s \in Seq(S) /\ Len(s) = Len(o) + 1
      /\ \A i \in 1 .. Len(o) + 1 :
            s[i] = IF i < place + 1 THEN o[i] ELSE IF i = place + 1 THEN t ELSE o[i - 1]
  <2> DEFINE k == place + 1
  <2>1. k \in 1 .. Len(o) + 1 /\ o \in Seq(S) /\ t \in S
    BY <1>5
  <2> HIDE DEF k, o
  <2>2. PutIn(InsertAt(o, k, t), S, o, k, t)
    BY <2>1, Inserted
  <2> QED
    BY <2>2 DEF k, PutIn
<1> HIDE DEF s
<1>7. Len(s) = n
  BY <1>3, <1>4, <1>6
<1>8. \A i \in 1 .. n : q[s[i]] = i - 1
  <2> TAKE i \in 1 .. n
  <2>1. CASE i < place + 1
    <3>1. i \in 1 .. n - 1 /\ s[i] = o[i]
      BY <1>2, <1>4, <1>6, <2>1
    <3>2. s[i] \in R /\ m[s[i]] = i - 1
      BY <1>4, <3>1
    <3> QED
      BY <1>2, <2>1, <3>2
  <2>2. CASE i = place + 1
    BY <1>2, <1>4, <1>6, <2>2
  <2>3. CASE i > place + 1
    <3>1. i - 1 \in 1 .. n - 1 /\ s[i] = o[i - 1]
      BY <1>2, <1>4, <1>6, <2>3
    <3>2. s[i] \in R /\ m[s[i]] = (i - 1) - 1
      BY <1>4, <3>1
    <3> QED
      BY <1>2, <2>3, <3>2
  <2> QED
    BY <1>2, <2>1, <2>2, <2>3
<1>9. s = LineOf(S, n, q)
  BY <1>6, <1>7, <1>8, LineIsOnly
<1> QED
  BY <1>4, <1>9 DEF s, o, LineMovesOne

(* The operators of the instance of QueueOrder.                            *)
LEMMA OrderOperators ==
    /\ \A s : Order!Range(s) = {s[i] : i \in DOMAIN s}
    /\ \A s, e : Order!RemoveFirst(s, e) = RemoveFirst(s, e)
    /\ \A s, i, e : Order!InsertAt(s, i, e) = InsertAt(s, i, e)
BY DEF Order!Range, Order!RemoveFirst, Order!RemoveAt, Order!SelectInSeq, Order!Min,
       Order!InsertAt, RemoveFirst, RemoveAt, SelectInSeq, Min, InsertAt

(* The line of the state, and the place of each torrent in it.             *)
LEMMA LineOfState ==
    ASSUME OneThread, IInv, NEW th \in Thread
    PROVE  /\ torrentCount \in Nat
           /\ Sequenced(inSession, torrentCount, Settled(th))
           /\ Line = LineOf(inSession, torrentCount, Settled(th))
           /\ Line \in Seq(inSession) /\ Len(Line) = torrentCount
           /\ Order!Range(Line) = inSession
<1>1. torrentCount \in Nat /\ Sequenced(inSession, torrentCount, Settled(th))
  BY DEF IInv, TypeOK, IsSequenced, Sequenced
<1>2. Walker = th
  BY DEF Walker, OneThread
<1>3. Line = LineOf(inSession, torrentCount, Settled(th))
  BY <1>2 DEF Line, LineOf
<1>4. /\ Line \in Seq(inSession) /\ Len(Line) = torrentCount
      /\ \A i \in 1 .. torrentCount : Line[i] \in inSession
      /\ \A t \in inSession : \E i \in 1 .. torrentCount : Line[i] = t
  BY <1>1, <1>3, LineIs DEF InPlace
<1>5. DOMAIN Line = 1 .. torrentCount
  BY <1>4
<1>6. Order!Range(Line) = inSession
  BY <1>4, <1>5, OrderOperators
<1> QED
  BY <1>1, <1>3, <1>4, <1>6

(* Steps that change no settled position leave the line as it was.         *)
LEMMA LineKept ==
    ASSUME OneThread, IInv, IInv', NEW th \in Thread,
           UNCHANGED <<inSession, torrentCount>>,
           \A t \in inSession : Settled(th)'[t] = Settled(th)[t]
    PROVE  UNCHANGED Line
<1>1. Walker = th /\ Walker' = th
  BY DEF Walker, OneThread
<1>2. \A i \in 1 .. torrentCount :
         (CHOOSE t \in inSession : Settled(th)'[t] = i - 1)
         = (CHOOSE t \in inSession : Settled(th)[t] = i - 1)
  OBVIOUS
<1> QED
  BY <1>1, <1>2 DEF Line

LEMMA TorrentInitEnqueues ==
    ASSUME OneThread, IInv, IInv', NEW th \in Thread, NEW t \in Torrent, TorrentInit(th, t)
    PROVE  Order!Enqueue(t)
<1>1. /\ t \notin inSession /\ inSession' = inSession \cup {t}
      /\ torrentCount' = torrentCount + 1
      /\ pos \in [Torrent -> Int] /\ inSession \subseteq Torrent
      /\ pos' = [pos EXCEPT ![t] = torrentCount]
  BY DEF TorrentInit, IInv, TypeOK
<1>2. ~Walking(th) /\ ~Walking(th)'
  BY DEF TorrentInit, Free, Walking
<1>3. Settled(th) = pos /\ Settled(th)' = pos'
  BY <1>1, <1>2 DEF Settled
<1>4. /\ torrentCount \in Nat /\ Sequenced(inSession, torrentCount, pos)
      /\ Line = LineOf(inSession, torrentCount, pos) /\ Order!Range(Line) = inSession
  BY <1>3, LineOfState
<1>5. Line' = LineOf(inSession \cup {t}, torrentCount + 1, pos')
  <2>1. Line' = LineOf(inSession', torrentCount', Settled(th)')
    <3>1. Walker' = th
      BY DEF Walker, OneThread
    <3> QED
      BY <3>1 DEF Line, LineOf
  <2> QED
    BY <1>1, <1>3, <2>1
<1>6. pos'[t] = torrentCount /\ \A u \in inSession : pos'[u] = pos[u]
  BY <1>1
<1>7. LineGrows(inSession, torrentCount, pos, t, pos')
  BY <1>1, <1>4, <1>6, LineAppended
<1>8. Line' = Append(Line, t)
  BY <1>4, <1>5, <1>7 DEF LineGrows
<1> QED
  BY <1>1, <1>4, <1>8 DEF Order!Enqueue

LEMMA FreeTorrentLeaves ==
    ASSUME OneThread, IInv, IInv', NEW th \in Thread, NEW t \in Torrent, FreeTorrent(th, t)
    PROVE  Order!Leave(t)
<1>1. /\ t \in inSession /\ inSession' = inSession \ {t}
      /\ torrentCount' = torrentCount - 1
      /\ pos \in [Torrent -> Int] /\ inSession \subseteq Torrent
      /\ pos' = [u \in Torrent |->
                    IF u \in inSession \ {t} /\ pos[u] > pos[t] THEN pos[u] - 1 ELSE pos[u]]
  BY DEF FreeTorrent, IInv, TypeOK
<1>2. ~Walking(th) /\ ~Walking(th)'
  BY DEF FreeTorrent, Free, Walking
<1>3. Settled(th) = pos /\ Settled(th)' = pos'
  BY <1>1, <1>2 DEF Settled
<1>4. /\ torrentCount \in Nat /\ Sequenced(inSession, torrentCount, pos)
      /\ Line = LineOf(inSession, torrentCount, pos) /\ Order!Range(Line) = inSession
  BY <1>3, LineOfState
<1>5. Line' = LineOf(inSession \ {t}, torrentCount - 1, pos')
  <2>1. Line' = LineOf(inSession', torrentCount', Settled(th)')
    <3>1. Walker' = th
      BY DEF Walker, OneThread
    <3> QED
      BY <3>1 DEF Line, LineOf
  <2> QED
    BY <1>1, <1>3, <2>1
<1>6. ClosesGap(inSession, pos, t, pos')
  BY <1>1 DEF ClosesGap
<1>7. LineLosesOne(inSession, torrentCount, pos, t, pos')
  BY <1>1, <1>4, <1>6, LineWithout
<1>8. Line' = RemoveFirst(Line, t)
  BY <1>4, <1>5, <1>7 DEF LineLosesOne
<1>9. Order!RemoveFirst(Line, t) = RemoveFirst(Line, t)
  BY OrderOperators
<1> QED
  BY <1>1, <1>4, <1>8, <1>9 DEF Order!Leave

(* The step of a walk that its callers see: the torrent it moves goes to   *)
(* the place asked for, or to the back when that lies behind the last one. *)
LEMMA PlaceTorrentRepositions ==
    ASSUME OneThread, IInv, IInv', NEW th \in Thread, PlaceTorrent(th)
    PROVE  Order!Next
<1> DEFINE t == walk[th].tor
           place == LesserOf(walk[th].new, walk[th].back + 1)
<1>1. /\ Repositioned(inSession, torrentCount, Settled(th), t, place, pos')
      /\ Settled(th)' = pos'
  BY PlaceTorrentIInv
<1>2. UNCHANGED <<inSession, torrentCount>>
  BY DEF PlaceTorrent
<1> HIDE DEF t, place
<1>3. /\ torrentCount \in Nat /\ Sequenced(inSession, torrentCount, Settled(th))
      /\ Line = LineOf(inSession, torrentCount, Settled(th))
      /\ Len(Line) = torrentCount /\ Order!Range(Line) = inSession
  BY LineOfState
<1>4. Line' = LineOf(inSession, torrentCount, pos')
  <2>1. Line' = LineOf(inSession', torrentCount', Settled(th)')
    <3>1. Walker' = th
      BY DEF Walker, OneThread
    <3> QED
      BY <3>1 DEF Line, LineOf
  <2> QED
    BY <1>1, <1>2, <2>1
<1>5. Sequenced(inSession, torrentCount, pos')
  <2>1. IsSequenced(Settled(th))'
    BY DEF IInv
  <2> QED
    BY <1>1, <1>2, <2>1 DEF IsSequenced, Sequenced
<1>6. t \in inSession /\ place \in 0 .. torrentCount - 1 /\ t \in Torrent
  BY <1>1 DEF Repositioned, IInv, TypeOK
<1>7. LineMovesOne(inSession, torrentCount, Settled(th), t, place, pos')
  BY <1>1, <1>3, <1>5, <1>6, LineMoved
<1>8. /\ Len(RemoveFirst(Line, t)) = torrentCount - 1
      /\ Line' = InsertAt(RemoveFirst(Line, t), place + 1, t)
  BY <1>3, <1>4, <1>7 DEF LineMovesOne
<1>9. /\ Order!RemoveFirst(Line, t) = RemoveFirst(Line, t)
      /\ Order!InsertAt(RemoveFirst(Line, t), place + 1, t)
         = InsertAt(RemoveFirst(Line, t), place + 1, t)
  BY OrderOperators
<1>10. Order!Reposition(t, place)
  BY <1>3, <1>6, <1>8, <1>9 DEF Order!Reposition
<1>11. place \in 0 .. Len(Line)
  BY <1>3, <1>6
<1> QED
  BY <1>6, <1>10, <1>11 DEF Order!Next

LEMMA NextIsOrder ==
    ASSUME OneThread, IInv, IInv', [Next]_vars
    PROVE  [Order!Next]_Line
<1>1. ASSUME NEW th \in Thread, NEW t \in Torrent, TorrentInit(th, t) PROVE Order!Next
  BY <1>1, TorrentInitEnqueues DEF Order!Next
<1>2. ASSUME NEW th \in Thread, NEW t \in Torrent, FreeTorrent(th, t) PROVE Order!Next
  BY <1>2, FreeTorrentLeaves DEF Order!Next
<1>3. ASSUME NEW th \in Thread, NEW t \in Torrent, NEW p \in -1 .. torrentCount,
             SetQueuePosition(th, t, p)
      PROVE  UNCHANGED Line
  <2>1. p \in Int
    BY DEF IInv, TypeOK
  <2>2. \A v \in inSession : Settled(th)'[v] = Settled(th)[v]
    BY <1>3, <2>1, SetQueuePositionIInv
  <2>3. UNCHANGED <<inSession, torrentCount>>
    BY <1>3 DEF SetQueuePosition
  <2> QED
    BY <2>2, <2>3, LineKept
<1>4. ASSUME NEW th \in Thread, NEW t \in Torrent, VisitTorrent(th, t) PROVE UNCHANGED Line
  <2>1. \A v \in inSession : Settled(th)'[v] = Settled(th)[v]
    BY <1>4, VisitTorrentIInv
  <2>2. UNCHANGED <<inSession, torrentCount>>
    BY <1>4 DEF VisitTorrent
  <2> QED
    BY <2>1, <2>2, LineKept
<1>5. ASSUME NEW th \in Thread, PlaceTorrent(th) PROVE Order!Next
  BY <1>5, PlaceTorrentRepositions
<1>6. ASSUME NEW th \in Thread, NEW op \in MoveOp, NEW S \in SUBSET Torrent,
             QueueMove(th, op, S)
      PROVE  UNCHANGED Line
  <2>1. \A v \in inSession : Settled(th)'[v] = Settled(th)[v]
    BY <1>6, QueueMoveIInv
  <2>2. UNCHANGED <<inSession, torrentCount>>
    BY <1>6 DEF QueueMove
  <2> QED
    BY <2>1, <2>2, LineKept
<1>7. ASSUME NEW th \in Thread, NextMove(th) PROVE UNCHANGED Line
  <2>1. \A v \in inSession : Settled(th)'[v] = Settled(th)[v]
    BY <1>7, NextMoveIInv
  <2>2. UNCHANGED <<inSession, torrentCount>>
    BY <1>7 DEF NextMove
  <2> QED
    BY <2>1, <2>2, LineKept
<1>8. CASE UNCHANGED vars
  BY <1>8 DEF vars, Line, Settled, Walking
<1> QED
  BY <1>1, <1>2, <1>3, <1>4, <1>5, <1>6, <1>7, <1>8 DEF Next

(* Called from one thread, the queue operations do to the line of torrents *)
(* what transmission.h promises: an added torrent goes to the back, a      *)
(* freed one leaves no gap, a walk takes its torrent out and puts it in at *)
(* the place asked for, all others keep their order; and nothing else      *)
(* changes the line.                                                       *)
THEOREM QueueImplementsOrder == ASSUME OneThread PROVE Spec => ImplementsQueueOrder
<1>1. Init => Order!Init
  BY DEF Init, Order!Init, Line
<1>2. IInv /\ IInv' /\ [Next]_vars => [Order!Next]_Line
  BY NextIsOrder
<1> QED
  BY <1>1, <1>2, InvariantHolds, PTL DEF Spec, ImplementsQueueOrder, Order!Spec
-----------------------------------------------------------------------------
(* The batches of the QueueMove operations.                                *)

(* The torrents of thread th's batch whose turn has not ended, in the      *)
(* order of the loop.                                                      *)
Upcoming(th) ==
    IF Walking(th) THEN <<walk[th].tor>> \o batch[th].rest ELSE batch[th].rest

(* "top" starts at the last torrent of the batch, "bottom" at the first.   *)
MovedFirst(b, t, u) ==
    /\ b.op = "top" => b.start[t] >= b.start[u]
    /\ b.op = "bottom" => b.start[t] <= b.start[u]

(* What the sorted copy says of the turns that are left, "up".             *)
Turns(b, up) ==
    /\ up \in Seq(b.who) /\ Len(up) <= Cardinality(b.who)
    /\ \A i, j \in 1 .. Len(up) : i < j => up[i] # up[j] /\ MovedFirst(b, up[i], up[j])
    /\ \A d \in b.who \ Range(up) : \A i \in 1 .. Len(up) : MovedFirst(b, d, up[i])

OrderKept(S, start, p) ==
    \A t, u \in S : start[t] < start[u] => p[t] < p[u]

(* The torrents D stand before, or behind, the other torrents of S; both   *)
(* are in the order they were found in.                                    *)
AtFront(S, D, start, p) ==
    /\ \A t \in D, u \in S \ D : p[t] < p[u]
    /\ OrderKept(D, start, p) /\ OrderKept(S \ D, start, p)

AtBack(S, D, start, p) ==
    /\ \A t \in D, u \in S \ D : p[u] < p[t]
    /\ OrderKept(D, start, p) /\ OrderKept(S \ D, start, p)

(* k steps of others have carried each torrent of S back, or forward, by   *)
(* at most k places.                                                       *)
CarriedBack(S, start, p, k) ==
    OrderKept(S, start, p) /\ \A u \in S : p[u] - start[u] \in 0 .. k

CarriedForth(S, start, p, k) ==
    OrderKept(S, start, p) /\ \A u \in S : -(p[u] - start[u]) \in 0 .. k

(* A batch between two of its turns, S being the torrents of the session   *)
(* and p their positions.                                                  *)
MoveSound(b, up, S, p) ==
    /\ Turns(b, up)
    /\ b.op = "top" => AtFront(S, b.who \ Range(up), b.start, p)
    /\ b.op = "bottom" => AtBack(S, b.who \ Range(up), b.start, p)
    /\ b.op = "up" => CarriedBack(S \ b.who, b.start, p, Cardinality(b.who) - Len(up))
    /\ b.op = "down" => CarriedForth(S \ b.who, b.start, p, Cardinality(b.who) - Len(up))

(* The place a turn of the batch asks for.                                 *)
AsksFor(op, old, new) ==
    /\ op = "top" => new = 0
    /\ op = "bottom" => new = IntMax
    /\ op = "up" => new <= old
    /\ op = "down" => new >= old

MoveInv ==
    \A th \in Thread : InBatch(th) =>
        /\ MoveSound(batch[th], Upcoming(th), inSession, Settled(th))
        /\ Walking(th) => AsksFor(batch[th].op, walk[th].old, walk[th].new)

Numbered(S, f) == \A u \in S : f[u] \in Int

(* What a repositioned torrent does to the others: they keep their order,  *)
(* and those it passes step aside by one place.                            *)
Passed(S, n, p, t, place, q) ==
    /\ t \in S /\ q[t] = place
    /\ \A u, v \in S \ {t} : p[u] < p[v] => q[u] < q[v]
    /\ place <= p[t] => \A u \in S \ {t} : q[u] = p[u] \/ q[u] = p[u] + 1
    /\ place >= p[t] => \A u \in S \ {t} : q[u] = p[u] \/ q[u] = p[u] - 1
    /\ place = 0 => \A u \in S \ {t} : q[t] < q[u]
    /\ place = n - 1 => \A u \in S \ {t} : q[u] < q[t]

LEMMA OthersArePassed ==
    ASSUME NEW S, NEW n \in Nat, NEW p, NEW t, NEW place, NEW q,
           Sequenced(S, n, p), Repositioned(S, n, p, t, place, q)
    PROVE  Passed(S, n, p, t, place, q)
<1>1. /\ t \in S /\ place \in 0 .. n - 1 /\ q[t] = place
      /\ p[t] \in 0 .. n - 1
  BY DEF Repositioned, Sequenced
<1>2. \A u \in S \ {t} :
         /\ p[u] \in 0 .. n - 1 /\ p[u] # p[t]
         /\ q[u] = IF p[u] > p[t] THEN (IF p[u] - 1 >= place THEN p[u] ELSE p[u] - 1)
                   ELSE (IF p[u] >= place THEN p[u] + 1 ELSE p[u])
  <2> TAKE u \in S \ {t}
  <2> DEFINE a == p[u]
             b == p[t]
  <2>1. /\ a \in 0 .. n - 1 /\ a # b
        /\ LET r == IF a > b THEN a - 1 ELSE a
           IN  q[u] = IF r >= place THEN r + 1 ELSE r
    BY <1>1 DEF Repositioned, Sequenced
  <2> HIDE DEF a, b
  <2>2. q[u] = IF a > b THEN (IF a - 1 >= place THEN a ELSE a - 1)
               ELSE (IF a >= place THEN a + 1 ELSE a)
    BY <1>1, <2>1 DEF b
  <2> QED
    BY <2>1, <2>2 DEF a, b
<1>3. \A u, v \in S \ {t} : p[u] < p[v] => q[u] < q[v]
  BY <1>1, <1>2
<1>4. place <= p[t] => \A u \in S \ {t} : q[u] = p[u] \/ q[u] = p[u] + 1
  BY <1>1, <1>2
<1>5. place >= p[t] => \A u \in S \ {t} : q[u] = p[u] \/ q[u] = p[u] - 1
  BY <1>1, <1>2
<1>6. place = 0 => \A u \in S \ {t} : q[t] < q[u]
  BY <1>1, <1>2
<1>7. place = n - 1 => \A u \in S \ {t} : q[u] < q[t]
  BY <1>1, <1>2
<1> QED
  BY <1>1, <1>3, <1>4, <1>5, <1>6, <1>7 DEF Passed

(* A turn of "top": the next torrent comes before those already in front.  *)
LEMMA FrontGrows ==
    ASSUME NEW S, NEW n \in Nat, NEW p, NEW t, NEW q, NEW D \in SUBSET S, NEW start, t \notin D,
           Numbered(S, p), Numbered(S, q), Numbered(S, start),
           Passed(S, n, p, t, 0, q), AtFront(S, D, start, p),
           \A d \in D : start[d] >= start[t]
    PROVE  AtFront(S, D \cup {t}, start, q)
<1> DEFINE E == D \cup {t}
<1>1. /\ t \in S
      /\ \A u \in S \ {t} : q[t] < q[u]
      /\ \A u, v \in S \ {t} : p[u] < p[v] => q[u] < q[v]
  BY DEF Passed
<1>2. /\ \A u \in D, v \in S \ D : p[u] < p[v]
      /\ \A u, v \in D : start[u] < start[v] => p[u] < p[v]
      /\ \A u, v \in S \ D : start[u] < start[v] => p[u] < p[v]
  BY DEF AtFront, OrderKept
<1>3. \A u \in E, v \in S \ E : q[u] < q[v]
  BY <1>1, <1>2
<1>4. \A u, v \in E : start[u] < start[v] => q[u] < q[v]
  <2> SUFFICES ASSUME NEW u \in E, NEW v \in E, start[u] < start[v] PROVE q[u] < q[v]
    OBVIOUS
  <2>1. start[u] \in Int /\ start[v] \in Int /\ u # v
    BY <1>1 DEF Numbered
  <2>2. v # t
    BY <2>1 DEF Numbered
  <2> QED
    BY <1>1, <1>2, <2>1, <2>2
<1>5. \A u, v \in S \ E : start[u] < start[v] => q[u] < q[v]
  BY <1>1, <1>2
<1> QED
  BY <1>3, <1>4, <1>5 DEF AtFront, OrderKept

(* A turn of "bottom": the next torrent goes behind those at the back.     *)
LEMMA BackGrows ==
    ASSUME NEW S, NEW n \in Nat, NEW p, NEW t, NEW q, NEW D \in SUBSET S, NEW start, t \notin D,
           Numbered(S, p), Numbered(S, q), Numbered(S, start),
           Passed(S, n, p, t, n - 1, q), AtBack(S, D, start, p),
           \A d \in D : start[d] <= start[t]
    PROVE  AtBack(S, D \cup {t}, start, q)
<1> DEFINE E == D \cup {t}
<1>1. /\ t \in S
      /\ \A u \in S \ {t} : q[u] < q[t]
      /\ \A u, v \in S \ {t} : p[u] < p[v] => q[u] < q[v]
  BY DEF Passed
<1>2. /\ \A u \in D, v \in S \ D : p[v] < p[u]
      /\ \A u, v \in D : start[u] < start[v] => p[u] < p[v]
      /\ \A u, v \in S \ D : start[u] < start[v] => p[u] < p[v]
  BY DEF AtBack, OrderKept
<1>3. \A u \in E, v \in S \ E : q[v] < q[u]
  BY <1>1, <1>2
<1>4. \A u, v \in E : start[u] < start[v] => q[u] < q[v]
  <2> SUFFICES ASSUME NEW u \in E, NEW v \in E, start[u] < start[v] PROVE q[u] < q[v]
    OBVIOUS
  <2>1. start[u] \in Int /\ start[v] \in Int /\ u # v
    BY <1>1 DEF Numbered
  <2>2. u # t
    BY <2>1 DEF Numbered
  <2> QED
    BY <1>1, <1>2, <2>1, <2>2
<1>5. \A u, v \in S \ E : start[u] < start[v] => q[u] < q[v]
  BY <1>1, <1>2
<1> QED
  BY <1>3, <1>4, <1>5 DEF AtBack, OrderKept

(* A turn of "up", and of "down": at most one place more.                  *)
LEMMA CarriedFurther ==
    ASSUME NEW S, NEW n \in Nat, NEW p, NEW t, NEW place, NEW q, NEW O \in SUBSET S, NEW start,
           NEW k \in Nat, t \notin O,
           Numbered(S, p), Numbered(S, start), Passed(S, n, p, t, place, q)
    PROVE  /\ place <= p[t] /\ CarriedBack(O, start, p, k) => CarriedBack(O, start, q, k + 1)
           /\ place >= p[t] /\ CarriedForth(O, start, p, k) => CarriedForth(O, start, q, k + 1)
<1>1. \A u \in O : u \in S \ {t} /\ p[u] \in Int /\ start[u] \in Int
  BY DEF Numbered
<1>2. \A u, v \in O : p[u] < p[v] => q[u] < q[v]
  BY <1>1 DEF Passed
<1>3. OrderKept(O, start, p) => OrderKept(O, start, q)
  BY <1>2 DEF OrderKept
<1>4. ASSUME place <= p[t], CarriedBack(O, start, p, k) PROVE CarriedBack(O, start, q, k + 1)
  <2>1. \A u \in O : q[u] = p[u] \/ q[u] = p[u] + 1
    BY <1>1, <1>4 DEF Passed
  <2>2. \A u \in O : p[u] - start[u] \in 0 .. k
    BY <1>4 DEF CarriedBack
  <2>3. \A u \in O : q[u] - start[u] \in 0 .. k + 1
    BY <1>1, <2>1, <2>2
  <2> QED
    BY <1>3, <1>4, <2>3 DEF CarriedBack
<1>5. ASSUME place >= p[t], CarriedForth(O, start, p, k) PROVE CarriedForth(O, start, q, k + 1)
  <2>1. \A u \in O : q[u] = p[u] \/ q[u] = p[u] - 1
    BY <1>1, <1>5 DEF Passed
  <2>2. \A u \in O : -(p[u] - start[u]) \in 0 .. k
    BY <1>5 DEF CarriedForth
  <2>3. \A u \in O : -(q[u] - start[u]) \in 0 .. k + 1
    BY <1>1, <2>1, <2>2
  <2> QED
    BY <1>3, <1>5, <2>3 DEF CarriedForth
<1> QED
  BY <1>4, <1>5

(* The next torrent of a batch, and the turns after it.                    *)
NextTurn(b, up) ==
    /\ Turns(b, Tail(up))
    /\ Len(Tail(up)) + 1 = Len(up)
    /\ Head(up) \in b.who
    /\ Head(up) \notin b.who \ Range(up)
    /\ b.who \ Range(Tail(up)) = (b.who \ Range(up)) \cup {Head(up)}
    /\ \A d \in b.who \ Range(up) : MovedFirst(b, d, Head(up))

LEMMA TurnsGoOn ==
    ASSUME NEW b, NEW up, IsFiniteSet(b.who), Turns(b, up), up # <<>>
    PROVE  NextTurn(b, up)
<1> DEFINE W == b.who
           r == Tail(up)
           h == Head(up)
<1>1. /\ up \in Seq(W) /\ Len(up) \in Nat /\ Len(up) <= Cardinality(W) /\ Cardinality(W) \in Nat
      /\ \A i, j \in 1 .. Len(up) : i < j => up[i] # up[j] /\ MovedFirst(b, up[i], up[j])
      /\ \A d \in W \ Range(up) : \A i \in 1 .. Len(up) : MovedFirst(b, d, up[i])
  BY FS_CardinalityType DEF Turns
<1> HIDE DEF W
<1>2. /\ r \in Seq(W) /\ Len(r) + 1 = Len(up) /\ h \in W /\ h = up[1] /\ Len(up) >= 1
      /\ \A i \in 1 .. Len(r) : r[i] = up[i + 1] /\ i + 1 \in 1 .. Len(up)
  BY <1>1
<1> HIDE DEF r, h
<1>3. /\ Range(up) = {up[i] : i \in 1 .. Len(up)}
      /\ Range(r) = {r[i] : i \in 1 .. Len(r)}
  <2>1. DOMAIN up = 1 .. Len(up)
    BY <1>1
  <2>2. DOMAIN r = 1 .. Len(r)
    BY <1>2
  <2> QED
    BY <2>1, <2>2, Zenon DEF Range
<1>4. Range(up) = Range(r) \cup {h}
  <2>1. \A x \in Range(up) : x = h \/ x \in Range(r)
    <3> TAKE x \in Range(up)
    <3>1. PICK i \in 1 .. Len(up) : x = up[i]
      BY <1>3
    <3>2. CASE i = 1
      BY <1>2, <3>1, <3>2
    <3>3. CASE i # 1
      <4>1. i - 1 \in 1 .. Len(r) /\ (i - 1) + 1 = i
        BY <1>1, <1>2, <3>3
      <4>2. r[i - 1] = x
        BY <1>2, <3>1, <4>1
      <4> QED
        BY <1>3, <4>1, <4>2
    <3> QED
      BY <3>2, <3>3
  <2>2. h \in Range(up)
    BY <1>1, <1>2, <1>3
  <2>3. \A x \in Range(r) : x \in Range(up)
    <3> TAKE x \in Range(r)
    <3>1. PICK i \in 1 .. Len(r) : x = r[i]
      BY <1>3
    <3> QED
      BY <1>2, <1>3, <3>1
  <2> QED
    BY <2>1, <2>2, <2>3
<1>5. h \notin Range(r)
  <2> SUFFICES ASSUME h \in Range(r) PROVE FALSE
    OBVIOUS
  <2>1. PICK i \in 1 .. Len(r) : h = r[i]
    BY <1>3
  <2>2. 1 \in 1 .. Len(up) /\ i + 1 \in 1 .. Len(up) /\ 1 < i + 1 /\ up[1] = up[i + 1]
    BY <1>1, <1>2, <2>1
  <2> QED
    BY <1>1, <2>2
<1>6. \A i \in 1 .. Len(r) : MovedFirst(b, h, r[i])
  <2> TAKE i \in 1 .. Len(r)
  <2>1. 1 \in 1 .. Len(up) /\ i + 1 \in 1 .. Len(up) /\ 1 < i + 1 /\ r[i] = up[i + 1]
    BY <1>1, <1>2
  <2>2. MovedFirst(b, up[1], up[i + 1])
    BY <1>1, <2>1
  <2> QED
    BY <1>2, <2>1, <2>2
<1>7. \A i, j \in 1 .. Len(r) : i < j => r[i] # r[j] /\ MovedFirst(b, r[i], r[j])
  <2> SUFFICES ASSUME NEW i \in 1 .. Len(r), NEW j \in 1 .. Len(r), i < j
               PROVE  r[i] # r[j] /\ MovedFirst(b, r[i], r[j])
    OBVIOUS
  <2>1. /\ i + 1 \in 1 .. Len(up) /\ j + 1 \in 1 .. Len(up) /\ i + 1 < j + 1
        /\ r[i] = up[i + 1] /\ r[j] = up[j + 1]
    BY <1>2
  <2>2. up[i + 1] # up[j + 1] /\ MovedFirst(b, up[i + 1], up[j + 1])
    BY <1>1, <2>1
  <2> QED
    BY <2>1, <2>2
<1>8. \A d \in W \ Range(up) : \A i \in 1 .. Len(r) : MovedFirst(b, d, r[i])
  <2> SUFFICES ASSUME NEW d \in W \ Range(up), NEW i \in 1 .. Len(r)
               PROVE  MovedFirst(b, d, r[i])
    OBVIOUS
  <2>1. i + 1 \in 1 .. Len(up) /\ r[i] = up[i + 1]
    BY <1>2
  <2>2. MovedFirst(b, d, up[i + 1])
    BY <1>1, <2>1
  <2> QED
    BY <2>1, <2>2
<1>9. W \ Range(r) = (W \ Range(up)) \cup {h}
  BY <1>2, <1>4, <1>5
<1>10. \A d \in W \ Range(r) : \A i \in 1 .. Len(r) : MovedFirst(b, d, r[i])
  <2> SUFFICES ASSUME NEW d \in W \ Range(r), NEW i \in 1 .. Len(r)
               PROVE  MovedFirst(b, d, r[i])
    OBVIOUS
  <2>1. CASE d = h
    BY <1>6, <2>1
  <2>2. CASE d # h
    BY <1>8, <1>9, <2>2
  <2> QED
    BY <2>1, <2>2
<1>11. Turns(b, r)
  BY <1>1, <1>2, <1>7, <1>10 DEF Turns, W
<1>12. \A d \in W \ Range(up) : MovedFirst(b, d, h)
  <2> TAKE d \in W \ Range(up)
  <2>1. MovedFirst(b, d, up[1])
    BY <1>1, <1>2
  <2> QED
    BY <1>2, <2>1
<1>13. h \notin W \ Range(up)
  BY <1>4
<1> QED
  BY <1>2, <1>9, <1>11, <1>12, <1>13 DEF NextTurn, W, r, h

(* The end of a turn.                                                      *)
LEMMA TurnTaken ==
    ASSUME NEW b, NEW up, NEW S, NEW n \in Nat, NEW p, NEW place, NEW q,
           b.who \in SUBSET S, IsFiniteSet(b.who), Numbered(S, b.start), b.op \in MoveOp,
           Sequenced(S, n, p), Sequenced(S, n, q),
           up # <<>>, MoveSound(b, up, S, p), Repositioned(S, n, p, Head(up), place, q),
           b.op = "top" => place = 0,
           b.op = "bottom" => place = n - 1,
           b.op = "up" => place <= p[Head(up)],
           b.op = "down" => place >= p[Head(up)]
    PROVE  MoveSound(b, Tail(up), S, q)
<1> DEFINE t == Head(up)
           r == Tail(up)
           D == b.who \ Range(up)
<1>1. Passed(S, n, p, t, place, q)
  BY OthersArePassed
<1>2. Numbered(S, p) /\ Numbered(S, q)
  BY DEF Sequenced, Numbered
<1>3. NextTurn(b, up)
  BY TurnsGoOn DEF MoveSound
<1>4. /\ Turns(b, r) /\ Len(r) + 1 = Len(up) /\ t \in b.who /\ t \notin D
      /\ b.who \ Range(r) = D \cup {t}
      /\ \A d \in D : MovedFirst(b, d, t)
  BY <1>3 DEF NextTurn
<1>5. D \in SUBSET S /\ S \ b.who \in SUBSET S /\ t \notin S \ b.who
  BY <1>4
<1>6. /\ up \in Seq(b.who) /\ Len(up) \in Nat /\ Len(up) <= Cardinality(b.who)
      /\ Cardinality(b.who) \in Nat
  BY FS_CardinalityType DEF MoveSound, Turns
<1> DEFINE k == Cardinality(b.who) - Len(up)
<1>7. k \in Nat /\ Cardinality(b.who) - Len(r) = k + 1
  <2>1. r \in Seq(b.who)
    BY <1>4 DEF Turns
  <2>2. Len(r) \in Nat
    BY <2>1
  <2> HIDE DEF r
  <2> QED
    BY <1>4, <1>6, <2>2
<1> HIDE DEF t, r, D, k
<1>8. b.op = "top" => AtFront(S, b.who \ Range(r), b.start, q)
  <2> SUFFICES ASSUME b.op = "top" PROVE AtFront(S, b.who \ Range(r), b.start, q)
    OBVIOUS
  <2>1. AtFront(S, D, b.start, p) /\ place = 0
    BY DEF MoveSound, D
  <2>2. \A d \in D : b.start[d] >= b.start[t]
    BY <1>4 DEF MovedFirst
  <2>3. Passed(S, n, p, t, 0, q)
    BY <1>1, <2>1
  <2>4. AtFront(S, D \cup {t}, b.start, q)
    BY <1>2, <1>4, <1>5, <2>1, <2>2, <2>3, FrontGrows
  <2> QED
    BY <1>4, <2>4
<1>9. b.op = "bottom" => AtBack(S, b.who \ Range(r), b.start, q)
  <2> SUFFICES ASSUME b.op = "bottom" PROVE AtBack(S, b.who \ Range(r), b.start, q)
    OBVIOUS
  <2>1. AtBack(S, D, b.start, p) /\ place = n - 1
    BY DEF MoveSound, D
  <2>2. \A d \in D : b.start[d] <= b.start[t]
    BY <1>4 DEF MovedFirst
  <2>3. Passed(S, n, p, t, n - 1, q)
    BY <1>1, <2>1
  <2>4. AtBack(S, D \cup {t}, b.start, q)
    BY <1>2, <1>4, <1>5, <2>1, <2>2, <2>3, BackGrows
  <2> QED
    BY <1>4, <2>4
<1>10. b.op = "up" => CarriedBack(S \ b.who, b.start, q, k + 1)
  <2> SUFFICES ASSUME b.op = "up" PROVE CarriedBack(S \ b.who, b.start, q, k + 1)
    OBVIOUS
  <2>1. CarriedBack(S \ b.who, b.start, p, k) /\ place <= p[t]
    BY DEF MoveSound, k, t
  <2> QED
    BY <1>1, <1>2, <1>5, <1>7, <2>1, CarriedFurther
<1>11. b.op = "down" => CarriedForth(S \ b.who, b.start, q, k + 1)
  <2> SUFFICES ASSUME b.op = "down" PROVE CarriedForth(S \ b.who, b.start, q, k + 1)
    OBVIOUS
  <2>1. CarriedForth(S \ b.who, b.start, p, k) /\ place >= p[t]
    BY DEF MoveSound, k, t
  <2> QED
    BY <1>1, <1>2, <1>5, <1>7, <2>1, CarriedFurther
<1>12. MoveSound(b, r, S, q)
  BY <1>4, <1>7, <1>8, <1>9, <1>10, <1>11 DEF MoveSound
<1> QED
  BY <1>12 DEF r

(* Only the positions of the session's torrents count, and not the loop's  *)
(* own copy of what is left.                                               *)
LEMMA MoveSoundSame ==
    ASSUME NEW b, NEW c, NEW up, NEW S, NEW p, NEW q, b.who \in SUBSET S,
           c.op = b.op, c.who = b.who, c.start = b.start,
           \A u \in S : q[u] = p[u], MoveSound(b, up, S, p)
    PROVE  MoveSound(c, up, S, q)
<1> DEFINE D == b.who \ Range(up)
           O == S \ b.who
           k == Cardinality(b.who) - Len(up)
<1>1. D \in SUBSET S /\ O \in SUBSET S
  OBVIOUS
<1>2. \A t, u : MovedFirst(b, t, u) <=> MovedFirst(c, t, u)
  BY DEF MovedFirst
<1>3. Turns(b, up) <=> Turns(c, up)
  BY <1>2 DEF Turns
<1> HIDE DEF D, O, k
<1>4. AtFront(S, D, b.start, p) => AtFront(S, D, b.start, q)
  BY <1>1 DEF AtFront, OrderKept
<1>5. AtBack(S, D, b.start, p) => AtBack(S, D, b.start, q)
  BY <1>1 DEF AtBack, OrderKept
<1>6. CarriedBack(O, b.start, p, k) => CarriedBack(O, b.start, q, k)
  BY <1>1 DEF CarriedBack, OrderKept
<1>7. CarriedForth(O, b.start, p, k) => CarriedForth(O, b.start, q, k)
  BY <1>1 DEF CarriedForth, OrderKept
<1> QED
  BY <1>3, <1>4, <1>5, <1>6, <1>7 DEF MoveSound, D, O, k

(* A batch that has just been sorted.                                      *)
LEMMA MoveSoundFirst ==
    ASSUME NEW b, NEW S, b.who \in SUBSET S, IsFiniteSet(b.who), Numbered(S, b.start),
           Turns(b, b.rest), Len(b.rest) = Cardinality(b.who), Range(b.rest) = b.who
    PROVE  MoveSound(b, b.rest, S, b.start)
<1> DEFINE c == b.start
           O == S \ b.who
<1>1. b.who \ Range(b.rest) = {} /\ Cardinality(b.who) \in Nat
  BY FS_CardinalityType
<1>2. Cardinality(b.who) - Len(b.rest) = 0
  BY <1>1
<1>3. AtFront(S, {}, c, c) /\ AtBack(S, {}, c, c)
  BY DEF AtFront, AtBack, OrderKept
<1>4. \A u \in O : c[u] - c[u] = 0 /\ -(c[u] - c[u]) = 0
  BY DEF Numbered
<1>5. CarriedBack(O, c, c, 0) /\ CarriedForth(O, c, c, 0)
  BY <1>4 DEF CarriedBack, CarriedForth, OrderKept
<1> QED
  BY <1>1, <1>2, <1>3, <1>5 DEF MoveSound

LEMMA BatchOf ==
    ASSUME IInv, NEW th \in Thread, InBatch(th)
    PROVE  /\ batch[th] \in Batch /\ batch[th].op \in MoveOp
           /\ batch[th].rest \in Seq(Torrent)
           /\ batch[th].who \in SUBSET inSession /\ IsFiniteSet(batch[th].who)
           /\ Numbered(inSession, batch[th].start)
<1>1. batch[th] \in Batch /\ inSession \subseteq Torrent
  BY DEF IInv, TypeOK, InBatch
<1>2. /\ batch[th].op \in MoveOp /\ batch[th].rest \in Seq(Torrent)
      /\ batch[th].start \in [Torrent -> Int]
  BY <1>1 DEF Batch
<1>3. batch[th].who \subseteq inSession
  BY DEF IInv, BatchSound
<1>4. IsFiniteSet(batch[th].who)
  <2>1. batch[th].who \in SUBSET Torrent /\ IsFiniteSet(Torrent)
    BY <1>1, <1>3, QueueAssumption
  <2> QED
    BY <2>1, FS_Subset
<1> QED
  BY <1>1, <1>2, <1>3, <1>4 DEF Numbered

(* An int can count the torrents of the session.                           *)
LEMMA CountFits == ASSUME OneThread, IInv PROVE torrentCount <= IntMax
<1>1. PICK th \in Thread : TRUE
  BY QueueAssumption
<1> DEFINE l == LineOf(inSession, torrentCount, Settled(th))
           D == 1 .. torrentCount
<1>2. torrentCount \in Nat /\ Sequenced(inSession, torrentCount, Settled(th))
  BY LineOfState
<1>3. l \in [D -> Torrent] /\ \A i, j \in D : l[i] = l[j] => i = j
  <2>1. InPlace(l, inSession, torrentCount, Settled(th))
    BY <1>2, LineIs
  <2>2. inSession \subseteq Torrent /\ DOMAIN l = D
    BY DEF IInv, TypeOK, LineOf
  <2>3. l = [i \in D |-> l[i]]
    BY DEF LineOf
  <2> HIDE DEF l
  <2> QED
    BY <2>1, <2>2, <2>3 DEF InPlace
<1>4. l \in Injection(D, Torrent)
  BY <1>3 DEF Injection, IsInjective
<1>5. Cardinality(D) <= Cardinality(Torrent) /\ Cardinality(D) = torrentCount
  BY <1>2, <1>4, QueueAssumption, FS_Injection, FS_Interval
<1>6. Cardinality(Torrent) \in Nat
  BY QueueAssumption, FS_CardinalityType
<1> QED
  BY <1>2, <1>5, <1>6, QueueAssumption, CountAssumption

(* Nothing of a batch is left when its thread is free.                     *)
LEMMA NoBatch ==
    ASSUME OneThread, NEW th \in Thread, ~InBatch(th)' PROVE MoveInv'
BY DEF OneThread, MoveInv

LEMMA QueueMoveBatch ==
    ASSUME OneThread, IInv, NEW th \in Thread, NEW op \in MoveOp, NEW S \in SUBSET Torrent,
           QueueMove(th, op, S)
    PROVE  MoveInv'
<1>1. /\ TypeOK /\ S \subseteq inSession /\ ~Walking(th) /\ inSession \subseteq Torrent
      /\ IsFiniteSet(S) /\ pos \in [Torrent -> Int]
  <2>1. IsFiniteSet(S)
    BY FS_Subset, QueueAssumption
  <2> QED
    BY <2>1 DEF IInv, TypeOK, QueueMove, Free
<1>2. PICK s \in LoopOrder(op, S) :
          batch' = [batch EXCEPT ![th] = [op |-> op, rest |-> s, who |-> S, start |-> pos]]
  BY DEF QueueMove
<1> DEFINE D == 1 .. Cardinality(S)
<1>3. Cardinality(S) \in Nat
  BY <1>1, FS_CardinalityType
<1>4. /\ s \in [D -> S]
      /\ \A i, j \in D : i < j =>
            /\ s[i] # s[j]
            /\ op \in {"up", "bottom"} => pos[s[i]] <= pos[s[j]]
            /\ op \in {"top", "down"} => pos[s[i]] >= pos[s[j]]
  BY DEF LoopOrder
<1>5. s \in Seq(S) /\ Len(s) = Cardinality(S)
  BY <1>3, <1>4
<1>6. Range(s) = S
  <2>1. \A i, j \in D : s[i] = s[j] => i = j
    BY <1>3, <1>4
  <2>2. s \in Injection(D, S)
    BY <1>4, <2>1 DEF Injection, IsInjective
  <2>3. s \in Surjection(D, S)
    BY <1>1, <1>3, <2>2, FS_Injection, FS_Interval
  <2> QED
    BY <1>4, <2>3 DEF Surjection, Range
<1> DEFINE b == [op |-> op, rest |-> s, who |-> S, start |-> pos]
<1>7. b.op = op /\ b.rest = s /\ b.who = S /\ b.start = pos
  OBVIOUS
<1>8. batch'[th] = b
  BY <1>1, <1>2 DEF TypeOK
<1> HIDE DEF b
<1>9. Turns(b, s)
  <2>1. \A i, j \in 1 .. Len(s) : i < j => s[i] # s[j] /\ MovedFirst(b, s[i], s[j])
    BY <1>4, <1>5, <1>7 DEF MovedFirst
  <2>2. S \ Range(s) = {}
    BY <1>6
  <2> QED
    BY <1>3, <1>5, <1>7, <2>1, <2>2 DEF Turns
<1>10. Numbered(inSession, pos)
  BY <1>1 DEF Numbered
<1>11. MoveSound(b, s, inSession, pos)
  BY <1>1, <1>5, <1>6, <1>7, <1>9, <1>10, MoveSoundFirst
<1>12. /\ ~Walking(th)' /\ inSession' = inSession
       /\ Upcoming(th)' = s /\ Settled(th)' = pos
  <2>1. ~Walking(th)' /\ inSession' = inSession /\ pos' = pos
    BY <1>1 DEF QueueMove, Walking
  <2>2. Settled(th)' = pos'
    BY <1>1, <2>1 DEF Settled
  <2> QED
    BY <1>7, <1>8, <2>1, <2>2 DEF Upcoming
<1>13. \A o \in Thread : o = th
  BY DEF OneThread
<1> QED
  BY <1>8, <1>11, <1>12, <1>13 DEF MoveInv

(* The call for the next torrent of a batch.                               *)
LEMMA NextMoveBatch ==
    ASSUME OneThread, IInv, MoveInv, NEW th \in Thread, NextMove(th)
    PROVE  MoveInv'
<1> DEFINE b == batch[th]
           r == b.rest
           t == Head(r)
<1>1. InBatch(th) /\ ~Walking(th) /\ r # <<>> /\ TypeOK
  BY DEF NextMove, IInv
<1>2. /\ b \in Batch /\ b.op \in MoveOp /\ r \in Seq(Torrent)
      /\ b.who \in SUBSET inSession
  BY <1>1, BatchOf
<1>3. MoveSound(b, r, inSession, Settled(th))
  BY <1>1 DEF MoveInv, Upcoming
<1>4. t \in Torrent /\ t \in inSession
  <2>1. t \in b.who
    <3>1. r \in Seq(b.who)
      BY <1>3 DEF MoveSound, Turns
    <3> QED
      BY <1>1, <3>1
  <2> QED
    BY <1>1, <1>2, <2>1 DEF TypeOK
<1>5. \A v \in inSession : Settled(th)'[v] = Settled(th)[v]
  BY NextMoveIInv
<1>6. pos[t] \in Int /\ pos[t] >= 0
  <2>1. Settled(th) = pos
    BY <1>1 DEF Settled, TypeOK
  <2>2. IsSequenced(pos) /\ torrentCount \in Nat
    BY <1>1, <2>1 DEF IInv, TypeOK
  <2> QED
    BY <1>4, <2>2 DEF IsSequenced
<1> DEFINE c == [b EXCEPT !.rest = Tail(r)]
           w == [tor |-> t, old |-> pos[t], new |-> GreaterOf(Target(b.op, t), 0),
                 todo |-> inSession, back |-> -1]
<1>7. batch'[th] = c /\ walk'[th] = w /\ inSession' = inSession
  <2>1. batch' = [batch EXCEPT ![th] = [b EXCEPT !.rest = Tail(b.rest)]]
    BY DEF NextMove
  <2>2. walk' = [walk EXCEPT ![th] = w]
    BY DEF NextMove, BeginWalk
  <2>3. inSession' = inSession
    BY DEF NextMove
  <2> HIDE DEF c, w
  <2> QED
    BY <1>1, <2>1, <2>2, <2>3 DEF TypeOK, c
<1>8. c.op = b.op /\ c.who = b.who /\ c.start = b.start /\ c.rest = Tail(r)
  BY <1>2 DEF Batch
<1>9. w.tor = t /\ w.old = pos[t] /\ w.new = GreaterOf(Target(b.op, t), 0)
  OBVIOUS
<1>10. AsksFor(b.op, w.old, w.new)
  <2>1. CASE b.op = "top"
    BY <1>9, <2>1 DEF AsksFor, Target, GreaterOf
  <2>2. CASE b.op = "bottom"
    BY <1>9, <2>2, QueueAssumption DEF AsksFor, Target, GreaterOf
  <2>3. CASE b.op = "up"
    <3>1. w.new = GreaterOf(pos[t] - 1, 0)
      BY <1>9, <2>3 DEF Target
    <3> QED
      BY <1>6, <1>9, <2>3, <3>1 DEF AsksFor, GreaterOf
  <2>4. CASE b.op = "down"
    <3>1. w.new = GreaterOf(pos[t] + 1, 0)
      BY <1>9, <2>4 DEF Target
    <3> QED
      BY <1>6, <1>9, <2>4, <3>1 DEF AsksFor, GreaterOf
  <2> QED
    BY <1>2, <2>1, <2>2, <2>3, <2>4 DEF MoveOp
<1> HIDE DEF c, w
<1>11. Walking(th)'
  <2>1. Target(b.op, t) \in Int
    BY <1>2, <1>6, QueueAssumption DEF Target, MoveOp
  <2>2. GreaterOf(Target(b.op, t), 0) \in Nat
    BY <2>1 DEF GreaterOf
  <2>3. w \in Walk
    BY <1>1, <1>4, <1>6, <2>2 DEF w, Walk, TypeOK
  <2> QED
    BY <1>7, <2>3, QueueAssumption DEF Walking
<1>12. Upcoming(th)' = r
  <2>1. Upcoming(th)' = <<t>> \o Tail(r)
    BY <1>7, <1>8, <1>9, <1>11 DEF Upcoming
  <2>2. \A z \in Seq(Torrent) : z # <<>> => <<Head(z)>> \o Tail(z) = z
    OBVIOUS
  <2> QED
    BY <1>1, <1>2, <2>1, <2>2
<1>13. MoveSound(c, r, inSession, Settled(th)')
  BY <1>2, <1>3, <1>5, <1>8, MoveSoundSame
<1>14. \A o \in Thread : o = th
  BY DEF OneThread
<1> QED
  BY <1>7, <1>8, <1>10, <1>12, <1>13, <1>14 DEF MoveInv

LEMMA VisitTorrentBatch ==
    ASSUME OneThread, IInv, MoveInv, NEW th \in Thread, NEW u \in Torrent, VisitTorrent(th, u)
    PROVE  MoveInv'
<1> DEFINE b == batch[th]
           w == walk[th]
           T == w.todo \ {u}
           k == GreaterOf(w.back, Shift(w.old, w.new, pos[u]))
           z == [w EXCEPT !.todo = T, !.back = k]
<1>1. \A v \in inSession : Settled(th)'[v] = Settled(th)[v]
  BY VisitTorrentIInv
<1>2. w \in Walk /\ w # None /\ walk' = [walk EXCEPT ![th] = z]
  BY DEF VisitTorrent, IInv, TypeOK, Walking
<1>3. UNCHANGED <<inSession, batch>>
  BY DEF VisitTorrent
<1> HIDE DEF T, k
<1>4. z.tor = w.tor /\ z.old = w.old /\ z.new = w.new
  BY <1>2 DEF Walk
<1>5. walk'[th] = z /\ Walking(th) /\ Walking(th)'
  <2>1. walk'[th] = z
    BY <1>2 DEF IInv, TypeOK
  <2>2. walk'[th] \in Walk \cup {None} /\ z # None
    <3>1. GreaterOf(w.back, Shift(w.old, w.new, pos[u])) \in Int
      <4>1. u \in Torrent /\ pos[u] \in Int /\ w.old \in Int /\ w.new \in Int /\ w.back \in Int
        BY <1>2 DEF Walk, IInv, TypeOK
      <4> QED
        BY <4>1 DEF GreaterOf, Shift
    <3>2. T \in SUBSET Torrent /\ k \in Int
      BY <1>2, <3>1 DEF Walk, T, k
    <3>3. z \in Walk
      BY <1>2, <3>2 DEF Walk
    <3> QED
      BY <2>1, <3>3, QueueAssumption
  <2> QED
    BY <1>2, <2>1, <2>2 DEF Walking
<1> HIDE DEF z
<1>6. ASSUME InBatch(th)'
      PROVE  /\ MoveSound(batch[th], Upcoming(th), inSession, Settled(th))'
             /\ AsksFor(batch[th].op, walk[th].old, walk[th].new)'
  <2>1. /\ InBatch(th) /\ MoveSound(b, Upcoming(th), inSession, Settled(th))
        /\ AsksFor(b.op, w.old, w.new)
    BY <1>3, <1>5, <1>6 DEF InBatch, MoveInv
  <2>2. b.who \in SUBSET inSession
    BY <2>1, BatchOf
  <2>3. Upcoming(th)' = Upcoming(th)
    BY <1>3, <1>4, <1>5 DEF Upcoming
  <2>4. MoveSound(b, Upcoming(th), inSession, Settled(th)')
    BY <1>1, <2>1, <2>2, MoveSoundSame
  <2>5. /\ walk'[th].old = w.old /\ walk'[th].new = w.new
        /\ batch'[th] = b /\ inSession' = inSession
    BY <1>3, <1>4, <1>5
  <2> QED
    BY <2>1, <2>3, <2>4, <2>5 DEF AsksFor
<1>7. \A o \in Thread : o = th
  BY DEF OneThread
<1> QED
  BY <1>6, <1>7 DEF MoveInv

(* The end of a call made for a batch.                                     *)
LEMMA PlaceTorrentTurn ==
    ASSUME OneThread, IInv, MoveInv, NEW th \in Thread, PlaceTorrent(th), InBatch(th)
    PROVE  MoveSound(batch[th], batch[th].rest, inSession, pos')
<1> DEFINE b == batch[th]
           w == walk[th]
           up == Upcoming(th)
           place == LesserOf(w.new, w.back + 1)
           n == torrentCount
<1>1. /\ IInv'
      /\ Repositioned(inSession, n, Settled(th), w.tor, place, pos')
      /\ Settled(th)' = pos'
      /\ place = IF w.new < n THEN w.new ELSE n - 1
  BY PlaceTorrentIInv
<1>2. /\ b.op \in MoveOp /\ b.rest \in Seq(Torrent) /\ b.who \in SUBSET inSession
      /\ IsFiniteSet(b.who) /\ Numbered(inSession, b.start)
  BY BatchOf
<1>3. Walking(th) /\ UNCHANGED <<inSession, torrentCount>>
  BY DEF PlaceTorrent
<1>4. MoveSound(b, up, inSession, Settled(th)) /\ AsksFor(b.op, w.old, w.new)
  BY <1>3 DEF MoveInv
<1>5. w.tor \in inSession /\ w.tor \in Torrent /\ w.old \in Int /\ w.new \in Nat
  BY <1>3 DEF IInv, TypeOK, Walking, WalkSound, Walk
<1>6. up # <<>> /\ Head(up) = w.tor /\ Tail(up) = b.rest
  <2>1. up = <<w.tor>> \o b.rest
    BY <1>3 DEF Upcoming
  <2>2. \A x \in Torrent, r \in Seq(Torrent) :
           <<x>> \o r # <<>> /\ Head(<<x>> \o r) = x /\ Tail(<<x>> \o r) = r
    OBVIOUS
  <2> QED
    BY <1>2, <1>5, <2>1, <2>2
<1>7. n \in Nat /\ Sequenced(inSession, n, Settled(th)) /\ n <= IntMax
  BY LineOfState, CountFits
<1>8. Sequenced(inSession, n, pos')
  BY <1>1, <1>3 DEF IInv, IsSequenced, Sequenced
<1>9. Settled(th)[w.tor] = w.old /\ w.old \in 0 .. n - 1
  BY <1>3, <1>5, <1>7 DEF Settled, Sequenced
<1> HIDE DEF up, place
<1>10. /\ b.op = "top" => place = 0
       /\ b.op = "bottom" => place = n - 1
       /\ b.op = "up" => place <= w.old
       /\ b.op = "down" => place >= w.old
  <2>1. n \in Nat /\ IntMax \in Nat
    BY <1>7, QueueAssumption
  <2> QED
    BY <1>1, <1>4, <1>5, <1>7, <1>9, <2>1 DEF AsksFor
<1>11. MoveSound(b, Tail(up), inSession, pos')
  BY <1>1, <1>2, <1>4, <1>6, <1>7, <1>8, <1>9, <1>10, TurnTaken
<1> QED
  BY <1>6, <1>11

LEMMA PlaceTorrentBatch ==
    ASSUME OneThread, IInv, MoveInv, NEW th \in Thread, PlaceTorrent(th)
    PROVE  MoveInv'
<1>1. UNCHANGED inSession /\ ~Walking(th)' /\ Settled(th)' = pos'
  BY PlaceTorrentIInv DEF PlaceTorrent, Walking, IInv, TypeOK
<1>2. InBatch(th)' => InBatch(th) /\ batch'[th] = batch[th]
  BY DEF PlaceTorrent, InBatch, IInv, TypeOK
<1>3. InBatch(th)' => MoveSound(batch[th], Upcoming(th), inSession, Settled(th))'
  BY <1>1, <1>2, PlaceTorrentTurn DEF Upcoming
<1>4. \A o \in Thread : o = th
  BY DEF OneThread
<1> QED
  BY <1>1, <1>3, <1>4 DEF MoveInv

LEMMA NextMoveInv == OneThread /\ IInv /\ MoveInv /\ [Next]_vars => MoveInv'
<1> SUFFICES ASSUME OneThread, IInv, MoveInv, [Next]_vars PROVE MoveInv'
  OBVIOUS
<1>1. ASSUME NEW th \in Thread, ~InBatch(th), batch' = batch PROVE MoveInv'
  BY <1>1, NoBatch DEF InBatch
<1>2. ASSUME NEW th \in Thread, NEW t \in Torrent, TorrentInit(th, t) PROVE MoveInv'
  BY <1>1, <1>2 DEF TorrentInit, Free
<1>3. ASSUME NEW th \in Thread, NEW t \in Torrent, FreeTorrent(th, t) PROVE MoveInv'
  BY <1>1, <1>3 DEF FreeTorrent, Free
<1>4. ASSUME NEW th \in Thread, NEW t \in Torrent, NEW p \in -1 .. torrentCount,
             SetQueuePosition(th, t, p)
      PROVE  MoveInv'
  BY <1>1, <1>4 DEF SetQueuePosition, Free
<1>5. ASSUME NEW th \in Thread, NEW t \in Torrent, VisitTorrent(th, t) PROVE MoveInv'
  BY <1>5, VisitTorrentBatch
<1>6. ASSUME NEW th \in Thread, PlaceTorrent(th) PROVE MoveInv'
  BY <1>6, PlaceTorrentBatch
<1>7. ASSUME NEW th \in Thread, NEW op \in MoveOp, NEW S \in SUBSET Torrent,
             QueueMove(th, op, S)
      PROVE  MoveInv'
  BY <1>7, QueueMoveBatch
<1>8. ASSUME NEW th \in Thread, NextMove(th) PROVE MoveInv'
  BY <1>8, NextMoveBatch
<1>9. CASE UNCHANGED vars
  <2>1. /\ inSession' = inSession /\ pos' = pos /\ walk' = walk /\ batch' = batch
    BY <1>9 DEF vars
  <2>2. ASSUME NEW th \in Thread
        PROVE  /\ Settled(th)' = Settled(th) /\ Upcoming(th)' = Upcoming(th)
               /\ Walking(th)' <=> Walking(th)
               /\ InBatch(th)' <=> InBatch(th)
    BY <2>1 DEF Settled, Upcoming, Walking, InBatch
  <2> QED
    BY <2>1, <2>2 DEF MoveInv
<1> QED
  BY <1>2, <1>3, <1>4, <1>5, <1>6, <1>7, <1>8, <1>9 DEF Next

LEMMA BatchInvariantHolds == ASSUME OneThread PROVE Spec => []MoveInv
<1>1. Init => MoveInv
  BY DEF Init, MoveInv, InBatch
<1>2. IInv /\ MoveInv /\ [Next]_vars => MoveInv'
  BY NextMoveInv
<1> QED
  BY <1>1, <1>2, InvariantHolds, PTL DEF Spec

(* A batch ends with the last of its torrents put in its place.            *)
LEMMA BatchEnds ==
    ASSUME OneThread, IInv, IInv', MoveInv, Next, NEW th \in Thread, NEW op, BatchDone(th, op)
    PROVE  /\ batch[th].op = op
           /\ MoveSound(batch[th], <<>>, inSession, pos')
<1>1. InBatch(th) /\ batch[th].op = op /\ batch'[th] = None
  BY DEF BatchDone
<1>2. \A o \in Thread : o = th
  BY DEF OneThread
<1>3. PlaceTorrent(th)
  <2>1. ASSUME NEW o \in Thread, Free(o) PROVE FALSE
    BY <1>1, <1>2, <2>1 DEF Free
  <2>2. ASSUME NEW o \in Thread, batch' = batch PROVE FALSE
    BY <1>1, <2>2 DEF InBatch
  <2>3. ASSUME NEW o \in Thread, NextMove(o) PROVE FALSE
    <3>1. batch'[th] = [batch[th] EXCEPT !.rest = Tail(batch[th].rest)]
      BY <1>2, <2>3 DEF NextMove, IInv, TypeOK
    <3>2. batch[th] \in Batch /\ batch[th].rest \in Seq(Torrent) /\ batch[th].rest # <<>>
      BY <1>1, <1>2, <2>3, BatchOf DEF NextMove
    <3>3. Tail(batch[th].rest) \in Seq(Torrent)
      BY <3>2
    <3>4. [batch[th] EXCEPT !.rest = Tail(batch[th].rest)] \in Batch
      BY <3>2, <3>3 DEF Batch
    <3> QED
      BY <1>1, <3>1, <3>4, QueueAssumption
  <2>4. ~(\E o \in Thread :
            \/ \E t \in Torrent : TorrentInit(o, t) \/ FreeTorrent(o, t) \/ VisitTorrent(o, t)
            \/ \E t \in Torrent : \E p \in -1 .. torrentCount : SetQueuePosition(o, t, p)
            \/ \E m \in MoveOp : \E S \in SUBSET Torrent : QueueMove(o, m, S)
            \/ NextMove(o))
    BY <2>1, <2>2, <2>3 DEF TorrentInit, FreeTorrent, VisitTorrent, SetQueuePosition, QueueMove
  <2> QED
    BY <1>2, <2>4 DEF Next
<1>4. batch[th].rest = <<>>
  BY <1>1, <1>3 DEF PlaceTorrent, InBatch, IInv, TypeOK
<1> QED
  BY <1>1, <1>3, <1>4, PlaceTorrentTurn

LEMMA NothingLeft == ASSUME NEW W PROVE W \ Range(<<>>) = W
BY DEF Range

(* Called from one thread, QueueMoveTop ends with its batch in front of    *)
(* all other torrents and QueueMoveBottom with its batch behind them, both *)
(* the batch and the others in the order they had before, although each    *)
(* torrent is moved by a walk of its own.                                  *)
THEOREM BatchesReachTheEnd == ASSUME OneThread PROVE Spec => BatchMovesToEnd
<1> DEFINE A == \A th \in Thread :
         /\ BatchDone(th, "top") =>
              /\ \A t \in Moved(th), u \in Others(th) : pos'[t] < pos'[u]
              /\ KeepsOrder(th, Moved(th)) /\ KeepsOrder(th, Others(th))
         /\ BatchDone(th, "bottom") =>
              /\ \A t \in Moved(th), u \in Others(th) : pos'[u] < pos'[t]
              /\ KeepsOrder(th, Moved(th)) /\ KeepsOrder(th, Others(th))
<1>1. ASSUME OneThread, IInv, IInv', MoveInv, Next PROVE A
  <2> SUFFICES ASSUME NEW th \in Thread
               PROVE  /\ BatchDone(th, "top") =>
                            AtFront(inSession, Moved(th), batch[th].start, pos')
                      /\ BatchDone(th, "bottom") =>
                            AtBack(inSession, Moved(th), batch[th].start, pos')
    BY DEF AtFront, AtBack, OrderKept, KeepsOrder, Others
  <2>1. BatchDone(th, "top") => AtFront(inSession, Moved(th), batch[th].start, pos')
    BY <1>1, BatchEnds, NothingLeft DEF MoveSound, Moved
  <2>2. BatchDone(th, "bottom") => AtBack(inSession, Moved(th), batch[th].start, pos')
    BY <1>1, BatchEnds, NothingLeft DEF MoveSound, Moved
  <2> QED
    BY <2>1, <2>2
<1>2. IInv /\ IInv' /\ MoveInv /\ [Next]_vars => [A]_vars
  BY <1>1
<1> QED
  BY <1>2, InvariantHolds, BatchInvariantHolds, PTL DEF Spec, BatchMovesToEnd

(* Called from one thread, QueueMoveUp and QueueMoveDown leave the other   *)
(* torrents in their order and carry none of them by more places than the  *)
(* batch has torrents, back for "up" and forward for "down".               *)
THEOREM StepsCarryOthers == ASSUME OneThread PROVE Spec => StepKeepsOthers
<1> DEFINE A == \A th \in Thread : \A op \in {"up", "down"} :
         BatchDone(th, op) =>
              /\ KeepsOrder(th, Others(th))
              /\ \A u \in Others(th) :
                    LET d == pos'[u] - batch[th].start[u]
                    IN  IF op = "up" THEN d \in 0 .. Cardinality(Moved(th))
                        ELSE -d \in 0 .. Cardinality(Moved(th))
<1>1. ASSUME OneThread, IInv, IInv', MoveInv, Next PROVE A
  <2> SUFFICES ASSUME NEW th \in Thread
               PROVE  /\ BatchDone(th, "up") =>
                            CarriedBack(Others(th), batch[th].start, pos', Cardinality(Moved(th)))
                      /\ BatchDone(th, "down") =>
                            CarriedForth(Others(th), batch[th].start, pos', Cardinality(Moved(th)))
    BY DEF CarriedBack, CarriedForth, OrderKept, KeepsOrder
  <2>1. ASSUME NEW op, BatchDone(th, op)
        PROVE  Cardinality(Moved(th)) - Len(<<>>) = Cardinality(Moved(th))
    <3>1. IsFiniteSet(Moved(th))
      BY <1>1, <2>1, BatchOf DEF BatchDone, Moved
    <3>2. Cardinality(Moved(th)) \in Nat
      BY <3>1, FS_CardinalityType
    <3> QED
      BY <3>2
  <2>2. BatchDone(th, "up") =>
           CarriedBack(Others(th), batch[th].start, pos', Cardinality(Moved(th)))
    BY <1>1, <2>1, BatchEnds DEF MoveSound, Moved, Others
  <2>3. BatchDone(th, "down") =>
           CarriedForth(Others(th), batch[th].start, pos', Cardinality(Moved(th)))
    BY <1>1, <2>1, BatchEnds DEF MoveSound, Moved, Others
  <2> QED
    BY <2>2, <2>3
<1>2. IInv /\ IInv' /\ MoveInv /\ [Next]_vars => [A]_vars
  BY <1>1
<1> QED
  BY <1>2, InvariantHolds, BatchInvariantHolds, PTL DEF Spec, StepKeepsOthers
=============================================================================
