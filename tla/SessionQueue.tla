---------------------------- MODULE SessionQueue ----------------------------
(***************************************************************************)
(* The queue positions of the session's torrents: libtransmission keeps,   *)
(* in every tr_torrent, an int queuePosition, and promises that the        *)
(* positions of the n torrents of a session are always 0..n-1 (the assert  *)
(* of queueIsSequenced, torrent.c).                                        *)
(*                                                                         *)
(* torrentInit and freeTorrent change the list and the positions under the *)
(* session lock, so each is one step.  tr_torrentSetQueuePosition takes no *)
(* lock: it walks the list one torrent at a time, with the moved torrent   *)
(* parked at -1, so each visit is a step and another thread may act        *)
(* between two visits.  The Move{Top,Up,Down,Bottom} operations sort a     *)
(* batch and call it once per torrent.                                     *)
(***************************************************************************)
EXTENDS Integers, Sequences, FiniteSets

CONSTANTS
    Torrent,    (* the tr_torrent structs that may enter the session        *)
    Thread,     (* the threads that add, free or reorder torrents           *)
    IntMax,     (* INT_MAX, the position QueueMoveBottom asks for           *)
    None        (* no call in progress                                      *)

VARIABLES
    inSession,      (* the torrents linked in session->torrentList          *)
    torrentCount,   (* session->torrentCount                                *)
    pos,            (* tor->queuePosition                                   *)
    walk,           (* per thread, the SetQueuePosition call in progress    *)
    batch           (* per thread, the QueueMove* call in progress          *)

vars == <<inSession, torrentCount, pos, walk, batch>>
-----------------------------------------------------------------------------
MoveOp == {"top", "up", "down", "bottom"}

(* The locals of tr_torrentSetQueuePosition: the moved torrent, old_pos,   *)
(* the clamped pos, the torrents the loop has not visited yet, back.       *)
Walk == [tor : Torrent, old : Int, new : Nat, todo : SUBSET Torrent, back : Int]

(* The sorted copy of torrents_in that is left to move; "who" and "start"  *)
(* record the batch and the positions it found, for the properties.        *)
Batch == [op : MoveOp, rest : Seq(Torrent), who : SUBSET Torrent,
          start : [Torrent -> Int]]

ASSUME QueueAssumption ==
    /\ IsFiniteSet(Torrent)
    /\ Thread # {}
    /\ IntMax \in Nat
    /\ None \notin Walk /\ None \notin Batch

(* torrentCount is an int: there are no more torrents than it can count.   *)
ASSUME CountAssumption == Cardinality(Torrent) <= IntMax

Walking(th) == walk[th] # None
InBatch(th) == batch[th] # None
Free(th) == ~Walking(th) /\ ~InBatch(th)

LesserOf(a, b) == IF a < b THEN a ELSE b
GreaterOf(a, b) == IF a > b THEN a ELSE b

(* Mutant of Shift: the torrent at the new position is not shifted.        *)
ShiftShort(old, new, q) ==
    IF old < new /\ old <= q /\ q < new THEN q - 1
    ELSE IF old > new /\ new <= q /\ q < old THEN q + 1
    ELSE q

(* The shift one visit of the loop applies to a position q.                *)
Shift(old, new, q) ==
    IF old < new /\ old <= q /\ q <= new THEN q - 1
    ELSE IF old > new /\ new <= q /\ q < old THEN q + 1
    ELSE q

(* Mutant of LoopOrder: every move walks its sorted batch upwards.         *)
LoopOrderUpwards(op, S) ==
    { s \in [1 .. Cardinality(S) -> S] :
        \A i, j \in 1 .. Cardinality(S) : i < j => s[i] # s[j] /\ pos[s[i]] <= pos[s[j]] }

(* qsort by queuePosition, read in the direction of the move's for loop.   *)
(* qsort leaves the order of equal positions open.                         *)
LoopOrder(op, S) ==
    { s \in [1 .. Cardinality(S) -> S] :
        \A i, j \in 1 .. Cardinality(S) : i < j =>
            /\ s[i] # s[j]
            /\ op \in {"up", "bottom"} => pos[s[i]] <= pos[s[j]]
            /\ op \in {"top", "down"} => pos[s[i]] >= pos[s[j]] }

(* Mutant of Target: up and down are swapped.                              *)
TargetSwapped(op, t) ==
    CASE op = "top"    -> 0
      [] op = "up"     -> pos[t] + 1
      [] op = "down"   -> pos[t] - 1
      [] op = "bottom" -> IntMax

(* The position each iteration of a move asks for.                         *)
Target(op, t) ==
    CASE op = "top"    -> 0
      [] op = "up"     -> pos[t] - 1
      [] op = "down"   -> pos[t] + 1
      [] op = "bottom" -> IntMax
-----------------------------------------------------------------------------
Init ==
    /\ inSession = {}
    /\ torrentCount = 0
    /\ pos = [t \in Torrent |-> 0]
    /\ walk = [th \in Thread |-> None]
    /\ batch = [th \in Thread |-> None]

(* torrentInit: the new torrent takes the last position and joins the list *)
TorrentInit(th, t) ==
    /\ Free(th)
    /\ t \notin inSession
    /\ pos' = [pos EXCEPT ![t] = torrentCount]
    /\ torrentCount' = torrentCount + 1
    /\ inSession' = inSession \cup {t}
    /\ UNCHANGED <<walk, batch>>

(* Mutant of FreeTorrent: the last torrent fills the gap.                  *)
FreeTorrentSwaps(th, t) ==
    /\ Free(th)
    /\ t \in inSession
    /\ \A o \in Thread : /\ Walking(o) => walk[o].tor # t
                         /\ InBatch(o) => t \notin batch[o].who
    /\ inSession' = inSession \ {t}
    /\ torrentCount' = torrentCount - 1
    /\ pos' = [u \in Torrent |->
                  IF u \in inSession \ {t} /\ pos[u] = torrentCount - 1 THEN pos[t] ELSE pos[u]]
    /\ UNCHANGED <<walk, batch>>

(* freeTorrent: unlink it, then close the gap it leaves in the positions.  *)
(* A loop of another thread that had not visited t yet finds it unlinked.  *)
(* A client does not move a torrent that it has asked to remove.           *)
FreeTorrent(th, t) ==
    /\ Free(th)
    /\ t \in inSession
    /\ \A o \in Thread : /\ Walking(o) => walk[o].tor # t
                         /\ InBatch(o) => t \notin batch[o].who
    /\ inSession' = inSession \ {t}
    /\ torrentCount' = torrentCount - 1
    /\ pos' = [u \in Torrent |->
                  IF u \in inSession \ {t} /\ pos[u] > pos[t] THEN pos[u] - 1 ELSE pos[u]]
    /\ walk' = [o \in Thread |->
                  IF Walking(o) THEN [walk[o] EXCEPT !.todo = @ \ {t}] ELSE walk[o]]
    /\ UNCHANGED batch

(* Mutant of BeginWalk: a negative position is not clamped.                *)
BeginWalkUnclamped(th, t, p) ==
    /\ walk' = [walk EXCEPT ![th] =
                  [tor |-> t, old |-> pos[t], new |-> p, todo |-> inSession, back |-> -1]]
    /\ pos' = [pos EXCEPT ![t] = -1]

(* tr_torrentSetQueuePosition up to its loop: clamp pos, park the torrent. *)
BeginWalk(th, t, p) ==
    /\ walk' = [walk EXCEPT ![th] =
                  [tor |-> t, old |-> pos[t], new |-> GreaterOf(p, 0),
                   todo |-> inSession, back |-> -1]]
    /\ pos' = [pos EXCEPT ![t] = -1]

SetQueuePosition(th, t, p) ==
    /\ Free(th)
    /\ t \in inSession
    /\ BeginWalk(th, t, p)
    /\ UNCHANGED <<inSession, torrentCount, batch>>

(* One iteration of its loop.                                              *)
VisitTorrent(th, u) ==
    /\ Walking(th)
    /\ u \in walk[th].todo
    /\ LET q == Shift(walk[th].old, walk[th].new, pos[u])
       IN  /\ pos' = [pos EXCEPT ![u] = q]
           /\ walk' = [walk EXCEPT ![th].todo = @ \ {u},
                                   ![th].back = GreaterOf(@, q)]
    /\ UNCHANGED <<inSession, torrentCount, batch>>

(* After the loop: the torrent takes its place; a finished batch is freed. *)
PlaceTorrent(th) ==
    /\ Walking(th)
    /\ walk[th].todo = {}
    /\ pos' = [pos EXCEPT ![walk[th].tor] = LesserOf(walk[th].new, walk[th].back + 1)]
    /\ walk' = [walk EXCEPT ![th] = None]
    /\ batch' = [batch EXCEPT ![th] =
                   IF InBatch(th) /\ batch[th].rest = <<>> THEN None ELSE @]
    /\ UNCHANGED <<inSession, torrentCount>>

(* tr_torrentsQueueMove{Top,Up,Down,Bottom}: copy and sort the array.      *)
QueueMove(th, op, S) ==
    /\ Free(th)
    /\ S # {} /\ S \subseteq inSession
    /\ \E s \in LoopOrder(op, S) :
          batch' = [batch EXCEPT ![th] = [op |-> op, rest |-> s, who |-> S, start |-> pos]]
    /\ UNCHANGED <<inSession, torrentCount, pos, walk>>

(* One iteration of its loop: a SetQueuePosition call for the next torrent *)
NextMove(th) ==
    /\ InBatch(th) /\ ~Walking(th)
    /\ batch[th].rest # <<>>
    /\ LET t == Head(batch[th].rest)
       IN  BeginWalk(th, t, Target(batch[th].op, t))
    /\ batch' = [batch EXCEPT ![th].rest = Tail(@)]
    /\ UNCHANGED <<inSession, torrentCount>>

Next ==
    \E th \in Thread :
        \/ \E t \in Torrent : TorrentInit(th, t)
        \/ \E t \in Torrent : FreeTorrent(th, t)
        \/ \E t \in Torrent : \E p \in -1 .. torrentCount : SetQueuePosition(th, t, p)
        \/ \E t \in Torrent : VisitTorrent(th, t)
        \/ PlaceTorrent(th)
        \/ \E op \in MoveOp : \E S \in SUBSET Torrent : QueueMove(th, op, S)
        \/ NextMove(th)

Spec == Init /\ [][Next]_vars
-----------------------------------------------------------------------------
TypeOK ==
    /\ inSession \subseteq Torrent
    /\ torrentCount \in Nat
    /\ pos \in [Torrent -> Int]
    /\ walk \in [Thread -> Walk \cup {None}]
    /\ batch \in [Thread -> Batch \cup {None}]

(* The positions of the torrents of the session are 0..n-1, each once.     *)
IsSequenced(p) ==
    /\ \A t \in inSession : p[t] \in 0 .. torrentCount - 1
    /\ \A t, u \in inSession : p[t] = p[u] => t = u
    /\ \A i \in 0 .. torrentCount - 1 : \E t \in inSession : p[t] = i

(* queueIsSequenced, asserted at the end of tr_torrentSetQueuePosition and *)
(* of freeTorrent: whenever no walk is in progress the positions are a     *)
(* permutation of 0..n-1, whatever was added, freed and moved before.      *)
QueueSequenced == (\A th \in Thread : ~Walking(th)) => IsSequenced(pos)

(* The position a torrent held before the walk in progress touched it: the *)
(* parked torrent still counts at its old place, a visited one at the      *)
(* place it was shifted from.                                              *)
Unshift(old, new, q) ==
    IF old < new /\ old <= q /\ q < new THEN q + 1
    ELSE IF old > new /\ new < q /\ q <= old THEN q - 1
    ELSE q

Settled(th) ==
    [t \in Torrent |->
        IF ~Walking(th) THEN pos[t]
        ELSE IF t = walk[th].tor THEN walk[th].old
        ELSE IF t \in walk[th].todo THEN pos[t]
        ELSE Unshift(walk[th].old, walk[th].new, pos[t])]

(* The only thread of an instance in which nothing overlaps a walk.        *)
Walker == CHOOSE th \in Thread : TRUE

(* The queue as a line of torrents.  A walk in progress shows the line it  *)
(* started from; PlaceTorrent is the step that changes it.                 *)
Line ==
    [i \in 1 .. torrentCount |->
        CHOOSE t \in inSession : Settled(Walker)[t] = i - 1]

Order == INSTANCE QueueOrder WITH order <- Line

(* The walks implement the line: each operation of the code is one         *)
(* operation of QueueOrder or invisible in it.                             *)
ImplementsQueueOrder == Order!Spec

(* A queue operation that has just completed.                              *)
BatchDone(th, op) == InBatch(th) /\ batch[th].op = op /\ batch'[th] = None

Moved(th) == batch[th].who
Others(th) == inSession \ Moved(th)

(* QueueMoveTop brings the whole batch to the front, QueueMoveBottom to    *)
(* the back (transmission.h: "to the front / back of their queue"), and    *)
(* both keep the order that the moved torrents had among themselves and    *)
(* the order that the others had.                                          *)
KeepsOrder(th, S) ==
    \A t, u \in S : batch[th].start[t] < batch[th].start[u] => pos'[t] < pos'[u]

BatchMovesToEnd ==
    [][\A th \in Thread :
         /\ BatchDone(th, "top") =>
              /\ \A t \in Moved(th), u \in Others(th) : pos'[t] < pos'[u]
              /\ KeepsOrder(th, Moved(th)) /\ KeepsOrder(th, Others(th))
         /\ BatchDone(th, "bottom") =>
              /\ \A t \in Moved(th), u \in Others(th) : pos'[u] < pos'[t]
              /\ KeepsOrder(th, Moved(th)) /\ KeepsOrder(th, Others(th))]_vars

(* QueueMoveUp and QueueMoveDown never reorder the torrents that were not  *)
(* asked to move, and never carry one of those past its batch by more than *)
(* the batch's size.                                                       *)
StepKeepsOthers ==
    [][\A th \in Thread : \A op \in {"up", "down"} :
         BatchDone(th, op) =>
              /\ KeepsOrder(th, Others(th))
              /\ \A u \in Others(th) :
                    LET d == pos'[u] - batch[th].start[u]
                    IN  IF op = "up" THEN d \in 0 .. Cardinality(Moved(th))
                        ELSE -d \in 0 .. Cardinality(Moved(th))]_vars
=============================================================================
