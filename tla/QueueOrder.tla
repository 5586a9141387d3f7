----------------------------- MODULE QueueOrder -----------------------------
(***************************************************************************)
(* What libtransmission promises of its queue (transmission.h, "There are  *)
(* independent queues ..."): the session's torrents stand in a line; a new *)
(* torrent goes to the back, a freed one leaves no gap, and                *)
(* tr_torrentSetQueuePosition takes one torrent out and puts it back at    *)
(* the place asked for: "pos <= 0 moves to the front; pos >= queue length  *)
(* moves to the back".                                                     *)
(***************************************************************************)
EXTENDS Integers, Sequences, SequencesExt

CONSTANTS Torrent

VARIABLE order      (* the torrents of the session, first in the queue first *)

Init == order = <<>>

Enqueue(t) ==
    /\ t \notin Range(order)
    /\ order' = Append(order, t)

Leave(t) ==
    /\ t \in Range(order)
    /\ order' = RemoveFirst(order, t)

(* Position p counts from 0; out of range means the nearest end.           *)
Reposition(t, p) ==
    LET others == RemoveFirst(order, t)
    IN  /\ t \in Range(order)
        /\ p \in 0 .. Len(others)
        /\ order' = InsertAt(others, p + 1, t)

Next ==
    \E t \in Torrent :
        \/ Enqueue(t)
        \/ Leave(t)
        \/ \E p \in 0 .. Len(order) : Reposition(t, p)

Spec == Init /\ [][Next]_order
=============================================================================
