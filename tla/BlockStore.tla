----------------------------- MODULE BlockStore -----------------------------
(***************************************************************************)
(* What the write path promises of the blocks it is given (tr_cacheWrite-  *)
(* Block and tr_cacheReadBlock in cache.h, tr_ioWrite in inout.h): a read  *)
(* of a block returns the data of its last write.  Data becomes durable at *)
(* times of the store's choosing, block by block and always under its own  *)
(* number.  Only a fault, a write the disk refuses or the end of the       *)
(* process, may take a block back to the data that was durable.            *)
(***************************************************************************)
EXTENDS Integers

CONSTANTS
    Block,      (* the blocks of all torrents                               *)
    Data,       (* what a block may hold                                    *)
    Blank       (* what a block holds before its first write                *)

VARIABLES
    content,    (* [Block -> Data], what a read returns                     *)
    durable,    (* [Block -> Data], what outlives the process               *)
    faults      (* how many faults have happened                            *)

NoWrite == [block |-> Blank, data |-> Blank]
Writes == [block : Block, data : Data]

Init ==
    /\ content = [b \in Block |-> Blank]
    /\ durable = content
    /\ faults = 0

(* At most one write, then some blocks become durable and, when there is a *)
(* fault, some fall back.                                                  *)
Step(w) ==
    /\ faults' \in {faults, faults + 1}
    /\ \A b \in Block :
         LET written == IF b = w.block THEN w.data ELSE content[b]
         IN  /\ durable'[b] \in {durable[b], written}
             /\ \/ content'[b] = written
                \/ faults' # faults /\ content'[b] = durable'[b]

Next == \E w \in Writes \cup {NoWrite} : Step(w)

Spec == Init /\ [][Next]_<<content, durable, faults>>
=============================================================================
