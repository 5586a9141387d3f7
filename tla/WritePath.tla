----------------------------- MODULE WritePath ------------------------------
(***************************************************************************)
(* From a block that arrives to the bytes on disk: the blocks a torrent    *)
(* has (completion.c, torrent.c), the write cache and the disk             *)
(* (BlockCache), and the resume file that tells the next process what      *)
(* there is (session.c, resume.c).  Peers and web seeds send right data    *)
(* and bad data; the disk may fail; the process may end.                   *)
(*                                                                         *)
(* All of it runs in the event thread, one handler at a time, the handlers *)
(* in any order.  Abstracted: who was asked for which block (a peer may    *)
(* send any block that is missing; a web seed, whose answers are not       *)
(* compared with the requests, any block); the wait of stopTorrent in the  *)
(* pipe (TorrentLifecycle has it); every file is wanted.                   *)
(***************************************************************************)
EXTENDS BlockCache

CONSTANTS
    Limits,     (* the values max_blocks may be set to                      *)
    MaxFaults,  (* disk faults; the process may end once more (a bound)     *)
    MayBeBad,   (* the blocks that may arrive with bad data (a bound)       *)
    FromWeb,    (* the blocks a web seed is asked for (a bound)             *)
    MaxLate     (* web seed's answers that came too late (a bound)          *)

ASSUME WritePathAssumption ==
    /\ Limits \subseteq Nat /\ Limits # {}
    /\ MayBeBad \subseteq Block /\ FromWeb \subseteq Block
    /\ MaxFaults \in Nat /\ MaxLate \in Nat

VARIABLES
    cache,      (* tr_cache.blocks: sequence of [block, data]               *)
    limit,      (* tr_cache.max_blocks                                      *)
    disk,       (* [Block -> Data]                                          *)
    have,       (* blockBitfield of every torrent's tr_completion           *)
    resume,     (* the blocks the resume files say there are                *)
    run,        (* "running", "stopping" (isStopping set), "stopped",       *)
                (* "removed", or "closed" with the session                  *)
    error,      (* the torrents with a local error                          *)
    (* observed by the properties only *)
    faults,     (* faults so far                                            *)
    late,       (* writes by web seeds of blocks that were there, so far    *)
    lost,       (* blocks of complete pieces kept from the disk by a fault  *)
    rewritten,  (* blocks of complete pieces that a web seed wrote again    *)
    unsafe      (* torrents whose resume file was written although the      *)
                (* flush before it failed                                   *)

vars == <<cache, limit, disk, have, resume, run, error, faults, late,
          lost, rewritten, unsafe>>

(* Every variable keeps its type.                                          *)
TypeOK ==
    /\ cache \in Seq([block : Block, data : Data])
    /\ limit \in Limits
    /\ disk \in [Block -> Data]
    /\ have \in SUBSET Block /\ resume \in SUBSET Block
    /\ run \in [Torrent -> {"running", "stopping", "stopped", "removed", "closed"}]
    /\ error \subseteq Torrent
    /\ faults \in 0 .. MaxFaults + 1 /\ late \in 0 .. MaxLate
    /\ lost \in SUBSET Block /\ rewritten \in SUBSET Block /\ unsafe \subseteq Torrent

Init ==
    /\ cache = <<>> /\ limit \in Limits
    /\ disk = [b \in Block |-> Blank]
    /\ have = {} /\ resume = {}
    /\ run = [t \in Torrent |-> "running"] /\ error = {}
    /\ faults = 0 /\ late = 0 /\ lost = {} /\ rewritten = {} /\ unsafe = {}
-----------------------------------------------------------------------------
Mine(t) == {b \in Block : TorrentOf[b] = t}
Open(t) == run[t] \notin {"removed", "closed"}
IsRunning(t) == run[t] \in {"running", "stopping"}
Complete == {b \in have : PieceDone(have, PieceOf[b])}

Cached == {cache[i].block : i \in DOMAIN cache}

(* A block whose torrent was freed, its memory filled with ones: the next  *)
(* use of the cache follows its pointers, and the process ends.            *)
Dangling == \E b \in Cached : ~Open(TorrentOf[b])

(* The faults an operation may meet that writes these blocks and cached    *)
(* ones.                                                                   *)
MayMeet(blocks) ==
    {NoFault} \cup
    {f \in Faults : faults < MaxFaults /\ f.at \in Cached \cup blocks}

Here == Store(cache, disk)

(* The store after an operation that began with the torrents in the states *)
(* of runs.  readOrWritePiece reports the first error of a torrent by      *)
(* tr_torrentSetLocalError, which asks a running torrent to stop.          *)
Leave(s, runs) ==
    /\ cache' = s.cache /\ disk' = s.disk
    /\ error' = error \cup s.failed
    /\ run' = [t \in Torrent |->
                IF t \in s.failed \ error /\ runs[t] \in {"running", "stopping"}
                THEN "stopping" ELSE runs[t]]
    /\ faults' = IF s.lost = {} THEN faults ELSE faults + 1
-----------------------------------------------------------------------------
(* A block arrives.                                                        *)

(* Mutant of CheckPiece: whatever data there is passes.                    *)
CheckPieceSize(s, p) == \A b \in BlocksOf(p) : Content(s.cache, s.disk, b) # Blank

(* tr_ioTestPiece reads through the cache.                                 *)
CheckPiece(s, p) == \A b \in BlocksOf(p) : Content(s.cache, s.disk, b) = b

(* Every file the piece is in and that is complete now is flushed; an      *)
(* error of one does not keep the next from being tried.                   *)
FlushFiles(s, p, done, fault) ==
    LET complete == {f \in File : /\ \E b \in BlocksOf(p) : b \in FirstBlock[f] .. LastBlock[f]
                                  /\ FirstBlock[f] .. LastBlock[f] \subseteq done}
    IN  FoldLeft(LAMBDA st, f : IF f \in complete
                                THEN FlushFile([st EXCEPT !.err = FALSE], f, fault) ELSE st,
                 s, [f \in File |-> f])

(* TR_PEER_CLIENT_GOT_BLOCK, once the cache has the block and s is the     *)
(* store.  The block that completes a piece has the piece checked; what    *)
(* fails the check is forgotten.                                           *)
GotBlock(s, b, fault) ==
    LET p == PieceOf[b]
        now == have \cup {b}
        full == b \notin have /\ PieceDone(now, p)
        pass == full /\ CheckPiece(s, p)
        after == IF pass THEN FlushFiles(s, p, now, fault) ELSE s
    IN  /\ have' = IF full /\ ~pass THEN now \ BlocksOf(p) ELSE now
        /\ Leave(after, run)
        /\ lost' = ((lost \ {b}) \cup after.lost) \cap (Complete \cup IF pass THEN BlocksOf(p) ELSE {})

(* clientGotBlock: a block we asked this peer for, of a piece that is not  *)
(* complete.  An error from the cache, maybe of another torrent's blocks,  *)
(* is returned with the block in the cache and no event.                   *)
ClientGotBlock(b, d, fault) ==
    /\ IsRunning(TorrentOf[b]) /\ ~Dangling
    /\ b \notin have
    /\ \E s \in WriteBlock(Here, b, d, limit, have, fault) :
         \/ s.err /\ Leave(s, run) /\ lost' = (lost \cup s.lost) \cap Complete /\ UNCHANGED have
         \/ ~s.err /\ GotBlock(s, b, IF s.lost = {} THEN fault ELSE NoFault)
    /\ UNCHANGED <<limit, resume, late, rewritten, unsafe>>

(* Mutant of Found: a freed torrent is found.                              *)
FoundAlways(t) == TRUE

(* tr_torrentFindFromId                                                    *)
Found(t) == Open(t)

(* write_block_func, and the end of web_response_func for the last block:  *)
(* the block goes to the cache whatever became of its request and of its   *)
(* piece, running or not, and an error is not looked at.                   *)
WebWrite(b, d, fault) ==
    /\ b \in FromWeb /\ Found(TorrentOf[b]) /\ ~Dangling
    /\ late' = IF b \in have THEN late + 1 ELSE late
    /\ late' <= MaxLate
    /\ rewritten' = rewritten \cup ({b} \cap Complete)
    /\ \E s \in WriteBlock(Here, b, d, limit, have, fault) :
         GotBlock(s, b, IF s.lost = {} THEN fault ELSE NoFault)
    /\ UNCHANGED <<limit, resume, unsafe>>
-----------------------------------------------------------------------------
(* The disk, the resume file and the end of the process.                   *)

(* tr_torrentSave of the torrents T, after a flush.                        *)
Save(T, failed) ==
    LET mine == {b \in Block : TorrentOf[b] \in T}
        changed == {b \in mine : (b \in resume) # (b \in have)}
    IN  /\ resume' = (resume \ mine) \cup (have \cap mine)
        /\ unsafe' = IF failed THEN unsafe \cup {TorrentOf[b] : b \in changed}
                     ELSE unsafe \ T

(* onSaveTimer: the torrents are saved even when the flush failed.         *)
SaveTimer(fault) ==
    /\ ~Dangling
    /\ \E s \in FlushDone(Here, have, fault) :
         /\ Leave(s, run)
         /\ lost' = (lost \cup s.lost) \cap Complete
         /\ Save({t \in Torrent : Open(t)}, s.err)
    /\ UNCHANGED <<limit, have, late, rewritten>>

(* tr_cacheSetLimit: one trim with the new limit.                          *)
SetLimit(n, fault) ==
    /\ n # limit /\ limit' = n /\ ~Dangling
    /\ \E s \in CacheTrim(Here, n, have, fault) :
         Leave(s, run) /\ lost' = (lost \cup s.lost) \cap Complete
    /\ UNCHANGED <<have, resume, late, rewritten, unsafe>>

(* stopTorrent, by the user or by bandwidthPulse, which obeys isStopping.  *)
StopTorrent(t, fault) ==
    LET s == FlushTorrent(Here, t, fault)
    IN  /\ IsRunning(t) /\ ~Dangling
        /\ Leave(s, [run EXCEPT ![t] = "stopped"])
        /\ lost' = (lost \cup s.lost) \cap Complete
        /\ Save({t}, s.err)
        /\ UNCHANGED <<limit, have, late, rewritten>>

(* torrentStartImpl: the error is cleared, and nothing is checked again.   *)
Start(t) ==
    /\ run[t] = "stopped"
    /\ run' = [run EXCEPT ![t] = "running"] /\ error' = error \ {t}
    /\ UNCHANGED <<cache, limit, disk, have, resume, faults, late, lost, rewritten,
                   unsafe>>

(* closeTorrent of a torrent that is removed: stopTorrent does not save it *)
(* and its resume file goes.                                               *)
RemoveTorrent(t, fault) ==
    LET s == FlushTorrent(Here, t, fault)
    IN  /\ Open(t) /\ ~Dangling
        /\ Leave(s, [run EXCEPT ![t] = "removed"])
        /\ have' = have \ Mine(t)
        /\ resume' = resume \ Mine(t) /\ unsafe' = unsafe \ {t}
        /\ lost' = ((lost \cup s.lost) \cap Complete) \ Mine(t)
        /\ rewritten' = rewritten \ Mine(t)
        /\ UNCHANGED <<limit, late>>

(* tr_sessionClose: closeAllTorrents stops, saves and frees each torrent;  *)
(* then tr_cacheFree.                                                      *)
SessionClose(fault) ==
    LET T == {t \in Torrent : Open(t)}
        Flush(st, t) == FlushTorrent([st EXCEPT !.err = FALSE], t, fault)
        s == FoldLeft(Flush, Here, SetToSeq(T))
    IN  /\ T # {} /\ ~Dangling
        /\ Leave(s, [t \in Torrent |-> IF t \in T THEN "closed" ELSE run[t]])
        /\ lost' = (lost \cup s.lost) \cap Complete
        /\ Save(T, s.failed # {})
        /\ UNCHANGED <<limit, have, late, rewritten>>

(* The process ends, at any time or after SessionClose, and the next one   *)
(* starts from the resume files.                                           *)
Restart ==
    LET orderly == cache = <<>> /\ \A t \in Torrent : ~Open(t)
    IN  /\ \E t \in Torrent : run[t] # "removed"
        /\ faults' = IF orderly THEN faults ELSE faults + 1
        /\ faults' <= MaxFaults + 1
        /\ cache' = <<>>
        /\ have' = resume
        /\ run' = [t \in Torrent |-> IF run[t] = "removed" THEN "removed" ELSE "stopped"]
        /\ error' = {}
        /\ lost' = lost \cup {b \in Cached \cap Complete : TorrentOf[b] \in unsafe}
        /\ UNCHANGED <<limit, disk, resume, late, rewritten, unsafe>>
-----------------------------------------------------------------------------
(* A right or a bad block arrives.                                         *)
Arriving ==
    \E b \in Block : \E d \in {b} \cup IF b \in MayBeBad THEN {Bad} ELSE {}, fault \in MayMeet({b}) :
       ClientGotBlock(b, d, fault) \/ WebWrite(b, d, fault)

Saving ==
    \E fault \in MayMeet({}) :
       SaveTimer(fault) \/ \E n \in Limits : SetLimit(n, fault)

Stopping ==
    \/ \E t \in Torrent : Start(t)
    \/ \E fault \in MayMeet({}) :
          \/ \E t \in Torrent : StopTorrent(t, fault) \/ RemoveTorrent(t, fault)
          \/ SessionClose(fault)

Next == Arriving \/ Saving \/ Stopping \/ Restart

Spec == Init /\ [][Next]_vars
-----------------------------------------------------------------------------
(* The array stays sorted by (torrent, block) without duplicates: findBlock*)
(* is a binary search and getBlockRun walks neighbours (cache.c).          *)
CacheSorted == \A i \in 1 .. Len(cache) - 1 : cache[i].block < cache[i + 1].block

(* No operation leaves the cache longer than its limit and longer than it  *)
(* was: a lowered limit is reached by degrees, never departed from.        *)
CacheNeverOvergrows ==
    [][Len(cache') > limit' => Len(cache') <= Len(cache)]_vars

(* A piece that passed its check reads right as long as its torrent is     *)
(* open, whatever is cached, flushed, saved or restarted.  Two things may  *)
(* break it: a fault that lost the data, and a web seed that answers late. *)
VerifiedIntact ==
    \A b \in have : /\ Open(TorrentOf[b]) /\ PieceDone(have, PieceOf[b])
                    /\ b \notin lost \cup rewritten
                    => Content(cache, disk, b) = b

(* What the resume file calls complete is on disk, except where the file   *)
(* was written although the flush had failed.                              *)
ResumeOnDisk ==
    \A b \in resume : /\ PieceDone(resume, PieceOf[b])
                      /\ b \notin lost \cup rewritten /\ TorrentOf[b] \notin unsafe
                      => disk[b] = b

(* No block of a torrent that is gone stays in the cache, which would use  *)
(* the freed torrent, unless its last flush failed (tr_cacheFree asserts   *)
(* an empty cache).                                                        *)
ClosedLeavesNothing ==
    \A i \in DOMAIN cache :
       LET t == TorrentOf[cache[i].block] IN Open(t) \/ t \in error

(* The cache and the disk implement the write-back store.                  *)
Blocks == INSTANCE BlockStore WITH
    content <- [b \in Block |-> Content(cache, disk, b)],
    durable <- disk
ImplementsBlockStore == Blocks!Spec
=============================================================================
