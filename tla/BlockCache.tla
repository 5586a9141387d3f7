----------------------------- MODULE BlockCache -----------------------------
(***************************************************************************)
(* tr_cache (cache.c) and the disk below it (inout.c), as operators.       *)
(*                                                                         *)
(* The cache is an array of blocks sorted by (torrent, block).  Here the   *)
(* blocks of all torrents are numbered in that order, so it is sorted by   *)
(* number.  A run is a stretch of consecutive blocks of one torrent; it is *)
(* written to disk by one tr_ioWrite, after its blocks have been freed.    *)
(*                                                                         *)
(* An operation works on a store, a record of the cache, the disk and what *)
(* has gone wrong so far, and returns the store it leaves; where qsort may *)
(* order runs of equal rank as it likes, the set of such stores.           *)
(*                                                                         *)
(* Of the rank of a run (its length, plus 1 for each 32 s of age, with two *)
(* flags or-ed in) only the flags are kept: runs with the same flags come  *)
(* in any order.  This is exact while the age stays below 36 hours, when   *)
(* it would reach the flags.                                               *)
(***************************************************************************)
EXTENDS Integers, FiniteSets, Sequences, SequencesExt

CONSTANTS
    NumBlocks,  (* the blocks of all torrents are 1 .. NumBlocks            *)
    TorrentOf,  (* [Block -> torrent]                                       *)
    PieceOf,    (* [Block -> piece], pieces numbered through all torrents   *)
    NumFiles,   (* files are 1 .. NumFiles, through all torrents            *)
    FirstBlock, (* [File -> Block], tr_torGetFileBlockRange                 *)
    LastBlock,  (* [File -> Block]                                          *)
    Bad,        (* the data of a block that is not what the torrent says    *)
    Blank       (* what is read of a block that was never written           *)

Block == 1 .. NumBlocks
File == 1 .. NumFiles
Torrent == {TorrentOf[b] : b \in Block}
Piece == {PieceOf[b] : b \in Block}
Data == Block \cup {Bad, Blank}     (* b is the right data of block b      *)

BlocksOf(p) == {b \in Block : PieceOf[b] = p}

ASSUME CacheAssumption ==
    /\ NumBlocks \in Nat \ {0} /\ NumFiles \in Nat
    /\ DOMAIN TorrentOf = Block /\ DOMAIN PieceOf = Block
    /\ \A a, b \in Block : PieceOf[a] = PieceOf[b] => TorrentOf[a] = TorrentOf[b]
    /\ \A a, b, c \in Block :
         a <= b /\ b <= c =>
            /\ PieceOf[a] = PieceOf[c] => PieceOf[b] = PieceOf[a]
            /\ TorrentOf[a] = TorrentOf[c] => TorrentOf[b] = TorrentOf[a]
    /\ FirstBlock \in [File -> Block] /\ LastBlock \in [File -> Block]
    /\ \A f \in File : TorrentOf[FirstBlock[f]] = TorrentOf[LastBlock[f]]
    /\ Bad \notin Block /\ Blank \notin Block /\ Bad # Blank
-----------------------------------------------------------------------------
(* The store.  "failed" are the torrents whose tr_ioWrite returned an      *)
(* error in this operation, "err" what the operation returns, "lost" the   *)
(* blocks freed from the cache whose data never reached the disk.          *)
Store(cache, disk) ==
    [cache |-> cache, disk |-> disk, err |-> FALSE, failed |-> {}, lost |-> {}]

(* What the disk does to one write of the operation: nothing unusual, an   *)
(* error when it comes to a block, or a short pwrite, which tr_pwrite's    *)
(* caller takes for success (rc >= 0).                                     *)
NoFault == [at |-> Blank, kind |-> "none"]
Faults == [at : Block, kind : {"error", "short"}]

Content(cache, disk, b) ==
    IF \E i \in DOMAIN cache : cache[i].block = b
    THEN cache[CHOOSE i \in DOMAIN cache : cache[i].block = b].data
    ELSE disk[b]

PieceDone(have, p) == BlocksOf(p) \subseteq have
-----------------------------------------------------------------------------
(* Runs.                                                                   *)
Joined(cache, i) ==
    /\ cache[i + 1].block = cache[i].block + 1
    /\ TorrentOf[cache[i + 1].block] = TorrentOf[cache[i].block]

RunLen(cache, pos) ==
    CHOOSE n \in 1 .. Len(cache) + 1 - pos :
        /\ \A i \in pos .. pos + n - 2 : Joined(cache, i)
        /\ pos + n - 1 = Len(cache) \/ ~Joined(cache, pos + n - 1)

(* Mutant of RunInfo: MULTIFLAG is not set.                                *)
RunInfoOnePiece(cache, have, pos) ==
    LET n == RunLen(cache, pos)
    IN  [pos |-> pos, len |-> n,
         flags |-> IF PieceDone(have, PieceOf[cache[pos + n - 1].block]) THEN 2 ELSE 0]

(* is_piece_done looks at the piece of the run's last block only.          *)
RunInfo(cache, have, pos) ==
    LET n == RunLen(cache, pos)
        piece == PieceOf[cache[pos + n - 1].block]
        multi == piece # PieceOf[cache[pos].block]
    IN  [pos |-> pos, len |-> n,
         flags |-> (IF PieceDone(have, piece) THEN 2 ELSE 0) + (IF multi THEN 1 ELSE 0)]

(* Every array calcRuns may leave: all runs, the highest flags first.      *)
CalcRuns(cache, have) ==
    LET starts == {i \in DOMAIN cache : i = 1 \/ ~Joined(cache, i - 1)}
        runs == {RunInfo(cache, have, i) : i \in starts}
    IN  {order \in SetToSeqs(runs) :
            \A i \in 1 .. Len(order) - 1 : order[i].flags >= order[i + 1].flags}
-----------------------------------------------------------------------------
(* Writing to disk.                                                        *)

(* Mutants of FlushContiguous: the whole run is freed when only its first  *)
(* block was written; an error is reported for a block, not a torrent.     *)
FlushContiguousFirst(s, pos, n, fault) ==
    [s EXCEPT !.cache = SubSeq(@, 1, pos - 1) \o SubSeq(@, pos + n, Len(@)),
              !.disk = [@ EXCEPT ![s.cache[pos].block] = s.cache[pos].data]]
FlushContiguousMixed(s, pos, n, fault) ==
    [s EXCEPT !.cache = SubSeq(@, 1, pos - 1) \o SubSeq(@, pos + n, Len(@)),
              !.failed = {s.cache[pos].block}]

(* The buffer of the n blocks from pos goes to the place of the first one, *)
(* whatever blocks they are; a fault stops it at the block it is at.       *)
FlushContiguous(s, pos, n, fault) ==
    LET run == SubSeq(s.cache, pos, pos + n - 1)
        first == run[1].block
        bad == {i \in 1 .. n : run[i].block = fault.at}
        done == IF bad = {} THEN n ELSE (CHOOSE i \in bad : TRUE) - 1
        stop == bad # {} /\ fault.kind = "error"
    IN  [cache |-> SubSeq(s.cache, 1, pos - 1) \o SubSeq(s.cache, pos + n, Len(s.cache)),
         disk |-> [b \in Block |->
                    IF b \in first .. first + done - 1 THEN run[b - first + 1].data
                                                       ELSE s.disk[b]],
         err |-> stop,
         failed |-> s.failed \cup (IF stop THEN {TorrentOf[first]} ELSE {}),
         lost |-> s.lost \cup {run[i].block : i \in done + 1 .. n}]

(* The flush of run i has moved the runs behind it forward by its length.  *)
MovedUp(runs, i) ==
    [j \in DOMAIN runs |->
        IF j > i /\ runs[j].pos > runs[i].pos THEN [runs[j] EXCEPT !.pos = @ - runs[i].len]
                                              ELSE runs[j]]

(* The runs are flushed in turn until one fails.                           *)
FlushRuns(s, runs, fault) ==
    LET flushed[i \in 0 .. Len(runs)] ==
          IF i = 0 THEN [store |-> s, runs |-> runs]
          ELSE LET st == flushed[i - 1]
               IN  IF st.store.err THEN st
                   ELSE [store |-> FlushContiguous(st.store, st.runs[i].pos, st.runs[i].len, fault),
                         runs |-> MovedUp(st.runs, i)]
    IN  flushed[Len(runs)].store

(* FlushFile and FlushTorrent: whole runs from a position on, as long as   *)
(* they begin in the range.                                                *)
FlushRange(s, first, last, fault) ==
    LET pos == Cardinality({i \in DOMAIN s.cache : s.cache[i].block < first}) + 1
        Flush(st, i) ==
            IF /\ ~st.err
               /\ pos <= Len(st.cache)
               /\ st.cache[pos].block \in first .. last
            THEN FlushContiguous(st, pos, RunLen(st.cache, pos), fault)
            ELSE st
    IN  FoldLeftDomain(Flush, s, s.cache)

FlushFile(s, f, fault) == FlushRange(s, FirstBlock[f], LastBlock[f], fault)

FlushTorrent(s, t, fault) ==
    LET mine == {b \in Block : TorrentOf[b] = t}
    IN  FlushRange(s, Min(mine), Max(mine), fault)

(* The done and the multi-piece runs come first; the loop ends at the      *)
(* first run that is neither.                                              *)
FlushDone(s, have, fault) ==
    LET chosen(order) == {n \in DOMAIN order : \A i \in 1 .. n : order[i].flags > 0}
        Chosen(order) == SubSeq(order, 1, Cardinality(chosen(order)))
    IN  {FlushRuns(s, Chosen(order), fault) : order \in CalcRuns(s.cache, have)}

CutOff(limit) == 1 + limit \div 4

(* Mutant of CacheTrim: off by one.                                        *)
CacheTrimLate(s, limit, have, fault) ==
    IF Len(s.cache) > limit + 1
    THEN {FlushRuns(s, order, fault) : order \in CalcRuns(s.cache, have)}
    ELSE {s}

(* Over the limit, runs are flushed in the order of rank until at least    *)
(* 1 + max_blocks / 4 blocks are gone.                                     *)
CacheTrim(s, limit, have, fault) ==
    LET Chosen(order) ==
          LET blocks[n \in 0 .. Len(order)] == IF n = 0 THEN 0 ELSE blocks[n - 1] + order[n].len
          IN  SubSeq(order, 1, Min({n \in DOMAIN order : blocks[n] >= CutOff(limit)}))
    IN  IF Len(s.cache) > limit
        THEN {FlushRuns(s, Chosen(order), fault) : order \in CalcRuns(s.cache, have)}
        ELSE {s}
-----------------------------------------------------------------------------
(* Mutant of Place: a new block goes to the end.                           *)
PlaceLast(cache, b, d) ==
    SelectSeq(cache, LAMBDA c : c.block # b) \o <<[block |-> b, data |-> d]>>

(* tr_cacheWriteBlock: replace the block or insert it in its place, then   *)
(* trim.  The returned error is the trim's: of some other run, perhaps of  *)
(* another torrent.                                                        *)
Place(cache, b, d) ==
    LET new == [block |-> b, data |-> d]
        below == Cardinality({i \in DOMAIN cache : cache[i].block < b})
    IN  IF \E i \in DOMAIN cache : cache[i].block = b
        THEN [cache EXCEPT ![below + 1] = new]
        ELSE InsertAt(cache, below + 1, new)

WriteBlock(s, b, d, limit, have, fault) ==
    CacheTrim([s EXCEPT !.cache = Place(s.cache, b, d)], limit, have, fault)
=============================================================================
