-------------------------- MODULE TorrentContents ---------------------------
(***************************************************************************)
(* What a torrent has and wants of its contents, and the bookkeeping that  *)
(* keeps the answers: the completion with its two lazy sums                *)
(* (completion.c), the verification piece by piece over the files          *)
(* (verify.c), and the files' choices with what they mean for the pieces   *)
(* (torrent.c).                                                            *)
(*                                                                         *)
(* A call holds the session lock.  verifyTorrent does not: its steps are   *)
(* the turns of its loop, and whatever the disk gives it is possible at    *)
(* each: nothing, a part of what it asked for or all of it, right or       *)
(* wrong.  What both use is the completion, so a call that reads or writes *)
(* it is two steps, and may meet the pieces that the verifier sets.        *)
(***************************************************************************)
EXTENDS TorrentLayout

CONSTANTS
    Layout,      (* the torrents considered                                *)
    BufLen,      (* the most verifyTorrent reads at once                   *)
    Dirty,       (* a lazy sum to be made again                            *)
    NoTorrent,   (* no torrent has been added                              *)
    MaxCalls     (* calls considered (a bound)                             *)

ASSUME ContentsAssumption ==
    /\ BufLen \in Nat \ {0} /\ MaxCalls \in Nat
    /\ \A l \in Layout : /\ l.pieceSize \in Nat \ {0} /\ l.lengths \in Seq(Nat)
                         /\ \E f \in DOMAIN l.lengths : l.lengths[f] > 0
    /\ Dirty \notin Nat /\ NoTorrent \notin Layout

VARIABLES
    torrent,     (* its layout                                             *)
    cp,          (* tr_completion                                          *)
    files,       (* dnd and priority of each file                          *)
    pieces,      (* dnd and priority of each piece                         *)
    check,       (* where verifyTorrent is, if it was begun                *)
    op,          (* the call on the completion that has the session lock,  *)
                 (* with the completion it found                           *)
    calls,       (* calls so far                                           *)
    raced        (* observed only: what a call that met the verifier's     *)
                 (* writes may have left wrong                             *)

contents == <<torrent, cp, files, pieces, check, op, calls, raced>>

(* A torrent too small to be cut into blocks is refused (tr_torrentParse). *)
Parsed == {l \in Layout : BlockSize(l) > 0}

Unchecked == [piece |-> 0, piecePos |-> 0, file |-> 1, filePos |-> 0, had |-> FALSE,
              changed |-> FALSE, hashed |-> 0, good |-> TRUE, seen |-> {}, before |-> {},
              touched |-> {}]
NoCheck == [Unchecked EXCEPT !.piece = -1]

NoOp == [call |-> "none", at |-> 0, was |-> {}, met |-> FALSE]

(* As tr_torrentInit leaves it, with a resume file that records some       *)
(* blocks, some files left out or some priorities (a bound: one of these;  *)
(* the last two count as a call).                                          *)
ContentsInit ==
    /\ torrent \in Parsed
    /\ \E blocks \in SUBSET AllBlocks(torrent), dnd \in SUBSET Files(torrent),
          priority \in [Files(torrent) -> Priority] :
          /\ LET normal == [f \in Files(torrent) |-> Normal]
             IN  \/ dnd = {} /\ priority = normal /\ calls = 0
                 \/ blocks = {} /\ (dnd = {} \/ priority = normal) /\ calls = 1
          /\ cp = [blocks |-> blocks, sizeNow |-> BlockInit(torrent, blocks),
                   haveValid |-> Dirty, sizeWhenDone |-> Dirty]
          /\ files = [dnd |-> dnd, priority |-> priority]
          /\ pieces = [dnd |-> LoadDND(torrent, dnd),
                       priority |-> LoadFilePriorities(torrent, priority)]
    /\ check = NoCheck /\ op = NoOp /\ raced = {}

(* No torrent, for a behaviour about something else.                       *)
NoContents ==
    /\ torrent = NoTorrent
    /\ cp = {} /\ files = {} /\ pieces = {} /\ check = NoCheck /\ calls = 0
    /\ op = NoOp /\ raced = {}

Checking == check.piece >= 0 /\ check.piece < PieceCount(torrent)
Call == /\ torrent # NoTorrent /\ calls < MaxCalls /\ calls' = calls + 1
        /\ torrent' = torrent
-----------------------------------------------------------------------------
(* The completion.                                                         *)

(* tr_cpBlockAdd                                                           *)
BlockAdd(c, b) ==
    IF b \in c.blocks THEN c
    ELSE [c EXCEPT !.blocks = @ \cup {b}, !.sizeNow = @ + BlockCountBytes(torrent, b),
                   !.haveValid = Dirty, !.sizeWhenDone = Dirty]

PieceAdd(c, p) ==
    LET bs == PieceBlocks(torrent, p)
        first == (torrent.pieceSize * p) \div BlockSize(torrent)
        add[n \in 0 .. Cardinality(bs)] == IF n = 0 THEN c ELSE BlockAdd(add[n - 1], first + n - 1)
    IN  add[Cardinality(bs)]

PieceRem(c, p) ==
    [c EXCEPT !.blocks = @ \ PieceBlocks(torrent, p),
              !.sizeNow = @ - MapThenSumSet(LAMBDA b : BlockCountBytes(torrent, b),
                                               c.blocks \cap PieceBlocks(torrent, p)),
              !.haveValid = Dirty, !.sizeWhenDone = Dirty]

SetHasPiece(c, p, has) == IF has THEN PieceAdd(c, p) ELSE PieceRem(c, p)

(* A call on the completion begins.                                        *)
Hold(call, at) ==
    /\ Call /\ op = NoOp
    /\ op' = [call |-> call, at |-> at, was |-> cp, met |-> FALSE]
    /\ UNCHANGED <<cp, files, pieces, check, raced>>

(* A block comes.                                                          *)
AddBlock(b) == Hold("add", b)

(* tr_ioTestPiece has found a piece bad (tr_torrentCheckPiece).            *)
BadPiece(p) == HasPiece(torrent, cp.blocks, p) /\ Hold("bad", p)

(* tr_cpHaveValid and tr_cpSizeWhenDone make their sums if they are dirty. *)
Sums == Hold("sum", 0)

(* What the call makes of a completion, and the piece it is about.         *)
Update(c) == IF op.call = "add" THEN BlockAdd(c, op.at) ELSE SetHasPiece(c, op.at, FALSE)
UpdatedPiece == IF op.call = "add" THEN BlockLocation(torrent, op.at).piece ELSE op.at

(* Made while the verifier set pieces: the call has seen the blocks as     *)
(* they were or as they are, and of two writes to the bits or to sizeNow   *)
(* one may be lost.                                                        *)
Disturbed(read) ==
    LET grown == Update(read).sizeNow - read.sizeNow
    IN  IF Update(read) = read THEN {cp}
        ELSE [blocks : {Update(op.was).blocks, Update(cp).blocks, cp.blocks},
              sizeNow : {op.was.sizeNow + grown, cp.sizeNow + grown, cp.sizeNow},
              haveValid : {Dirty}, sizeWhenDone : {Dirty}]

FinishUpdate ==
    /\ torrent # NoTorrent /\ op.call \in {"add", "bad"}
    /\ cp' \in IF op.met THEN Disturbed(op.was) \cup Disturbed(cp) ELSE {Update(cp)}
    /\ raced' = IF op.met THEN raced \cup {"sizeNow"} ELSE raced
    /\ check' = IF ~Checking THEN NoCheck
                ELSE [check EXCEPT !.touched = @ \cup IF op.met THEN Pieces(torrent)
                                                       ELSE {UpdatedPiece}]
    /\ op' = NoOp
    /\ UNCHANGED <<torrent, files, pieces, calls>>

(* The blocks that a walk may find while the verifier sets pieces.         *)
Mixed == {b \in SUBSET (op.was.blocks \cup cp.blocks) : op.was.blocks \cap cp.blocks \subseteq b}

(* A sum made meanwhile is marked clean, unless the verifier marks it      *)
(* dirty after that.                                                       *)
FinishSums ==
    /\ torrent # NoTorrent /\ op.call = "sum"
    /\ \/ /\ ~op.met
          /\ cp' = [cp EXCEPT
               !.haveValid = IF @ = Dirty THEN HaveValid(torrent, cp.blocks) ELSE @,
               !.sizeWhenDone = IF @ = Dirty THEN SizeWhenDone(torrent, cp.blocks, pieces.dnd)
                                ELSE @]
          /\ UNCHANGED raced
       \/ /\ op.met
          /\ \E valid, done \in Mixed :
                cp' \in [blocks : {cp.blocks}, sizeNow : {cp.sizeNow},
                        haveValid : {Dirty, HaveValid(torrent, valid)},
                        sizeWhenDone : {Dirty, SizeWhenDone(torrent, done, pieces.dnd)}]
          /\ raced' = raced \cup {"sums"}
    /\ op' = NoOp
    /\ UNCHANGED <<torrent, files, pieces, check, calls>>
-----------------------------------------------------------------------------
(* Choosing files.                                                         *)

(* Mutant of SetFileDLs: the sum wanted is not made again.                 *)
SetFileDLsLazy(f, dnd) ==
    LET now == IF dnd THEN files.dnd \cup {f} ELSE files.dnd \ {f}
    IN  /\ Call /\ op = NoOp
        /\ files' = [files EXCEPT !.dnd = now]
        /\ pieces' = [pieces EXCEPT !.dnd = SetFileDND(torrent, now, @, f, dnd)]
        /\ UNCHANGED <<cp, check, op, raced>>

(* tr_torrentSetFileDLs                                                    *)
SetFileDLs(f, dnd) ==
    LET now == IF dnd THEN files.dnd \cup {f} ELSE files.dnd \ {f}
    IN  /\ Call /\ op = NoOp
        /\ files' = [files EXCEPT !.dnd = now]
        /\ pieces' = [pieces EXCEPT !.dnd = SetFileDND(torrent, now, @, f, dnd)]
        /\ cp' = [cp EXCEPT !.sizeWhenDone = Dirty]
        /\ UNCHANGED <<check, op, raced>>

(* tr_torrentSetFilePriorities                                             *)
SetFilePriorities(f, priority) ==
    /\ Call /\ op = NoOp
    /\ files' = [files EXCEPT !.priority[f] = priority]
    /\ pieces' = [pieces EXCEPT !.priority =
                     SetFilePriority(torrent, files.priority, @, f, priority)]
    /\ UNCHANGED <<cp, check, op, raced>>
-----------------------------------------------------------------------------
(* Verifying.                                                              *)
VerifyBegin ==
    /\ Call /\ ~Checking
    /\ check' = [Unchecked EXCEPT !.before = {p \in Pieces(torrent) :
                                                HasPiece(torrent, cp.blocks, p)}]
    /\ UNCHANGED <<cp, files, pieces, op, raced>>

(* verifyTorrent sees its stopFlag.                                        *)
VerifyStop ==
    /\ torrent # NoTorrent /\ Checking
    /\ check' = NoCheck
    /\ UNCHANGED <<torrent, cp, files, pieces, op, calls, raced>>

(* Mutant of HashBytes: what could not be read counts as hashed.           *)
HashBytesMissing(c, first, read, n, right) ==
    [c EXCEPT !.hashed = @ + n, !.good = @ /\ (right \/ read = 0),
              !.seen = IF right THEN @ \cup (first .. first + read - 1) ELSE @]

(* SHA1_Update with what was read of the n bytes from the byte "first" on; *)
(* the hash of a piece is right if it is made of all its bytes.            *)
HashBytes(c, first, read, n, right) ==
    [c EXCEPT !.hashed = @ + read, !.good = @ /\ (right \/ read = 0),
              !.seen = IF right THEN @ \cup (first .. first + read - 1) ELSE @]

(* One turn of verifyTorrent's loop; where nothing can be read, it moves   *)
(* on as if it had been.                                                   *)
VerifyPass ==
    /\ torrent # NoTorrent /\ Checking
    /\ LET had == IF check.piecePos = 0 THEN HasPiece(torrent, cp.blocks, check.piece) ELSE check.had
           leftInPiece == PieceCountBytes(torrent, check.piece) - check.piecePos
           leftInFile == torrent.lengths[check.file] - check.filePos
           wanted == Lesser(Lesser(leftInFile, leftInPiece), BufLen)
       IN  \E read \in 0 .. wanted, right \in BOOLEAN :
             LET n == IF read > 0 THEN read ELSE wanted
                 sha == HashBytes(check, Offset(torrent, check.file) + check.filePos, read, n, right)
                 hasPiece == sha.good /\ sha.hashed = PieceCountBytes(torrent, check.piece)
                 endOfPiece == n = leftInPiece
                 endOfFile == n = leftInFile
             IN  /\ check' = [sha EXCEPT
                       !.had = had,
                       !.changed = @ \/ (endOfPiece /\ hasPiece # had),
                       !.hashed = IF endOfPiece THEN 0 ELSE @,
                       !.good = IF endOfPiece THEN TRUE ELSE @,
                       !.piece = IF endOfPiece THEN @ + 1 ELSE @,
                       !.piecePos = IF endOfPiece THEN 0 ELSE @ + n,
                       !.file = IF endOfFile THEN @ + 1 ELSE @,
                       !.filePos = IF endOfFile THEN 0 ELSE @ + n]
                 /\ cp' = IF endOfPiece /\ (hasPiece \/ had)
                          THEN SetHasPiece(cp, check.piece, hasPiece) ELSE cp
    /\ op' = [op EXCEPT !.met = @ \/ (op # NoOp /\ cp' # cp)]
    /\ UNCHANGED <<torrent, files, pieces, calls, raced>>
-----------------------------------------------------------------------------
ContentsNext ==
    \/ torrent # NoTorrent /\ \E b \in AllBlocks(torrent) : AddBlock(b)
    \/ torrent # NoTorrent /\ \E p \in Pieces(torrent) : BadPiece(p)
    \/ Sums \/ FinishUpdate \/ FinishSums
    \/ torrent # NoTorrent /\ \E f \in Files(torrent), dnd \in BOOLEAN : SetFileDLs(f, dnd)
    \/ torrent # NoTorrent /\ \E f \in Files(torrent), pri \in Priority : SetFilePriorities(f, pri)
    \/ torrent # NoTorrent /\ VerifyBegin
    \/ VerifyPass \/ VerifyStop

ContentsSpec == ContentsInit /\ [][ContentsNext]_contents
-----------------------------------------------------------------------------
Added == torrent # NoTorrent /\ calls = 0

(* The last piece and the last block may be short; with that, the pieces   *)
(* and the blocks tile the torrent, a byte's block is the same by its      *)
(* piece and by its position, and a block's location leads back to it      *)
(* (torrentInitFromInfo's "check our work" and tr_torGet*BlockRange).      *)
BlocksTileTorrent ==
    Added =>
        /\ \A x \in Bytes(torrent) :
              LET p == x \div torrent.pieceSize
              IN  /\ BlockAt(torrent, p, x % torrent.pieceSize) = x \div BlockSize(torrent)
                  /\ x \div BlockSize(torrent) \in PieceBlocks(torrent, p)
                  /\ x % torrent.pieceSize < PieceCountBytes(torrent, p)
        /\ \A p \in Pieces(torrent) :
              PieceCountBytes(torrent, p) = Cardinality(PieceBytes(torrent, p))
        /\ \A b \in AllBlocks(torrent) :
              LET at == BlockLocation(torrent, b)
              IN  /\ BlockAt(torrent, at.piece, at.offset) = b
                  /\ at.length = Cardinality(HeldBytes(torrent, {b}))
                  /\ \A p \in Pieces(torrent) : b \in PieceBlocks(torrent, p) <=> p = at.piece

(* Whatever stretch of the torrent a run of the cache is, across files and *)
(* past empty ones, the calls stop with the buffer and each of its bytes   *)
(* is written by exactly one of them, to its own place and within its file *)
(* (readOrWritePiece).                                                     *)
WritesLandInFiles ==
    Added => \A from \in Bytes(torrent) : \A n \in 1 .. TotalSize(torrent) - from :
        LET done == ReadOrWritePiece(torrent, from \div torrent.pieceSize,
                                     from % torrent.pieceSize, n)
            At(c) == Offset(torrent, c.file) + c.offset
        IN  /\ \A i \in DOMAIN done :
                  /\ At(done[i]) = from + done[i].buf
                  /\ done[i].buf + done[i].len <= n
                  /\ done[i].offset + done[i].len <= torrent.lengths[done[i].file]
            /\ \A x \in from .. from + n - 1 :
                  \E i \in DOMAIN done : \A j \in DOMAIN done :
                     At(done[j]) <= x /\ x < At(done[j]) + done[j].len <=> j = i

(* The sums are never stale: sizeNow and, unless they are marked dirty,    *)
(* haveValidLazy and sizeWhenDoneLazy are the bytes of the blocks that are *)
(* there, of the whole pieces, and of what is there or wanted ("number of  *)
(* bytes we'll have when done downloading", completion.h), whatever blocks *)
(* come, pieces go, files are left out and pieces are found by the         *)
(* verifier between the calls.  A call that the verifier's writes meet is  *)
(* excused: one that changes blocks may leave sizeNow wrong, one that      *)
(* makes the sums may leave them wrong.                                    *)
SumsNeverStale ==
    torrent # NoTorrent =>
        LET held == HeldBytes(torrent, cp.blocks)
        IN  /\ "sizeNow" \notin raced => cp.sizeNow = Cardinality(held)
            /\ "sums" \notin raced =>
                 /\ cp.haveValid \in {Dirty, Cardinality({x \in held :
                       PieceBytes(torrent, x \div torrent.pieceSize) \subseteq held})}
                 /\ cp.sizeWhenDone \in {Dirty, Cardinality(held \cup {x \in Bytes(torrent) :
                       x \div torrent.pieceSize \notin pieces.dnd})}

(* The counts made from whole blocks with corrections for the ends are the *)
(* numbers of bytes they stand for: what there is of each file, which      *)
(* files are complete, and what is missing of each piece.                  *)
CountsExact ==
    torrent # NoTorrent =>
        LET held == HeldBytes(torrent, cp.blocks)
        IN  /\ \A f \in Files(torrent) :
                  /\ FileBytesCompleted(torrent, cp.blocks, f)
                       = Cardinality(FileBytes(torrent, f) \cap held)
                  /\ FileIsComplete(torrent, cp.blocks, f)
                       <=> FileBytes(torrent, f) \subseteq held
            /\ \A p \in Pieces(torrent) :
                  MissingBytesInPiece(torrent, cp.blocks, p)
                    = Cardinality(PieceBytes(torrent, p) \ held)

(* Whatever can be read of the files, a verification has at any turn set   *)
(* the pieces it came past by whether it read every byte of them and all   *)
(* were right, and has left the others alone, also while blocks of other   *)
(* pieces come or go; if none did, it reports a change if and only if      *)
(* there is one.  What it says of a piece that a call changed meanwhile,   *)
(* or of any piece once a call met its writes, is not spoken of.           *)
VerifyFindsPieces ==
    check # NoCheck =>
        LET Right == {p \in Pieces(torrent) :
                        IF p < check.piece THEN PieceBytes(torrent, p) \subseteq check.seen
                                           ELSE p \in check.before}
        IN  /\ \A p \in Pieces(torrent) \ check.touched :
                  HasPiece(torrent, cp.blocks, p) <=> p \in Right
            /\ check.touched = {} => (check.changed <=> Right # check.before)

(* After any choices, made for one file at a time, every piece has the     *)
(* highest priority of its files, the first and the last piece of a file   *)
(* that is not low being high (calculatePiecePriority), although only the  *)
(* file's own pieces are looked at again.                                  *)
PrioritiesReachPieces ==
    torrent # NoTorrent =>
        LET Of(p, f) == IF files.priority[f] >= Normal
                           /\ p \in {FirstPiece(torrent, f), LastPiece(torrent, f)}
                        THEN High ELSE files.priority[f]
        IN  \A p \in Pieces(torrent) :
                LET all == {Of(p, f) : f \in {g \in Files(torrent) : PieceHasFile(torrent, p, g)}}
                IN  pieces.priority[p] \in all /\ \A pri \in all : pri <= pieces.priority[p]

(* A piece is left out if and only if every file in it is (setFileDND's    *)
(* "every file using that piece is DND"), whichever files a resume file    *)
(* leaves out and calls then leave out or take in again one by one.        *)
LeftOutOnlyTogether ==
    torrent # NoTorrent =>
        pieces.dnd = {p \in Pieces(torrent) : \A f \in Files(torrent) :
                        PieceHasFile(torrent, p, f) => f \in files.dnd}
=============================================================================
