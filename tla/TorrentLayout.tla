--------------------------- MODULE TorrentLayout ----------------------------
(***************************************************************************)
(* How the bytes of a torrent lie in pieces, blocks and files, and what is *)
(* computed from that: where a write lands (inout.c), how much of a file   *)
(* or a piece there is (completion.c, torrent.c), and which pieces a       *)
(* choice of files reaches (torrent.c).  A torrent is its piece size and   *)
(* the lengths of its files, which may be empty.  Pieces, blocks and bytes *)
(* are numbered from 0, as in the code, files from 1.                      *)
(***************************************************************************)
EXTENDS Integers, FiniteSets, Sequences, SequencesExt

CONSTANT MaxBlockSize   (* MAX_BLOCK_SIZE *)

ASSUME LayoutAssumption == MaxBlockSize \in Nat \ {0}

Lesser(a, b) == IF a < b THEN a ELSE b
Files(l) == DOMAIN l.lengths
Offset(l, f) == FoldLeft(+, 0, SubSeq(l.lengths, 1, f - 1))
TotalSize(l) == FoldLeft(+, 0, l.lengths)

(* 0 when the piece size cannot be cut into blocks: such a torrent is      *)
(* refused (tr_torrentParse).                                              *)
GetBlockSize(pieceSize) ==
    LET halved[b \in 0 .. pieceSize] == IF b > MaxBlockSize THEN halved[b \div 2] ELSE b
        size == halved[pieceSize]
    IN  IF size = 0 \/ pieceSize % size # 0 THEN 0 ELSE size
BlockSize(l) == GetBlockSize(l.pieceSize)
-----------------------------------------------------------------------------
(* Pieces and blocks (torrentInitFromInfo).                                *)
Units(size, unit) == (size + unit - 1) \div unit

(* Mutant of LastUnit: of a size that is a multiple, nothing is left.      *)
LastUnitNone(size, unit) == size % unit

LastUnit(size, unit) == IF size % unit = 0 THEN unit ELSE size % unit

PieceCount(l) == Units(TotalSize(l), l.pieceSize)
BlockCount(l) == Units(TotalSize(l), BlockSize(l))
LastPieceSize(l) == LastUnit(TotalSize(l), l.pieceSize)
LastBlockSize(l) == LastUnit(TotalSize(l), BlockSize(l))

Pieces(l) == 0 .. PieceCount(l) - 1
AllBlocks(l) == 0 .. BlockCount(l) - 1

PieceCountBytes(l, p) == IF p + 1 = PieceCount(l) THEN LastPieceSize(l) ELSE l.pieceSize
BlockCountBytes(l, b) == IF b + 1 = BlockCount(l) THEN LastBlockSize(l) ELSE BlockSize(l)

(* _tr_block and tr_torrentGetBlockLocation                                *)
BlockAt(l, piece, offset) == piece * (l.pieceSize \div BlockSize(l)) + offset \div BlockSize(l)
BlockLocation(l, b) ==
    LET pos == b * BlockSize(l)
    IN  [piece |-> pos \div l.pieceSize, offset |-> pos - (pos \div l.pieceSize) * l.pieceSize,
         length |-> BlockCountBytes(l, b)]

(* tr_torGetPieceBlockRange, tr_torGetFileBlockRange                       *)
PieceBlocks(l, p) ==
    LET first == l.pieceSize * p
    IN  first \div BlockSize(l) .. (first + PieceCountBytes(l, p) - 1) \div BlockSize(l)

FileBlocks(l, f) ==
    LET first == Offset(l, f) \div BlockSize(l)
    IN  IF l.lengths[f] = 0 THEN first .. first
        ELSE first .. (Offset(l, f) + l.lengths[f] - 1) \div BlockSize(l)

(* getBytePiece, for which empty files at the end are in the last piece,   *)
(* and initFilePieces.                                                     *)
BytePiece(l, byte) ==
    IF byte = TotalSize(l) THEN PieceCount(l) - 1 ELSE byte \div l.pieceSize
FirstPiece(l, f) == BytePiece(l, Offset(l, f))
LastPiece(l, f) ==
    BytePiece(l, Offset(l, f) + IF l.lengths[f] > 0 THEN l.lengths[f] - 1 ELSE 0)
PieceHasFile(l, p, f) == FirstPiece(l, f) <= p /\ p <= LastPiece(l, f)
-----------------------------------------------------------------------------
(* Writing.                                                                *)

(* tr_ioFindFileLocation: the binary search ends at the only file that     *)
(* holds the byte.                                                         *)
FindFileLocation(l, piece, offset) ==
    LET pos == l.pieceSize * piece + offset
        found[f \in Files(l)] == IF pos < Offset(l, f) + l.lengths[f] THEN f ELSE found[f + 1]
    IN  [file |-> found[1], offset |-> pos - Offset(l, found[1])]

(* Mutant of ReadOrWritePass: what is left of the buffer does not bound    *)
(* the call.                                                               *)
ReadOrWritePassOver(l, st, f, buflen) ==
    LET n == l.lengths[f] - st.offset
        call == [file |-> f, offset |-> st.offset, buf |-> st.buf, len |-> n]
    IN  IF st.buf >= buflen THEN st
        ELSE [buf |-> st.buf + n, offset |-> 0, calls |-> Append(st.calls, call)]

(* One turn of readOrWritePiece's loop: a call of readOrWriteBytes, with   *)
(* the place in the buffer, until the buffer is done.                      *)
ReadOrWritePass(l, st, f, buflen) ==
    LET n == Lesser(buflen - st.buf, l.lengths[f] - st.offset)
        call == [file |-> f, offset |-> st.offset, buf |-> st.buf, len |-> n]
    IN  IF st.buf = buflen THEN st
        ELSE [buf |-> st.buf + n, offset |-> 0, calls |-> Append(st.calls, call)]

(* The calls made if none fails.                                           *)
ReadOrWritePiece(l, piece, offset, buflen) ==
    LET at == FindFileLocation(l, piece, offset)
    IN  FoldLeft(LAMBDA st, f : ReadOrWritePass(l, st, f, buflen),
                 [buf |-> 0, offset |-> at.offset, calls |-> <<>>],
                 [i \in 1 .. Len(l.lengths) + 1 - at.file |-> at.file + i - 1]).calls
-----------------------------------------------------------------------------
(* Counting.  "have" is the set of blocks in blockBitfield.                *)
Held(have, blocks) == Cardinality(have \cap blocks)

FileBytesCompleted(l, have, f) ==
    LET range == FileBlocks(l, f)
        first == Offset(l, f) \div BlockSize(l)
        last == first + Cardinality(range) - 1
        of(b, n) == IF b \in have THEN n ELSE 0
    IN  CASE l.lengths[f] = 0 -> 0
          [] l.lengths[f] > 0 /\ first = last -> of(first, l.lengths[f])
          [] OTHER -> of(first, BlockSize(l) - (Offset(l, f) % BlockSize(l)))
                      + Held(have, range \ {first, last}) * BlockSize(l)
                      + of(last, (Offset(l, f) + l.lengths[f]) - BlockSize(l) * last)

FileIsComplete(l, have, f) ==
    l.lengths[f] = 0 \/ Held(have, FileBlocks(l, f)) = Cardinality(FileBlocks(l, f))

(* Mutant of MissingBytesInPiece: the last block counts as a full one.     *)
MissingBytesFull(l, have, p) ==
    IF have = AllBlocks(l) THEN 0
    ELSE PieceCountBytes(l, p) - Held(have, PieceBlocks(l, p)) * BlockSize(l)

MissingBytesInPiece(l, have, p) ==
    LET blocks == PieceBlocks(l, p)
        last == (l.pieceSize * p + PieceCountBytes(l, p) - 1) \div BlockSize(l)
        held == Held(have, blocks \ {last}) * BlockSize(l)
                + IF last \in have THEN BlockCountBytes(l, last) ELSE 0
    IN  IF have = AllBlocks(l) THEN 0 ELSE PieceCountBytes(l, p) - held

HasPiece(l, have, p) == PieceBlocks(l, p) \subseteq have

HaveValid(l, have) ==
    MapThenSumSet(LAMBDA p : PieceCountBytes(l, p), {p \in Pieces(l) : HasPiece(l, have, p)})

(* What the last block is short of a full one, if it is among the blocks.  *)
ShortLast(l, blocks) ==
    IF BlockCount(l) - 1 \in blocks THEN BlockSize(l) - LastBlockSize(l) ELSE 0

(* sizeNow after tr_cpBlockInit.                                           *)
BlockInit(l, have) == Cardinality(have) * BlockSize(l) - ShortLast(l, have)

(* Of a piece that is not wanted, what there is counts.                    *)
SizeWhenDone(l, have, dnd) ==
    LET held(p) == PieceBlocks(l, p) \cap have
        ofPiece(p) == IF p \notin dnd THEN PieceCountBytes(l, p)
                      ELSE Cardinality(held(p)) * BlockSize(l) - ShortLast(l, held(p))
    IN  IF have = AllBlocks(l) THEN TotalSize(l) ELSE MapThenSumSet(ofPiece, Pieces(l))
-----------------------------------------------------------------------------
(* Choosing files.                                                         *)
Low == -1
Normal == 0
High == 1
Priority == {Low, Normal, High}

(* From a file on while they are in the piece; also the mutant of          *)
(* PieceFiles that does not walk back from the hint.                       *)
PieceFilesFromHint(l, p, hint) ==
    {f \in hint .. Len(l.lengths) : \A g \in hint .. f : PieceHasFile(l, p, g)}

(* calculatePiecePriority: from the hint back to the first file of the     *)
(* piece, then on to its last.                                             *)
PieceFiles(l, p, hint) ==
    LET first[f \in 1 .. hint] == IF f > 1 /\ PieceHasFile(l, p, f - 1) THEN first[f - 1] ELSE f
    IN  PieceFilesFromHint(l, p, first[hint])

PiecePriority(l, pri, p, hint) ==
    LET of(f) == IF pri[f] >= Normal /\ p \in {FirstPiece(l, f), LastPiece(l, f)}
                 THEN High ELSE pri[f]
    IN  Max({Low} \cup {of(f) : f \in PieceFiles(l, p, hint)})

(* tr_torrentInitFilePieces: the hint is the first file that does not end  *)
(* before the piece.                                                       *)
FirstFile(l, p) ==
    LET next[f \in Files(l)] == IF LastPiece(l, f) >= p THEN f ELSE next[f + 1]
    IN  next[1]
InitPriorities(l, pri) == [p \in Pieces(l) |-> PiecePriority(l, pri, p, FirstFile(l, p))]

(* tr_torrentInitFilePriority: only the file's own pieces are set again.   *)
SetFilePriority(l, pri, pieces, f, priority) ==
    LET now == [pri EXCEPT ![f] = priority]
    IN  [p \in Pieces(l) |-> IF PieceHasFile(l, p, f) THEN PiecePriority(l, now, p, f) ELSE pieces[p]]

(* Mutant of SetFileDND: the neighbours are not asked.                     *)
SetFileDNDAlone(l, files, pieces, f, dnd) ==
    LET mine == {p \in Pieces(l) : PieceHasFile(l, p, f)}
    IN  IF dnd THEN pieces \cup mine ELSE pieces \ mine

(* setFileDND: the first and the last piece are left out only with every   *)
(* other file in them.  files and pieces are those left out before.        *)
SetFileDND(l, files, pieces, f, dnd) ==
    LET first == FirstPiece(l, f)
        last == LastPiece(l, f)
        Before(i) == \A g \in i .. f - 1 : LastPiece(l, g) = first
        After(i) == \A g \in f + 1 .. i : FirstPiece(l, g) = last
        firstDND == dnd /\ \A i \in 1 .. f - 1 : Before(i) => i \in files
        lastDND == dnd /\ \A i \in f + 1 .. Len(l.lengths) : After(i) => i \in files
        out == {p \in first .. last :
                  /\ p = first => firstDND
                  /\ p = last => lastDND
                  /\ dnd}
    IN  (pieces \ (first .. last)) \cup out

(* tr_torrentInitFileDLs for the files fs, in their order.                 *)
InitFileDL(l, st, f, fs, dnd) ==
    LET now == IF dnd THEN st.files \cup {f} ELSE st.files \ {f}
    IN  IF f \in fs THEN [files |-> now, pieces |-> SetFileDND(l, now, st.pieces, f, dnd)] ELSE st
InitFileDLs(l, st, fs, dnd) ==
    FoldLeft(LAMBDA s, f : InitFileDL(l, s, f, fs, dnd), st, [f \in Files(l) |-> f])

(* loadDND: the files left out first, then the others.                     *)
LoadDND(l, dnd) ==
    LET out == InitFileDLs(l, [files |-> {}, pieces |-> {}], dnd, TRUE)
    IN  InitFileDLs(l, out, Files(l) \ dnd, FALSE).pieces

(* loadFilePriorities, over what tr_torrentInitFilePieces made.            *)
LoadFilePriority(l, pri, st, f) ==
    [files |-> [st.files EXCEPT ![f] = pri[f]],
     pieces |-> SetFilePriority(l, st.files, st.pieces, f, pri[f])]
LoadFilePriorities(l, pri) ==
    LET normal == [f \in Files(l) |-> Normal]
    IN  FoldLeft(LAMBDA st, f : LoadFilePriority(l, pri, st, f),
                 [files |-> normal, pieces |-> InitPriorities(l, normal)],
                 [f \in Files(l) |-> f]).pieces
-----------------------------------------------------------------------------
(* The same by bytes, for reference.                                       *)
Bytes(l) == 0 .. TotalSize(l) - 1
FileBytes(l, f) == Offset(l, f) .. Offset(l, f) + l.lengths[f] - 1
PieceBytes(l, p) == {x \in Bytes(l) : x \div l.pieceSize = p}
HeldBytes(l, have) == {x \in Bytes(l) : x \div BlockSize(l) \in have}
=============================================================================
