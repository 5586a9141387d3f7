----------------------------- MODULE MCWritePath ----------------------------
(* Small instances of WritePath and TorrentContents for TLC.  A behaviour   *)
(* is one of the write path or one of a torrent's contents.                 *)
(*                                                                          *)
(* The write path: one torrent of three blocks in two pieces, whose two     *)
(* files share the third block; its places are those TorrentLayout finds.   *)
(* The contents: torrents of three files, empty ones among them at the      *)
(* front, in the middle and at the end, in pieces of one or two blocks; a   *)
(* third piece size is refused.                                             *)
EXTENDS WritePath, TorrentContents

CONSTANT t1

MCTorrentOf == <<t1, t1, t1>>
MCPieceOf == <<1, 1, 2>>
MCFirstBlock == <<1, 3>>
MCLastBlock == <<3, 3>>

ASSUME PlacesOfTheTorrent ==
    LET l == [pieceSize |-> 4, lengths |-> <<5, 1>>]
        blocks == 1 .. BlockCount(l)
    IN  /\ DOMAIN MCPieceOf = blocks
        /\ \A b \in blocks : MCPieceOf[b] = BlockLocation(l, b - 1).piece + 1
        /\ \A f \in Files(l) : MCFirstBlock[f] .. MCLastBlock[f] = {b + 1 : b \in FileBlocks(l, f)}

MCLayout ==
    {[pieceSize |-> size, lengths |-> ls] :
        size \in {2, 4, 5},
        ls \in {<<0, 3, 2>>, <<2, 0, 2>>, <<1, 1, 2>>, <<4, 1, 0>>}}

MCInit == \/ Init /\ NoContents
          \/ Init /\ limit = 0 /\ ContentsInit
MCNext == \/ torrent = NoTorrent /\ Next /\ UNCHANGED contents
          \/ ContentsNext /\ UNCHANGED vars
MCSpec == MCInit /\ [][MCNext]_<<vars, contents>>
=============================================================================
