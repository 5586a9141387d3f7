------------------------ MODULE MCTorrentLifecycle ------------------------
(* Queue settings for TLC: the app's defaults leave both queues off; the   *)
(* queue runs turn the download queue on with one slot.                    *)
EXTENDS TorrentLifecycle, TLC

NoQueues == [d \in Direction |-> None]
DownloadQueueOfOne == [d \in Direction |-> IF d = "down" THEN 1 ELSE None]
QueuesOfOne == [d \in Direction |-> 1]
Symmetry == Permutations(Torrent)
=============================================================================
