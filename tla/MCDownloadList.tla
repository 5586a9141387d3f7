--------------------------- MODULE MCDownloadList ---------------------------
(* Small instances of DownloadList for TLC.  The readable files are        *)
(* interchangeable: the model has no order among them.                     *)
EXTENDS DownloadList, TLC

Symmetry == Permutations(Readable)
=============================================================================
