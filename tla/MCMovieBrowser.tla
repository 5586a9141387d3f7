--------------------------- MODULE MCMovieBrowser ---------------------------
(* A small instance of MovieBrowser for TLC: one section, the empty search  *)
(* and one word, one movie each; the empty search finds nothing.            *)
EXTENDS MovieBrowser

CONSTANTS s1, k1, a, b

MCListed == [s \in Section |-> {b}]
MCHits == [k \in Keywords |-> IF k = k1 THEN {a} ELSE {}]
=============================================================================
