--------------------------- MODULE MCPooledLists ---------------------------
(* PooledLists, with a small buffer and a few lists, for TLC.              *)
EXTENDS PooledLists

=============================================================================
