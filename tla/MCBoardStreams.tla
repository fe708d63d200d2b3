--------------------------- MODULE MCBoardStreams ---------------------------
(* TLC instance of BoardStreams: two items, every list. *)
EXTENDS BoardStreams
=============================================================================
