--------------------------- MODULE MCBoardPanels ----------------------------
(* TLC instance of BoardPanels: two tasks and two filters of the feed. *)
EXTENDS BoardPanels
=============================================================================
