----------------------------- MODULE MCLiveFeed -----------------------------
(* TLC instance of LiveFeed: feeds that fill up after two items. *)
EXTENDS LiveFeed
=============================================================================
