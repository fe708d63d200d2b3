---------------------------- MODULE MCQueryCache ----------------------------
(* TLC instance of QueryCache: one row that exists and one that may be created. *)
EXTENDS QueryCache
=============================================================================
