---------------------------- MODULE MCQueryCache ----------------------------
(* Three calls of one key's loader: the one a refresh aborts, the one that *)
(* the aborted one orphans, and the one that overtakes the orphan; two     *)
(* mutations.                                                              *)
EXTENDS QueryCache

ThreeRequests == 1..3
=============================================================================
