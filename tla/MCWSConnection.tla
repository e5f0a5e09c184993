--------------------------- MODULE MCWSConnection ---------------------------
(* Two iterators of one connection.  Symmetry would not be sound with liveness. *)
EXTENDS WSConnection

CONSTANTS r1, r2
=============================================================================
