------------------------------ MODULE MCWSConn ------------------------------
(* Two connections: what one does to its own goroutines it does alone. *)
EXTENDS WSConn

CONSTANTS c1, c2
=============================================================================
