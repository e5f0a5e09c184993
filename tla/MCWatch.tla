------------------------------ MODULE MCWatch ------------------------------
(* Values for the constants of Watch that a .cfg cannot write. *)
EXTENDS Watch

CONSTANTS d1, d2, root

OneOut == <<"types.ts">>
TwoOuts == <<"types.ts", "client.ts">>
OneFire == {1}
TwoFires == {1, 2}
=============================================================================
