--------------------------- MODULE MCRequestQueue ---------------------------
(* Small instances of RequestQueue: two calls of one conversation, one of another. *)
EXTENDS RequestQueue, TLC

CONSTANTS a1, a2, b1

MCPair == {a1, a2}
MCThree == {a1, a2, b1}
MCOne == {a1}
MCKeyOf == (a1 :> "a") @@ (a2 :> "a") @@ (b1 :> "b")
=============================================================================
