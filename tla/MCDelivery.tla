----------------------------- MODULE MCDelivery -----------------------------
(* Two handlers of one conversation: the same message twice, or two messages. *)
EXTENDS Delivery, TLC

CONSTANTS j1, j2, m1, m2

MCJobs == {j1, j2}
MCKeyOf == [j \in Jobs |-> "key"]
MCDeliveries == {(j1 :> m1) @@ (j2 :> m1), (j1 :> m1) @@ (j2 :> m2)}
=============================================================================
