----------------------------- MODULE MCLifecycle -----------------------------
(* Three messages, two of them of one conversation. *)
EXTENDS Lifecycle

CONSTANTS j1, j2, j3, k1, k2

MCJobs == {j1, j2, j3}
MCKeyOf == [j \in MCJobs |-> IF j = j3 THEN k2 ELSE k1]
=============================================================================
