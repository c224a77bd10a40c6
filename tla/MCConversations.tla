--------------------------- MODULE MCConversations ---------------------------
(* Three questions of two participants in one channel. *)
EXTENDS Conversations, TLC

CONSTANTS ann, bob, q1, q2, q3

MCTokensOf == [q \in Questions |-> 2]
MCSymmetry == Permutations({q1, q2, q3}) \cup Permutations({ann, bob})
=============================================================================
