--------------------------- MODULE MCSearchClient ---------------------------
(* Calls of one tool; the server may come back with it or without it. *)
EXTENDS SearchClient, TLC

CONSTANTS c1, c2, c3

MCToolOf == [c \in Calls |-> "search_web"]
MCRegistry == {"search_local", "search_web", "fetch_page"}
MCToolLists == {MCRegistry, MCRegistry \ {"search_web"}}
=============================================================================
