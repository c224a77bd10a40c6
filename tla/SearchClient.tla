---------------------------- MODULE SearchClient ----------------------------
(***************************************************************************)
(* invoke of internal/orchestrator/tool_loop.go and the client of          *)
(* internal/searchmcp/client.go under it: tool calls of several requests   *)
(* share the MCP slots, one session and the RWMutex that guards it, and    *)
(* any of them may replace the session after a transport error.            *)
(* The Search MCP server is external: it may crash, forgetting its         *)
(* sessions, come back with another tool list, or be slow.                 *)
(***************************************************************************)
EXTENDS Integers, FiniteSets

CONSTANTS Calls,      \* invocations of a tool
          ToolOf,     \* the tool each one calls
          Registry,   \* the tools of the registry made at startup
          ToolLists,  \* the tool lists the server may come back with
          McpSlots,   \* capacity of mcpSlots
          MaxCrashes  \* bound on the crashes of the server

Nobody == "nobody"

ASSUME SearchClientAssumption ==
    /\ IsFiniteSet(Calls) /\ Nobody \notin Calls
    /\ McpSlots \in Nat \ {0} /\ MaxCrashes \in Nat
    /\ ToolOf \in [Calls -> Registry]

VARIABLES
    pc,        \* where each call is
    attempt,   \* first or second execution
    slots,     \* len(mcpSlots)
    readers,   \* calls that hold the mutex for reading
    writer,    \* call that holds it for writing, or waits for the readers to leave
    session,   \* the client's session, 0 for nil
    known,     \* byName, the tools listed when it was made
    mine,      \* the session each call is using or making, 0 for none
    open,      \* sessions made and not closed
    opened,    \* number of sessions made
    server,    \* the server: up, its sessions, its tools, its crashes
    expired,   \* the context of the request has ended
    result,    \* what invoke returned
    troubled,  \* history: the call expired, or met a server that was down, slow or
               \* without its tool
    lost       \* history: the call ended, without a reconnection, on a session that the
               \* server has forgotten

client == <<session, known, open, opened>>
lock == <<readers, writer>>
history == <<troubled, lost>>
vars == <<pc, attempt, slots, lock, client, mine, server, expired, result, history>>

Places == {"idle", "slot", "rlock", "calling", "served", "delay", "lock", "drain",
           "connect", "list", "done"}

Init ==
    /\ pc = [c \in Calls |-> "idle"]
    /\ attempt = [c \in Calls |-> 1]
    /\ slots = 0
    /\ readers = {} /\ writer = Nobody
    /\ session = 1 /\ known = Registry /\ open = {1} /\ opened = 1
    /\ mine = [c \in Calls |-> 0]
    /\ server = [up |-> TRUE, sessions |-> {1}, tools |-> Registry, crashes |-> 0]
    /\ expired = [c \in Calls |-> FALSE]
    /\ result = [c \in Calls |-> "none"]
    /\ troubled = [c \in Calls |-> FALSE]
    /\ lost = [c \in Calls |-> FALSE]

Goto(c, place) == pc' = [pc EXCEPT ![c] = place]
Active(c) == pc[c] \notin {"idle", "done"}

(* invoke returns: the slot is given back. *)
Return(c, how) ==
    /\ Goto(c, "done")
    /\ slots' = slots - 1
    /\ result' = [result EXCEPT ![c] = how]

-----------------------------------------------------------------------------
(* The surroundings: the server and the deadlines of the requests. *)

Crash ==
    /\ server.up /\ server.crashes < MaxCrashes
    /\ server' = [server EXCEPT !.up = FALSE, !.sessions = {}, !.crashes = @ + 1]
    /\ troubled' = [c \in Calls |-> troubled[c] \/ Active(c)]
    /\ UNCHANGED <<pc, attempt, slots, lock, client, mine, expired, result, lost>>

Recover ==
    /\ ~server.up
    /\ \E list \in ToolLists : server' = [server EXCEPT !.up = TRUE, !.tools = list]
    /\ UNCHANGED <<pc, attempt, slots, lock, client, mine, expired, result, history>>

Expire(c) ==
    /\ Active(c) /\ ~expired[c]
    /\ expired' = [expired EXCEPT ![c] = TRUE]
    /\ troubled' = [troubled EXCEPT ![c] = TRUE]
    /\ UNCHANGED <<pc, attempt, slots, lock, client, mine, server, result, lost>>

-----------------------------------------------------------------------------
(* invoke: the slot, the first call. *)

Start(c) ==
    /\ pc[c] = "idle" /\ session # 0
    /\ Goto(c, "slot")
    /\ troubled' = [troubled EXCEPT ![c] = ~server.up]
    /\ UNCHANGED <<attempt, slots, lock, client, mine, server, expired, result, lost>>

TakeSlot(c) ==
    /\ pc[c] = "slot" /\ slots < McpSlots
    /\ slots' = slots + 1
    /\ Goto(c, "rlock")
    /\ UNCHANGED <<attempt, lock, client, mine, server, expired, result, history>>

NoSlot(c) ==
    /\ pc[c] = "slot" /\ expired[c]
    /\ Goto(c, "done")
    /\ result' = [result EXCEPT ![c] = "context"]
    /\ UNCHANGED <<attempt, slots, lock, client, mine, server, expired, history>>

Usable(c) == session # 0 /\ ToolOf[c] \in known

(* Client.Call keeps the read lock until the tool has answered. *)
BeginCall(c) ==
    /\ pc[c] = "rlock" /\ writer = Nobody
    /\ Usable(c)
    /\ readers' = readers \cup {c}
    /\ mine' = [mine EXCEPT ![c] = session]
    /\ Goto(c, "calling")
    /\ UNCHANGED <<attempt, slots, writer, client, server, expired, result, history>>

(* The client is closed, or its cached list does not have the tool. *)
Reject(c) ==
    /\ pc[c] = "rlock" /\ writer = Nobody
    /\ ~Usable(c)
    /\ Return(c, "unavailable")
    /\ troubled' = [troubled EXCEPT ![c] =
                        @ \/ (session # 0 /\ ToolOf[c] \notin server.tools)]
    /\ lost' = [lost EXCEPT ![c] = session # 0 /\ session \notin server.sessions]
    /\ UNCHANGED <<attempt, lock, client, mine, server, expired>>

-----------------------------------------------------------------------------
(* session.CallTool *)

Alive(c) == server.up /\ mine[c] \in server.sessions
InCall(c) == pc[c] \in {"calling", "served"}
RUnlock(c) == readers' = readers \ {c} /\ mine' = [mine EXCEPT ![c] = 0]

Serve(c) ==
    /\ pc[c] = "calling" /\ Alive(c)
    /\ Goto(c, "served")
    /\ UNCHANGED <<attempt, slots, lock, client, mine, server, expired, result, history>>

(* A tool result, which may be an error that the tool itself tells of. *)
CallReturns(c) ==
    /\ pc[c] = "served"
    /\ RUnlock(c)
    /\ Return(c, "result")
    /\ UNCHANGED <<attempt, writer, client, server, expired, history>>

(* An error that isMCPTransportError does not know: one that a live server answers with,
   or the answer of a server that has forgotten the session.  No reconnection follows,
   and the model is told tool_unavailable. *)
CallFails(c) ==
    /\ InCall(c) /\ ~expired[c]
    /\ RUnlock(c)
    /\ Return(c, "unavailable")
    /\ troubled' = [troubled EXCEPT ![c] = @ \/ Alive(c)]
    /\ lost' = [lost EXCEPT ![c] = ~Alive(c)]
    /\ UNCHANGED <<attempt, writer, client, server, expired>>

CallIsCut(c) ==
    /\ InCall(c) /\ expired[c]
    /\ RUnlock(c)
    /\ Return(c, "context")
    /\ UNCHANGED <<attempt, writer, client, server, expired, history>>

(* Mutant of TransportFails: the call is repeated on the same session, without a bound. *)
TransportFailsAgain(c) ==
    /\ InCall(c) /\ ~expired[c]
    /\ RUnlock(c)
    /\ troubled' = [troubled EXCEPT ![c] = @ \/ Alive(c)]
    /\ Goto(c, "rlock")
    /\ UNCHANGED <<attempt, slots, writer, client, server, expired, result, lost>>

(* The connection is closed, or the HTTP client's timeout runs out. *)
TransportFails(c) ==
    /\ InCall(c) /\ ~expired[c]
    /\ RUnlock(c)
    /\ troubled' = [troubled EXCEPT ![c] = @ \/ Alive(c)]
    /\ IF attempt[c] = 1
       THEN Goto(c, "delay") /\ UNCHANGED <<slots, result>>
       ELSE Return(c, "unavailable")
    /\ UNCHANGED <<attempt, writer, client, server, expired, lost>>

Delay(c) ==
    /\ pc[c] = "delay"
    /\ \/ Goto(c, "lock") /\ UNCHANGED <<slots, result>>
       \/ expired[c] /\ Return(c, "context")
    /\ UNCHANGED <<attempt, lock, client, mine, server, expired, history>>

-----------------------------------------------------------------------------
(* Client.Reconnect: the mutex is asked for (new readers wait), the readers leave. *)

AskLock(c) ==
    /\ pc[c] = "lock" /\ writer = Nobody
    /\ writer' = c
    /\ Goto(c, "drain")
    /\ UNCHANGED <<attempt, slots, readers, client, mine, server, expired, result, history>>

(* Mutant of Drain: the session is replaced without waiting for the readers. *)
DrainNobody(c) ==
    /\ pc[c] = "drain"
    /\ Goto(c, "connect")
    /\ UNCHANGED <<attempt, slots, lock, client, mine, server, expired, result, history>>

Drain(c) ==
    /\ pc[c] = "drain" /\ readers = {}
    /\ Goto(c, "connect")
    /\ UNCHANGED <<attempt, slots, lock, client, mine, server, expired, result, history>>

Connect(c) ==
    /\ pc[c] = "connect" /\ server.up
    /\ opened' = opened + 1
    /\ open' = open \cup {opened'}
    /\ mine' = [mine EXCEPT ![c] = opened']
    /\ server' = [server EXCEPT !.sessions = @ \cup {opened'}]
    /\ Goto(c, "list")
    /\ UNCHANGED <<attempt, slots, lock, session, known, expired, result, history>>

(* Mutants of ConnectFails: the old session is dropped as well, or the slot is kept. *)
ConnectFailsForGood(c) ==
    /\ pc[c] = "connect"
    /\ writer' = Nobody
    /\ session' = 0 /\ open' = open \ {session}
    /\ Return(c, "unavailable")
    /\ troubled' = [troubled EXCEPT ![c] = TRUE]
    /\ UNCHANGED <<attempt, readers, known, opened, mine, server, expired, lost>>

ConnectFailsHoldingSlot(c) ==
    /\ pc[c] = "connect"
    /\ writer' = Nobody
    /\ Goto(c, "done")
    /\ result' = [result EXCEPT ![c] = "unavailable"]
    /\ troubled' = [troubled EXCEPT ![c] = TRUE]
    /\ UNCHANGED <<attempt, slots, readers, client, mine, server, expired, lost>>

(* The server is down, the context has ended, or the timeout runs out. *)
ConnectFails(c) ==
    /\ pc[c] = "connect"
    /\ writer' = Nobody
    /\ Return(c, "unavailable")
    /\ troubled' = [troubled EXCEPT ![c] = TRUE]
    /\ UNCHANGED <<attempt, readers, client, mine, server, expired, lost>>

(* Mutant of Replace: the list of the first connection is kept. *)
ReplaceKeepingList(c) ==
    /\ pc[c] = "list" /\ Alive(c) /\ ~expired[c]
    /\ session' = mine[c]
    /\ open' = open \ {session}
    /\ server' = [server EXCEPT !.sessions = @ \ {session}]
    /\ mine' = [mine EXCEPT ![c] = 0]
    /\ writer' = Nobody
    /\ attempt' = [attempt EXCEPT ![c] = 2]
    /\ Goto(c, "rlock")
    /\ UNCHANGED <<slots, readers, known, opened, expired, result, history>>

(* The new session and its tools replace the old ones, the old is closed. *)
Replace(c) ==
    /\ pc[c] = "list" /\ Alive(c) /\ ~expired[c]
    /\ session' = mine[c]
    /\ known' = server.tools
    /\ open' = open \ {session}
    /\ server' = [server EXCEPT !.sessions = @ \ {session}]
    /\ mine' = [mine EXCEPT ![c] = 0]
    /\ writer' = Nobody
    /\ attempt' = [attempt EXCEPT ![c] = 2]
    /\ Goto(c, "rlock")
    /\ UNCHANGED <<slots, readers, opened, expired, result, history>>

(* Mutant of ListFails: the new session is not closed. *)
ListFailsLeaking(c) ==
    /\ pc[c] = "list"
    /\ mine' = [mine EXCEPT ![c] = 0]
    /\ writer' = Nobody
    /\ Return(c, "unavailable")
    /\ troubled' = [troubled EXCEPT ![c] = TRUE]
    /\ UNCHANGED <<attempt, readers, client, server, expired, lost>>

(* tools/list fails: the new session is closed, the old one stays. *)
ListFails(c) ==
    /\ pc[c] = "list"
    /\ open' = open \ {mine[c]}
    /\ server' = [server EXCEPT !.sessions = @ \ {mine[c]}]
    /\ mine' = [mine EXCEPT ![c] = 0]
    /\ writer' = Nobody
    /\ Return(c, "unavailable")
    /\ troubled' = [troubled EXCEPT ![c] = TRUE]
    /\ UNCHANGED <<attempt, readers, session, known, opened, expired, lost>>

(* main closes the client after the queue has shut down: nothing is running. *)
Close ==
    /\ session # 0 /\ \A c \in Calls : ~Active(c)
    /\ open' = open \ {session}
    /\ server' = [server EXCEPT !.sessions = @ \ {session}]
    /\ session' = 0
    /\ UNCHANGED <<pc, attempt, slots, lock, known, opened, mine, expired, result, history>>

-----------------------------------------------------------------------------
Answered(c) == CallReturns(c) \/ CallFails(c) \/ CallIsCut(c) \/ TransportFails(c)
Reconnect(c) ==
    \/ AskLock(c) \/ Drain(c) \/ Connect(c) \/ ConnectFails(c) \/ Replace(c) \/ ListFails(c)
Step(c) ==
    \/ TakeSlot(c) \/ NoSlot(c) \/ BeginCall(c) \/ Reject(c) \/ Serve(c) \/ Answered(c)
    \/ Delay(c) \/ Reconnect(c)

Closed == session = 0 /\ UNCHANGED vars

Next ==
    \/ Crash \/ Recover \/ Close \/ Closed
    \/ \E c \in Calls : Expire(c) \/ Start(c) \/ Step(c)

(* Every call to the server returns, at the latest after its timeout, and  *)
(* Go wakes goroutines that can proceed.  The server need not be fair.  A  *)
(* call takes finitely many steps: one condition on all says the same as   *)
(* one on each.                                                            *)
Spec == Init /\ [][Next]_vars /\ WF_vars(\E c \in Calls : Step(c))

-----------------------------------------------------------------------------
(* The state is well formed; the slots in use are those of the calls past  *)
(* their semaphore, and a reader and a writer never share the mutex.       *)
TypeOK ==
    /\ pc \in [Calls -> Places]
    /\ attempt \in [Calls -> 1..2]
    /\ readers = {c \in Calls : InCall(c)}
    /\ writer \in Calls \cup {Nobody}
    /\ \A c \in Calls : writer = c <=> pc[c] \in {"drain", "connect", "list"}
    /\ slots = Cardinality({c \in Calls : Active(c) /\ pc[c] # "slot"}) /\ slots <= McpSlots
    /\ open \subseteq 1..opened /\ session \in 0..opened
    /\ result \in [Calls -> {"none", "result", "context", "unavailable"}]
    /\ {expired, troubled, lost} \subseteq [Calls -> BOOLEAN]

(* "In-flight calls finish before the old session closes" (client.go):     *)
(* no reconnection closes a session under a call that uses it.             *)
CallsUseOpenSessions == \A c \in Calls : InCall(c) => mine[c] \in open

(* Reconnections, whether they succeed or fail, and Close leave no session *)
(* open but the one the client uses; one more exists only while it is made.*)
NoSessionLeaked ==
    open = ({session} \ {0}) \cup {mine[c] : c \in {d \in Calls : pc[d] = "list"}}

(* Both: a session is open for as long as it is needed, and no longer.     *)
SessionsMatchUse == CallsUseOpenSessions /\ NoSessionLeaked

(* The cached tool list is that of the server for as long as the session   *)
(* lives, however many calls reconnect and whenever the server comes back  *)
(* with other tools: only the loss of a session makes the list stale.      *)
ListIsCurrent == session \in server.sessions => known = server.tools

(* A call that had its time, and a server that was up, quick and willing   *)
(* for as long as it lasted, gets an answer once somebody has reconnected. *)
(* The one way to fail is to meet the lost session first: by an error that *)
(* does not look like the transport's, or by a tool that is not in the     *)
(* list of that session (stale then, as ListIsCurrent says).               *)
OnlyLostSessionsFail ==
    \A c \in Calls : result[c] \in {"unavailable", "context"} /\ ~troubled[c] =>
        lost[c] /\ attempt[c] = 1

(* Both: the loss of a session is all that a crash leaves behind, and it   *)
(* ends with the first reconnection.                                       *)
HealedCallsSucceed == ListIsCurrent /\ OnlyLostSessionsFail

(* Slots, read locks and the write lock are always given back: no call     *)
(* stays under way for ever, though the mutex does not look at deadlines.  *)
EveryCallReturns == <>[](\A c \in Calls : ~Active(c))
=============================================================================
