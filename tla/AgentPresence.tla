---------------------------- MODULE AgentPresence ----------------------------
(***************************************************************************)
(* Agents come and go: EventsGateway's handleConnection, handleSetStatus   *)
(* and handleDisconnect, the session it keeps in Valkey (one key for each  *)
(* agent), and the conversations releaseByAgent gives back.                *)
(*                                                                         *)
(* Sockets are the connections of all servers together.  An agent may have *)
(* several, and accepts by HTTP, with or without one.  A socket is never   *)
(* reopened: to reconnect is to open another.                              *)
(*                                                                         *)
(* The statements of accept and release, and the audit trail, are in       *)
(* ConversationLifecycle; here they are single steps.                      *)
(***************************************************************************)
EXTENDS FiniteSets

CONSTANTS
    Agents, Conversations, Sockets,
    AgentOf,            \* Sockets -> Agents: the handshake's auth.userId
    NoAgent,            \* assigned_agent_id is NULL
    NoSocket            \* Valkey has no session:<agent>

ASSUME AgentOfAssumption == AgentOf \in [Sockets -> Agents]
ASSUME NoneAssumption == NoAgent \notin Agents /\ NoSocket \notin Sockets

VARIABLES
    net,        \* each socket's connection
    tracked,    \* connectedAgents: the sockets each server counts
    setting,    \* sockets whose SETEX is on its way to Valkey
    session,    \* the socketId in session:<agent>
    pc,         \* the statement handleDisconnect executes next
    todo,       \* the rows its releaseByAgent selected and has not written
    holder      \* the agent each conversation is assigned to

vars == <<net, tracked, setting, session, pc, todo, holder>>

-----------------------------------------------------------------------------

Init ==
    /\ net = [s \in Sockets |-> "new"]
    /\ tracked = {}
    /\ setting = {}
    /\ session = [a \in Agents |-> NoSocket]
    /\ pc = [s \in Sockets |-> "idle"]
    /\ todo = [s \in Sockets |-> {}]
    /\ holder = [c \in Conversations |-> NoAgent]

Goto(s, step) == pc' = [pc EXCEPT ![s] = step]

-----------------------------------------------------------------------------
(* A socket's life.  The rooms are joined in memory, so that nothing comes  *)
(* between the handshake and the moment the SETEX is handed to the client.  *)

\* handleConnection, to its last await.
Connect(s) ==
    /\ net[s] = "new"
    /\ net' = [net EXCEPT ![s] = "open"]
    /\ tracked' = tracked \cup {s}
    /\ setting' = setting \cup {s}
    /\ UNCHANGED <<session, pc, todo, holder>>

\* handleSetStatus stores the whole session again, under this socket's id.
SetStatus(s) ==
    /\ net[s] = "open"
    /\ setting' = setting \cup {s}
    /\ UNCHANGED <<net, tracked, session, pc, todo, holder>>

\* Valkey executes the SETEX, or it fails and only its own handler knows.
StoreSession(s) ==
    /\ s \in setting
    /\ setting' = setting \ {s}
    /\ \/ session' = [session EXCEPT ![AgentOf[s]] = s]
       \/ UNCHANGED session
    /\ UNCHANGED <<net, tracked, pc, todo, holder>>

\* Mutant: the socket stays in the map.
DisconnectStillTracked(s) ==
    /\ net[s] = "open"
    /\ net' = [net EXCEPT ![s] = "closed"]
    /\ Goto(s, "deleteSession")
    /\ UNCHANGED <<tracked, setting, session, todo, holder>>

\* The socket closes: handleDisconnect, to its first await.
Disconnect(s) ==
    /\ net[s] = "open"
    /\ net' = [net EXCEPT ![s] = "closed"]
    /\ tracked' = tracked \ {s}
    /\ Goto(s, "deleteSession")
    /\ UNCHANGED <<setting, session, todo, holder>>

-----------------------------------------------------------------------------
(* The rest of handleDisconnect. *)

\* Mutant: a client of its own for DEL, which may overtake a SETEX.
DeleteSessionOvertaking(s) ==
    /\ pc[s] = "deleteSession"
    /\ session' = [session EXCEPT ![AgentOf[s]] = NoSocket]
    /\ Goto(s, "select")
    /\ UNCHANGED <<net, tracked, setting, todo, holder>>

\* Mutant: a socket whose session another has replaced or deleted does nothing more.
DeleteSessionIfOwn(s) ==
    /\ pc[s] = "deleteSession" /\ s \notin setting
    /\ \/ /\ session[AgentOf[s]] = s
          /\ session' = [session EXCEPT ![AgentOf[s]] = NoSocket]
          /\ Goto(s, "select")
       \/ /\ session[AgentOf[s]] # s
          /\ Goto(s, "done")
          /\ UNCHANGED session
    /\ UNCHANGED <<net, tracked, setting, todo, holder>>

\* DEL session:<agent>, whatever socket it names.  One client per server sends
\* commands in order, so the DEL comes after the SETEX of the same socket.
DeleteSession(s) ==
    /\ pc[s] = "deleteSession" /\ s \notin setting
    /\ session' = [session EXCEPT ![AgentOf[s]] = NoSocket]
    /\ Goto(s, "select")
    /\ UNCHANGED <<net, tracked, setting, todo, holder>>

\* releaseByAgent: the rows assigned to the agent now ...
SelectAssigned(s) ==
    LET mine == {c \in Conversations : holder[c] = AgentOf[s]} IN
    /\ pc[s] = "select"
    /\ todo' = [todo EXCEPT ![s] = mine]
    /\ Goto(s, IF mine = {} THEN "done" ELSE "write")
    /\ UNCHANGED <<net, tracked, setting, session, holder>>

\* ... are written one by one, whoever holds them by then.
WriteReleased(s) ==
    /\ pc[s] = "write"
    /\ \E c \in todo[s] :
          /\ holder' = [holder EXCEPT ![c] = NoAgent]
          /\ todo' = [todo EXCEPT ![s] = @ \ {c}]
          /\ Goto(s, IF todo[s] = {c} THEN "done" ELSE "write")
    /\ UNCHANGED <<net, tracked, setting, session>>

\* A statement fails: what is left is not done.
DisconnectFails(s) ==
    /\ pc[s] \in {"deleteSession", "select", "write"}
    /\ Goto(s, "failed")
    /\ todo' = [todo EXCEPT ![s] = {}]
    /\ UNCHANGED <<net, tracked, setting, session, holder>>

\* The server of s dies, and its map with it: the socket closes and no
\* handleDisconnect runs, or the one that runs ends here.
ServerDies(s) ==
    /\ net[s] = "open" \/ pc[s] \in {"deleteSession", "select", "write"}
    /\ net' = [net EXCEPT ![s] = "closed"]
    /\ tracked' = tracked \ {s}
    /\ Goto(s, "failed")
    /\ todo' = [todo EXCEPT ![s] = {}]
    /\ UNCHANGED <<setting, session, holder>>

\* The session's TTL of 24 hours.
SessionExpires(a) ==
    /\ session[a] # NoSocket
    /\ session' = [session EXCEPT ![a] = NoSocket]
    /\ UNCHANGED <<net, tracked, setting, pc, todo, holder>>

-----------------------------------------------------------------------------
(* What agents do by HTTP meanwhile. *)

Accept(a, c) ==
    /\ holder[c] = NoAgent
    /\ holder' = [holder EXCEPT ![c] = a]
    /\ UNCHANGED <<net, tracked, setting, session, pc, todo>>

\* release, or complete.
LetGo(c) ==
    /\ holder[c] # NoAgent
    /\ holder' = [holder EXCEPT ![c] = NoAgent]
    /\ UNCHANGED <<net, tracked, setting, session, pc, todo>>

-----------------------------------------------------------------------------

Continue(s) == DeleteSession(s) \/ SelectAssigned(s) \/ WriteReleased(s)

Next ==
    \/ \E s \in Sockets :
          \/ Connect(s) \/ SetStatus(s) \/ StoreSession(s) \/ Disconnect(s)
          \/ Continue(s) \/ DisconnectFails(s) \/ ServerDies(s)
    \/ \E a \in Agents : SessionExpires(a)
    \/ \E c \in Conversations : LetGo(c) \/ \E a \in Agents : Accept(a, c)

Spec == Init /\ [][Next]_vars

\* Valkey answers, and a server goes on with a handler it has begun.
FairSpec ==
    /\ Spec
    /\ \A s \in Sockets : WF_vars(StoreSession(s)) /\ WF_vars(Continue(s))

-----------------------------------------------------------------------------
(* Properties. *)

TypeOK ==
    /\ net \in [Sockets -> {"new", "open", "closed"}]
    /\ tracked = {s \in Sockets : net[s] = "open"}
    /\ setting \subseteq Sockets
    /\ session \in [Agents -> Sockets \cup {NoSocket}]
    /\ pc \in [Sockets -> {"idle", "deleteSession", "select", "write", "done", "failed"}]
    /\ todo \in [Sockets -> SUBSET Conversations]
    /\ \A s \in Sockets : pc[s] = "write" <=> todo[s] # {}
    /\ holder \in [Conversations -> Agents \cup {NoAgent}]

\* No phantom agents: once handleDisconnect is past its DEL, no session names
\* that socket again, whatever status changes and connections of the same agent
\* were on their way to Valkey.
NoPhantomSession ==
    \A s \in Sockets :
        pc[s] \in {"select", "write", "done"} => session[AgentOf[s]] # s

Online(a) == \E s \in Sockets : AgentOf[s] = a /\ net[s] = "open"

\* "Release all conversations assigned to this agent": what an agent holds when
\* their last socket closes is let go, whichever socket the session names by then,
\* unless they come back or handleDisconnect fails.
GoneAgentReleased ==
    \A s \in Sockets, c \in Conversations :
        pc[s] = "deleteSession" /\ holder[c] = AgentOf[s]
            ~> holder[c] # AgentOf[s] \/ Online(AgentOf[s]) \/ pc[s] = "failed"

\* "If no reconnect: Release assigned conversations", whatever fails or dies: an
\* agent who leaves for good lets go of what they held while they were there.
GoneAgentLetsGo ==
    \A a \in Agents, c \in Conversations :
        <>[]~Online(a) => (Online(a) /\ holder[c] = a ~> holder[c] # a)
=============================================================================
