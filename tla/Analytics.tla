----------------------------- MODULE Analytics -----------------------------
(***************************************************************************)
(* What AnalyticsService reports of conversations, computed from the rows  *)
(* and trails that the racing operations of ConversationLifecycle leave:   *)
(* the handle time of a completed conversation, as getAgentPerformance and *)
(* getOrganizationStats take it from conversation_events.                  *)
(*                                                                         *)
(* An event's place in its trail stands for its created_at.  A report      *)
(* reads the rows first and the trails after them; trails only grow, so    *)
(* what is said here of one state a report finds as well, unless the       *)
(* conversation moves on while it reads.  Periods and units are left out,  *)
(* and so are the counts of messages and of agents.                        *)
(***************************************************************************)
EXTENDS ConversationLifecycle

EventsOf(c, type) == {i \in DOMAIN trail[c] : trail[c][i].type = type}

\* The conversations an agent is credited with, and the organization's.
AgentCompleted(a) ==
    {c \in Conversations : row[c].agent = a /\ row[c].status = "COMPLETED"}

OrgCompleted == {c \in Conversations : row[c].status = "COMPLETED"}

\* LIMIT 1 without an order: the database may answer with any of them.
AcceptEvents(c) == EventsOf(c, "ACCEPTED")

\* ... ordered by created_at,
FirstAccept(c) ==
    CHOOSE i \in AcceptEvents(c) : \A j \in AcceptEvents(c) : i <= j

\* ... and the newest first.
LastComplete(c) ==
    CHOOSE i \in EventsOf(c, "COMPLETED") : \A j \in EventsOf(c, "COMPLETED") : j <= i

\* Both reports add the time up where both events are found ...
Measured(c) == AcceptEvents(c) # {} /\ EventsOf(c, "COMPLETED") # {}

AgentHandleTimes(c) == {LastComplete(c) - i : i \in AcceptEvents(c)}

OrgHandleTime(c) == LastComplete(c) - FirstAccept(c)

-----------------------------------------------------------------------------
(* Properties. *)

\* Every event of the conversation is in its trail: none is still to come, and
\* no insert has failed.
Audited(c) ==
    /\ \A r \in Requests : pc[r] = "audit" => job[r].conv # c
    /\ \A op \in Ops : <<op, c>> \notin unaudited

\* ... and divide by the number of completed conversations, found or not: the
\* two agree, whatever completed the conversation, once its events are written.
CompletedIsMeasured == \A c \in OrgCompleted : Audited(c) => Measured(c)

\* A completed conversation is credited to the agent that accepted it last,
\* although a stale complete may have been another agent's.
CreditIsEarned ==
    \A a \in Agents : \A c \in AgentCompleted(a) :
        Audited(c) => LastAcceptedBy(trail[c], a)

\* Of a conversation that was never let go, the agent's report and the
\* organization's give the same handle time, whichever ACCEPTED event the
\* database answers with: racing accepts leave one between them.
ReportsAgree ==
    \A c \in OrgCompleted :
        /\ Audited(c)
        /\ \A type \in {"RELEASED", "REOPENED", "AGENT_DISCONNECTED"} :
              EventsOf(c, type) = {}
        => AgentHandleTimes(c) = {OrgHandleTime(c)}

=============================================================================
