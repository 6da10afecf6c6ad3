--------------------------- MODULE MessageHistory ---------------------------
(***************************************************************************)
(* The messages of one conversation, as agents write and read them: POST   *)
(* (MessagesController.create, MessagesService.create), the pages of       *)
(* messages a client asks for by cursor (findByConversation of             *)
(* MessagesService), and the pages of events it asks for by number         *)
(* (findByConversation of ConversationEventsService).                      *)
(*                                                                         *)
(* POSTs run concurrently, one awaited statement a step, and with them     *)
(* agents' calls on the assignment and the contact's messages, each by its *)
(* own statements; ConversationLifecycle and InboundWebhooks have more of  *)
(* both (the lock, several conversations, several contacts).               *)
(*                                                                         *)
(* The database keeps created_at in microseconds, so the order of the rows *)
(* is that of their INSERTs; the program reads it into a Date, which has   *)
(* milliseconds.  lastMessageAt, which a POST writes too, is left out.     *)
(***************************************************************************)
EXTENDS Naturals, Sequences, FiniteSets

CONSTANTS
    Agents,
    Posts,          \* requests to send a message
    Calls,          \* calls on the assignment, and inbound messages, at once
    NoAgent,        \* SQL NULL in assigned_agent_id and in messages.agent_id
    Limit,          \* the page size
    MaxInbound,     \* bound: messages from the contact
    MaxMoves,       \* bound: calls that agents make on the assignment
    MaxTime         \* bound: milliseconds

ASSUME AgentAssumption == NoAgent \notin Agents
ASSUME BoundAssumption ==
    /\ Limit \in Nat \ {0}
    /\ MaxInbound \in Nat /\ MaxMoves \in Nat /\ MaxTime \in Nat

VARIABLES
    row,            \* status and assigned agent of the conversation
    held,           \* history: the agents it has been assigned to
    moves,          \* calls that agents have made on the assignment
    calls,          \* what each call has checked and will write
    time,           \* the database's clock, in milliseconds
    messages,       \* its rows of messages, oldest first
    events,         \* the number of its events
    first,          \* the message whose POST last wrote first_response_at, or 0
    answered,       \* history: the messages there were when it was first written
    pc,             \* the statement each POST executes next
    sender,         \* the agent each POST is from
    sent,           \* the message each POST has stored
    client          \* one that reads the messages or the events, page by page

conversation == <<row, held, moves, calls>>
posts == <<pc, sender, sent>>
vars == <<conversation, time, messages, events, first, answered, posts, client>>

-----------------------------------------------------------------------------

Statuses == {"PENDING", "ASSIGNED", "COMPLETED"}

Lists == {"messages", "events"}

Writing == {"accept", "release", "complete", "reopen"}

NoCall == [op |-> "none", agent |-> NoAgent]

Message == [agent : Agents \cup {NoAgent}, at : 0 .. MaxTime]

Init ==
    /\ row = [status |-> "PENDING", agent |-> NoAgent]
    /\ held = {}
    /\ moves = 0
    /\ calls = [c \in Calls |-> NoCall]
    /\ time = 0
    /\ messages = <<>>
    /\ events = 1
    /\ first = 0
    /\ answered = 0
    /\ pc = [p \in Posts |-> "idle"]
    /\ sender = [p \in Posts |-> NoAgent]
    /\ sent = [p \in Posts |-> 0]
    /\ \E list \in Lists : client = [list |-> list, state |-> "idle", next |-> 0,
                                     known |-> 0, got |-> <<>>]

Tick ==
    /\ time < MaxTime
    /\ time' = time + 1
    /\ UNCHANGED <<conversation, messages, events, first, answered, posts,
                   client>>

-----------------------------------------------------------------------------
(* The conversation, moved by agents and by its contact: a call checks in one  *)
(* statement, writes the row in another, WHERE id = ..., and inserts its event *)
(* in a third.  accept's lock is left out (ConversationLifecycle has it), so   *)
(* that accepts race here as they do past its TTL.                             *)

Goes(c, op, agent) == calls' = [calls EXCEPT ![c] = [op |-> op, agent |-> agent]]

Ends(c) == calls' = [calls EXCEPT ![c] = NoCall]

Checked(c, op, agent) ==
    /\ calls[c] = NoCall
    /\ moves < MaxMoves
    /\ moves' = moves + 1
    /\ Goes(c, op, agent)
    /\ UNCHANGED <<row, held, time, messages, events, first, answered, posts, client>>

AcceptCheck(c) == row.status = "PENDING" /\ \E a \in Agents : Checked(c, "accept", a)

\* release, or releaseByAgent when the agent disconnects
ReleaseCheck(c) == row.status = "ASSIGNED" /\ Checked(c, "release", NoAgent)

CompleteCheck(c) == row.status = "ASSIGNED" /\ Checked(c, "complete", NoAgent)

Store(agent) == messages' = Append(messages, [agent |-> agent, at |-> time])

Inbound == {i \in DOMAIN messages : messages[i].agent = NoAgent}

\* A message from the contact: its row, its event, and reopen.
Receive(c) ==
    /\ calls[c] = NoCall
    /\ Cardinality(Inbound) < MaxInbound
    /\ Store(NoAgent)
    /\ Goes(c, "record", NoAgent)
    /\ UNCHANGED <<row, held, moves, time, events, first, answered, posts, client>>

ReceiveRecord(c) ==
    /\ calls[c].op = "record"
    /\ events' = events + 1
    /\ Goes(c, "reopenCheck", NoAgent)
    /\ UNCHANGED <<row, held, moves, time, messages, first, answered, posts, client>>

ReopenCheck(c) ==
    /\ calls[c].op = "reopenCheck"
    /\ \/ row.status = "COMPLETED" /\ Goes(c, "reopen", NoAgent)
       \/ row.status # "COMPLETED" /\ Ends(c)
    /\ UNCHANGED <<row, held, moves, time, messages, events, first, answered, posts,
                   client>>

\* Mutant: release leaves the agent in the row.
WrittenKeepsAgent(call) ==
    CASE call.op = "accept" -> [status |-> "ASSIGNED", agent |-> call.agent]
      [] call.op \in {"release", "reopen"} -> [row EXCEPT !.status = "PENDING"]
      [] call.op = "complete" -> [row EXCEPT !.status = "COMPLETED"]

\* complete leaves what it finds of the agent, who may have let go since the check.
Written(call) ==
    CASE call.op = "accept" -> [status |-> "ASSIGNED", agent |-> call.agent]
      [] call.op \in {"release", "reopen"} -> [status |-> "PENDING", agent |-> NoAgent]
      [] call.op = "complete" -> [row EXCEPT !.status = "COMPLETED"]

CallWrite(c) ==
    /\ calls[c].op \in Writing
    /\ row' = Written(calls[c])
    /\ held' = held \cup ({calls[c].agent} \ {NoAgent})
    /\ Goes(c, "audit", NoAgent)
    /\ UNCHANGED <<moves, time, messages, events, first, answered, posts, client>>

CallAudit(c) ==
    /\ calls[c].op = "audit"
    /\ events' = events + 1
    /\ Ends(c)
    /\ UNCHANGED <<row, held, moves, time, messages, first, answered, posts, client>>

\* A statement of a call fails: what is written stays, and the rest is not done.
CallFails(c) ==
    /\ calls[c] # NoCall
    /\ Ends(c)
    /\ UNCHANGED <<row, held, moves, time, messages, events, first, answered, posts,
                   client>>

Call(c) ==
    \/ AcceptCheck(c) \/ ReleaseCheck(c) \/ CompleteCheck(c)
    \/ Receive(c) \/ ReceiveRecord(c) \/ ReopenCheck(c)
    \/ CallWrite(c) \/ CallAudit(c) \/ CallFails(c)

-----------------------------------------------------------------------------
(* POST. *)

Goto(p, step) == pc' = [pc EXCEPT ![p] = step] /\ UNCHANGED <<sender, sent>>

Finish(p, step) ==
    /\ pc' = [pc EXCEPT ![p] = step]
    /\ sender' = [sender EXCEPT ![p] = NoAgent]
    /\ sent' = [sent EXCEPT ![p] = 0]

Begin(p, a) ==
    /\ pc' = [pc EXCEPT ![p] = "insert"]
    /\ sender' = [sender EXCEPT ![p] = a]
    /\ UNCHANGED sent

\* Mutant: any agent of the organization may write.
CheckOfAnyone(p, a) ==
    /\ pc[p] = "idle"
    /\ Begin(p, a)
    /\ UNCHANGED <<conversation, time, messages, events, first, answered, client>>

\* 403 unless the row names the agent; its status is not looked at.
Check(p, a) ==
    /\ pc[p] = "idle"
    /\ \/ row.agent = a /\ Begin(p, a)
       \/ row.agent # a /\ Finish(p, "refused")
    /\ UNCHANGED <<conversation, time, messages, events, first, answered, client>>

Insert(p) ==
    /\ pc[p] = "insert"
    /\ Store(sender[p])
    /\ sent' = [sent EXCEPT ![p] = Len(messages) + 1]
    /\ pc' = [pc EXCEPT ![p] = "record"]
    /\ UNCHANGED <<conversation, time, events, first, answered, sender, client>>

\* lastMessageAt, then the MESSAGE_SENT event.
Record(p) ==
    /\ pc[p] = "record"
    /\ events' = events + 1
    /\ Goto(p, "readFirst")
    /\ UNCHANGED <<conversation, time, messages, first, answered, client>>

\* Mutant: a response is the first one if no other message of an agent is stored.
ReadFirstByMessages(p) ==
    /\ pc[p] = "readFirst"
    /\ \/ Len(messages) = 1 + Cardinality(Inbound) /\ Goto(p, "writeFirst")
       \/ Len(messages) > 1 + Cardinality(Inbound) /\ Finish(p, "done")
    /\ UNCHANGED <<conversation, time, messages, events, first, answered, client>>

\* Mutant: the column is not looked at.
ReadFirstAlways(p) ==
    /\ pc[p] = "readFirst"
    /\ Goto(p, "writeFirst")
    /\ UNCHANGED <<conversation, time, messages, events, first, answered, client>>

\* setFirstResponseAt reads the conversation ...
ReadFirst(p) ==
    /\ pc[p] = "readFirst"
    /\ \/ first = 0 /\ Goto(p, "writeFirst")
       \/ first # 0 /\ Finish(p, "done")
    /\ UNCHANGED <<conversation, time, messages, events, first, answered, client>>

\* ... and writes WHERE id = ..., whatever the column holds by now.
WriteFirst(p) ==
    /\ pc[p] = "writeFirst"
    /\ first' = sent[p]
    /\ answered' = IF first = 0 THEN Len(messages) ELSE answered
    /\ Finish(p, "done")
    /\ UNCHANGED <<conversation, time, messages, events, client>>

\* A statement fails: the client gets an error, and what is written stays.
Fail(p) ==
    /\ pc[p] \in {"insert", "record", "readFirst", "writeFirst"}
    /\ Finish(p, "failed")
    /\ UNCHANGED <<conversation, time, messages, events, first, answered, client>>

-----------------------------------------------------------------------------
(* Pages of messages. *)

\* Mutant: the cursor's time itself is included.
BeforeOrAt(c) == {i \in DOMAIN messages : c = 0 \/ messages[i].at <= messages[c].at}

\* created_at < the cursor's, as a Date has it.
Before(c) == {i \in DOMAIN messages : c = 0 \/ messages[i].at < messages[c].at}

\* The newest n of the rows found.
Newest(rows, n) == {i \in rows : Cardinality({j \in rows : j > i}) < n}

\* A page, newest first.
PageOf(rows) == [k \in 1 .. Cardinality(rows) |->
                    CHOOSE i \in rows : Cardinality({j \in rows : j > i}) = k - 1]

\* One row more than the page is fetched, to see whether there are more.
HasMore(rows) == Cardinality(Newest(rows, Limit + 1)) > Limit

\* Mutant: the next cursor is the row fetched in excess.
NextCursorInExcess(rows) ==
    IF HasMore(rows) THEN PageOf(Newest(rows, Limit + 1))[Limit + 1] ELSE 0

NextCursor(rows) == IF HasMore(rows) THEN PageOf(Newest(rows, Limit))[Limit] ELSE 0

\* The page a client gets, what it asks for next (0 if there is no more), and,
\* with the first page, how many rows there are.
Fetch(list, n, page, next) ==
    /\ client.list = list
    /\ client.state \in {"idle", "reading"}
    /\ client' = [client EXCEPT
                     !.state = IF next = 0 THEN "done" ELSE "reading",
                     !.next = next,
                     !.known = IF client.state = "idle" THEN n ELSE @,
                     !.got = @ \o page]
    /\ UNCHANGED <<conversation, time, messages, events, first, answered, posts>>

\* GET ?cursor=..., until there is no next cursor.
FindMessages ==
    LET rows == Before(client.next) IN
    Fetch("messages", Len(messages), PageOf(Newest(rows, Limit)), NextCursor(rows))

-----------------------------------------------------------------------------
(* Pages of events. *)

\* Mutant: pages are counted from zero.
EventsAtFromZero(page) ==
    {e \in 1 .. events : events - e \in page * Limit .. (page + 1) * Limit - 1}

\* OFFSET (page - 1) * limit, newest first.
EventsAt(page) ==
    {e \in 1 .. events : events - e \in (page - 1) * Limit .. page * Limit - 1}

\* GET /events?page=..., from the first page until one is not full.
FindEvents ==
    LET page == client.next + 1
        data == EventsAt(page)
    IN  Fetch("events", events, PageOf(data),
              IF Cardinality(data) < Limit THEN 0 ELSE page)

-----------------------------------------------------------------------------

\* create of MessagesService, and what MessagesController does after it.
Post(p) == Insert(p) \/ Record(p) \/ ReadFirst(p) \/ WriteFirst(p)

Next ==
    \/ \E c \in Calls : Call(c)
    \/ Tick
    \/ \E p \in Posts : Post(p) \/ Fail(p) \/ \E a \in Agents : Check(p, a)
    \/ FindMessages \/ FindEvents

Spec == Init /\ [][Next]_vars

-----------------------------------------------------------------------------
(* Properties. *)

TypeOK ==
    /\ row \in [status : Statuses, agent : Agents \cup {NoAgent}]
    /\ row.status = "PENDING" => row.agent = NoAgent
    /\ row.status = "ASSIGNED" => row.agent # NoAgent
    /\ held \subseteq Agents
    /\ moves \in 0 .. MaxMoves
    /\ calls \in [Calls -> [op : {"none", "record", "reopenCheck", "audit"} \cup Writing,
                            agent : Agents \cup {NoAgent}]]
    /\ \A c \in Calls : calls[c].op = "accept" <=> calls[c].agent # NoAgent
    /\ time \in 0 .. MaxTime
    /\ messages \in Seq(Message)
    /\ events \in Nat
    /\ first \in 0 .. Len(messages)
    /\ answered \in 0 .. Len(messages)
    /\ pc \in [Posts -> {"idle", "insert", "record", "readFirst", "writeFirst",
                         "done", "refused", "failed"}]
    /\ sender \in [Posts -> Agents \cup {NoAgent}]
    /\ sent \in [Posts -> 0 .. Len(messages)]
    /\ client.list \in Lists /\ client.state \in {"idle", "reading", "done"}
    /\ client.next \in Nat /\ client.known \in Nat
    /\ client.got \in Seq(IF client.list = "messages" THEN DOMAIN messages
                                                     ELSE 1 .. events)

\* Whoever has a message in a conversation has held it: the agent a POST finds
\* assigned may have let go by the INSERT, but never was a stranger.
SenderHeldIt ==
    \A i \in DOMAIN messages : messages[i].agent \in held \cup {NoAgent}

\* A conversation that was answered has a time of first response, however the
\* first POSTs raced.
AnsweredHasTime == (\E p \in Posts : pc[p] = "done") => first # 0

\* Racing first POSTs may move the time of first response, a later one never
\* does: it is that of a message which was there when it was first written.
LateReplyIsNotFirst == first <= answered

Got == {client.got[k] : k \in DOMAIN client.got}

\* Pages of messages go from new to old and give no message twice, although
\* messages arrive between them.
PagesDescend ==
    client.list = "messages" =>
        \A j, k \in DOMAIN client.got : j < k => client.got[j] > client.got[k]

\* A client that has read all pages has every message there was when it began,
\* except such as were stored in the same millisecond as the last of a page.
SkippedSharesTime ==
    client.list = "messages" /\ client.state = "done" =>
        \A i \in 1 .. client.known \ Got :
            \E k \in DOMAIN client.got :
                k % Limit = 0 /\ messages[client.got[k]].at = messages[i].at

\* A client that has read all pages of events has every event there was when it
\* began: those inserted meanwhile push events to later pages, never past them.
EventsComplete ==
    client.list = "events" /\ client.state = "done" => 1 .. client.known \subseteq Got
=============================================================================
