----------------------- MODULE ConversationLifecycle -----------------------
(***************************************************************************)
(* The assignment of conversations to agents: ConversationsService, the    *)
(* per-conversation lock it keeps in Valkey, and the audit trail it writes *)
(* to conversation_events.                                                 *)
(*                                                                         *)
(* Requests run concurrently (one server interleaves at every await, and   *)
(* several servers may share the database), and no database transaction is *)
(* used anywhere: every statement commits by itself.  So a step of this    *)
(* module is one awaited statement, and other requests, crashes and the    *)
(* expiry of locks come between any two of them.                           *)
(*                                                                         *)
(* A request is served once.  Requests is any set, so this bounds nothing. *)
(***************************************************************************)
EXTENDS Naturals, Sequences, FiniteSets

CONSTANTS
    Agents,
    Conversations,
    Requests,           \* identities of calls into ConversationsService
    NoAgent,            \* SQL NULL in assigned_agent_id and in actor_id
    NoJob,              \* a request slot that is not being served
    Free,               \* the lock key is absent from Valkey
    HolderMayOverrun    \* may an accept outlive the lock's TTL of 5 s?

ASSUME NoAgentAssumption == NoAgent \notin Agents
ASSUME FreeAssumption == Free \notin Requests
ASSUME OverrunAssumption == HolderMayOverrun \in BOOLEAN

VARIABLES
    row,        \* the conversations table: status and assigned agent
    lock,       \* Valkey's lock:conversation:<id>; see AcceptLock for its value
    trail,      \* conversation_events of each conversation, oldest first
    pc,         \* the statement each request executes next
    job,        \* what each running request was called with
    unaudited   \* history: row writes whose event was never recorded

vars == <<row, lock, trail, pc, job, unaudited>>

-----------------------------------------------------------------------------
(* Values. *)

Statuses == {"PENDING", "ASSIGNED", "COMPLETED"}

Rows == [status : Statuses, agent : Agents \cup {NoAgent}]

Ops == {"accept", "release", "complete", "reopen", "disconnect"}

EventOf == [accept     |-> "ACCEPTED",
            release    |-> "RELEASED",
            complete   |-> "COMPLETED",
            reopen     |-> "REOPENED",
            disconnect |-> "AGENT_DISCONNECTED"]

EventTypes == {"CREATED", "ACCEPTED", "RELEASED", "COMPLETED", "REOPENED",
               "AGENT_DISCONNECTED"}

Events == [type : EventTypes, actor : Agents \cup {NoAgent}]

\* A call: conv is the conversation being worked on, todo the rest of the rows
\* a releaseByAgent selected.
Jobs ==
    [op : {"accept", "release", "complete"}, agent : Agents,
     conv : Conversations, todo : {{}}]
    \cup [op : {"reopen"}, agent : {NoAgent}, conv : Conversations, todo : {{}}]
    \cup [op : {"disconnect"}, agent : Agents,
          conv : Conversations, todo : SUBSET Conversations]

Job(op, a, c) == [op |-> op, agent |-> a, conv |-> c, todo |-> {}]

Running == {"check", "write", "audit", "unlock"}

\* The row reopen, release and releaseByAgent write.
Unassigned == [status |-> "PENDING", agent |-> NoAgent]

Assigned(a) == [status |-> "ASSIGNED", agent |-> a]

-----------------------------------------------------------------------------
(* A new conversation, as findOrCreate leaves it. *)

Init ==
    /\ row = [c \in Conversations |-> Unassigned]
    /\ lock = [c \in Conversations |-> Free]
    /\ trail = [c \in Conversations |->
                    <<[type |-> "CREATED", actor |-> NoAgent]>>]
    /\ pc = [r \in Requests |-> "idle"]
    /\ job = [r \in Requests |-> NoJob]
    /\ unaudited = {}

Begin(r, step, j) ==
    /\ pc' = [pc EXCEPT ![r] = step]
    /\ job' = [job EXCEPT ![r] = j]

Goto(r, step) ==
    /\ pc' = [pc EXCEPT ![r] = step]
    /\ UNCHANGED job

Finish(r) == Begin(r, "done", NoJob)

-----------------------------------------------------------------------------
(* accept: lock, read, check, write, record, unlock. *)

\* Mutant: SET without NX, which overwrites the key.
AcceptLockOverwrites(r, a, c) ==
    /\ pc[r] = "idle"
    /\ lock' = [lock EXCEPT ![c] = r]
    /\ Begin(r, "check", Job("accept", a, c))
    /\ UNCHANGED <<row, trail, unaudited>>

\* Mutant: acquireLock inside the `try`, so that 409 goes through `finally`.
AcceptLockInsideTry(r, a, c) ==
    /\ pc[r] = "idle"
    /\ \/ /\ lock[c] = Free
          /\ lock' = [lock EXCEPT ![c] = r]
          /\ Begin(r, "check", Job("accept", a, c))
       \/ /\ lock[c] # Free
          /\ Begin(r, "unlock", Job("accept", a, c))
          /\ UNCHANGED lock
    /\ UNCHANGED <<row, trail, unaudited>>

\* SET key agentId PX 5000 NX.  The value is written and never read again, so
\* the model keeps what the properties need instead: whose SET it was.  If the
\* key is there the caller gets 409.
AcceptLock(r, a, c) ==
    /\ pc[r] = "idle"
    /\ \/ /\ lock[c] = Free
          /\ lock' = [lock EXCEPT ![c] = r]
          /\ Begin(r, "check", Job("accept", a, c))
       \/ /\ lock[c] # Free
          /\ Finish(r)
          /\ UNCHANGED lock
    /\ UNCHANGED <<row, trail, unaudited>>

\* Mutant: only a completed conversation is refused.
AcceptCheckNotCompleted(r) ==
    /\ pc[r] = "check"
    /\ \/ row[job[r].conv].status # "COMPLETED" /\ Goto(r, "write")
       \/ row[job[r].conv].status = "COMPLETED" /\ Goto(r, "unlock")
    /\ UNCHANGED <<row, lock, trail, unaudited>>

\* Mutant: the check waits for the conversation to become PENDING.
AcceptCheckWaits(r) ==
    /\ pc[r] = "check"
    /\ row[job[r].conv].status = "PENDING"
    /\ Goto(r, "write")
    /\ UNCHANGED <<row, lock, trail, unaudited>>

\* The status check, on the row just read; 409 goes through `finally`.
AcceptCheck(r) ==
    /\ pc[r] = "check"
    /\ \/ row[job[r].conv].status = "PENDING" /\ Goto(r, "write")
       \/ row[job[r].conv].status # "PENDING" /\ Goto(r, "unlock")
    /\ UNCHANGED <<row, lock, trail, unaudited>>

\* The update of a conversation: WHERE id = ..., whatever the row holds now.
Write(r, op, new) ==
    /\ pc[r] = "write"
    /\ job[r].op = op
    /\ row' = [row EXCEPT ![job[r].conv] = new]
    /\ Goto(r, "audit")
    /\ UNCHANGED <<lock, trail, unaudited>>

AcceptWrite(r) == Write(r, "accept", Assigned(job[r].agent))

\* releaseLock: DEL key, whoever holds it.
AcceptUnlock(r) ==
    /\ pc[r] = "unlock"
    /\ lock' = [lock EXCEPT ![job[r].conv] = Free]
    /\ Finish(r)
    /\ UNCHANGED <<row, trail, unaudited>>

-----------------------------------------------------------------------------
(* The operations that take no lock: a read that checks, then the write. *)

Holds(a, c) == row[c].status = "ASSIGNED" /\ row[c].agent = a

\* 409 when not assigned, 403 when assigned to another.
ReleaseCheck(r, a, c) ==
    /\ pc[r] = "idle"
    /\ \/ Holds(a, c) /\ Begin(r, "write", Job("release", a, c))
       \/ ~Holds(a, c) /\ Finish(r)
    /\ UNCHANGED <<row, lock, trail, unaudited>>

\* Mutant: release sets the status only.
ReleaseWriteKeepsAgent(r) ==
    Write(r, "release", [row[job[r].conv] EXCEPT !.status = "PENDING"])

ReleaseWrite(r) == Write(r, "release", Unassigned)

\* Mutant: whoever asks may complete what is not completed yet.
CompleteCheckUnheld(r, a, c) ==
    /\ pc[r] = "idle"
    /\ \/ row[c].status # "COMPLETED" /\ Begin(r, "write", Job("complete", a, c))
       \/ row[c].status = "COMPLETED" /\ Finish(r)
    /\ UNCHANGED <<row, lock, trail, unaudited>>

CompleteCheck(r, a, c) ==
    /\ pc[r] = "idle"
    /\ \/ Holds(a, c) /\ Begin(r, "write", Job("complete", a, c))
       \/ ~Holds(a, c) /\ Finish(r)
    /\ UNCHANGED <<row, lock, trail, unaudited>>

\* Mutant: the row is credited to the agent that completes it.
CompleteWriteTakesCredit(r) ==
    Write(r, "complete", [status |-> "COMPLETED", agent |-> job[r].agent])

\* Only the status is set: the agent column keeps what it has now.
CompleteWrite(r) ==
    Write(r, "complete", [row[job[r].conv] EXCEPT !.status = "COMPLETED"])

\* reopen has no actor: an inbound message calls it.
ReopenCheck(r, c) ==
    /\ pc[r] = "idle"
    /\ \/ /\ row[c].status = "COMPLETED"
          /\ Begin(r, "write", Job("reopen", NoAgent, c))
       \/ row[c].status # "COMPLETED" /\ Finish(r)
    /\ UNCHANGED <<row, lock, trail, unaudited>>

ReopenWrite(r) == Write(r, "reopen", Unassigned)

\* releaseByAgent, called when any socket of the agent disconnects: one SELECT
\* (no ORDER BY), then a write and an event for each row it returned.
DisconnectSelect(r, a) ==
    LET mine == {c \in Conversations : Holds(a, c)} IN
    /\ pc[r] = "idle"
    /\ \/ mine = {} /\ Finish(r)
       \/ \E c \in mine :
             Begin(r, "write", [op |-> "disconnect", agent |-> a,
                                conv |-> c, todo |-> mine \ {c}])
    /\ UNCHANGED <<row, lock, trail, unaudited>>

DisconnectWrite(r) == Write(r, "disconnect", Unassigned)

-----------------------------------------------------------------------------
(* The event that every operation inserts after its write, and what follows:*)
(* accept reaches `finally`, releaseByAgent its next row, the rest return.  *)

AfterAudit(r) ==
    \/ job[r].op = "accept" /\ Goto(r, "unlock")
    \/ job[r].op # "accept" /\ job[r].todo = {} /\ Finish(r)
    \/ \E c \in job[r].todo :
          Begin(r, "write", [job[r] EXCEPT !.conv = c, !.todo = @ \ {c}])

Audit(r) ==
    /\ pc[r] = "audit"
    /\ trail' = [trail EXCEPT ![job[r].conv] =
                    Append(@, [type |-> EventOf[job[r].op],
                               actor |-> job[r].agent])]
    /\ AfterAudit(r)
    /\ UNCHANGED <<row, lock, unaudited>>

-----------------------------------------------------------------------------
(* Failures. *)

Unaudited(r) ==
    IF pc[r] = "audit" THEN unaudited \cup {<<job[r].op, job[r].conv>>}
                       ELSE unaudited

\* A statement inside accept's `try` throws: `finally` still runs.  (A
\* statement that commits and then throws is its own step followed by this.)
AcceptThrow(r) ==
    /\ pc[r] \in {"check", "write", "audit"}
    /\ job[r].op = "accept"
    /\ unaudited' = Unaudited(r)
    /\ Goto(r, "unlock")
    /\ UNCHANGED <<row, lock, trail>>

\* The server running r dies, or r throws outside that `try` (in releaseLock
\* too): nothing is undone and a lock r holds stays.
Abandon(r) ==
    /\ pc[r] \in Running
    /\ unaudited' = Unaudited(r)
    /\ Finish(r)
    /\ UNCHANGED <<row, lock, trail>>

\* Mutant: a TTL shorter than an accept may take.
LockExpiresEarly(c) ==
    /\ lock[c] # Free
    /\ lock' = [lock EXCEPT ![c] = Free]
    /\ UNCHANGED <<row, trail, pc, job, unaudited>>

\* Mutant: SET without PX.
LockNeverExpires(c) == FALSE

\* Valkey drops the key at its TTL.  A holder still running has then taken
\* more than 5 s, which happens only if HolderMayOverrun.
LockExpires(c) ==
    /\ lock[c] # Free
    /\ HolderMayOverrun \/ pc[lock[c]] \notin Running
    /\ lock' = [lock EXCEPT ![c] = Free]
    /\ UNCHANGED <<row, trail, pc, job, unaudited>>

-----------------------------------------------------------------------------

Arrive(r) ==
    \/ \E a \in Agents, c \in Conversations :
          \/ AcceptLock(r, a, c)
          \/ ReleaseCheck(r, a, c)
          \/ CompleteCheck(r, a, c)
    \/ \E c \in Conversations : ReopenCheck(r, c)
    \/ \E a \in Agents : DisconnectSelect(r, a)

Continue(r) ==
    \/ AcceptCheck(r)
    \/ AcceptWrite(r)
    \/ ReleaseWrite(r)
    \/ CompleteWrite(r)
    \/ ReopenWrite(r)
    \/ DisconnectWrite(r)
    \/ Audit(r)
    \/ AcceptUnlock(r)

Next ==
    \/ \E r \in Requests : Arrive(r) \/ Continue(r) \/ AcceptThrow(r) \/ Abandon(r)
    \/ \E c \in Conversations : LockExpires(c)

Spec == Init /\ [][Next]_vars

\* A server keeps executing the statements of a request it has begun, and
\* Valkey drops a key whose TTL has passed.  No call has to arrive, and no
\* failure has to happen.
FairSpec ==
    /\ Spec
    /\ \A r \in Requests : WF_vars(Continue(r))
    /\ \A c \in Conversations : WF_vars(LockExpires(c))

-----------------------------------------------------------------------------
(* Properties. *)

\* The variables have the types of the schema, and a PENDING row has no agent
\* while an ASSIGNED one has: every writer sets both columns, or keeps one.
TypeOK ==
    /\ row \in [Conversations -> Rows]
    /\ \A c \in Conversations :
          /\ row[c].status = "PENDING" => row[c].agent = NoAgent
          /\ row[c].status = "ASSIGNED" => row[c].agent \in Agents
    /\ lock \in [Conversations -> Requests \cup {Free}]
    /\ trail \in [Conversations -> Seq(Events)]
    /\ pc \in [Requests -> {"idle", "done"} \cup Running]
    /\ job \in [Requests -> Jobs \cup {NoJob}]
    /\ \A r \in Requests :
          /\ pc[r] \in Running => job[r] \in Jobs
          /\ pc[r] \in {"check", "unlock"} => job[r].op = "accept"
    /\ unaudited \subseteq Ops \X Conversations

InAccept(r) == pc[r] \in Running /\ job[r].op = "accept"

\* From its SET to its DEL an accept is the one that holds the lock, so at most
\* one accept of a conversation is between its status check and its event.
AcceptHoldsLock == \A r \in Requests : InAccept(r) => lock[job[r].conv] = r

\* An assigned conversation never goes from one agent straight to another:
\* the second accept is answered 409.  (accept's lock and status check.)
NoHandOver ==
    [][\A c \in Conversations :
          row[c].status = "ASSIGNED" /\ row'[c].status = "ASSIGNED"
              => row'[c].agent = row[c].agent]_vars

\* The last ACCEPTED event of a trail is a's.
LastAcceptedBy(events, a) ==
    \E i \in DOMAIN events :
        /\ events[i] = [type |-> "ACCEPTED", actor |-> a]
        /\ \A j \in DOMAIN events : j > i => events[j].type # "ACCEPTED"

\* The audit trail names the agent that holds a conversation, however the
\* accepts, releases and disconnections raced: its last ACCEPTED is the
\* holder's, unless that event is about to be inserted or an insert failed.
\* Response times are computed from these events.
TrailNamesHolder ==
    \A c \in Conversations, a \in Agents :
        Holds(a, c) /\ <<"accept", c>> \notin unaudited
            => \/ LastAcceptedBy(trail[c], a)
               \/ \E r \in Requests :
                     pc[r] = "audit" /\ job[r] = Job("accept", a, c)

\* Seen from outside, only the holder of each conversation changes, as
\* Assignment says: accept takes what nobody has, every other write lets go.
Holder == [c \in Conversations |->
              IF row[c].status = "ASSIGNED" THEN row[c].agent ELSE NoAgent]

Abstract == INSTANCE Assignment WITH holder <- Holder

ImplementsAssignment == Abstract!Spec

\* A lock is let go, by `finally` or, when its holder died or its DEL failed,
\* by the TTL: no conversation stays impossible to accept.
LocksAreFreed == \A c \in Conversations : lock[c] # Free ~> lock[c] = Free

\* A request that was begun comes to an end: none waits for another.
RequestsEnd == \A r \in Requests : pc[r] \in Running ~> pc[r] = "done"

\* Only its holder, or the holder's disconnection, ends an assignment: another
\* agent's release is answered 403, its complete too.
OnlyHolderEnds ==
    [][\A c \in Conversations :
          row[c].status = "ASSIGNED" /\ row'[c] # row[c]
              => \E r \in Requests : /\ pc[r] = "write" /\ pc'[r] = "audit"
                                     /\ job[r].agent = row[c].agent]_vars
=============================================================================
