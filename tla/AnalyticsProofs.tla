-------------------------- MODULE AnalyticsProofs --------------------------
(***************************************************************************)
(* Theorems about Analytics, for any sets of agents, conversations and     *)
(* requests: what the reports read off rows and trails is there, is the    *)
(* right agent's, and is the same in both.                                 *)
(***************************************************************************)
EXTENDS Analytics, ConversationLifecycleProofs

\* Operation op has written c's row: its event is in the trail, still to come,
\* or lost.  What was written once remains so.
Wrote(op, c) ==
    \/ EventsOf(c, EventOf[op]) # {}
    \/ \E r \in Requests : pc[r] = "audit" /\ job[r].op = op /\ job[r].conv = c
    \/ <<op, c>> \in unaudited

\* A row that is not pending was accepted, a completed one was completed; and a
\* complete about to write has found its conversation accepted.
WritesAreOwed ==
    /\ \A c \in Conversations :
          /\ row[c].status # "PENDING" => Wrote("accept", c)
          /\ row[c].status = "COMPLETED" => Wrote("complete", c)
    /\ \A r \in Requests :
          pc[r] = "write" /\ job[r].op = "complete" => Wrote("accept", job[r].conv)

\* From its check to its write, an accept's row has no agent, whatever stale
\* completes do to its status; from then on it has that accept's, or none.
AcceptWritesNobodys ==
    \A r \in Requests :
        pc[r] = "write" /\ job[r].op = "accept" => row[job[r].conv].agent = NoAgent

AcceptAuditsAgent ==
    \A r \in Requests :
        pc[r] = "audit" /\ job[r].op = "accept"
            => row[job[r].conv].agent \in {NoAgent, job[r].agent}

\* TrailNamesHolder, of completed conversations as well as of assigned ones.
TrailNamesAgent ==
    \A c \in Conversations, a \in Agents :
        row[c].agent = a /\ <<"accept", c>> \notin unaudited
            => \/ LastAcceptedBy(trail[c], a)
               \/ \E r \in Requests :
                     pc[r] = "audit" /\ job[r] = Job("accept", a, c)

LetGo(c) == \E op \in {"release", "reopen", "disconnect"} : Wrote(op, c)

\* A conversation that was never let go has been accepted once at most.
AcceptedOnce ==
    \A c \in Conversations :
        ~LetGo(c) =>
            /\ \A i, j \in AcceptEvents(c) : i = j
            /\ \A r \in Requests :
                  pc[r] = "audit" /\ job[r].op = "accept" /\ job[r].conv = c
                      => AcceptEvents(c) = {} /\ row[c].agent # NoAgent
            /\ row[c].agent = NoAgent => AcceptEvents(c) = {}

CreditInv ==
    /\ LockInv
    /\ AcceptWritesNobodys
    /\ AcceptAuditsAgent
    /\ TrailNamesAgent

-----------------------------------------------------------------------------
(* What the steps of a request do to rows and trails.                      *)

USE DEF Running, Statuses

\* A slot that begins or goes on is where it was sent.
LEMMA SlotMoves ==
    ASSUME TypeOK, NEW r \in Requests
    PROVE  /\ \A step, j : Begin(r, step, j) => pc'[r] = step /\ job'[r] = j
           /\ \A step : Goto(r, step) => pc'[r] = step /\ job'[r] = job[r]
           /\ Finish(r) => pc'[r] = "done"
BY DEF TypeOK, Begin, Goto, Finish

LEMMA RowSteps ==
    ASSUME NEW r \in Requests, Steps(r)
    PROVE  \/ UNCHANGED row
           \/ AcceptWrite(r)
           \/ CompleteWrite(r)
           \/ \E op \in {"release", "reopen", "disconnect"} : Write(r, op, Unassigned)
BY DEF Steps, Arrive, Continue, AcceptThrow, Abandon, AcceptLock, ReleaseCheck,
       CompleteCheck, ReopenCheck, DisconnectSelect, AcceptCheck, ReleaseWrite,
       ReopenWrite, DisconnectWrite, Audit, AcceptUnlock

LEMMA TrailSteps ==
    ASSUME NEW r \in Requests, Steps(r)
    PROVE  (UNCHANGED trail \/ Audit(r)) /\ unaudited \subseteq unaudited'
BY DEF Steps, Arrive, Continue, AcceptThrow, Abandon, Unaudited, AcceptLock,
       ReleaseCheck, CompleteCheck, ReopenCheck, DisconnectSelect, AcceptCheck,
       AcceptWrite, ReleaseWrite, CompleteWrite, ReopenWrite, DisconnectWrite,
       Write, Audit, AcceptUnlock

\* An event is added at the end of its conversation's trail.
LEMMA AuditAppends ==
    ASSUME TypeOK, NEW r \in Requests, Audit(r), NEW c \in Conversations
    PROVE  /\ job[r] \in Jobs /\ EventOf[job[r].op] \in EventTypes
           /\ job[r].conv # c => trail'[c] = trail[c]
           /\ job[r].conv = c =>
                 /\ DOMAIN trail'[c] = DOMAIN trail[c] \cup {Len(trail[c]) + 1}
                 /\ Len(trail[c]) + 1 \notin DOMAIN trail[c]
                 /\ \A i \in DOMAIN trail[c] : trail'[c][i] = trail[c][i]
                 /\ trail'[c][Len(trail[c]) + 1].type = EventOf[job[r].op]
<1> DEFINE e == [type |-> EventOf[job[r].op], actor |-> job[r].agent]
<1>1. job[r] \in Jobs
  BY DEF Audit, TypeOK
<1>2. EventOf[job[r].op] \in EventTypes /\ e \in Events
  BY <1>1, JobFields DEF EventOf, EventTypes, Events, Ops
<1>3. trail' = [trail EXCEPT ![job[r].conv] = Append(@, e)]
  BY DEF Audit
<1>4. trail[c] \in Seq(Events)
  BY DEF TypeOK
<1>5. e.type = EventOf[job[r].op]
  OBVIOUS
<1> HIDE DEF e
<1>6. CASE job[r].conv = c
  <2> DEFINE s == trail[c]
             t == Append(s, e)
  <2>1. trail'[c] = t
    BY <1>3, <1>6 DEF TypeOK
  <2>2. /\ DOMAIN s = 1 .. Len(s) /\ DOMAIN t = 1 .. Len(s) + 1
        /\ \A i \in 1 .. Len(s) : t[i] = s[i]
        /\ t[Len(s) + 1] = e /\ Len(s) \in Nat
    BY <1>2, <1>4
  <2> HIDE DEF t, s
  <2>3. /\ 1 .. Len(s) + 1 = 1 .. Len(s) \cup {Len(s) + 1}
        /\ Len(s) + 1 \notin 1 .. Len(s)
    BY <2>2
  <2>4. /\ DOMAIN t = DOMAIN s \cup {Len(s) + 1}
        /\ Len(s) + 1 \notin DOMAIN s
        /\ \A i \in DOMAIN s : t[i] = s[i]
        /\ t[Len(s) + 1].type = EventOf[job[r].op]
    BY <1>5, <2>2, <2>3
  <2> QED
    BY <1>1, <1>2, <1>6, <2>1, <2>4 DEF s
<1>7. CASE job[r].conv # c
  BY <1>1, <1>2, <1>3, <1>7 DEF TypeOK
<1> QED
  BY <1>6, <1>7

\* A request at its audit has just written, or waits.
LEMMA AuditFollowsWrite ==
    ASSUME TypeOK, NEW r \in Requests, Steps(r), pc'[r] = "audit"
    PROVE  job'[r] = job[r] /\ \E new : Write(r, job[r].op, new)
<1>1. ASSUME NEW op, NEW new, Write(r, op, new)
      PROVE  job'[r] = job[r] /\ Write(r, job[r].op, new)
  BY <1>1 DEF Write, Goto
<1>2. CASE Audit(r)
  <2>1. ~Finish(r) /\ ~Goto(r, "unlock")
    BY SlotMoves
  <2>2. PICK c \in job[r].todo :
           Begin(r, "write", [job[r] EXCEPT !.conv = c, !.todo = @ \ {c}])
    BY <1>2, <2>1 DEF Audit, AfterAudit
  <2> QED
    BY <2>2, SlotMoves
<1>3. CASE \E a \in Agents : DisconnectSelect(r, a)
  <2>1. PICK a \in Agents : DisconnectSelect(r, a)
    BY <1>3
  <2>2. PICK c : Begin(r, "write", [op |-> "disconnect", agent |-> a,
                           conv |-> c,
                           todo |-> {d \in Conversations : Holds(a, d)} \ {c}])
    BY <2>1, SlotMoves DEF DisconnectSelect
  <2> QED
    BY <2>2, SlotMoves
<1>4. CASE \E a \in Agents, c \in Conversations :
              AcceptLock(r, a, c) \/ ReleaseCheck(r, a, c) \/ CompleteCheck(r, a, c)
  BY <1>4, SlotMoves DEF AcceptLock, ReleaseCheck, CompleteCheck
<1>5. CASE \E c \in Conversations : ReopenCheck(r, c)
  BY <1>5, SlotMoves DEF ReopenCheck
<1> QED
  BY <1>1, <1>2, <1>3, <1>4, <1>5, SlotMoves
     DEF Steps, Arrive, Continue, AcceptThrow, Abandon, AcceptCheck, AcceptWrite,
         ReleaseWrite, CompleteWrite, ReopenWrite, DisconnectWrite, AcceptUnlock

\* A complete at its write has just found its caller to hold the conversation.
LEMMA CompleteBegins ==
    ASSUME TypeOK, NEW r \in Requests, Steps(r),
           pc'[r] = "write", job'[r].op = "complete"
    PROVE  \E a \in Agents : /\ job'[r].conv \in Conversations
                             /\ Holds(a, job'[r].conv)
<1>1. CASE Arrive(r)
  <2>1. ASSUME NEW a \in Agents, NEW c \in Conversations, CompleteCheck(r, a, c)
        PROVE  Holds(a, c) /\ job'[r].conv = c
    BY <2>1, SlotMoves DEF CompleteCheck, Job
  <2>2. \A a \in Agents, c \in Conversations : ~AcceptLock(r, a, c) /\ ~ReleaseCheck(r, a, c)
    BY SlotMoves DEF AcceptLock, ReleaseCheck, Job
  <2>3. \A c \in Conversations : ~ReopenCheck(r, c)
    BY SlotMoves DEF ReopenCheck, Job
  <2>4. \A a \in Agents : ~DisconnectSelect(r, a)
    <3> SUFFICES ASSUME NEW a \in Agents, DisconnectSelect(r, a) PROVE FALSE
      OBVIOUS
    <3>1. PICK c : Begin(r, "write", [op |-> "disconnect", agent |-> a,
                             conv |-> c,
                             todo |-> {d \in Conversations : Holds(a, d)} \ {c}])
      BY SlotMoves DEF DisconnectSelect
    <3> QED
      BY <3>1, SlotMoves
  <2> QED
    BY <1>1, <2>1, <2>2, <2>3, <2>4 DEF Arrive
<1>2. CASE AcceptCheck(r)
  BY <1>2, SlotMoves DEF AcceptCheck, TypeOK
<1>3. CASE Audit(r)
  <2>1. job[r] \in Jobs
    BY <1>3 DEF Audit, TypeOK
  <2>2. PICK c \in job[r].todo :
           Begin(r, "write", [job[r] EXCEPT !.conv = c, !.todo = @ \ {c}])
    BY <1>3, SlotMoves DEF Audit, AfterAudit
  <2>3. job[r].op = "disconnect"
    BY <2>1, <2>2, JobFields
  <2>4. job'[r] = [job[r] EXCEPT !.conv = c, !.todo = @ \ {c}]
    BY <2>2, SlotMoves
  <2> QED
    BY <2>1, <2>3, <2>4 DEF Jobs
<1>4. CASE AcceptUnlock(r) \/ AcceptThrow(r) \/ Abandon(r)
  BY <1>4, SlotMoves DEF AcceptUnlock, AcceptThrow, Abandon
<1>5. \A op, new : ~Write(r, op, new)
  BY SlotMoves DEF Write
<1> QED
  BY <1>1, <1>2, <1>3, <1>4, <1>5
     DEF Steps, Continue, AcceptWrite, ReleaseWrite, CompleteWrite, ReopenWrite,
         DisconnectWrite

-----------------------------------------------------------------------------
(* Every write is recorded, about to be, or known to be lost.              *)

LEMMA TrailGrows ==
    ASSUME TypeOK, NEW r \in Requests, Steps(r), NEW c \in Conversations, NEW type
    PROVE  EventsOf(c, type) \subseteq EventsOf(c, type)'
<1>1. CASE UNCHANGED trail
  BY <1>1 DEF EventsOf
<1>2. CASE Audit(r)
  BY <1>2, AuditAppends DEF EventsOf
<1> QED
  BY <1>1, <1>2, TrailSteps

LEMMA WroteStays ==
    ASSUME TypeOK, [Next]_vars, NEW op \in Ops, NEW c \in Conversations, Wrote(op, c)
    PROVE  Wrote(op, c)'
<1>1. ASSUME NEW r \in Requests, Steps(r) PROVE Wrote(op, c)'
  <2>1. CASE EventsOf(c, EventOf[op]) # {}
    BY <1>1, <2>1, TrailGrows DEF Wrote
  <2>2. CASE <<op, c>> \in unaudited
    BY <1>1, <2>2, TrailSteps DEF Wrote
  <2>3. ASSUME NEW q \in Requests, pc[q] = "audit", job[q].op = op, job[q].conv = c
        PROVE  Wrote(op, c)'
    <3>1. CASE q # r
      BY <1>1, <2>3, <3>1, OthersUnchanged DEF Wrote
    <3>2. CASE q = r /\ Audit(r)
      BY <2>3, <3>2, AuditAppends DEF Wrote, EventsOf
    <3>3. CASE q = r /\ (AcceptThrow(r) \/ Abandon(r))
      BY <2>3, <3>3 DEF AcceptThrow, Abandon, Unaudited, Wrote
    <3> QED
      BY <1>1, <2>3, <3>1, <3>2, <3>3
         DEF Steps, Arrive, Continue, AcceptLock, ReleaseCheck, CompleteCheck,
             ReopenCheck, DisconnectSelect, AcceptCheck, AcceptWrite, ReleaseWrite,
             CompleteWrite, ReopenWrite, DisconnectWrite, Write, AcceptUnlock
  <2> QED
    BY <2>1, <2>2, <2>3 DEF Wrote
<1>2. ASSUME UNCHANGED <<trail, pc, job, unaudited>> PROVE Wrote(op, c)'
  BY <1>2 DEF Wrote, EventsOf
<1> QED
  BY <1>1, <1>2 DEF Next, Steps, LockExpires, vars

\* A write is owed its event from the moment it is made.
LEMMA WriteIsOwed ==
    ASSUME TypeOK, NEW r \in Requests, NEW op, NEW new, Write(r, op, new)
    PROVE  /\ job[r] \in Jobs /\ job[r].conv \in Conversations /\ job[r].op = op
           /\ pc[r] = "write" /\ pc'[r] = "audit" /\ job'[r] = job[r]
           /\ row' = [row EXCEPT ![job[r].conv] = new]
           /\ \A c : c = job[r].conv => Wrote(op, c)'
<1>1. job[r] \in Jobs /\ job[r].op = op /\ pc[r] = "write"
  BY DEF Write, TypeOK
<1>2. pc'[r] = "audit" /\ job'[r] = job[r]
  BY SlotMoves DEF Write
<1>3. \A c : c = job[r].conv => Wrote(op, c)'
  BY <1>1, <1>2 DEF Wrote
<1> QED
  BY <1>1, <1>2, <1>3, JobFields DEF Write

LEMMA OwedStep ==
    ASSUME TypeOK, WritesAreOwed, [Next]_vars
    PROVE  WritesAreOwed'
<1>1. "accept" \in Ops /\ "complete" \in Ops
  BY DEF Ops
<1>2. ASSUME NEW r \in Requests, Steps(r) PROVE WritesAreOwed'
  <2>1. ASSUME NEW c \in Conversations
        PROVE  /\ row'[c].status # "PENDING" => Wrote("accept", c)'
               /\ row'[c].status = "COMPLETED" => Wrote("complete", c)'
    <3>1. CASE row'[c] = row[c]
      BY <1>1, <3>1, WroteStays DEF WritesAreOwed
    <3>2. CASE AcceptWrite(r) /\ row'[c] # row[c]
      <4>1. job[r].conv = c /\ row'[c] = Assigned(job[r].agent) /\ Wrote("accept", c)'
        BY <3>2, WriteIsOwed DEF AcceptWrite, TypeOK
      <4> QED
        BY <4>1 DEF Assigned
    <3>3. CASE CompleteWrite(r) /\ row'[c] # row[c]
      <4>0. PICK new : Write(r, "complete", new)
        BY <3>3 DEF CompleteWrite
      <4>1. /\ job[r].conv = c /\ Wrote("complete", c)'
            /\ pc[r] = "write" /\ job[r].op = "complete"
        BY <3>3, <4>0, WriteIsOwed DEF TypeOK
      <4>2. Wrote("accept", c)'
        BY <1>1, <4>1, WroteStays DEF WritesAreOwed
      <4> QED
        BY <4>1, <4>2
    <3>4. ASSUME NEW op, Write(r, op, Unassigned), row'[c] # row[c]
          PROVE  row'[c] = Unassigned
      BY <3>4, WriteIsOwed DEF TypeOK
    <3>5. Unassigned.status = "PENDING"
      BY DEF Unassigned
    <3> QED
      BY <1>2, <3>1, <3>2, <3>3, <3>4, <3>5, RowSteps
  <2>2. ASSUME NEW q \in Requests, pc'[q] = "write", job'[q].op = "complete"
        PROVE  Wrote("accept", job[q].conv)'
    <3>1. CASE q # r
      <4>1. pc[q] = "write" /\ job'[q] = job[q]
        BY <1>2, <2>2, <3>1, OthersUnchanged
      <4>2. job[q].conv \in Conversations
        BY <4>1, JobFields DEF TypeOK
      <4> QED
        BY <1>1, <2>2, <4>1, <4>2, WroteStays DEF WritesAreOwed
    <3>2. CASE q = r
      <4>1. PICK a \in Agents : job'[r].conv \in Conversations /\ Holds(a, job'[r].conv)
        BY <1>2, <2>2, <3>2, CompleteBegins
      <4>2. \A c \in Conversations : Holds(a, c) => Wrote("accept", c)'
        BY <1>1, WroteStays DEF Holds, WritesAreOwed
      <4>3. \A c : c = job'[r].conv /\ c \in Conversations => Wrote("accept", c)'
        BY <4>1, <4>2
      <4> QED
        BY <3>2, <4>1, <4>3
    <3> QED
      BY <3>1, <3>2
  <2> QED
    BY <2>1, <2>2 DEF WritesAreOwed
<1>3. ASSUME UNCHANGED <<row, trail, pc, job, unaudited>> PROVE WritesAreOwed'
  <2>1. \A op, c : Wrote(op, c) => Wrote(op, c)'
    BY <1>3 DEF Wrote, EventsOf
  <2> QED
    BY <1>3, <2>1 DEF WritesAreOwed
<1> QED
  BY <1>2, <1>3 DEF Next, Steps, LockExpires, vars

\* What was written is in an audited trail.
LEMMA AuditedIsRecorded ==
    ASSUME NEW op \in Ops, NEW c \in Conversations, Wrote(op, c), Audited(c)
    PROVE  EventsOf(c, EventOf[op]) # {}
BY DEF Wrote, Audited

LEMMA OwedMeasures ==
    ASSUME WritesAreOwed
    PROVE  CompletedIsMeasured
<1> SUFFICES ASSUME NEW c \in OrgCompleted, Audited(c) PROVE Measured(c)
  BY DEF CompletedIsMeasured
<1>1. "accept" \in Ops /\ "complete" \in Ops
  BY DEF Ops
<1>2. EventsOf(c, EventOf["accept"]) # {} /\ EventsOf(c, EventOf["complete"]) # {}
  BY <1>1, AuditedIsRecorded DEF OrgCompleted, WritesAreOwed
<1> QED
  BY <1>2 DEF Measured, AcceptEvents, EventOf

\* The reports divide the handle times they find by the completed conversations
\* they count, and the two agree once events are written: whichever stale write
\* completed a conversation, it had been accepted, even where accepts outlive
\* their locks.
THEOREM CompletedIsMeasuredCorrect ==
    Spec => []CompletedIsMeasured
<1>1. Init => WritesAreOwed
  BY DEF Init, WritesAreOwed, Unassigned
<1>2. TypeOK /\ WritesAreOwed /\ [Next]_vars => WritesAreOwed'
  BY OwedStep
<1>3. WritesAreOwed => CompletedIsMeasured
  BY OwedMeasures
<1> QED
  BY <1>1, <1>2, <1>3, TypeInit, TypeStep, PTL DEF Spec

-----------------------------------------------------------------------------
(* The agent of a row, and the accept it is credited with.                 *)

\* Only an accept gives a row an agent; what takes it away lets go.
LEMMA AgentKept ==
    ASSUME TypeOK, NEW r \in Requests, Steps(r), ~AcceptWrite(r), NEW c \in Conversations
    PROVE  row'[c].agent = row[c].agent \/ (row'[c].agent = NoAgent /\ LetGo(c)')
<1>1. ASSUME NEW op \in {"release", "reopen", "disconnect"}, Write(r, op, Unassigned)
      PROVE  row'[c] = row[c] \/ (row'[c].agent = NoAgent /\ LetGo(c)')
  <2>1. row'[c] # row[c] => row'[c] = Unassigned /\ Wrote(op, c)'
    BY <1>1, WriteIsOwed DEF TypeOK
  <2>2. Unassigned.agent = NoAgent
    BY DEF Unassigned
  <2> QED
    BY <2>1, <2>2 DEF LetGo
<1>2. CASE CompleteWrite(r)
  <2>1. job[r].conv \in Conversations
    BY <1>2, WriteIsOwed DEF CompleteWrite
  <2>2. row' = [row EXCEPT ![job[r].conv] = [row[job[r].conv] EXCEPT !.status = "COMPLETED"]]
    BY <1>2 DEF CompleteWrite, Write
  <2> QED
    BY <2>1, <2>2 DEF TypeOK, Rows
<1> QED
  BY <1>1, <1>2, RowSteps

\* What the accepts know of the agent, by the lock.
LEMMA AgentStep ==
    ASSUME ~HolderMayOverrun, CreditInv, [Next]_vars
    PROVE  AcceptWritesNobodys' /\ AcceptAuditsAgent'
<1>1. TypeOK /\ LockInv
  BY DEF CreditInv, LockInv
<1>2. ASSUME NEW r \in Requests, Steps(r), NEW q \in Requests, InAccept(q)'
      PROVE  /\ pc'[q] = "write" => row'[job'[q].conv].agent = NoAgent
             /\ pc'[q] = "audit" => row'[job'[q].conv].agent \in {NoAgent, job'[q].agent}
  <2>1. CASE q = r
    <3>1. CASE pc'[r] = "write"
      <4>1. /\ job'[r] = job[r] /\ UNCHANGED row
            /\ row[job[r].conv].status = "PENDING"
        BY <1>1, <1>2, <2>1, <3>1, AcceptProgress
      <4>2. job'[r] \in Jobs
        BY <1>1, <2>1, <1>2, TypeStep DEF InAccept, TypeOK
      <4> QED
        BY <1>1, <2>1, <3>1, <4>1, <4>2, JobFields DEF TypeOK
    <3>2. CASE pc'[r] = "audit"
      <4>1. AcceptWrite(r)
        BY <1>1, <1>2, <2>1, <3>2, AcceptProgress
      <4>2. job[r].conv \in Conversations
        BY <1>1, <4>1, AcceptWriteAlone, JobFields
      <4>3. row'[job[r].conv] = Assigned(job[r].agent)
        BY <1>1, <4>1, <4>2, AcceptWriteAlone DEF TypeOK
      <4> QED
        BY <1>1, <2>1, <3>2, <4>1, <4>3, AcceptWriteAlone DEF Assigned
    <3> QED
      BY <2>1, <3>1, <3>2
  <2>2. CASE q # r
    <3>1. pc'[q] = pc[q] /\ job'[q] = job[q] /\ InAccept(q)
      BY <1>1, <1>2, <2>2, OthersUnchanged DEF InAccept
    <3>2. job[q].conv \in Conversations
      BY <1>1, <3>1, JobFields DEF InAccept, TypeOK
    <3>3. row'[job[q].conv].agent \in {NoAgent, row[job[q].conv].agent}
      <4>1. CASE AcceptWrite(r)
        BY <1>1, <2>2, <3>1, <3>2, <4>1, AcceptWriteAlone DEF TypeOK
      <4>2. CASE ~AcceptWrite(r)
        BY <1>1, <1>2, <3>2, <4>2, AgentKept
      <4> QED
        BY <4>1, <4>2
    <3> QED
      BY <3>1, <3>3 DEF InAccept, CreditInv, AcceptWritesNobodys, AcceptAuditsAgent
  <2> QED
    BY <2>1, <2>2
<1>3. ASSUME NEW r \in Requests, Steps(r)
      PROVE  AcceptWritesNobodys' /\ AcceptAuditsAgent'
  BY <1>2, <1>3 DEF AcceptWritesNobodys, AcceptAuditsAgent, InAccept
<1>4. ASSUME UNCHANGED <<row, pc, job>>
      PROVE  AcceptWritesNobodys' /\ AcceptAuditsAgent'
  BY <1>4 DEF CreditInv, AcceptWritesNobodys, AcceptAuditsAgent
<1> QED
  BY <1>3, <1>4 DEF Next, Steps, LockExpires, vars

\* An event of c is inserted: an accept's names the agent of the row, and
\* another operation's hides no accept.
LEMMA AuditKeepsAgent ==
    ASSUME CreditInv, NEW r \in Requests, Audit(r),
           NEW c \in Conversations, NEW a \in Agents, row[c].agent = a,
           \/ LastAcceptedBy(trail[c], a)
           \/ job[r] = Job("accept", a, c)
    PROVE  LastAcceptedBy(trail'[c], a)
<1> DEFINE j == job[r]
           e == [type |-> EventOf[j.op], actor |-> j.agent]
<1>1. TypeOK /\ j \in Jobs
  BY DEF Audit, CreditInv, LockInv, TypeOK
<1>2. /\ j.op \in Ops /\ j.agent \in Agents \cup {NoAgent}
      /\ j.conv \in Conversations /\ j.op # "reopen" => j.agent \in Agents
  BY <1>1, JobFields
<1>3. trail' = [trail EXCEPT ![j.conv] = Append(@, e)]
  BY DEF Audit
<1>4. trail[c] \in Seq(Events)
  BY <1>1 DEF TypeOK
<1>5. CASE j.conv # c
  <2>1. trail'[c] = trail[c]
    BY <1>1, <1>2, <1>3, <1>5 DEF TypeOK
  <2>2. LastAcceptedBy(trail[c], a)
    BY <1>5 DEF Job
  <2> QED
    BY <2>1, <2>2
<1>6. CASE j.conv = c /\ j.op = "accept"
  <2>1. j.agent = a
    BY <1>6, NoAgentAssumption DEF Audit, CreditInv, AcceptAuditsAgent
  <2>2. e = [type |-> "ACCEPTED", actor |-> a]
    BY <1>6, <2>1 DEF EventOf
  <2>3. trail'[c] = Append(trail[c], [type |-> "ACCEPTED", actor |-> a])
    BY <1>1, <1>2, <1>3, <1>6, <2>2 DEF TypeOK
  <2> QED
    BY <1>4, <2>3, AppendAccepted
<1>7. CASE j.conv = c /\ j.op # "accept"
  <2>1. e \in Events /\ e.type # "ACCEPTED"
    BY <1>2, <1>7 DEF Events, EventTypes, EventOf, Ops
  <2>2. trail'[c] = Append(trail[c], e)
    BY <1>1, <1>2, <1>3, <1>7 DEF TypeOK
  <2>3. LastAcceptedBy(trail[c], a)
    BY <1>7 DEF Job
  <2> HIDE DEF e
  <2> QED
    BY <1>4, <2>1, <2>2, <2>3, AppendOther
<1> QED
  BY <1>5, <1>6, <1>7

LEMMA NamesStep ==
    ASSUME ~HolderMayOverrun, CreditInv, [Next]_vars
    PROVE  TrailNamesAgent'
<1> SUFFICES ASSUME NEW c \in Conversations, NEW a \in Agents,
                    row'[c].agent = a, <<"accept", c>> \notin unaudited'
             PROVE  \/ LastAcceptedBy(trail'[c], a)
                    \/ \E q \in Requests :
                          pc'[q] = "audit" /\ job'[q] = Job("accept", a, c)
  BY DEF TrailNamesAgent
<1>1. TypeOK /\ LockInv
  BY DEF CreditInv, LockInv
<1>2. ASSUME NEW r \in Requests, AcceptWrite(r), job[r].conv = c
      PROVE  pc'[r] = "audit" /\ job'[r] = Job("accept", a, c)
  <2>1. row'[c] = Assigned(job[r].agent)
    BY <1>1, <1>2, AcceptWriteAlone DEF TypeOK
  <2>2. job[r].agent = a
    BY <2>1 DEF Assigned
  <2> QED
    BY <1>1, <1>2, <2>2, AcceptWriteAlone DEF Jobs, Job
<1>3. ASSUME NEW r \in Requests, Steps(r), ~(AcceptWrite(r) /\ job[r].conv = c)
      PROVE  \/ LastAcceptedBy(trail'[c], a)
             \/ \E q \in Requests :
                   pc'[q] = "audit" /\ job'[q] = Job("accept", a, c)
  <2>1. row[c].agent = a
    <3>1. CASE AcceptWrite(r)
      BY <1>1, <1>3, <3>1, AcceptWriteAlone DEF TypeOK
    <3>2. CASE ~AcceptWrite(r)
      BY <1>1, <1>3, <3>2, AgentKept, NoAgentAssumption
    <3> QED
      BY <3>1, <3>2
  <2>2. unaudited \subseteq unaudited' /\ (UNCHANGED trail \/ Audit(r))
    BY <1>3, TrailSteps
  <2>3. \/ LastAcceptedBy(trail[c], a)
        \/ \E q \in Requests : pc[q] = "audit" /\ job[q] = Job("accept", a, c)
    BY <2>1, <2>2 DEF CreditInv, TrailNamesAgent
  <2>4. CASE LastAcceptedBy(trail[c], a)
    BY <2>1, <2>2, <2>4, AuditKeepsAgent
  <2>5. ASSUME NEW q \in Requests, pc[q] = "audit", job[q] = Job("accept", a, c)
        PROVE  \/ LastAcceptedBy(trail'[c], a)
               \/ pc'[q] = "audit" /\ job'[q] = Job("accept", a, c)
    <3>1. CASE q # r
      BY <1>1, <1>3, <2>5, <3>1, OthersUnchanged
    <3>2. CASE q = r /\ Audit(r)
      BY <2>1, <2>5, <3>2, AuditKeepsAgent
    <3>3. CASE q = r /\ (AcceptThrow(r) \/ Abandon(r))
      <4>1. Job("accept", a, c).op = "accept" /\ Job("accept", a, c).conv = c
        BY DEF Job
      <4> QED
        BY <2>5, <3>3, <4>1 DEF AcceptThrow, Abandon, Unaudited
    <3> QED
      BY <1>3, <2>5, <3>1, <3>2, <3>3
         DEF Steps, Arrive, Continue, AcceptLock, ReleaseCheck, CompleteCheck,
             ReopenCheck, DisconnectSelect, AcceptCheck, AcceptWrite, ReleaseWrite,
             CompleteWrite, ReopenWrite, DisconnectWrite, Write, AcceptUnlock
  <2> QED
    BY <2>3, <2>4, <2>5
<1>4. ASSUME UNCHANGED <<row, trail, pc, job, unaudited>>
      PROVE  \/ LastAcceptedBy(trail'[c], a)
             \/ \E q \in Requests :
                   pc'[q] = "audit" /\ job'[q] = Job("accept", a, c)
  BY <1>4 DEF CreditInv, TrailNamesAgent
<1> QED
  BY <1>2, <1>3, <1>4 DEF Next, Steps, LockExpires, vars

LEMMA CreditInvInit == Init => CreditInv
BY LockInvInit, NoAgentAssumption
   DEF Init, CreditInv, AcceptWritesNobodys, AcceptAuditsAgent, TrailNamesAgent,
       Unassigned

LEMMA CreditInvStep ==
    ASSUME ~HolderMayOverrun, CreditInv, [Next]_vars
    PROVE  CreditInv'
<1>1. LockInv'
  BY LockInvStep DEF CreditInv
<1> QED
  BY <1>1, AgentStep, NamesStep DEF CreditInv

\* A completed conversation is credited to the agent that accepted it last.  The
\* complete may have been another's, of an assignment that is over: it keeps the
\* agent the row has, which is the last accept's by the lock.
THEOREM CreditIsEarnedCorrect ==
    ASSUME ~HolderMayOverrun
    PROVE  Spec => []CreditIsEarned
<1>1. CreditInv => CreditIsEarned
  <2> SUFFICES ASSUME CreditInv, NEW a \in Agents, NEW c \in AgentCompleted(a), Audited(c)
               PROVE  LastAcceptedBy(trail[c], a)
    BY DEF CreditIsEarned
  <2>1. c \in Conversations /\ row[c].agent = a
    BY DEF AgentCompleted
  <2>2. <<"accept", c>> \notin unaudited
    BY DEF Audited, Ops
  <2>3. \A r \in Requests : ~(pc[r] = "audit" /\ job[r] = Job("accept", a, c))
    BY DEF Audited, Job
  <2> QED
    BY <2>1, <2>2, <2>3 DEF CreditInv, TrailNamesAgent
<1> QED
  BY <1>1, CreditInvInit, CreditInvStep, PTL DEF Spec

-----------------------------------------------------------------------------
(* One accept, where nothing let go.                                       *)

LEMMA LetGoStays ==
    ASSUME TypeOK, [Next]_vars, NEW c \in Conversations, LetGo(c)
    PROVE  LetGo(c)'
BY WroteStays DEF LetGo, Ops

LEMMA OnceStep ==
    ASSUME ~HolderMayOverrun, CreditInv, AcceptedOnce, [Next]_vars
    PROVE  AcceptedOnce'
<1>1. TypeOK /\ LockInv /\ AcceptHoldsLock
  BY DEF CreditInv, LockInv
<1> SUFFICES ASSUME NEW c \in Conversations, ~LetGo(c)'
             PROVE  /\ \A i, j \in AcceptEvents(c)' : i = j
                    /\ \A q \in Requests :
                          pc'[q] = "audit" /\ job'[q].op = "accept" /\ job'[q].conv = c
                              => AcceptEvents(c)' = {} /\ row'[c].agent # NoAgent
                    /\ row'[c].agent = NoAgent => AcceptEvents(c)' = {}
  BY DEF AcceptedOnce
<1>2. ~LetGo(c)
  BY <1>1, LetGoStays
<1>3. /\ \A i, j \in AcceptEvents(c) : i = j
      /\ \A q \in Requests :
            pc[q] = "audit" /\ job[q].op = "accept" /\ job[q].conv = c
                => AcceptEvents(c) = {} /\ row[c].agent # NoAgent
      /\ row[c].agent = NoAgent => AcceptEvents(c) = {}
  BY <1>2 DEF AcceptedOnce
<1> DEFINE AuditsAccept(q) == pc[q] = "audit" /\ job[q].op = "accept" /\ job[q].conv = c
<1>4. ASSUME NEW r \in Requests, Steps(r), AcceptWrite(r), job[r].conv = c
      PROVE  AcceptEvents(c) = {} /\ AcceptEvents(c)' = {} /\ row'[c].agent # NoAgent
  <2>1. AcceptEvents(c) = {}
    BY <1>3, <1>4 DEF AcceptWrite, Write, CreditInv, AcceptWritesNobodys
  <2>2. trail' = trail
    BY <1>4 DEF AcceptWrite, Write
  <2>3. row'[c].agent = job[r].agent /\ job[r].agent \in Agents
    <3>1. job[r] \in Jobs /\ job[r].op = "accept"
      BY <1>1, <1>4, AcceptWriteAlone
    <3>2. row'[c] = Assigned(job[r].agent)
      BY <1>1, <1>4, AcceptWriteAlone DEF TypeOK
    <3> QED
      BY <3>1, <3>2, JobFields DEF Assigned
  <2> QED
    BY <2>1, <2>2, <2>3, NoAgentAssumption DEF AcceptEvents, EventsOf
<1>5. ASSUME NEW r \in Requests, Audit(r), AuditsAccept(r)
      PROVE  /\ \A i, j \in AcceptEvents(c)' : i = j
             /\ row'[c].agent # NoAgent
             /\ \A q \in Requests \ {r} : ~AuditsAccept(q)
  <2>1. AcceptEvents(c) = {} /\ row[c].agent # NoAgent
    BY <1>3, <1>5
  <2>2. AcceptEvents(c)' \subseteq {Len(trail[c]) + 1}
    BY <1>1, <1>5, <2>1, AuditAppends DEF AcceptEvents, EventsOf
  <2>3. \A q \in Requests \ {r} : ~AuditsAccept(q)
    BY <1>1, <1>5 DEF AcceptHoldsLock, InAccept
  <2>4. row' = row
    BY <1>5 DEF Audit
  <2> QED
    BY <2>1, <2>2, <2>3, <2>4
<1>6. ASSUME NEW r \in Requests, Steps(r), ~(Audit(r) /\ AuditsAccept(r))
      PROVE  AcceptEvents(c)' = AcceptEvents(c)
  <2>1. CASE UNCHANGED trail
    BY <2>1 DEF AcceptEvents, EventsOf
  <2>2. CASE Audit(r)
    <3>1. job[r].conv # c \/ EventOf[job[r].op] # "ACCEPTED"
      BY <1>1, <1>6, <2>2, JobFields DEF EventOf, Ops, Audit, TypeOK
    <3> QED
      BY <1>1, <2>2, <3>1, AuditAppends DEF AcceptEvents, EventsOf
  <2> QED
    BY <1>6, <2>1, <2>2, TrailSteps
<1>7. ASSUME NEW r \in Requests, Steps(r), ~(AcceptWrite(r) /\ job[r].conv = c)
      PROVE  /\ row'[c].agent = row[c].agent
             /\ \A q \in Requests : AuditsAccept(q)' => q # r /\ AuditsAccept(q)
  <2>1. row'[c].agent = row[c].agent
    <3>1. CASE AcceptWrite(r)
      BY <1>1, <1>7, <3>1, AcceptWriteAlone DEF TypeOK
    <3>2. CASE ~AcceptWrite(r)
      BY <1>1, <1>7, <3>2, AgentKept
    <3> QED
      BY <3>1, <3>2
  <2>2. ~AuditsAccept(r)'
    <3> SUFFICES ASSUME pc'[r] = "audit", job'[r].op = "accept", job'[r].conv = c
                 PROVE  FALSE
      OBVIOUS
    <3>1. AcceptWrite(r)
      BY <1>1, <1>7, AcceptProgress DEF InAccept
    <3> QED
      BY <1>1, <1>7, <3>1, AcceptWriteAlone
  <2>3. \A q \in Requests \ {r} : AuditsAccept(q)' => AuditsAccept(q)
    BY <1>1, <1>7, OthersUnchanged
  <2> QED
    BY <2>1, <2>2, <2>3
<1>8. ASSUME NEW r \in Requests, Steps(r)
      PROVE  /\ \A i, j \in AcceptEvents(c)' : i = j
             /\ \A q \in Requests :
                   AuditsAccept(q)' => AcceptEvents(c)' = {} /\ row'[c].agent # NoAgent
             /\ row'[c].agent = NoAgent => AcceptEvents(c)' = {}
  <2>1. CASE AcceptWrite(r) /\ job[r].conv = c
    BY <1>4, <1>8, <2>1
  <2>2. CASE Audit(r) /\ AuditsAccept(r)
    <3>1. ~AcceptWrite(r)
      BY <2>2 DEF AcceptWrite, Write
    <3> QED
      BY <1>5, <1>7, <1>8, <2>2, <3>1
  <2>3. CASE ~(AcceptWrite(r) /\ job[r].conv = c) /\ ~(Audit(r) /\ AuditsAccept(r))
    BY <1>3, <1>6, <1>7, <1>8, <2>3
  <2> QED
    BY <2>1, <2>2, <2>3
<1>9. CASE UNCHANGED <<row, trail, pc, job>>
  BY <1>3, <1>9 DEF AcceptEvents, EventsOf
<1> QED
  BY <1>8, <1>9 DEF Next, Steps, LockExpires, vars

\* Of one ACCEPTED event, both reports count from the same.
LEMMA OneAcceptOneTime ==
    ASSUME TypeOK, NEW c \in Conversations, AcceptEvents(c) # {},
           \A i, j \in AcceptEvents(c) : i = j
    PROVE  AgentHandleTimes(c) = {OrgHandleTime(c)}
<1>1. PICK i : i \in AcceptEvents(c) /\ AcceptEvents(c) = {i}
  OBVIOUS
<1>2. i \in Nat
  BY <1>1 DEF AcceptEvents, EventsOf, TypeOK
<1>3. FirstAccept(c) = i
  BY <1>1, <1>2 DEF FirstAccept
<1> QED
  BY <1>1, <1>3 DEF AgentHandleTimes, OrgHandleTime

\* Racing accepts leave one ACCEPTED event between them: of a conversation that
\* was never let go the agent's report and the organization's give one handle
\* time, although the former's query is LIMIT 1 without an order.
THEOREM ReportsAgreeCorrect ==
    ASSUME ~HolderMayOverrun
    PROVE  Spec => []ReportsAgree
<1>1. Init => AcceptedOnce /\ WritesAreOwed
  BY DEF Init, AcceptedOnce, AcceptEvents, EventsOf, WritesAreOwed, Unassigned
<1>2. CreditInv /\ AcceptedOnce /\ [Next]_vars => AcceptedOnce'
  BY OnceStep
<1>3. CreditInv /\ WritesAreOwed /\ [Next]_vars => WritesAreOwed'
  BY OwedStep DEF CreditInv, LockInv
<1>4. CreditInv /\ AcceptedOnce /\ WritesAreOwed => ReportsAgree
  <2> SUFFICES ASSUME CreditInv, AcceptedOnce, WritesAreOwed, NEW c \in OrgCompleted,
                      Audited(c),
                      \A type \in {"RELEASED", "REOPENED", "AGENT_DISCONNECTED"} :
                          EventsOf(c, type) = {}
               PROVE  AgentHandleTimes(c) = {OrgHandleTime(c)}
    BY DEF ReportsAgree
  <2>1. c \in Conversations
    BY DEF OrgCompleted
  <2>2. ~LetGo(c)
    BY <2>1, AuditedIsRecorded DEF LetGo, EventOf, Ops
  <2>3. AcceptEvents(c) # {}
    BY OwedMeasures DEF CompletedIsMeasured, Measured
  <2> QED
    BY <2>1, <2>2, <2>3, OneAcceptOneTime DEF AcceptedOnce, CreditInv, LockInv
<1> QED
  BY <1>1, <1>2, <1>3, <1>4, CreditInvInit, CreditInvStep, PTL DEF Spec

=============================================================================
