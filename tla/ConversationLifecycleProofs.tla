-------------------- MODULE ConversationLifecycleProofs --------------------
(***************************************************************************)
(* Theorems about ConversationLifecycle, for any sets of agents,           *)
(* conversations and requests.                                             *)
(***************************************************************************)
EXTENDS ConversationLifecycle, TLAPS

-----------------------------------------------------------------------------
(* Typing. *)

USE DEF Running, Statuses

\* The rows the operations write are rows of the schema.
LEMMA WrittenRows ==
    /\ Unassigned \in Rows
    /\ \A a \in Agents : Assigned(a) \in Rows
    /\ \A w \in Rows : [w EXCEPT !.status = "COMPLETED"] \in Rows
  BY DEF Unassigned, Assigned, Rows

\* What a request is called with is a job.
LEMMA JobsTyped ==
    \A c \in Conversations :
        /\ \A op \in {"accept", "release", "complete"}, a \in Agents :
              Job(op, a, c) \in Jobs /\ Job(op, a, c).op = op
        /\ Job("reopen", NoAgent, c) \in Jobs
  BY DEF Job, Jobs

\* The fields of a job.
LEMMA JobFields ==
    ASSUME NEW j \in Jobs
    PROVE  /\ j.op \in Ops
           /\ j.agent \in Agents \cup {NoAgent}
           /\ j.conv \in Conversations
           /\ j.todo \subseteq Conversations
           /\ j.op # "disconnect" => j.todo = {}
           /\ j.op # "reopen" => j.agent \in Agents
  BY DEF Jobs, Ops

\* The conjuncts of TypeOK about requests, and those about rows.
RequestsTyped ==
    /\ pc \in [Requests -> {"idle", "done"} \cup Running]
    /\ job \in [Requests -> Jobs \cup {NoJob}]
    /\ \A r \in Requests :
          /\ pc[r] \in Running => job[r] \in Jobs
          /\ pc[r] \in {"check", "unlock"} => job[r].op = "accept"

RowsTyped ==
    /\ row \in [Conversations -> Rows]
    /\ \A c \in Conversations :
          /\ row[c].status = "PENDING" => row[c].agent = NoAgent
          /\ row[c].status = "ASSIGNED" => row[c].agent \in Agents

\* A request that begins a step with a job that fits it stays well typed.
LEMMA BeginTyped ==
    ASSUME TypeOK, NEW r \in Requests,
           NEW step \in {"idle", "done"} \cup Running,
           NEW j \in Jobs \cup {NoJob},
           step \in Running => j \in Jobs,
           step \in {"check", "unlock"} => j.op = "accept",
           Begin(r, step, j)
    PROVE  RequestsTyped'
  BY DEF TypeOK, Begin, RequestsTyped

LEMMA FinishTyped ==
    ASSUME TypeOK, NEW r \in Requests, Finish(r)
    PROVE  RequestsTyped'
  BY BeginTyped DEF Finish

\* So does one that goes on to another statement of the same operation.
LEMMA GotoTyped ==
    ASSUME TypeOK, NEW r \in Requests, NEW step \in Running,
           pc[r] \in Running,
           step \in {"check", "unlock"} => job[r].op = "accept",
           Goto(r, step)
    PROVE  RequestsTyped'
  BY DEF TypeOK, Goto, RequestsTyped

\* Abandon and the two failures record the operation and conversation of a
\* job.
LEMMA UnauditedTyped ==
    ASSUME TypeOK, NEW r \in Requests, pc[r] \in Running,
           unaudited' = Unaudited(r)
    PROVE  unaudited' \subseteq Ops \X Conversations
<1>1. job[r] \in Jobs
  BY DEF TypeOK
<1>2. <<job[r].op, job[r].conv>> \in Ops \X Conversations
  BY <1>1, JobFields
<1> QED
  BY <1>2 DEF TypeOK, Unaudited

\* Every UPDATE writes a row of the schema that is consistent: it sets both
\* columns, or sets COMPLETED, which may keep any agent.
LEMMA WriteTyped ==
    ASSUME TypeOK, NEW r \in Requests, NEW op, NEW new \in Rows,
           new.status = "PENDING" => new.agent = NoAgent,
           new.status = "ASSIGNED" => new.agent \in Agents,
           Write(r, op, new)
    PROVE  TypeOK'
<1>1. job[r] \in Jobs
  BY DEF TypeOK, Write
<1>2. job[r].conv \in Conversations
  BY <1>1, JobFields
<1>3. RowsTyped'
  BY <1>2 DEF TypeOK, Write, RowsTyped
<1>4. RequestsTyped'
  BY GotoTyped DEF Write, RequestsTyped
<1> QED
  BY <1>3, <1>4 DEF TypeOK, Write, RowsTyped, RequestsTyped

\* A request that arrives changes its own slot and perhaps a lock.
LEMMA ArriveTyped ==
    ASSUME TypeOK, NEW r \in Requests, Arrive(r)
    PROVE  TypeOK'
<1>1. ASSUME NEW a \in Agents, NEW c \in Conversations, AcceptLock(r, a, c)
      PROVE  TypeOK'
  <2>1. Job("accept", a, c) \in Jobs /\ Job("accept", a, c).op = "accept"
    BY JobsTyped
  <2>2. lock' \in [Conversations -> Requests \cup {Free}]
    BY <1>1 DEF AcceptLock, TypeOK
  <2>3. RequestsTyped'
    BY <1>1, <2>1, BeginTyped, FinishTyped DEF AcceptLock
  <2> QED
    BY <1>1, <2>2, <2>3 DEF AcceptLock, TypeOK, RequestsTyped
<1>2. ASSUME NEW a \in Agents, NEW c \in Conversations,
             ReleaseCheck(r, a, c) \/ CompleteCheck(r, a, c)
      PROVE  TypeOK'
  <2>1. Job("release", a, c) \in Jobs /\ Job("complete", a, c) \in Jobs
    BY JobsTyped
  <2>2. RequestsTyped'
    BY <1>2, <2>1, BeginTyped, FinishTyped
       DEF ReleaseCheck, CompleteCheck
  <2> QED
    BY <1>2, <2>2 DEF ReleaseCheck, CompleteCheck, TypeOK, RequestsTyped
<1>3. ASSUME NEW c \in Conversations, ReopenCheck(r, c)
      PROVE  TypeOK'
  <2>1. Job("reopen", NoAgent, c) \in Jobs
    BY JobsTyped
  <2>2. RequestsTyped'
    BY <1>3, <2>1, BeginTyped, FinishTyped DEF ReopenCheck
  <2> QED
    BY <1>3, <2>2 DEF ReopenCheck, TypeOK, RequestsTyped
<1>4. ASSUME NEW a \in Agents, DisconnectSelect(r, a)
      PROVE  TypeOK'
  <2> DEFINE mine == {c \in Conversations : Holds(a, c)}
             j(c) == [op |-> "disconnect", agent |-> a,
                      conv |-> c, todo |-> mine \ {c}]
  <2>1. \A c \in mine : j(c) \in Jobs
    BY DEF Jobs, Ops
  <2>2. Finish(r) \/ \E c \in mine : Begin(r, "write", j(c))
    BY <1>4 DEF DisconnectSelect
  <2> HIDE DEF mine, j
  <2>3. RequestsTyped'
    BY <2>1, <2>2, BeginTyped, FinishTyped
  <2> QED
    BY <1>4, <2>3 DEF DisconnectSelect, TypeOK, RequestsTyped
<1> QED
  BY <1>1, <1>2, <1>3, <1>4 DEF Arrive

\* A request that continues.
LEMMA ContinueTyped ==
    ASSUME TypeOK, NEW r \in Requests, Continue(r)
    PROVE  TypeOK'
<1> DEFINE j == job[r]
<1>1. pc[r] \in Running
  BY DEF Continue, AcceptCheck, AcceptWrite, ReleaseWrite, CompleteWrite,
         ReopenWrite, DisconnectWrite, Write, Audit, AcceptUnlock
<1>2. j \in Jobs
  BY <1>1 DEF TypeOK
<1>3. /\ j.op \in Ops
      /\ j.agent \in Agents \cup {NoAgent}
      /\ j.conv \in Conversations
      /\ j.todo \subseteq Conversations
      /\ j.op # "disconnect" => j.todo = {}
      /\ j.op # "reopen" => j.agent \in Agents
  BY <1>2, JobFields
<1>4. CASE AcceptCheck(r)
  <2>1. RequestsTyped'
    <3>1. j.op = "accept"
      BY <1>4 DEF AcceptCheck, TypeOK
    <3> QED
      BY <1>1, <1>4, <3>1, GotoTyped DEF AcceptCheck
  <2> QED
    BY <1>4, <2>1 DEF AcceptCheck, TypeOK, RequestsTyped
<1>5. CASE AcceptWrite(r)
  <2> DEFINE new == Assigned(j.agent)
  <2>1. j.op = "accept"
    BY <1>5 DEF AcceptWrite, Write
  <2>2. j.agent \in Agents
    BY <1>3, <2>1
  <2>3. new \in Rows /\ new.status = "ASSIGNED" /\ new.agent = j.agent
    BY <2>2, WrittenRows DEF Assigned
  <2> QED
    BY <1>5, <2>2, <2>3, WriteTyped DEF AcceptWrite
<1>6. CASE ReleaseWrite(r) \/ ReopenWrite(r) \/ DisconnectWrite(r)
  <2>1. /\ Unassigned.status # "ASSIGNED"
        /\ Unassigned.agent = NoAgent
    BY DEF Unassigned
  <2> QED
    BY <1>6, <2>1, WrittenRows, WriteTyped
       DEF ReleaseWrite, ReopenWrite, DisconnectWrite
<1>7. CASE CompleteWrite(r)
  <2> DEFINE new == [row[j.conv] EXCEPT !.status = "COMPLETED"]
  <2>1. row[j.conv] \in Rows
    BY <1>3 DEF TypeOK
  <2>2. new \in Rows /\ new.status = "COMPLETED"
    BY <2>1 DEF Rows
  <2> QED
    BY <1>7, <2>2, WriteTyped DEF CompleteWrite
<1>8. CASE Audit(r)
  <2>1. [type |-> EventOf[j.op], actor |-> j.agent] \in Events
    BY <1>3 DEF Events, EventOf, EventTypes, Ops
  <2>2. trail' \in [Conversations -> Seq(Events)]
    BY <1>8, <1>3, <2>1 DEF Audit, TypeOK
  <2>3. RequestsTyped'
    <3>1. CASE j.op = "accept" /\ Goto(r, "unlock")
      BY <3>1, <1>1, GotoTyped
    <3>2. CASE Finish(r)
      BY <3>2, FinishTyped
    <3>3. ASSUME NEW c \in j.todo,
                 Begin(r, "write", [j EXCEPT !.conv = c, !.todo = @ \ {c}])
          PROVE  RequestsTyped'
      <4> DEFINE k == [j EXCEPT !.conv = c, !.todo = @ \ {c}]
      <4>1. j.op = "disconnect"
        BY <1>3, <3>3
      <4>2. k \in Jobs
        BY <1>2, <1>3, <4>1 DEF Jobs
      <4> QED
        BY <3>3, <4>2, BeginTyped
    <3> QED
      BY <1>8, <3>1, <3>2, <3>3 DEF Audit, AfterAudit
  <2> QED
    BY <1>8, <2>2, <2>3 DEF Audit, TypeOK, RequestsTyped
<1>9. CASE AcceptUnlock(r)
  <2>1. lock' \in [Conversations -> Requests \cup {Free}]
    BY <1>9, <1>3 DEF AcceptUnlock, TypeOK
  <2>2. RequestsTyped'
    BY <1>9, FinishTyped DEF AcceptUnlock
  <2> QED
    BY <1>9, <2>1, <2>2 DEF AcceptUnlock, TypeOK, RequestsTyped
<1> QED
  BY <1>4, <1>5, <1>6, <1>7, <1>8, <1>9 DEF Continue

\* The failures: an accept that goes to `finally`, a request that is no more.
LEMMA FailureTyped ==
    ASSUME TypeOK, NEW r \in Requests, AcceptThrow(r) \/ Abandon(r)
    PROVE  TypeOK'
<1>1. pc[r] \in Running
  BY DEF AcceptThrow, Abandon
<1>2. unaudited' \subseteq Ops \X Conversations
  BY <1>1, UnauditedTyped DEF AcceptThrow, Abandon
<1>3. RequestsTyped'
  BY <1>1, GotoTyped, FinishTyped DEF AcceptThrow, Abandon
<1> QED
  BY <1>2, <1>3 DEF AcceptThrow, Abandon, TypeOK, RequestsTyped

LEMMA TypeInit == Init => TypeOK
<1> SUFFICES ASSUME Init PROVE TypeOK
  OBVIOUS
<1>1. \A c \in Conversations : trail[c] \in Seq(Events)
  BY DEF Init, Events, EventTypes
<1> QED
  BY <1>1, WrittenRows DEF Init, TypeOK, Unassigned

LEMMA TypeStep == TypeOK /\ [Next]_vars => TypeOK'
<1> SUFFICES ASSUME TypeOK, [Next]_vars PROVE TypeOK'
  OBVIOUS
<1>1. ASSUME NEW r \in Requests, Arrive(r) PROVE TypeOK'
  BY <1>1, ArriveTyped
<1>2. ASSUME NEW r \in Requests, Continue(r) PROVE TypeOK'
  BY <1>2, ContinueTyped
<1>3. ASSUME NEW r \in Requests, AcceptThrow(r) \/ Abandon(r) PROVE TypeOK'
  BY <1>3, FailureTyped
<1>4. ASSUME NEW c \in Conversations, LockExpires(c) PROVE TypeOK'
  BY <1>4 DEF LockExpires, TypeOK
<1>5. CASE UNCHANGED vars
  BY <1>5 DEF vars, TypeOK
<1> QED
  BY <1>1, <1>2, <1>3, <1>4, <1>5 DEF Next

\* The variables keep their types, and a row keeps its two columns in step,
\* however the requests interleave and fail, and even if accepts outlive their
\* locks.
THEOREM TypeCorrect == Spec => []TypeOK
  BY TypeInit, TypeStep, PTL DEF Spec

-----------------------------------------------------------------------------
(* The lock, when no accept outlives it.                                   *)

\* The steps of one request.
Steps(r) == Arrive(r) \/ Continue(r) \/ AcceptThrow(r) \/ Abandon(r)

\* A step of one request leaves the others where they are.
LEMMA OthersUnchanged ==
    ASSUME TypeOK, NEW r \in Requests, Steps(r)
    PROVE  \A q \in Requests \ {r} : pc'[q] = pc[q] /\ job'[q] = job[q]
<1>1. \A step, j : Begin(r, step, j) =>
          \A q \in Requests \ {r} : pc'[q] = pc[q] /\ job'[q] = job[q]
  BY DEF Begin, TypeOK
<1>2. \A step : Goto(r, step) =>
          \A q \in Requests \ {r} : pc'[q] = pc[q] /\ job'[q] = job[q]
  BY DEF Goto, TypeOK
<1>3. CASE Arrive(r)
  BY <1>1, <1>3 DEF Arrive, AcceptLock, ReleaseCheck, CompleteCheck,
                    ReopenCheck, DisconnectSelect, Finish
<1>4. CASE Continue(r)
  BY <1>1, <1>2, <1>4
     DEF Continue, AcceptCheck, AcceptWrite, ReleaseWrite, CompleteWrite,
         ReopenWrite, DisconnectWrite, Write, Audit, AfterAudit,
         AcceptUnlock, Finish
<1>5. CASE AcceptThrow(r) \/ Abandon(r)
  BY <1>1, <1>2, <1>5 DEF AcceptThrow, Abandon, Finish
<1> QED
  BY <1>3, <1>4, <1>5 DEF Steps

\* An accept comes from its SET, on the key that was free, or goes on with the
\* conversation it has.
LEMMA AcceptContinues ==
    ASSUME TypeOK, NEW r \in Requests, Steps(r), InAccept(r)'
    PROVE  \/ /\ lock[job'[r].conv] = Free
              /\ lock' = [lock EXCEPT ![job'[r].conv] = r]
              /\ job'[r].conv \in Conversations
              /\ pc'[r] = "check"
              /\ UNCHANGED row
           \/ InAccept(r) /\ job'[r] = job[r] /\ UNCHANGED lock
<1> USE DEF InAccept
<1>1. \A step, j : Begin(r, step, j) => pc'[r] = step /\ job'[r] = j
  BY DEF Begin, TypeOK
<1>2. ~Finish(r)
  BY <1>1 DEF Finish
<1>3. CASE Arrive(r)
  <2>1. ASSUME NEW a \in Agents, NEW c \in Conversations, AcceptLock(r, a, c)
        PROVE  /\ lock[job'[r].conv] = Free
               /\ lock' = [lock EXCEPT ![job'[r].conv] = r]
               /\ job'[r].conv \in Conversations
               /\ pc'[r] = "check"
               /\ UNCHANGED row
    BY <1>1, <1>2, <2>1 DEF AcceptLock, Job
  <2>2. \A a \in Agents, c \in Conversations :
            ~ReleaseCheck(r, a, c) /\ ~CompleteCheck(r, a, c)
    BY <1>1, <1>2 DEF ReleaseCheck, CompleteCheck, Job
  <2>3. \A c \in Conversations : ~ReopenCheck(r, c)
    BY <1>1, <1>2 DEF ReopenCheck, Job
  <2>4. \A a \in Agents : ~DisconnectSelect(r, a)
    <3> SUFFICES ASSUME NEW a \in Agents, DisconnectSelect(r, a) PROVE FALSE
      OBVIOUS
    <3>1. PICK c : Begin(r, "write", [op |-> "disconnect", agent |-> a,
                             conv |-> c,
                             todo |-> {d \in Conversations : Holds(a, d)} \ {c}])
      BY <1>2 DEF DisconnectSelect
    <3> QED
      BY <1>1, <3>1
  <2> QED
    BY <1>3, <2>1, <2>2, <2>3, <2>4 DEF Arrive
<1>4. CASE Continue(r) \/ AcceptThrow(r) \/ Abandon(r)
  <2>1. pc[r] \in Running
    BY <1>4 DEF Continue, AcceptCheck, AcceptWrite, ReleaseWrite,
                CompleteWrite, ReopenWrite, DisconnectWrite, Write, Audit,
                AcceptUnlock, AcceptThrow, Abandon
  <2>2. job[r] \in Jobs
    BY <2>1 DEF TypeOK
  <2>3. \A c \in job[r].todo :
            ~Begin(r, "write", [job[r] EXCEPT !.conv = c, !.todo = @ \ {c}])
    BY <1>1, <2>2 DEF Jobs
  <2>4. UNCHANGED <<job, lock>>
    BY <1>2, <1>4, <2>3
       DEF Continue, AcceptCheck, AcceptWrite, ReleaseWrite, CompleteWrite,
           ReopenWrite, DisconnectWrite, Write, Audit, AfterAudit,
           AcceptUnlock, AcceptThrow, Abandon, Goto
  <2> QED
    BY <2>1, <2>4
<1> QED
  BY <1>3, <1>4 DEF Steps

\* A step of r touches only locks that are free, or the lock of its own accept.
LEMMA LockTouched ==
    ASSUME TypeOK, AcceptHoldsLock, NEW r \in Requests, Steps(r)
    PROVE  \A c \in Conversations :
               lock'[c] = lock[c] \/ lock[c] = Free \/ lock[c] = r
<1>1. CASE AcceptUnlock(r)
  <2>1. InAccept(r)
    BY <1>1 DEF AcceptUnlock, InAccept, TypeOK
  <2>2. lock[job[r].conv] = r
    BY <2>1 DEF AcceptHoldsLock
  <2> QED
    BY <1>1, <2>2 DEF AcceptUnlock, TypeOK
<1>2. ASSUME NEW a \in Agents, NEW c \in Conversations, AcceptLock(r, a, c)
      PROVE  \A d \in Conversations : lock'[d] = lock[d] \/ lock[d] = Free
  BY <1>2 DEF AcceptLock, TypeOK
<1>3. CASE UNCHANGED lock
  BY <1>3
<1> QED
  BY <1>1, <1>2, <1>3
     DEF Steps, Arrive, Continue, AcceptThrow, Abandon, ReleaseCheck,
         CompleteCheck, ReopenCheck, DisconnectSelect, AcceptCheck,
         AcceptWrite, ReleaseWrite, CompleteWrite, ReopenWrite,
         DisconnectWrite, Write, Audit

LEMMA LockStep ==
    ASSUME ~HolderMayOverrun, TypeOK, AcceptHoldsLock, [Next]_vars
    PROVE  AcceptHoldsLock'
<1>1. ASSUME NEW r \in Requests, Steps(r) PROVE AcceptHoldsLock'
  <2> SUFFICES ASSUME NEW q \in Requests, InAccept(q)'
               PROVE  lock'[job'[q].conv] = q
    BY DEF AcceptHoldsLock
  <2>1. CASE q = r
    BY <1>1, <2>1, AcceptContinues DEF AcceptHoldsLock, TypeOK
  <2>2. CASE q # r
    <3>1. pc'[q] = pc[q] /\ job'[q] = job[q]
      BY <1>1, <2>2, OthersUnchanged
    <3>2. InAccept(q)
      BY <3>1 DEF InAccept
    <3>3. lock[job[q].conv] = q
      BY <3>2 DEF AcceptHoldsLock
    <3>4. job[q].conv \in Conversations
      BY <3>2, JobFields DEF InAccept, TypeOK
    <3> QED
      BY <1>1, <2>2, <3>1, <3>3, <3>4, LockTouched, FreeAssumption
  <2> QED
    BY <2>1, <2>2
<1>2. ASSUME NEW c \in Conversations, LockExpires(c) PROVE AcceptHoldsLock'
  <2> SUFFICES ASSUME NEW q \in Requests, InAccept(q)'
               PROVE  lock'[job'[q].conv] = q
    BY DEF AcceptHoldsLock
  <2>1. InAccept(q) /\ job'[q] = job[q]
    BY <1>2 DEF LockExpires, InAccept
  <2>2. lock[job[q].conv] = q /\ pc[q] \in Running
    BY <2>1 DEF AcceptHoldsLock, InAccept
  <2>3. job[q].conv # c
    BY <1>2, <2>2 DEF LockExpires
  <2> QED
    BY <1>2, <2>1, <2>2, <2>3 DEF LockExpires, TypeOK
<1>3. CASE UNCHANGED vars
  BY <1>3 DEF vars, AcceptHoldsLock, InAccept
<1> QED
  BY <1>1, <1>2, <1>3 DEF Next, Steps

-----------------------------------------------------------------------------
(* What an accept relies on while it holds the lock.                       *)

\* Between a check that saw PENDING and its write, no other accept assigns the
\* row: the lock, not the UPDATE, keeps it unassigned.
AcceptWritesUnassigned ==
    \A r \in Requests :
        pc[r] = "write" /\ job[r].op = "accept"
            => row[job[r].conv].status # "ASSIGNED"

\* Until its event is inserted, a row still assigned is assigned to the accept
\* that wrote it.
AcceptAuditsHolder ==
    \A r \in Requests :
        pc[r] = "audit" /\ job[r].op = "accept"
            => (row[job[r].conv].status = "ASSIGNED"
                    => row[job[r].conv].agent = job[r].agent)

LockInv ==
    /\ TypeOK
    /\ AcceptHoldsLock
    /\ AcceptWritesUnassigned
    /\ AcceptAuditsHolder

\* Only an accept's write assigns a row: every other step leaves a row as it
\* was, or not assigned.
LEMMA OnlyAcceptAssigns ==
    ASSUME TypeOK, NEW r \in Requests, Steps(r), ~AcceptWrite(r)
    PROVE  \A c \in Conversations :
               row'[c] = row[c] \/ row'[c].status # "ASSIGNED"
<1>1. ASSUME NEW op, NEW new, new.status # "ASSIGNED", Write(r, op, new)
      PROVE  \A c \in Conversations : row'[c] = row[c] \/ row'[c].status # "ASSIGNED"
  BY <1>1 DEF Write, TypeOK
<1>2. CASE ReleaseWrite(r) \/ ReopenWrite(r) \/ DisconnectWrite(r)
  <2>1. Unassigned.status # "ASSIGNED"
    BY DEF Unassigned
  <2> QED
    BY <1>1, <1>2, <2>1 DEF ReleaseWrite, ReopenWrite, DisconnectWrite
<1>3. CASE CompleteWrite(r)
  <2> DEFINE new == [row[job[r].conv] EXCEPT !.status = "COMPLETED"]
  <2>1. job[r].conv \in Conversations
    BY <1>3, JobFields DEF CompleteWrite, Write, TypeOK
  <2>2. new.status = "COMPLETED"
    BY <2>1 DEF TypeOK, Rows
  <2> HIDE DEF new
  <2>3. Write(r, "complete", new)
    BY <1>3 DEF CompleteWrite, new
  <2> QED
    BY <1>1, <2>2, <2>3
<1>4. CASE UNCHANGED row
  BY <1>4
<1> QED
  BY <1>2, <1>3, <1>4
     DEF Steps, Arrive, Continue, AcceptThrow, Abandon, AcceptLock,
         ReleaseCheck, CompleteCheck, ReopenCheck, DisconnectSelect,
         AcceptCheck, Audit, AcceptUnlock

\* The write of an accept, which holds the lock: the row was not assigned, and
\* no other accept is in the critical section of that conversation.
LEMMA AcceptWriteAlone ==
    ASSUME LockInv, NEW r \in Requests, AcceptWrite(r)
    PROVE  /\ job[r] \in Jobs /\ job[r].op = "accept"
           /\ row[job[r].conv].status # "ASSIGNED"
           /\ row' = [row EXCEPT ![job[r].conv] = Assigned(job[r].agent)]
           /\ pc'[r] = "audit" /\ job'[r] = job[r]
           /\ \A q \in Requests \ {r} :
                 InAccept(q) => job[q].conv # job[r].conv
<1>1. /\ pc[r] = "write" /\ job[r].op = "accept"
      /\ row' = [row EXCEPT ![job[r].conv] = Assigned(job[r].agent)]
      /\ Goto(r, "audit")
  BY DEF AcceptWrite, Write
<1>2. job[r] \in Jobs
  BY <1>1 DEF LockInv, TypeOK
<1>3. row[job[r].conv].status # "ASSIGNED"
  BY <1>1 DEF LockInv, AcceptWritesUnassigned
<1>4. pc'[r] = "audit" /\ job'[r] = job[r]
  BY <1>1 DEF LockInv, TypeOK, Goto
<1>5. lock[job[r].conv] = r
  BY <1>1 DEF LockInv, AcceptHoldsLock, InAccept
<1>6. \A q \in Requests \ {r} : InAccept(q) => job[q].conv # job[r].conv
  BY <1>5 DEF LockInv, AcceptHoldsLock
<1> QED
  BY <1>1, <1>2, <1>3, <1>4, <1>6

\* How an accept comes to be at its write, and at its event.
LEMMA AcceptProgress ==
    ASSUME TypeOK, NEW r \in Requests, Steps(r), InAccept(r)'
    PROVE  /\ pc'[r] = "write" =>
                  job'[r] = job[r] /\ UNCHANGED row
                  /\ row[job[r].conv].status = "PENDING"
           /\ pc'[r] = "audit" => AcceptWrite(r)
<1>1. \A step, j : Begin(r, step, j) => pc'[r] = step /\ job'[r] = j
  BY DEF Begin, TypeOK
<1>2. \A step : Goto(r, step) => pc'[r] = step /\ job'[r] = job[r]
  BY DEF Goto, TypeOK
<1>3. ~Finish(r)
  BY <1>1 DEF Finish, InAccept
<1>4. CASE Arrive(r)
  <2>1. pc[r] = "idle"
    BY <1>4 DEF Arrive, AcceptLock, ReleaseCheck, CompleteCheck, ReopenCheck,
                DisconnectSelect
  <2>2. pc'[r] = "check"
    BY <2>1, AcceptContinues DEF InAccept
  <2> QED
    BY <2>2
<1>5. CASE AcceptCheck(r)
  BY <1>2, <1>5 DEF AcceptCheck, InAccept
<1>6. ASSUME NEW op, NEW new, op # "accept", Write(r, op, new)
      PROVE  FALSE
  BY <1>2, <1>6 DEF Write, InAccept
<1>7. CASE AcceptWrite(r)
  BY <1>2, <1>7 DEF AcceptWrite, Write
<1>8. CASE Audit(r)
  <2>1. job[r] \in Jobs
    BY <1>8 DEF Audit, TypeOK
  <2>2. \A c \in job[r].todo :
            ~Begin(r, "write", [job[r] EXCEPT !.conv = c, !.todo = @ \ {c}])
    BY <1>1, <2>1 DEF Jobs, InAccept
  <2>3. Goto(r, "unlock")
    BY <1>3, <1>8, <2>2 DEF Audit, AfterAudit
  <2>4. pc'[r] = "unlock"
    BY <1>2, <2>3
  <2> QED
    BY <2>4
<1>9. CASE AcceptUnlock(r) \/ Abandon(r)
  BY <1>3, <1>9 DEF AcceptUnlock, Abandon
<1>10. CASE AcceptThrow(r)
  BY <1>2, <1>10 DEF AcceptThrow
<1> QED
  BY <1>4, <1>5, <1>6, <1>7, <1>8, <1>9, <1>10
     DEF Steps, Continue, ReleaseWrite, CompleteWrite, ReopenWrite,
         DisconnectWrite

LEMMA LockInvStep ==
    ASSUME ~HolderMayOverrun, LockInv, [Next]_vars
    PROVE  LockInv'
<1>1. TypeOK'
  BY TypeStep DEF LockInv
<1>2. AcceptHoldsLock'
  BY LockStep DEF LockInv
<1>3. ASSUME NEW r \in Requests, Steps(r), NEW q \in Requests,
             InAccept(q)'
      PROVE  /\ pc'[q] = "write" => row'[job'[q].conv].status # "ASSIGNED"
             /\ pc'[q] = "audit" /\ row'[job'[q].conv].status = "ASSIGNED"
                    => row'[job'[q].conv].agent = job'[q].agent
  <2> USE <1>3 DEF LockInv
  <2>1. CASE q = r
    <3>1. CASE pc'[r] = "write"
      BY <2>1, <3>1, AcceptProgress
    <3>2. CASE pc'[r] = "audit"
      <4>1. AcceptWrite(r)
        BY <2>1, <3>2, AcceptProgress
      <4>2. job[r].conv \in Conversations
        BY <4>1, AcceptWriteAlone, JobFields
      <4>3. row'[job[r].conv] = Assigned(job[r].agent)
        BY <4>1, <4>2, AcceptWriteAlone DEF TypeOK
      <4> QED
        BY <2>1, <3>2, <4>1, <4>3, AcceptWriteAlone DEF Assigned
    <3> QED
      BY <2>1, <3>1, <3>2
  <2>2. CASE q # r
    <3>1. pc'[q] = pc[q] /\ job'[q] = job[q] /\ InAccept(q)
      BY <2>2, OthersUnchanged DEF InAccept
    <3>2. job[q].conv \in Conversations
      BY <3>1, JobFields DEF InAccept, TypeOK
    <3>3. row'[job[q].conv] = row[job[q].conv]
              \/ row'[job[q].conv].status # "ASSIGNED"
      <4>1. CASE AcceptWrite(r)
        BY <2>2, <3>1, <3>2, <4>1, AcceptWriteAlone DEF TypeOK
      <4> QED
        BY <3>2, <4>1, OnlyAcceptAssigns
    <3> QED
      BY <3>1, <3>3 DEF InAccept, AcceptWritesUnassigned, AcceptAuditsHolder
  <2> QED
    BY <2>1, <2>2
<1>4. ASSUME NEW r \in Requests, Steps(r)
      PROVE  AcceptWritesUnassigned' /\ AcceptAuditsHolder'
  BY <1>3, <1>4 DEF AcceptWritesUnassigned, AcceptAuditsHolder, InAccept
<1>5. ASSUME UNCHANGED <<row, pc, job>>
      PROVE  AcceptWritesUnassigned' /\ AcceptAuditsHolder'
  BY <1>5 DEF LockInv, AcceptWritesUnassigned, AcceptAuditsHolder
<1>6. AcceptWritesUnassigned' /\ AcceptAuditsHolder'
  BY <1>4, <1>5 DEF Next, Steps, LockExpires, vars
<1> QED
  BY <1>1, <1>2, <1>6 DEF LockInv

LEMMA LockInvInit == Init => LockInv
  BY TypeInit
     DEF Init, LockInv, AcceptHoldsLock, InAccept, AcceptWritesUnassigned,
         AcceptAuditsHolder

\* Accepts exclude each other: from SET to DEL an accept holds the lock of its
\* conversation.  DEL does not look whose lock it deletes; it is the time
\* limit alone that makes it the caller's.
THEOREM MutualExclusion ==
    ASSUME ~HolderMayOverrun
    PROVE  Spec => []AcceptHoldsLock
<1>1. LockInv => AcceptHoldsLock
  BY DEF LockInv
<1> QED
  BY <1>1, LockInvInit, LockInvStep, PTL DEF Spec

-----------------------------------------------------------------------------
(* Who holds a conversation.                                               *)

LEMMA HandOverStep ==
    ASSUME LockInv, [Next]_vars, NEW c \in Conversations,
           row[c].status = "ASSIGNED", row'[c].status = "ASSIGNED"
    PROVE  row'[c].agent = row[c].agent
<1>1. ASSUME NEW r \in Requests, Steps(r) PROVE row'[c].agent = row[c].agent
  <2>1. CASE AcceptWrite(r)
    BY <2>1, AcceptWriteAlone DEF LockInv, TypeOK
  <2> QED
    BY <1>1, <2>1, OnlyAcceptAssigns DEF LockInv
<1>2. ASSUME UNCHANGED row PROVE row'[c].agent = row[c].agent
  BY <1>2
<1> QED
  BY <1>1, <1>2 DEF Next, Steps, LockExpires, vars

\* No accept takes a conversation away from an agent: the second of two racing
\* accepts is refused, whatever stale releases and completes come between.
THEOREM NoHandOverCorrect ==
    ASSUME ~HolderMayOverrun
    PROVE  Spec => NoHandOver
<1>1. LockInv /\ [Next]_vars =>
          [\A c \in Conversations :
              row[c].status = "ASSIGNED" /\ row'[c].status = "ASSIGNED"
                  => row'[c].agent = row[c].agent]_vars
  BY HandOverStep
<1> QED
  BY <1>1, LockInvInit, LockInvStep, PTL DEF Spec, NoHandOver

\* A write that does not assign lets the conversation go.
LEMMA WriteLetsGo ==
    ASSUME TypeOK, NEW r \in Requests, NEW op, NEW new,
           new.status # "ASSIGNED", Write(r, op, new)
    PROVE  Abstract!Next
<1>1. job[r].conv \in Conversations
  BY JobFields DEF Write, TypeOK
<1>2. row' = [row EXCEPT ![job[r].conv] = new]
  BY DEF Write
<1>3. Abstract!LetGo(job[r].conv)
  BY <1>1, <1>2 DEF Abstract!LetGo, Holder, TypeOK
<1> QED
  BY <1>1, <1>3 DEF Abstract!Next

LEMMA AcceptTakes ==
    ASSUME LockInv, NEW r \in Requests, AcceptWrite(r)
    PROVE  Abstract!Next
<1> DEFINE c == job[r].conv
           a == job[r].agent
<1>1. c \in Conversations /\ a \in Agents
  BY AcceptWriteAlone, JobFields
<1>2. row' = [row EXCEPT ![c] = Assigned(a)]
  BY AcceptWriteAlone
<1>3. row[c].status # "ASSIGNED"
  BY AcceptWriteAlone
<1>4. Assigned(a).status = "ASSIGNED" /\ Assigned(a).agent = a
  BY DEF Assigned
<1>5. Abstract!Take(c, a)
  BY <1>1, <1>2, <1>3, <1>4 DEF Abstract!Take, Holder, LockInv, TypeOK
<1> QED
  BY <1>1, <1>5 DEF Abstract!Next

LEMMA StepRefines ==
    ASSUME LockInv, [Next]_vars
    PROVE  [Abstract!Next]_Holder
<1>1. ASSUME NEW r \in Requests,
             ReleaseWrite(r) \/ ReopenWrite(r) \/ DisconnectWrite(r)
      PROVE  Abstract!Next
  <2>1. Unassigned.status # "ASSIGNED"
    BY DEF Unassigned
  <2> QED
    BY <1>1, <2>1, WriteLetsGo
       DEF ReleaseWrite, ReopenWrite, DisconnectWrite, LockInv
<1>2. ASSUME NEW r \in Requests, CompleteWrite(r) PROVE Abstract!Next
  <2> DEFINE new == [row[job[r].conv] EXCEPT !.status = "COMPLETED"]
  <2>1. job[r].conv \in Conversations
    BY <1>2, JobFields DEF CompleteWrite, Write, LockInv, TypeOK
  <2>2. new.status # "ASSIGNED"
    BY <2>1 DEF LockInv, TypeOK, Rows
  <2>3. Write(r, "complete", new)
    BY <1>2 DEF CompleteWrite
  <2> HIDE DEF new
  <2> QED
    BY <2>2, <2>3, WriteLetsGo DEF LockInv
<1>3. ASSUME NEW r \in Requests, AcceptWrite(r) PROVE Abstract!Next
  BY <1>3, AcceptTakes
<1>4. ASSUME UNCHANGED row PROVE UNCHANGED Holder
  BY <1>4 DEF Holder
<1> QED
  BY <1>1, <1>2, <1>3, <1>4
     DEF Next, Arrive, Continue, AcceptThrow, Abandon, LockExpires, vars,
         AcceptLock, ReleaseCheck, CompleteCheck, ReopenCheck,
         DisconnectSelect, AcceptCheck, Audit, AcceptUnlock

\* The service implements Assignment: whatever its requests do in between, a
\* conversation is taken only while nobody has it, and by one agent.
THEOREM Refinement ==
    ASSUME ~HolderMayOverrun
    PROVE  Spec => ImplementsAssignment
<1>1. Init => Abstract!Init
  BY DEF Init, Abstract!Init, Holder, Unassigned
<1>2. LockInv /\ [Next]_vars => [Abstract!Next]_Holder
  BY StepRefines
<1> QED
  BY <1>1, <1>2, LockInvInit, LockInvStep, PTL
     DEF Spec, ImplementsAssignment, Abstract!Spec

-----------------------------------------------------------------------------
(* What the audit trail says.                                              *)

LEMMA AppendAccepted ==
    ASSUME NEW s \in Seq(Events), NEW a \in Agents
    PROVE  LastAcceptedBy(Append(s, [type |-> "ACCEPTED", actor |-> a]), a)
<1> DEFINE e == [type |-> "ACCEPTED", actor |-> a]
           t == Append(s, e)
<1>1. e \in Events
  BY DEF Events, EventTypes
<1>2. Len(t) = Len(s) + 1 /\ DOMAIN t = 1 .. Len(s) + 1 /\ t[Len(s) + 1] = e
  BY <1>1
<1> HIDE DEF t
<1>3. \A j \in DOMAIN t : ~(j > Len(s) + 1)
  BY <1>2
<1> QED
  BY <1>2, <1>3 DEF LastAcceptedBy, t

LEMMA AppendOther ==
    ASSUME NEW s \in Seq(Events), NEW a \in Agents, LastAcceptedBy(s, a),
           NEW e \in Events, e.type # "ACCEPTED"
    PROVE  LastAcceptedBy(Append(s, e), a)
<1> DEFINE t == Append(s, e)
<1>1. /\ DOMAIN s = 1 .. Len(s) /\ DOMAIN t = 1 .. Len(s) + 1
      /\ \A i \in 1 .. Len(s) : t[i] = s[i]
      /\ t[Len(s) + 1] = e
  OBVIOUS
<1> HIDE DEF t
<1>2. PICK i \in DOMAIN s :
         /\ s[i] = [type |-> "ACCEPTED", actor |-> a]
         /\ \A j \in DOMAIN s : j > i => s[j].type # "ACCEPTED"
  BY DEF LastAcceptedBy
<1>3. i \in DOMAIN t /\ t[i] = [type |-> "ACCEPTED", actor |-> a]
  BY <1>1, <1>2
<1>4. \A j \in DOMAIN t : j > i => t[j].type # "ACCEPTED"
  BY <1>1, <1>2
<1>5. LastAcceptedBy(t, a)
  BY <1>3, <1>4 DEF LastAcceptedBy
<1> QED
  BY <1>5 DEF t

\* An event of c is inserted: an accept's names the agent that holds c, and
\* another operation's hides no accept.
LEMMA AuditKeepsHolder ==
    ASSUME LockInv, NEW r \in Requests, Audit(r),
           NEW c \in Conversations, NEW a \in Agents, Holds(a, c),
           \/ LastAcceptedBy(trail[c], a)
           \/ job[r] = Job("accept", a, c)
    PROVE  LastAcceptedBy(trail'[c], a)
<1> DEFINE j == job[r]
           e == [type |-> EventOf[j.op], actor |-> j.agent]
<1>1. j \in Jobs
  BY DEF Audit, LockInv, TypeOK
<1>2. /\ j.op \in Ops /\ j.agent \in Agents \cup {NoAgent}
      /\ j.conv \in Conversations
  BY <1>1, JobFields
<1>3. trail' = [trail EXCEPT ![j.conv] = Append(@, e)]
  BY DEF Audit
<1>4. trail[c] \in Seq(Events)
  BY DEF LockInv, TypeOK
<1>5. CASE j.conv # c
  <2>1. trail'[c] = trail[c]
    BY <1>2, <1>3, <1>5 DEF LockInv, TypeOK
  <2>2. LastAcceptedBy(trail[c], a)
    BY <1>5 DEF Job
  <2> QED
    BY <2>1, <2>2
<1>6. CASE j.conv = c /\ j.op = "accept"
  <2>1. j.agent = a
    BY <1>6 DEF Audit, LockInv, AcceptAuditsHolder, Holds
  <2>2. e = [type |-> "ACCEPTED", actor |-> a]
    BY <1>6, <2>1 DEF EventOf
  <2>3. trail'[c] = Append(trail[c], [type |-> "ACCEPTED", actor |-> a])
    BY <1>2, <1>3, <1>6, <2>2 DEF LockInv, TypeOK
  <2> QED
    BY <1>4, <2>3, AppendAccepted
<1>7. CASE j.conv = c /\ j.op # "accept"
  <2>1. e \in Events /\ e.type # "ACCEPTED"
    BY <1>2, <1>7 DEF Events, EventTypes, EventOf, Ops
  <2>2. trail'[c] = Append(trail[c], e)
    BY <1>2, <1>3, <1>7 DEF LockInv, TypeOK
  <2>3. LastAcceptedBy(trail[c], a)
    BY <1>7 DEF Job
  <2> HIDE DEF e
  <2> QED
    BY <1>4, <2>1, <2>2, <2>3, AppendOther
<1> QED
  BY <1>5, <1>6, <1>7

LEMMA TrailStep ==
    ASSUME LockInv, TrailNamesHolder, [Next]_vars
    PROVE  TrailNamesHolder'
<1> SUFFICES ASSUME NEW c \in Conversations, NEW a \in Agents,
                    Holds(a, c)', <<"accept", c>> \notin unaudited'
             PROVE  \/ LastAcceptedBy(trail'[c], a)
                    \/ \E q \in Requests :
                          pc'[q] = "audit" /\ job'[q] = Job("accept", a, c)
  BY DEF TrailNamesHolder
<1>1. ASSUME NEW r \in Requests, Steps(r), AcceptWrite(r), job[r].conv = c
      PROVE  pc'[r] = "audit" /\ job'[r] = Job("accept", a, c)
  <2>1. job[r].agent = a
    <3>1. row'[c] = Assigned(job[r].agent)
      BY <1>1, AcceptWriteAlone DEF LockInv, TypeOK
    <3>2. row'[c].agent = a
      BY DEF Holds
    <3> QED
      BY <3>1, <3>2 DEF Assigned
  <2>2. job[r] = Job("accept", a, c)
    BY <1>1, <2>1, AcceptWriteAlone DEF Jobs, Job
  <2> QED
    BY <1>1, <2>2, AcceptWriteAlone
<1>2. ASSUME NEW r \in Requests, Steps(r),
             ~(AcceptWrite(r) /\ job[r].conv = c)
      PROVE  \/ LastAcceptedBy(trail'[c], a)
             \/ \E q \in Requests :
                   pc'[q] = "audit" /\ job'[q] = Job("accept", a, c)
  <2>1. Holds(a, c)
    <3>1. CASE AcceptWrite(r)
      BY <1>2, <3>1, AcceptWriteAlone DEF Holds, LockInv, TypeOK
    <3> QED
      BY <1>2, <3>1, OnlyAcceptAssigns DEF Holds, LockInv
  <2>2. unaudited \subseteq unaudited' /\ (UNCHANGED trail \/ Audit(r))
    BY <1>2 DEF Steps, Arrive, Continue, AcceptThrow, Abandon, Unaudited,
                AcceptLock, ReleaseCheck, CompleteCheck, ReopenCheck,
                DisconnectSelect, AcceptCheck, AcceptWrite, ReleaseWrite,
                CompleteWrite, ReopenWrite, DisconnectWrite, Write, Audit,
                AcceptUnlock
  <2>3. \/ LastAcceptedBy(trail[c], a)
        \/ \E q \in Requests : pc[q] = "audit" /\ job[q] = Job("accept", a, c)
    BY <2>1, <2>2 DEF TrailNamesHolder
  <2>4. CASE LastAcceptedBy(trail[c], a)
    BY <2>1, <2>2, <2>4, AuditKeepsHolder
  <2>5. ASSUME NEW q \in Requests, pc[q] = "audit", job[q] = Job("accept", a, c)
        PROVE  \/ LastAcceptedBy(trail'[c], a)
               \/ pc'[q] = "audit" /\ job'[q] = Job("accept", a, c)
    <3>1. CASE q # r
      BY <1>2, <2>5, <3>1, OthersUnchanged DEF LockInv
    <3>2. CASE q = r
      <4>1. Job("accept", a, c).op = "accept" /\ Job("accept", a, c).conv = c
        BY DEF Job
      <4>2. CASE Audit(r)
        BY <2>1, <2>5, <3>2, <4>2, AuditKeepsHolder
      <4>3. CASE AcceptThrow(r) \/ Abandon(r)
        BY <2>5, <3>2, <4>1, <4>3 DEF AcceptThrow, Abandon, Unaudited
      <4> QED
        BY <1>2, <2>5, <3>2, <4>2, <4>3
           DEF Steps, Arrive, Continue, AcceptLock, ReleaseCheck,
               CompleteCheck, ReopenCheck, DisconnectSelect, AcceptCheck,
               AcceptWrite, ReleaseWrite, CompleteWrite, ReopenWrite,
               DisconnectWrite, Write, AcceptUnlock
    <3> QED
      BY <3>1, <3>2
  <2> QED
    BY <2>3, <2>4, <2>5
<1>3. ASSUME UNCHANGED <<row, trail, pc, job, unaudited>>
      PROVE  \/ LastAcceptedBy(trail'[c], a)
             \/ \E q \in Requests :
                   pc'[q] = "audit" /\ job'[q] = Job("accept", a, c)
  BY <1>3 DEF TrailNamesHolder, Holds
<1> QED
  BY <1>1, <1>2, <1>3 DEF Next, Steps, LockExpires, vars

\* The trail names the holder: inserting the event under the lock is what keeps
\* the events of two accepts in the order of their writes.
THEOREM TrailCorrect ==
    ASSUME ~HolderMayOverrun
    PROVE  Spec => []TrailNamesHolder
<1>1. Init => TrailNamesHolder
  BY DEF Init, TrailNamesHolder, Holds, Unassigned
<1>2. LockInv /\ TrailNamesHolder /\ [Next]_vars => TrailNamesHolder'
  BY TrailStep
<1> QED
  BY <1>1, <1>2, LockInvInit, LockInvStep, PTL DEF Spec

=============================================================================
