------------------------ MODULE OutboundDeliveryProofs ------------------------
(***************************************************************************)
(* Theorems about OutboundDelivery, for any messages, ids, handlers,       *)
(* attempts and retries.                                                   *)
(***************************************************************************)
EXTENDS OutboundDelivery, FiniteSetTheorems, TLAPS

\* A job that has not failed has an attempt left, or one lent by hand.
AttemptsLeft ==
    \A m \in Messages :
        /\ attempts[m] <= MaxAttempts + manual[m]
        /\ job[m] # "failed" => attempts[m] < MaxAttempts + manual[m]

\* So with the stalls: one is allowed, one fails the job.
StallsLeft ==
    \A m \in Messages :
        /\ stalls[m] <= manual[m] + 2
        /\ job[m] # "failed" => stalls[m] <= manual[m] + 1

\* An id is given to a message when it is accepted, and to no other after that.
OwnedIsSeen == \A p \in Pids : owner[p] = NoMessage <=> seen[p] = "free"

\* The ids the processor and the rows hold are those of the message's own copies.
IdsOfCopies ==
    \A m \in Messages :
        /\ answer[m] \in Pids => owner[answer[m]] = m
        /\ job[m] = "recordSent" => Copies(m) # {}
        /\ pid[m] \in Pids => owner[pid[m]] = m

\* Some copy of m has come as far as s says.
Truth(m, s) ==
    /\ s = "SENT" => \E p \in Pids : owner[p] = m
    /\ s = "DELIVERED" =>
          \E p \in Pids : owner[p] = m /\ seen[p] \in {"delivered", "read"}
    /\ s = "READ" => \E p \in Pids : owner[p] = m /\ seen[p] = "read"

\* A receipt that was matched to a row is of a copy of that row's message, and
\* what it says stays true however long its handler takes.
ReceiptsAreTrue ==
    \A h \in Handlers :
        receipt[h] # NoReceipt => Truth(receipt[h].msg, receipt[h].as)

\* From the UPDATE of RecordSent on, the row is that of a message sent.
RecordedIsSent ==
    \A m \in Messages :
        job[m] \in {"complete", "done"} =>
            /\ Copies(m) # {}
            /\ status[m] # "PENDING"
            /\ told[m] = "SENT"

DeliveryInv ==
    /\ TypeOK
    /\ AttemptsLeft
    /\ StallsLeft
    /\ OwnedIsSeen
    /\ IdsOfCopies
    /\ StatusIsTrue
    /\ ReceiptsAreTrue
    /\ RecordedIsSent
    /\ CopiesAreAccounted
-----------------------------------------------------------------------------
(* The provider's side. *)

\* The id a provider gives is a free one.
LEMMA GivenIsFree ==
    ASSUME NEW m, NEW p \in Pids, Accepts(m, p)
    PROVE  /\ seen[p] = "free"
           /\ owner' = [owner EXCEPT ![p] = m]
           /\ seen' = [seen EXCEPT ![p] = "accepted"]
<1>1. PICK q \in Pids : seen[q] = "free"
  BY DEF Accepts
<1>2. p = CHOOSE r \in Pids : seen[r] = "free"
  BY DEF Accepts
<1> QED
  BY <1>1, <1>2 DEF Accepts

\* What a step of the processor at "send" may have brought about.
LEMMA SendOutcomes ==
    ASSUME NEW m \in Messages, Send(m)
    PROVE  /\ job[m] = "send" /\ UNCHANGED <<rows, told, attempts, stalls, manual, receipt>>
           /\ \/ UNCHANGED provider
              \/ \E p \in Pids : Accepts(m, p)
           /\ \/ \E p \in Pids : /\ Accepts(m, p)
                                 /\ \E id \in {p, NoPid} :
                                       answer' = [answer EXCEPT ![m] = id]
                                 /\ job' = [job EXCEPT ![m] = "recordSent"]
              \/ /\ answer' = answer
                 /\ job' = [job EXCEPT ![m] = "recordFailed"]
BY DEF Send, WhatsAppSend, MessengerSend, WhatsAppSendRequest, MessengerSendRequest,
       Accepted, NotAccepted

\* Which step it was that touched the provider.
LEMMA ProviderSteps ==
    ASSUME [Next]_vars
    PROVE  \/ UNCHANGED provider
           \/ \E m \in Messages, p \in Pids : Accepts(m, p)
           \/ \E p \in Pids : Progress(p)
<1>1. ASSUME NEW m \in Messages, Send(m)
      PROVE  UNCHANGED provider \/ \E p \in Pids : Accepts(m, p)
  BY <1>1, SendOutcomes
<1>2. ASSUME NEW m \in Messages,
             \/ Enqueue(m) \/ StartJob(m) \/ LookUp(m) \/ RecordSent(m) \/ CompleteJob(m)
             \/ RecordFailed(m) \/ Faults(m) \/ RetryFailedOutbound(m)
      PROVE  UNCHANGED provider
  BY <1>2 DEF Enqueue, StartJob, LookUp, RecordSent, CompleteJob, RecordFailed, Faults,
              WorkerDies, JobFails, RecordSentAndFails, RetryFailedOutbound, provider
<1>3. ASSUME NEW h \in Handlers, Receipts(h)
      PROVE  UNCHANGED provider
  BY <1>3 DEF Receipts, ApplyReceipt, DropReceipt, MatchReceipt
<1>4. CASE UNCHANGED vars
  BY <1>4 DEF vars
<1> QED
  BY <1>1, <1>2, <1>3, <1>4 DEF Next, Process

\* A copy stays its message's, and goes on only.
CopiesKept ==
    /\ owner' \in [Pids -> Messages \cup {NoMessage}]
    /\ seen' \in [Pids -> {"free", "accepted", "delivered", "read"}]
    /\ \A p \in Pids :
          /\ owner[p] # NoMessage => owner'[p] = owner[p]
          /\ seen[p] \in {"delivered", "read"} => seen'[p] \in {"delivered", "read"}
          /\ seen[p] = "read" => seen'[p] = "read"

LEMMA CopiesStay ==
    ASSUME TypeOK, OwnedIsSeen, [Next]_vars
    PROVE  CopiesKept /\ OwnedIsSeen'
<1>1. /\ owner \in [Pids -> Messages \cup {NoMessage}]
      /\ seen \in [Pids -> {"free", "accepted", "delivered", "read"}]
  BY DEF TypeOK
<1>2. CASE UNCHANGED provider
  BY <1>1, <1>2 DEF provider, CopiesKept, OwnedIsSeen
<1>3. ASSUME NEW m \in Messages, NEW p \in Pids, Accepts(m, p)
      PROVE  CopiesKept /\ OwnedIsSeen'
  <2>1. /\ seen[p] = "free"
        /\ owner' = [owner EXCEPT ![p] = m]
        /\ seen' = [seen EXCEPT ![p] = "accepted"]
    BY <1>3, GivenIsFree
  <2>2. owner[p] = NoMessage /\ m # NoMessage
    BY <2>1, NoneAssumption DEF OwnedIsSeen
  <2> QED
    BY <1>1, <2>1, <2>2 DEF CopiesKept, OwnedIsSeen
<1>4. ASSUME NEW p \in Pids, Progress(p)
      PROVE  CopiesKept /\ OwnedIsSeen'
  BY <1>1, <1>4 DEF Progress, CopiesKept, OwnedIsSeen
<1> QED
  BY <1>2, <1>3, <1>4, ProviderSteps

\* So what is true of some copy stays true of it.
LEMMA TruthStays ==
    ASSUME CopiesKept, NEW m \in Messages, NEW s, Truth(m, s)
    PROVE  /\ s = "SENT" => \E p \in Pids : owner'[p] = m
           /\ s = "DELIVERED" =>
                 \E p \in Pids : owner'[p] = m /\ seen'[p] \in {"delivered", "read"}
           /\ s = "READ" => \E p \in Pids : owner'[p] = m /\ seen'[p] = "read"
BY NoneAssumption DEF CopiesKept, Truth

\* StatusIsTrue, in terms of Truth.
LEMMA TruthOfStatus ==
    StatusIsTrue <=> \A m \in Messages : Truth(m, status[m])
BY DEF StatusIsTrue, Truth, Copies

-----------------------------------------------------------------------------
(* One lemma per conjunct of the invariant. *)

LEMMA TypeStep ==
    ASSUME TypeOK, AttemptsLeft, StallsLeft, CopiesKept, [Next]_vars
    PROVE  TypeOK'
<1> USE DEF TypeOK, Active
<1>1. ASSUME NEW m \in Messages, Enqueue(m) \/ StartJob(m) \/ LookUp(m) \/ CompleteJob(m)
      PROVE  TypeOK'
  BY <1>1 DEF Enqueue, StartJob, LookUp, CompleteJob, rows, provider
<1>2. ASSUME NEW m \in Messages, Send(m)
      PROVE  TypeOK'
  <2>1. UNCHANGED <<channel, status, pid, told, attempts, stalls, manual, receipt>>
    BY <1>2, SendOutcomes DEF rows
  <2>2. \/ \E id \in Pids \cup {NoPid} : /\ answer' = [answer EXCEPT ![m] = id]
                                         /\ job' = [job EXCEPT ![m] = "recordSent"]
        \/ /\ answer' = answer
           /\ job' = [job EXCEPT ![m] = "recordFailed"]
    BY <1>2, SendOutcomes
  <2>3. /\ job' \in [Messages -> {"none", "waiting", "done", "failed"} \cup Active]
        /\ answer' \in [Messages -> Pids \cup {NoPid}]
    BY <2>2
  <2> QED
    BY <2>1, <2>3 DEF CopiesKept
<1>3. ASSUME NEW m \in Messages, RecordSent(m)
      PROVE  TypeOK'
  BY <1>3 DEF RecordSent, WriteSent, provider
<1>4. ASSUME NEW m \in Messages, Throw(m), job[m] # "failed"
      PROVE  /\ job' \in [Messages -> {"none", "waiting", "done", "failed"} \cup Active]
             /\ answer' \in [Messages -> Pids \cup {NoPid}]
             /\ attempts' \in [Messages -> 0 .. MaxAttempts + MaxManualRetries]
             /\ UNCHANGED <<stalls, manual>>
  BY <1>4, BoundsAssumption DEF Throw, AttemptsLeft
<1>5. ASSUME NEW m \in Messages, RecordFailed(m) \/ JobFails(m) \/ RecordSentAndFails(m)
      PROVE  TypeOK'
  <2>1. Throw(m) /\ job[m] # "failed"
    BY <1>5 DEF RecordFailed, JobFails, RecordSentAndFails, WriteSent
  <2>2. /\ UNCHANGED <<channel, provider, receipt>>
        /\ status' \in [Messages -> {"PENDING", "SENT", "DELIVERED", "READ", "FAILED"}]
        /\ pid' \in [Messages -> Pids \cup {NoPid}]
        /\ told' \in [Messages -> {"PENDING", "SENT", "FAILED"}]
    BY <1>5 DEF RecordFailed, JobFails, RecordSentAndFails, WriteSent, rows
  <2> QED
    BY <1>4, <2>1, <2>2 DEF provider
<1>6. ASSUME NEW m \in Messages, WorkerDies(m)
      PROVE  TypeOK'
  BY <1>6, BoundsAssumption DEF WorkerDies, StallsLeft, rows, provider
<1>7. ASSUME NEW m \in Messages, RetryFailedOutbound(m)
      PROVE  TypeOK'
  BY <1>7, BoundsAssumption DEF RetryFailedOutbound, rows, provider
<1>8. ASSUME NEW h \in Handlers, ApplyReceipt(h)
      PROVE  TypeOK'
  <2>1. receipt[h].as \in {"DELIVERED", "READ"}
    BY <1>8 DEF ApplyReceipt
  <2> QED
    BY <1>8, <2>1 DEF ApplyReceipt, jobs, provider
<1>9. ASSUME NEW h \in Handlers, DropReceipt(h)
      PROVE  TypeOK'
  BY <1>9 DEF DropReceipt, rows, jobs, provider
<1>10. ASSUME NEW h \in Handlers, NEW p \in Pids, MatchReceipt(h, p)
       PROVE  TypeOK'
  <2>1. \E m \in Messages : Match(h, m, "DELIVERED") \/ Match(h, m, "READ")
    BY <1>10 DEF MatchReceipt, WhatsAppStatus, MessengerDelivery, MarkDelivered, MarkRead
  <2>2. receipt' \in [Handlers -> {NoReceipt} \cup [msg : Messages, as : {"DELIVERED", "READ"}]]
    BY <2>1 DEF Match
  <2> QED
    BY <1>10, <2>2 DEF MatchReceipt, rows, jobs, provider
<1>11. ASSUME NEW p \in Pids, Progress(p)
       PROVE  TypeOK'
  BY <1>11 DEF Progress, CopiesKept, rows, jobs
<1>12. CASE UNCHANGED vars
  BY <1>12 DEF vars, rows, jobs, provider
<1> QED
  BY <1>1, <1>2, <1>3, <1>5, <1>6, <1>7, <1>8, <1>9, <1>10, <1>11, <1>12
     DEF Next, Process, Faults, Receipts

LEMMA AttemptsStep ==
    ASSUME TypeOK, AttemptsLeft, [Next]_vars
    PROVE  AttemptsLeft'
<1> USE BoundsAssumption DEF AttemptsLeft, TypeOK, Active
<1>1. ASSUME NEW m \in Messages, job[m] # "failed",
             UNCHANGED <<attempts, manual>>, \A l \in Messages \ {m} : job'[l] = job[l]
      PROVE  AttemptsLeft'
  BY <1>1
<1>2. ASSUME NEW m \in Messages,
             \/ Enqueue(m) \/ StartJob(m) \/ LookUp(m) \/ RecordSent(m) \/ CompleteJob(m)
             \/ WorkerDies(m)
      PROVE  AttemptsLeft'
  BY <1>1, <1>2 DEF Enqueue, StartJob, LookUp, RecordSent, WriteSent, CompleteJob, WorkerDies
<1>3. ASSUME NEW m \in Messages, Send(m)
      PROVE  AttemptsLeft'
  BY <1>1, <1>3, SendOutcomes
<1>4. ASSUME NEW m \in Messages, RecordFailed(m) \/ JobFails(m) \/ RecordSentAndFails(m)
      PROVE  AttemptsLeft'
  <2>1. Throw(m) /\ job[m] # "failed"
    BY <1>4 DEF RecordFailed, JobFails, RecordSentAndFails, WriteSent
  <2> QED
    BY <2>1 DEF Throw
<1>5. ASSUME NEW m \in Messages, RetryFailedOutbound(m)
      PROVE  AttemptsLeft'
  BY <1>5 DEF RetryFailedOutbound
<1>6. ASSUME UNCHANGED jobs
      PROVE  AttemptsLeft'
  BY <1>6 DEF jobs
<1>7. ASSUME NEW h \in Handlers, Receipts(h)
      PROVE  UNCHANGED jobs
  BY <1>7 DEF Receipts, ApplyReceipt, DropReceipt, MatchReceipt
<1> QED
  BY <1>2, <1>3, <1>4, <1>5, <1>6, <1>7 DEF Next, Process, Faults, Progress, vars

LEMMA StallsStep ==
    ASSUME TypeOK, StallsLeft, [Next]_vars
    PROVE  StallsLeft'
<1> USE BoundsAssumption DEF StallsLeft, TypeOK, Active
<1>1. ASSUME NEW m \in Messages, job[m] # "failed",
             UNCHANGED <<stalls, manual>>, \A l \in Messages \ {m} : job'[l] = job[l]
      PROVE  StallsLeft'
  BY <1>1
<1>2. ASSUME NEW m \in Messages,
             \/ Enqueue(m) \/ StartJob(m) \/ LookUp(m) \/ RecordSent(m) \/ CompleteJob(m)
      PROVE  StallsLeft'
  BY <1>1, <1>2 DEF Enqueue, StartJob, LookUp, RecordSent, WriteSent, CompleteJob
<1>3. ASSUME NEW m \in Messages, Send(m)
      PROVE  StallsLeft'
  BY <1>1, <1>3, SendOutcomes
<1>4. ASSUME NEW m \in Messages, RecordFailed(m) \/ JobFails(m) \/ RecordSentAndFails(m)
      PROVE  StallsLeft'
  <2>1. Throw(m) /\ job[m] # "failed"
    BY <1>4 DEF RecordFailed, JobFails, RecordSentAndFails, WriteSent
  <2> QED
    BY <1>1, <2>1 DEF Throw
<1>5. ASSUME NEW m \in Messages, RetryFailedOutbound(m)
      PROVE  StallsLeft'
  BY <1>5 DEF RetryFailedOutbound
<1>6. ASSUME NEW m \in Messages, WorkerDies(m)
      PROVE  StallsLeft'
  BY <1>6 DEF WorkerDies
<1>7. ASSUME UNCHANGED jobs
      PROVE  StallsLeft'
  BY <1>7 DEF jobs
<1>8. ASSUME NEW h \in Handlers, Receipts(h)
      PROVE  UNCHANGED jobs
  BY <1>8 DEF Receipts, ApplyReceipt, DropReceipt, MatchReceipt
<1> QED
  BY <1>2, <1>3, <1>4, <1>5, <1>6, <1>7, <1>8 DEF Next, Process, Faults, Progress, vars

\* A message once accepted stays so.
LEMMA CopiesRemain ==
    ASSUME CopiesKept, NEW m \in Messages
    PROVE  Copies(m) \subseteq Copies(m)'
BY NoneAssumption DEF CopiesKept, Copies

LEMMA IdsStep ==
    ASSUME TypeOK, OwnedIsSeen, IdsOfCopies, CopiesKept, [Next]_vars
    PROVE  IdsOfCopies'
<1> USE NoneAssumption DEF IdsOfCopies, CopiesKept, TypeOK
<1>0. \A l \in Messages : Copies(l) # {} => Copies(l)' # {}
  BY CopiesRemain
<1>1. ASSUME NEW m \in Messages, job'[m] # "recordSent", pid' = pid,
             answer'[m] \in {answer[m], NoPid},
             \A l \in Messages \ {m} : job'[l] = job[l] /\ answer'[l] = answer[l]
      PROVE  IdsOfCopies'
  BY <1>0, <1>1
<1>2. ASSUME NEW m \in Messages, Enqueue(m) \/ StartJob(m) \/ LookUp(m) \/ CompleteJob(m)
      PROVE  IdsOfCopies'
  BY <1>1, <1>2 DEF Enqueue, StartJob, LookUp, CompleteJob, rows
<1>3. ASSUME NEW m \in Messages, Throw(m)
      PROVE  /\ job'[m] # "recordSent" /\ answer'[m] = NoPid
             /\ \A l \in Messages \ {m} : job'[l] = job[l] /\ answer'[l] = answer[l]
  BY <1>3 DEF Throw
<1>4. ASSUME NEW m \in Messages,
             \/ RecordFailed(m) \/ JobFails(m) \/ WorkerDies(m) \/ RetryFailedOutbound(m)
      PROVE  IdsOfCopies'
  BY <1>1, <1>3, <1>4 DEF RecordFailed, JobFails, WorkerDies, RetryFailedOutbound, rows
<1>5. ASSUME NEW m \in Messages, RecordSent(m) \/ RecordSentAndFails(m)
      PROVE  IdsOfCopies'
  <2>1. pid' \in {pid, [pid EXCEPT ![m] = answer[m]]}
    BY <1>5 DEF RecordSent, RecordSentAndFails, WriteSent
  <2>2. /\ job'[m] # "recordSent" /\ answer'[m] = NoPid
        /\ \A l \in Messages \ {m} : job'[l] = job[l] /\ answer'[l] = answer[l]
    BY <1>3, <1>5 DEF RecordSent, RecordSentAndFails
  <2>3. \A l \in Messages : pid'[l] \in Pids => owner'[pid'[l]] = l
    BY <2>1
  <2> QED
    BY <1>0, <2>2, <2>3
<1>6. ASSUME NEW m \in Messages, Send(m)
      PROVE  IdsOfCopies'
  <2>1. pid' = pid
    BY <1>6, SendOutcomes DEF rows
  <2>2. ASSUME NEW p \in Pids, Accepts(m, p), NEW id \in {p, NoPid},
               answer' = [answer EXCEPT ![m] = id], job' = [job EXCEPT ![m] = "recordSent"]
        PROVE  IdsOfCopies'
    <3>1. owner' = [owner EXCEPT ![p] = m]
      BY <2>2, GivenIsFree
    <3>2. Copies(m)' # {}
      BY <3>1 DEF Copies
    <3>3. \A l \in Messages : pid'[l] \in Pids => owner'[pid'[l]] = l
      BY <2>1
    <3>4. \A l \in Messages : answer'[l] \in Pids => owner'[answer'[l]] = l
      BY <2>2, <3>1
    <3> QED
      BY <1>0, <2>2, <3>2, <3>3, <3>4
  <2>3. ASSUME answer' = answer, job' = [job EXCEPT ![m] = "recordFailed"]
        PROVE  IdsOfCopies'
    BY <1>1, <2>1, <2>3
  <2> QED
    BY <1>6, <2>2, <2>3, SendOutcomes
<1>7. ASSUME UNCHANGED <<pid, job, answer>>
      PROVE  IdsOfCopies'
  BY <1>0, <1>7
<1>8. ASSUME NEW h \in Handlers, Receipts(h)
      PROVE  UNCHANGED <<pid, job, answer>>
  BY <1>8 DEF Receipts, ApplyReceipt, DropReceipt, MatchReceipt, rows, jobs
<1> QED
  BY <1>2, <1>4, <1>5, <1>6, <1>7, <1>8
     DEF Next, Process, Faults, Progress, vars, rows, jobs

\* Every status is written with its reason at hand: an id the provider gave, or a
\* receipt that was matched.
LEMMA StatusStep ==
    ASSUME TypeOK, IdsOfCopies, StatusIsTrue, ReceiptsAreTrue, CopiesKept, [Next]_vars
    PROVE  StatusIsTrue'
<1> DEFINE True(m, s) ==
              /\ s = "SENT" => \E p \in Pids : owner'[p] = m
              /\ s = "DELIVERED" =>
                    \E p \in Pids : owner'[p] = m /\ seen'[p] \in {"delivered", "read"}
              /\ s = "READ" => \E p \in Pids : owner'[p] = m /\ seen'[p] = "read"
<1>1. \A m \in Messages : True(m, status[m])
  BY TruthOfStatus, TruthStays
<1>2. \A m \in Messages : True(m, status'[m])
  <2> HIDE DEF True
  <2>1. CASE status' = status
    BY <1>1, <2>1
  <2>2. ASSUME NEW m \in Messages, NEW s, status' = [status EXCEPT ![m] = s], True(m, s)
        PROVE  \A l \in Messages : True(l, status'[l])
    BY <1>1, <2>2 DEF TypeOK
  <2>3. ASSUME NEW m \in Messages, RecordSent(m) \/ RecordSentAndFails(m)
        PROVE  status' = [status EXCEPT ![m] = "SENT"] /\ True(m, "SENT")
    <3>1. status' = [status EXCEPT ![m] = "SENT"] /\ job[m] = "recordSent"
      BY <2>3 DEF RecordSent, RecordSentAndFails, WriteSent
    <3>2. PICK p \in Pids : owner[p] = m
      BY <3>1 DEF IdsOfCopies, Copies
    <3>3. owner'[p] = m
      BY <3>2, NoneAssumption DEF CopiesKept
    <3> QED
      BY <3>1, <3>3 DEF True
  <2>4. ASSUME NEW m \in Messages, RecordFailed(m)
        PROVE  status' = [status EXCEPT ![m] = "FAILED"] /\ True(m, "FAILED")
    BY <2>4 DEF RecordFailed, True
  <2>5. ASSUME NEW h \in Handlers, ApplyReceipt(h)
        PROVE  \E m \in Messages : \E s : status' = [status EXCEPT ![m] = s] /\ True(m, s)
    <3>1. /\ status' = [status EXCEPT ![receipt[h].msg] = receipt[h].as]
          /\ receipt[h] # NoReceipt
      BY <2>5 DEF ApplyReceipt
    <3>2. receipt[h].msg \in Messages
      BY <3>1 DEF TypeOK
    <3>3. Truth(receipt[h].msg, receipt[h].as)
      BY <3>1 DEF ReceiptsAreTrue
    <3>4. True(receipt[h].msg, receipt[h].as)
      BY <3>2, <3>3, TruthStays DEF True
    <3> QED
      BY <3>1, <3>2, <3>4
  <2>6. ASSUME NEW m \in Messages,
               \/ Enqueue(m) \/ StartJob(m) \/ LookUp(m) \/ Send(m) \/ CompleteJob(m)
               \/ WorkerDies(m) \/ JobFails(m) \/ RetryFailedOutbound(m)
        PROVE  status' = status
    BY <2>6, SendOutcomes DEF Enqueue, StartJob, LookUp, CompleteJob, WorkerDies, JobFails,
                              RetryFailedOutbound, rows
  <2>7. ASSUME NEW h \in Handlers, DropReceipt(h) \/ \E p \in Pids : MatchReceipt(h, p)
        PROVE  status' = status
    BY <2>7 DEF DropReceipt, MatchReceipt, rows
  <2> QED
    BY <2>1, <2>2, <2>3, <2>4, <2>5, <2>6, <2>7
       DEF Next, Process, Faults, Receipts, Progress, vars, rows
<1> QED
  BY <1>2 DEF StatusIsTrue, Copies

\* A receipt's row has an id of one of its copies, so it is a copy's receipt.
LEMMA MatchedIsTrue ==
    ASSUME IdsOfCopies, NEW h \in Handlers, NEW p \in Pids, MatchReceipt(h, p)
    PROVE  \E m \in Messages, s \in {"DELIVERED", "READ"} :
               receipt' = [receipt EXCEPT ![h] = [msg |-> m, as |-> s]] /\ Truth(m, s)
<1>1. MarkDelivered(h, p) \/ MarkRead(h, p)
  BY DEF MatchReceipt, WhatsAppStatus, MessengerDelivery
<1>2. CASE MarkDelivered(h, p)
  <2>1. PICK m \in Messages : pid[m] = p /\ Match(h, m, "DELIVERED")
    BY <1>2 DEF MarkDelivered
  <2>2. Truth(m, "DELIVERED")
    BY <1>2, <2>1 DEF MarkDelivered, IdsOfCopies, Truth
  <2> QED
    BY <2>1, <2>2 DEF Match
<1>3. CASE MarkRead(h, p)
  <2>1. PICK m \in Messages : pid[m] = p /\ Match(h, m, "READ")
    BY <1>3 DEF MarkRead
  <2>2. Truth(m, "READ")
    BY <1>3, <2>1 DEF MarkRead, IdsOfCopies, Truth
  <2> QED
    BY <2>1, <2>2 DEF Match
<1> QED
  BY <1>1, <1>2, <1>3

LEMMA ReceiptsStep ==
    ASSUME TypeOK, IdsOfCopies, ReceiptsAreTrue, CopiesKept, [Next]_vars
    PROVE  ReceiptsAreTrue'
<1> DEFINE True(m, s) ==
              /\ s = "SENT" => \E p \in Pids : owner'[p] = m
              /\ s = "DELIVERED" =>
                    \E p \in Pids : owner'[p] = m /\ seen'[p] \in {"delivered", "read"}
              /\ s = "READ" => \E p \in Pids : owner'[p] = m /\ seen'[p] = "read"
<1>1. ASSUME NEW m \in Messages, NEW s, Truth(m, s)
      PROVE  True(m, s)
  BY <1>1, TruthStays
<1>2. ASSUME NEW h \in Handlers, receipt[h] # NoReceipt
      PROVE  True(receipt[h].msg, receipt[h].as)
  BY <1>1, <1>2 DEF ReceiptsAreTrue, TypeOK
<1>3. ASSUME NEW h \in Handlers, receipt'[h] # NoReceipt
      PROVE  True(receipt'[h].msg, receipt'[h].as)
  <2> HIDE DEF True
  <2>1. CASE receipt' = receipt
    BY <1>2, <1>3, <2>1
  <2>2. ASSUME NEW g \in Handlers, ApplyReceipt(g) \/ DropReceipt(g)
        PROVE  True(receipt'[h].msg, receipt'[h].as)
    <3>1. receipt' = [receipt EXCEPT ![g] = NoReceipt]
      BY <2>2 DEF ApplyReceipt, DropReceipt
    <3> QED
      BY <1>2, <1>3, <3>1 DEF TypeOK
  <2>3. ASSUME NEW g \in Handlers, NEW p \in Pids, MatchReceipt(g, p)
        PROVE  True(receipt'[h].msg, receipt'[h].as)
    <3>1. PICK m \in Messages, s \in {"DELIVERED", "READ"} :
             receipt' = [receipt EXCEPT ![g] = [msg |-> m, as |-> s]] /\ Truth(m, s)
      BY <2>3, MatchedIsTrue
    <3>2. True(m, s)
      BY <1>1, <3>1
    <3> QED
      BY <1>2, <1>3, <3>1, <3>2 DEF TypeOK
  <2>4. ASSUME NEW m \in Messages,
               \/ Enqueue(m) \/ Process(m) \/ Faults(m) \/ RetryFailedOutbound(m)
        PROVE  receipt' = receipt
    BY <2>4, SendOutcomes
       DEF Enqueue, Process, StartJob, LookUp, RecordSent, CompleteJob, RecordFailed,
           Faults, WorkerDies, JobFails, RecordSentAndFails, RetryFailedOutbound
  <2> QED
    BY <2>1, <2>2, <2>3, <2>4 DEF Next, Receipts, Progress, vars
<1> QED
  BY <1>3 DEF ReceiptsAreTrue, Truth

LEMMA RecordedStep ==
    ASSUME TypeOK, IdsOfCopies, RecordedIsSent, CopiesKept, [Next]_vars
    PROVE  RecordedIsSent'
<1> USE DEF RecordedIsSent, TypeOK, Active
<1>0. \A l \in Messages : Copies(l) # {} => Copies(l)' # {}
  BY CopiesRemain
<1>1. ASSUME NEW m \in Messages, job'[m] \notin {"complete", "done"},
             \A l \in Messages \ {m} : /\ job'[l] = job[l] /\ status'[l] = status[l]
                                       /\ told'[l] = told[l]
      PROVE  RecordedIsSent'
  BY <1>0, <1>1
<1>2. ASSUME NEW m \in Messages,
             \/ Enqueue(m) \/ StartJob(m) \/ LookUp(m) \/ WorkerDies(m)
             \/ RetryFailedOutbound(m)
      PROVE  RecordedIsSent'
  BY <1>1, <1>2 DEF Enqueue, StartJob, LookUp, WorkerDies, RetryFailedOutbound, rows
<1>3. ASSUME NEW m \in Messages, Send(m)
      PROVE  RecordedIsSent'
  <2>1. UNCHANGED <<status, pid, told>>
    BY <1>3, SendOutcomes DEF rows
  <2>2. job'[m] \notin {"complete", "done"} /\ \A l \in Messages \ {m} : job'[l] = job[l]
    BY <1>3, SendOutcomes
  <2> QED
    BY <1>1, <2>1, <2>2
<1>4. ASSUME NEW m \in Messages, RecordSent(m)
      PROVE  RecordedIsSent'
  BY <1>0, <1>4 DEF RecordSent, WriteSent, IdsOfCopies
<1>5. ASSUME NEW m \in Messages, CompleteJob(m)
      PROVE  RecordedIsSent'
  BY <1>0, <1>5 DEF CompleteJob, rows
<1>6. ASSUME NEW m \in Messages, RecordFailed(m) \/ JobFails(m) \/ RecordSentAndFails(m)
      PROVE  RecordedIsSent'
  <2>1. job'[m] \notin {"complete", "done"} /\ \A l \in Messages \ {m} : job'[l] = job[l]
    BY <1>6 DEF RecordFailed, JobFails, RecordSentAndFails, Throw
  <2>2. \A l \in Messages \ {m} :
           status'[l] = status[l] /\ told'[l] = told[l]
    BY <1>6 DEF RecordFailed, JobFails, RecordSentAndFails, WriteSent, rows
  <2> QED
    BY <1>1, <2>1, <2>2
<1>7. ASSUME NEW h \in Handlers, ApplyReceipt(h)
      PROVE  RecordedIsSent'
  <2>1. receipt[h].as \in {"DELIVERED", "READ"}
    BY <1>7 DEF ApplyReceipt
  <2> QED
    BY <1>0, <1>7, <2>1 DEF ApplyReceipt, jobs
<1>8. CASE UNCHANGED <<rows, jobs, told>>
  BY <1>0, <1>8 DEF rows, jobs
<1>9. ASSUME NEW h \in Handlers, DropReceipt(h) \/ \E p \in Pids : MatchReceipt(h, p)
      PROVE  UNCHANGED <<rows, jobs, told>>
  BY <1>9 DEF DropReceipt, MatchReceipt
<1> QED
  BY <1>2, <1>3, <1>4, <1>5, <1>6, <1>7, <1>8, <1>9
     DEF Next, Process, Faults, Receipts, Progress, vars

\* What a provider accepts comes as one copy, and in an attempt at "send".
LEMMA CopiesStep ==
    ASSUME TypeOK, OwnedIsSeen, CopiesAreAccounted, [Next]_vars
    PROVE  CopiesAreAccounted'
<1> DEFINE Room(m) == attempts[m] + stalls[m] + (IF job[m] \in Tried THEN 1 ELSE 0)
<1>1. \A m \in Messages : /\ IsFiniteSet(Copies(m))
                          /\ Cardinality(Copies(m)) \in Nat
                          /\ Cardinality(Copies(m)) <= Room(m)
  <2>1. \A m \in Messages : IsFiniteSet(Copies(m))
    BY PidsAssumption, FS_Subset DEF Copies
  <2> QED
    BY <2>1, FS_CardinalityType DEF CopiesAreAccounted
<1>2. \A m \in Messages : attempts[m] \in Nat /\ stalls[m] \in Nat /\ Room(m) \in Nat
  BY BoundsAssumption DEF TypeOK
<1>3. ASSUME owner' = owner, \A m \in Messages : Room(m)' \in Nat /\ Room(m) <= Room(m)'
      PROVE  CopiesAreAccounted'
  <2>1. \A m \in Messages : Copies(m)' = Copies(m)
    BY <1>3 DEF Copies
  <2>2. \A m \in Messages : Cardinality(Copies(m)) <= Room(m)'
    <3> HIDE DEF Room
    <3> QED
      BY <1>1, <1>2, <1>3
  <2> QED
    BY <2>1, <2>2 DEF CopiesAreAccounted
<1>4. ASSUME NEW m \in Messages,
             \/ Enqueue(m) \/ StartJob(m) \/ LookUp(m) \/ RecordSent(m) \/ CompleteJob(m)
             \/ RetryFailedOutbound(m)
      PROVE  CopiesAreAccounted'
  <2>1. UNCHANGED <<owner, attempts, stalls>>
    BY <1>4 DEF Enqueue, StartJob, LookUp, RecordSent, CompleteJob, RetryFailedOutbound,
                provider
  <2>2. \A l \in Messages : job[l] \in Tried => job'[l] \in Tried
    BY <1>4 DEF Enqueue, StartJob, LookUp, RecordSent, WriteSent, CompleteJob,
                RetryFailedOutbound, TypeOK, Tried
  <2>3. \A l \in Messages : Room(l)' \in Nat /\ Room(l) <= Room(l)'
    BY <1>2, <2>1, <2>2
  <2> QED
    BY <1>3, <2>1, <2>3
<1>5. ASSUME NEW m \in Messages, Send(m)
      PROVE  CopiesAreAccounted'
  <2>1. /\ job[m] = "send" /\ UNCHANGED <<attempts, stalls>>
        /\ job'[m] \in Tried /\ \A l \in Messages \ {m} : job'[l] = job[l]
    BY <1>5, SendOutcomes DEF TypeOK, Tried
  <2>2. Room(m)' = Room(m) + 1 /\ \A l \in Messages \ {m} : Room(l)' = Room(l)
    BY <1>2, <2>1 DEF Tried
  <2>3. CASE UNCHANGED provider
    <3>1. owner' = owner
      BY <2>3 DEF provider
    <3>2. \A l \in Messages : Room(l)' \in Nat /\ Room(l) <= Room(l)'
      BY <1>2, <2>2
    <3> QED
      BY <1>3, <3>1, <3>2
  <2>4. ASSUME NEW p \in Pids, Accepts(m, p)
        PROVE  CopiesAreAccounted'
    <3>1. owner' = [owner EXCEPT ![p] = m] /\ owner[p] = NoMessage
      BY <2>4, GivenIsFree DEF OwnedIsSeen
    <3>2. p \notin Copies(m) /\ Copies(m)' = Copies(m) \cup {p}
      BY <3>1, NoneAssumption DEF Copies, TypeOK
    <3>3. \A l \in Messages \ {m} : Copies(l)' = Copies(l)
      BY <3>1, NoneAssumption DEF Copies, TypeOK
    <3>4. Cardinality(Copies(m)') = Cardinality(Copies(m)) + 1
      BY <1>1, <3>2, FS_AddElement
    <3>5. \A l \in Messages : Cardinality(Copies(l)') <= Room(l)'
      <4> HIDE DEF Room
      <4> QED
        BY <1>1, <1>2, <2>2, <3>3, <3>4
    <3> QED
      BY <3>5 DEF CopiesAreAccounted
  <2> QED
    BY <1>5, <2>3, <2>4, SendOutcomes
<1>6. ASSUME NEW m \in Messages, owner' = owner, job[m] \in Tried \cup Active,
             \A l \in Messages \ {m} : /\ job'[l] = job[l] /\ stalls'[l] = stalls[l]
                                       /\ attempts'[l] = attempts[l],
             \/ attempts'[m] = attempts[m] + 1 /\ stalls'[m] = stalls[m]
             \/ attempts'[m] = attempts[m] /\ stalls'[m] = stalls[m] + 1
      PROVE  CopiesAreAccounted'
  <2>1. Room(m)' \in Nat /\ Room(m) <= Room(m)'
    BY <1>2, <1>6
  <2>2. \A l \in Messages \ {m} : Room(l)' = Room(l)
    BY <1>6
  <2> QED
    BY <1>2, <1>3, <1>6, <2>1, <2>2
<1>7. ASSUME NEW m \in Messages, WorkerDies(m)
      PROVE  CopiesAreAccounted'
  BY <1>6, <1>7 DEF WorkerDies, provider, TypeOK
<1>8. ASSUME NEW m \in Messages, RecordFailed(m) \/ JobFails(m) \/ RecordSentAndFails(m)
      PROVE  CopiesAreAccounted'
  <2>1. /\ Throw(m) /\ UNCHANGED provider
        /\ job[m] \in Active
    BY <1>8 DEF RecordFailed, JobFails, RecordSentAndFails, WriteSent, Active
  <2> QED
    BY <1>6, <2>1 DEF Throw, provider, TypeOK
<1>9. ASSUME UNCHANGED <<owner, jobs>>
      PROVE  CopiesAreAccounted'
  <2>1. \A l \in Messages : Room(l)' = Room(l)
    BY <1>9 DEF jobs
  <2> QED
    BY <1>2, <1>3, <1>9, <2>1
<1>10. ASSUME NEW h \in Handlers, Receipts(h)
       PROVE  UNCHANGED <<owner, jobs>>
  BY <1>10 DEF Receipts, ApplyReceipt, DropReceipt, MatchReceipt, provider
<1>11. ASSUME NEW p \in Pids, Progress(p)
       PROVE  UNCHANGED <<owner, jobs>>
  BY <1>11 DEF Progress
<1>12. CASE UNCHANGED vars
  BY <1>9, <1>12 DEF vars, provider
<1> QED
  BY <1>4, <1>5, <1>7, <1>8, <1>9, <1>10, <1>11, <1>12 DEF Next, Process, Faults

-----------------------------------------------------------------------------
(* The theorems. *)

\* The inductive invariant: ids and receipts are of the message's own copies, and
\* what is written on a row has its reason in one of them.
THEOREM DeliveryInvariant == Spec => []DeliveryInv
<1>1. Init => DeliveryInv
  <2>1. Init => \A m \in Messages : Copies(m) = {}
    BY NoneAssumption DEF Init, Copies
  <2>2. Init => CopiesAreAccounted
    BY <2>1, FS_EmptySet DEF Init, CopiesAreAccounted, Tried
  <2>3. Init => TypeOK /\ AttemptsLeft /\ StallsLeft /\ OwnedIsSeen /\ ReceiptsAreTrue
    BY BoundsAssumption, NoneAssumption
       DEF Init, TypeOK, AttemptsLeft, StallsLeft, OwnedIsSeen, ReceiptsAreTrue, Active
  <2>4. Init => IdsOfCopies /\ StatusIsTrue /\ RecordedIsSent
    BY NoneAssumption DEF Init, IdsOfCopies, StatusIsTrue, RecordedIsSent
  <2> QED
    BY <2>2, <2>3, <2>4 DEF DeliveryInv
<1>2. DeliveryInv /\ [Next]_vars => DeliveryInv'
  BY CopiesStay, TypeStep, AttemptsStep, StallsStep, IdsStep, StatusStep, ReceiptsStep,
     RecordedStep, CopiesStep
     DEF DeliveryInv
<1> QED
  BY <1>1, <1>2, PTL DEF Spec

\* Rows, jobs and receipts are of their types, and a job never begins more
\* attempts than configured and lent by hand, however it fails or stalls.
THEOREM DeliveryTypeCorrect == Spec => []TypeOK
<1>1. DeliveryInv => TypeOK
  BY DEF DeliveryInv
<1> QED
  BY DeliveryInvariant, <1>1, PTL

\* What the agent sees of a message is true of a copy the provider has, although
\* the provider may accept several of them, answers are lost, and receipts are
\* matched and applied in two statements, late, repeated and out of order.
THEOREM StatusIsTrueCorrect == Spec => []StatusIsTrue
<1>1. DeliveryInv => StatusIsTrue
  BY DEF DeliveryInv
<1> QED
  BY DeliveryInvariant, <1>1, PTL

\* A completed job leaves a message the provider has: SENT is what its room was
\* told last, its row is no longer PENDING, and the id in it, where the provider's
\* answers had one, is of one of the message's own copies.
THEOREM CompletedIsSentCorrect == Spec => []CompletedIsSent
<1>1. DeliveryInv => CompletedIsSent
  BY DEF DeliveryInv, TypeOK, RecordedIsSent, IdsOfCopies, CompletedIsSent
<1> QED
  BY DeliveryInvariant, <1>1, PTL

\* Whatever loses answers, stalls and is retried, a message never has more copies
\* than it was tried.
THEOREM CopiesAreAccountedCorrect == Spec => []CopiesAreAccounted
<1>1. DeliveryInv => CopiesAreAccounted
  BY DEF DeliveryInv
<1> QED
  BY DeliveryInvariant, <1>1, PTL

===============================================================================
