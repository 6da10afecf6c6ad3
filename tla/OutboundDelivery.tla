-------------------------- MODULE OutboundDelivery --------------------------
(***************************************************************************)
(* A message an agent has sent, from its row to its provider and back: the *)
(* job that hands it over (OutboundMessageProcessor), the requests of the  *)
(* two provider services, and the receipts that come back by webhook       *)
(* (markDelivered, markRead, updateStatus).                                *)
(*                                                                         *)
(* BullMQ and the providers are external, modelled from how the code uses  *)
(* them: a job that throws is tried again up to MaxAttempts, a worker that *)
(* dies leaves a stalled job that is started again once, a failed job may  *)
(* be retried by hand; a request a provider has accepted may lose its      *)
(* answer on the way back; receipts come late, repeated, out of order or   *)
(* never.  Nothing in the repository calls queueOutboundMessage; the model *)
(* supposes a caller that queues what MessageHistory's POST has stored.    *)
(***************************************************************************)
EXTENDS Naturals, FiniteSets

CONSTANTS
    Messages,           \* ids of outbound rows
    Pids,               \* ids the providers give to what it accepts
    Handlers,           \* receipts being processed at once
    NoMessage, NoPid,
    MaxAttempts,        \* attempts: 3 as queued
    MaxManualRetries    \* bound: calls of retryFailedOutbound for a job

ASSUME BoundsAssumption == MaxAttempts \in Nat \ {0} /\ MaxManualRetries \in Nat
ASSUME PidsAssumption == IsFiniteSet(Pids)
ASSUME NoneAssumption == NoMessage \notin Messages /\ NoPid \notin Pids

VARIABLES
    channel,        \* the provider of the channel each message goes by
    status,         \* the status column
    pid,            \* the provider_message_id column
    told,           \* the status last emitted to the conversation's room
    job,            \* the state of each job, or the processor's next statement
    answer,         \* the provider's answer the processor has in hand
    attempts,       \* attempts of a job that threw
    stalls,         \* times a worker died under a job
    manual,         \* retries by hand
    owner,          \* provider: which message an id was given to
    seen,           \* provider: what became of it
    receipt         \* the receipt each handler has matched to a row

rows == <<channel, status, pid>>
jobs == <<job, answer, attempts, stalls, manual>>
provider == <<owner, seen>>
vars == <<rows, told, jobs, provider, receipt>>

-----------------------------------------------------------------------------

Providers == {"WHATSAPP", "MESSENGER"}

NoReceipt == [msg |-> NoMessage, as |-> "none"]

Active == {"look", "send", "recordSent", "recordFailed", "complete"}

Init ==
    /\ channel \in [Messages -> Providers]
    /\ status = [m \in Messages |-> "PENDING"]
    /\ pid = [m \in Messages |-> NoPid]
    /\ told = [m \in Messages |-> "PENDING"]
    /\ job = [m \in Messages |-> "none"]
    /\ answer = [m \in Messages |-> NoPid]
    /\ attempts = [m \in Messages |-> 0]
    /\ stalls = [m \in Messages |-> 0]
    /\ manual = [m \in Messages |-> 0]
    /\ owner = [p \in Pids |-> NoMessage]
    /\ seen = [p \in Pids |-> "free"]
    /\ receipt = [h \in Handlers |-> NoReceipt]

-----------------------------------------------------------------------------
(* BullMQ. *)

\* queueOutboundMessage, by the caller that is supposed.
Enqueue(m) ==
    /\ job[m] = "none"
    /\ job' = [job EXCEPT ![m] = "waiting"]
    /\ UNCHANGED <<rows, told, answer, attempts, stalls, manual, provider, receipt>>

StartJob(m) ==
    /\ job[m] = "waiting"
    /\ job' = [job EXCEPT ![m] = "look"]
    /\ UNCHANGED <<rows, told, answer, attempts, stalls, manual, provider, receipt>>

\* Mutant: one attempt more than configured.
ThrowOnceMore(m) ==
    /\ attempts' = [attempts EXCEPT ![m] = @ + 1]
    /\ answer' = [answer EXCEPT ![m] = NoPid]
    /\ \/ attempts[m] + 1 <= MaxAttempts /\ job' = [job EXCEPT ![m] = "waiting"]
       \/ attempts[m] + 1 > MaxAttempts /\ job' = [job EXCEPT ![m] = "failed"]
    /\ UNCHANGED <<stalls, manual>>

\* Mutant: the job is added anew, and its attempts with it.
ThrowAfresh(m) ==
    /\ answer' = [answer EXCEPT ![m] = NoPid]
    /\ job' = [job EXCEPT ![m] = "waiting"]
    /\ UNCHANGED <<attempts, stalls, manual>>

\* process threw.
Throw(m) ==
    /\ attempts' = [attempts EXCEPT ![m] = @ + 1]
    /\ answer' = [answer EXCEPT ![m] = NoPid]
    /\ \/ attempts[m] + 1 < MaxAttempts /\ job' = [job EXCEPT ![m] = "waiting"]
       \/ attempts[m] + 1 >= MaxAttempts /\ job' = [job EXCEPT ![m] = "failed"]
    /\ UNCHANGED <<stalls, manual>>

\* The worker dies under a job; a job that stalls a second time is failed.
WorkerDies(m) ==
    /\ job[m] \in Active
    /\ job' = [job EXCEPT ![m] = IF stalls[m] > 0 THEN "failed" ELSE "waiting"]
    /\ stalls' = [stalls EXCEPT ![m] = @ + 1]
    /\ answer' = [answer EXCEPT ![m] = NoPid]
    /\ UNCHANGED <<rows, told, attempts, manual, provider, receipt>>

RetryFailedOutbound(m) ==
    /\ job[m] = "failed" /\ manual[m] < MaxManualRetries
    /\ job' = [job EXCEPT ![m] = "waiting"]
    /\ manual' = [manual EXCEPT ![m] = @ + 1]
    /\ UNCHANGED <<rows, told, answer, attempts, stalls, provider, receipt>>

-----------------------------------------------------------------------------
(* The providers' services. *)

\* A provider accepts a message and gives it a fresh id: which one is all the
\* same, so any free one stands for all.  Pids bounds how often it accepts.
Accepts(m, p) ==
    /\ \E q \in Pids : seen[q] = "free"
    /\ p = CHOOSE q \in Pids : seen[q] = "free"
    /\ owner' = [owner EXCEPT ![p] = m]
    /\ seen' = [seen EXCEPT ![p] = "accepted"]

\* sendRequest succeeds on any answer that is ok.  The id is taken from its body,
\* which may have none: the success is then without an id.
Accepted(m) ==
    \E p \in Pids :
        /\ Accepts(m, p)
        /\ \E id \in {p, NoPid} : answer' = [answer EXCEPT ![m] = id]
        /\ job' = [job EXCEPT ![m] = "recordSent"]

\* Mutant: a request without an answer is sent again at once.
NotAcceptedRetries(m) ==
    /\ \/ /\ \E p \in Pids : Accepts(m, p)
          /\ UNCHANGED job
       \/ /\ UNCHANGED provider
          /\ job' = [job EXCEPT ![m] = "recordFailed"]
    /\ UNCHANGED answer

\* sendRequest turns a refusal, and anything that fails after the provider
\* accepted, into the same success: false.
NotAccepted(m) ==
    /\ \/ \E p \in Pids : Accepts(m, p)
       \/ UNCHANGED provider
    /\ job' = [job EXCEPT ![m] = "recordFailed"]
    /\ UNCHANGED answer

WhatsAppSendRequest(m) == Accepted(m) \/ NotAccepted(m)

MessengerSendRequest(m) == Accepted(m) \/ NotAccepted(m)

\* sendTextMessage and sendMediaMessage differ in the payload they build.
WhatsAppSend(m) == channel[m] = "WHATSAPP" /\ WhatsAppSendRequest(m)

MessengerSend(m) == channel[m] = "MESSENGER" /\ MessengerSendRequest(m)

-----------------------------------------------------------------------------
(* OutboundMessageProcessor.process. *)

\* Channel, contact and conversation are read; foreign keys keep them there.
LookUp(m) ==
    /\ job[m] = "look"
    /\ job' = [job EXCEPT ![m] = "send"]
    /\ UNCHANGED <<rows, told, answer, attempts, stalls, manual, provider, receipt>>

\* The branch on the channel's provider.
Send(m) ==
    /\ job[m] = "send"
    /\ WhatsAppSend(m) \/ MessengerSend(m)
    /\ UNCHANGED <<rows, told, attempts, stalls, manual, receipt>>

\* A column that is to be set to undefined is not among those written.
WriteSent(m) ==
    /\ job[m] = "recordSent"
    /\ status' = [status EXCEPT ![m] = "SENT"]
    /\ pid' = IF answer[m] = NoPid THEN pid ELSE [pid EXCEPT ![m] = answer[m]]

\* A plain UPDATE of both columns, whatever a receipt has written, and the news
\* of it to the room.
RecordSent(m) ==
    /\ WriteSent(m)
    /\ told' = [told EXCEPT ![m] = "SENT"]
    /\ answer' = [answer EXCEPT ![m] = NoPid]
    /\ job' = [job EXCEPT ![m] = "complete"]
    /\ UNCHANGED <<channel, attempts, stalls, manual, provider, receipt>>

\* process returns, and BullMQ moves the job.
CompleteJob(m) ==
    /\ job[m] = "complete"
    /\ job' = [job EXCEPT ![m] = "done"]
    /\ UNCHANGED <<rows, told, answer, attempts, stalls, manual, provider, receipt>>

\* Mutant: a failed send is recorded, and nothing is thrown.
RecordFailedQuietly(m) ==
    /\ job[m] = "recordFailed"
    /\ status' = [status EXCEPT ![m] = "FAILED"]
    /\ told' = [told EXCEPT ![m] = "FAILED"]
    /\ job' = [job EXCEPT ![m] = "done"]
    /\ UNCHANGED <<channel, pid, answer, attempts, stalls, manual, provider, receipt>>

\* updateStatus(FAILED), whose event may fail to be inserted and keep the room
\* from being told; then the throw that has BullMQ try again.
RecordFailed(m) ==
    /\ job[m] = "recordFailed"
    /\ status' = [status EXCEPT ![m] = "FAILED"]
    /\ told' \in {told, [told EXCEPT ![m] = "FAILED"]}
    /\ Throw(m)
    /\ UNCHANGED <<channel, pid, provider, receipt>>

\* A statement of the processor fails.
JobFails(m) ==
    /\ job[m] \in {"look", "recordSent", "recordFailed"}
    /\ Throw(m)
    /\ UNCHANGED <<rows, told, provider, receipt>>

\* The UPDATE of RecordSent commits, and its answer is lost.
RecordSentAndFails(m) ==
    /\ WriteSent(m)
    /\ Throw(m)
    /\ UNCHANGED <<channel, told, provider, receipt>>

-----------------------------------------------------------------------------
(* The provider and its receipts. *)

Progress(p) ==
    /\ \/ seen[p] = "accepted" /\ seen' = [seen EXCEPT ![p] = "delivered"]
       \/ seen[p] = "delivered" /\ seen' = [seen EXCEPT ![p] = "read"]
    /\ UNCHANGED <<rows, told, jobs, owner, receipt>>

Match(h, m, as) == receipt' = [receipt EXCEPT ![h] = [msg |-> m, as |-> as]]

\* Mutant: a receipt of delivery is taken for one of reading.
MarkReadTooSoon(h, p) ==
    /\ seen[p] \in {"delivered", "read"}
    /\ \E m \in Messages : pid[m] = p /\ Match(h, m, "READ")

\* A receipt is matched by provider_message_id.  One that matches no row is
\* dropped: that changes nothing, and nothing remembers it.
MarkDelivered(h, p) ==
    /\ seen[p] \in {"delivered", "read"}
    /\ \E m \in Messages : pid[m] = p /\ Match(h, m, "DELIVERED")

MarkRead(h, p) ==
    /\ seen[p] = "read"
    /\ \E m \in Messages : pid[m] = p /\ Match(h, m, "READ")

\* Statuses "delivered" and "read" of a WhatsApp payload.
WhatsAppStatus(h, p) ==
    channel[owner[p]] = "WHATSAPP" /\ (MarkDelivered(h, p) \/ MarkRead(h, p))

\* Each mid of a Messenger delivery; Messenger's reads are only logged.
MessengerDelivery(h, p) ==
    channel[owner[p]] = "MESSENGER" /\ MarkDelivered(h, p)

MatchReceipt(h, p) ==
    /\ receipt[h] = NoReceipt
    /\ owner[p] \in Messages
    /\ WhatsAppStatus(h, p) \/ MessengerDelivery(h, p)
    /\ UNCHANGED <<rows, told, jobs, provider>>

\* updateStatus: a plain UPDATE of the status.
ApplyReceipt(h) ==
    /\ receipt[h] # NoReceipt
    /\ status' = [status EXCEPT ![receipt[h].msg] = receipt[h].as]
    /\ receipt' = [receipt EXCEPT ![h] = NoReceipt]
    /\ UNCHANGED <<channel, pid, told, jobs, provider>>

\* ... or the handler fails first.
DropReceipt(h) ==
    /\ receipt[h] # NoReceipt
    /\ receipt' = [receipt EXCEPT ![h] = NoReceipt]
    /\ UNCHANGED <<rows, told, jobs, provider>>

-----------------------------------------------------------------------------

Process(m) ==
    \/ StartJob(m) \/ LookUp(m) \/ Send(m)
    \/ RecordSent(m) \/ CompleteJob(m) \/ RecordFailed(m)

Faults(m) == WorkerDies(m) \/ JobFails(m) \/ RecordSentAndFails(m)

Receipts(h) == ApplyReceipt(h) \/ DropReceipt(h) \/ \E p \in Pids : MatchReceipt(h, p)

Next ==
    \/ \E m \in Messages :
          Enqueue(m) \/ Process(m) \/ Faults(m) \/ RetryFailedOutbound(m)
    \/ \E h \in Handlers : Receipts(h)
    \/ \E p \in Pids : Progress(p)

Spec == Init /\ [][Next]_vars

\* Workers go on with the jobs that are queued.
FairSpec == Spec /\ \A m \in Messages : WF_vars(Process(m))

-----------------------------------------------------------------------------
(* Properties. *)

TypeOK ==
    /\ channel \in [Messages -> Providers]
    /\ status \in [Messages -> {"PENDING", "SENT", "DELIVERED", "READ", "FAILED"}]
    /\ pid \in [Messages -> Pids \cup {NoPid}]
    /\ told \in [Messages -> {"PENDING", "SENT", "FAILED"}]
    /\ job \in [Messages -> {"none", "waiting", "done", "failed"} \cup Active]
    /\ answer \in [Messages -> Pids \cup {NoPid}]
    /\ attempts \in [Messages -> 0 .. MaxAttempts + MaxManualRetries]
    /\ stalls \in [Messages -> 0 .. MaxManualRetries + 2]
    /\ manual \in [Messages -> 0 .. MaxManualRetries]
    /\ owner \in [Pids -> Messages \cup {NoMessage}]
    /\ seen \in [Pids -> {"free", "accepted", "delivered", "read"}]
    /\ receipt \in [Handlers -> {NoReceipt}
                        \cup [msg : Messages, as : {"DELIVERED", "READ"}]]

\* What the provider has accepted of m.
Copies(m) == {p \in Pids : owner[p] = m}

\* What the agent sees of a message is true of some copy of it: SENT, DELIVERED
\* and READ are shown only of a message the provider has accepted, delivered or
\* shown, whichever attempt got through and however late its receipts come.
StatusIsTrue ==
    \A m \in Messages :
        /\ status[m] = "SENT" => Copies(m) # {}
        /\ status[m] = "DELIVERED" =>
              \E p \in Copies(m) : seen[p] \in {"delivered", "read"}
        /\ status[m] = "READ" => \E p \in Copies(m) : seen[p] = "read"

\* A job completes only over a message the provider has: the row is no longer
\* PENDING, the id in it, if any attempt brought one back, is of one of the
\* message's own copies, and SENT is what its room was told last, not the failure
\* of an attempt before.  (No claim about a provider's "failed" statuses, which
\* throw before they reach the row: InboundWebhooks.)
CompletedIsSent ==
    \A m \in Messages :
        job[m] = "done" => /\ Copies(m) # {}
                           /\ status[m] # "PENDING"
                           /\ pid[m] # NoPid => owner[pid[m]] = m
                           /\ told[m] = "SENT"

\* The attempt under way has been to the provider, or it was the last.
Tried == {"recordSent", "recordFailed", "complete", "done"}

\* Nobody gets a message more often than it was tried: each copy is of an attempt
\* that threw, of one a worker died under, or of the one that is, or was, the
\* last, although lost answers, stalls and retries by hand all send again.
CopiesAreAccounted ==
    \A m \in Messages :
        Cardinality(Copies(m)) <=
            attempts[m] + stalls[m] + (IF job[m] \in Tried THEN 1 ELSE 0)

\* A message that is queued is sent or given up: retries are bounded.
JobsEnd == \A m \in Messages : job[m] = "waiting" ~> job[m] \in {"done", "failed"}
=============================================================================
