-------------------------- MODULE InboundWebhooks --------------------------
(***************************************************************************)
(* Provider webhooks: WebhooksService turns each item of a payload into    *)
(* rows of contacts, conversations and messages, by way of                 *)
(* ContactsService.upsert, ConversationsService.findOrCreate and reopen,   *)
(* and MessagesService.create.                                             *)
(*                                                                         *)
(* A delivery is one payload being processed.  Providers repeat and        *)
(* overlap deliveries, so two deliveries may carry the same message.       *)
(* Every statement commits by itself; any of them may fail, which throws   *)
(* and abandons the rest of the payload.  Two callers exist: the           *)
(* controller runs each request at once and swallows what is thrown        *)
(* (MaxAttempts = 1), the BullMQ worker of the "webhooks" queue runs one   *)
(* job at a time in each server process (Concurrency = their number) and   *)
(* retries a job that threw (MaxAttempts = 3 as queued).                   *)
(*                                                                         *)
(* Agents accept, release, complete and disconnect meanwhile: each of      *)
(* their calls reads and checks in one statement and writes in a later     *)
(* one, WHERE id = ..., whatever has become of the row.  Which agent calls *)
(* makes no difference here, nor does accept's lock, which                 *)
(* ConversationLifecycle has.                                              *)
(*                                                                         *)
(* One channel: rows of contacts and conversations belong to it.           *)
(***************************************************************************)
EXTENDS Naturals, Sequences, FiniteSets

CONSTANTS
    Contacts,       \* senders, as the provider identifies them
    Mids,           \* provider message ids
    Deliveries,     \* POSTs, or jobs of the queue
    Payload,        \* Deliveries -> sequence of items
    Calls,          \* calls of agents that run at once
    Concurrency,    \* how many deliveries are processed at once
    MaxAttempts     \* how often a delivery that throws is tried

Items == [kind : {"message"}, mid : Mids, from : Contacts]
            \cup [kind : {"statusById", "noEffect"}]

ASSUME PayloadAssumption == Payload \in [Deliveries -> Seq(Items)]
ASSUME BoundsAssumption ==
    /\ Concurrency \in Nat \ {0}
    /\ MaxAttempts \in Nat \ {0}

VARIABLES
    contacts,       \* the contacts table
    conversations,  \* rows in the order of createdAt; a row's id is its index
    stored,         \* the messages table: conversation of a mid, or 0
    pc,             \* the statement each delivery executes next
    at,             \* its item, a position in its payload
    conv,           \* the conversation findOrCreate returned for that item
    attempt,        \* the attempts begun
    errors,         \* history: the statements of a delivery that failed
    calls,          \* what each call of an agent has checked and will write
    revived         \* history: the rows such a write opened after completion

handlers == <<pc, at, conv, attempt, errors>>
agents == <<calls, revived>>
vars == <<contacts, conversations, stored, handlers, agents>>

-----------------------------------------------------------------------------

Statuses == {"PENDING", "ASSIGNED", "COMPLETED"}

Conversation == [contact : Contacts, status : Statuses]

Busy == {"item", "addContact", "find", "addConversation", "addMessage",
         "reopenCheck", "reopenWrite"}

NoCall == [op |-> "none", rows |-> {}]

Init ==
    /\ contacts = {}
    /\ conversations = <<>>
    /\ stored = [m \in Mids |-> 0]
    /\ pc = [d \in Deliveries |-> "idle"]
    /\ at = [d \in Deliveries |-> 1]
    /\ conv = [d \in Deliveries |-> 0]
    /\ attempt = [d \in Deliveries |-> 0]
    /\ errors = [d \in Deliveries |-> 0]
    /\ calls = [c \in Calls |-> NoCall]
    /\ revived = {}

Item(d) == Payload[d][at[d]]

HasItem(d) == at[d] \in DOMAIN Payload[d]

Goto(d, step) == pc' = [pc EXCEPT ![d] = step]

tables == <<contacts, conversations, stored>>

-----------------------------------------------------------------------------
(* The loop over the items of a payload. *)

\* Mutant: a job that waits for its next attempt keeps its place.
StartHoldingPlaces(d) ==
    /\ pc[d] = "idle"
    /\ Cardinality({e \in Deliveries :
           pc[e] \in Busy \/ (pc[e] = "idle" /\ attempt[e] > 0)}) < Concurrency
    /\ Goto(d, "item")
    /\ at' = [at EXCEPT ![d] = 1]
    /\ conv' = [conv EXCEPT ![d] = 0]
    /\ attempt' = [attempt EXCEPT ![d] = @ + 1]
    /\ UNCHANGED <<tables, errors, agents>>

Start(d) ==
    /\ pc[d] = "idle"
    /\ Cardinality({e \in Deliveries : pc[e] \in Busy}) < Concurrency
    /\ Goto(d, "item")
    /\ at' = [at EXCEPT ![d] = 1]
    /\ conv' = [conv EXCEPT ![d] = 0]
    /\ attempt' = [attempt EXCEPT ![d] = @ + 1]
    /\ UNCHANGED <<tables, errors, agents>>

NextItem(d) ==
    /\ Goto(d, "item")
    /\ at' = [at EXCEPT ![d] = @ + 1]
    /\ conv' = [conv EXCEPT ![d] = 0]

Finish(d) ==
    /\ pc[d] = "item" /\ ~HasItem(d)
    /\ Goto(d, "done")
    /\ UNCHANGED <<tables, at, conv, attempt, errors, agents>>

\* An unknown channel, messages in a payload without contacts (which are passed
\* over silently), a Messenger read, or a receipt that is looked up by the
\* provider's id (OutboundDelivery has what that does).
SkipItem(d) ==
    /\ pc[d] = "item" /\ HasItem(d) /\ Item(d).kind = "noEffect"
    /\ NextItem(d)
    /\ UNCHANGED <<tables, attempt, errors, agents>>

\* Mutant: the attempts are counted as retries after a first try.
ThrowOnceMore(d) ==
    /\ \/ attempt[d] <= MaxAttempts /\ Goto(d, "idle")
       \/ attempt[d] > MaxAttempts /\ Goto(d, "failed")
    /\ UNCHANGED <<tables, at, conv, attempt, agents>>

\* Mutant: an exception is caught in the loop, which goes on.
ThrowOnlyItem(d) ==
    /\ NextItem(d)
    /\ UNCHANGED <<tables, attempt, agents>>

\* An exception ends the attempt.  BullMQ queues the job again while attempts
\* are left; the controller has one attempt and answers 200.
Throw(d) ==
    /\ \/ attempt[d] < MaxAttempts /\ Goto(d, "idle")
       \/ attempt[d] = MaxAttempts /\ Goto(d, "failed")
    /\ UNCHANGED <<tables, at, conv, attempt, agents>>

\* handleWhatsAppStatus on "sent" and "failed": updateStatus takes the
\* provider's id for a row id, which no row has.
StatusById(d) ==
    /\ pc[d] = "item" /\ HasItem(d) /\ Item(d).kind = "statusById"
    /\ Throw(d)
    /\ UNCHANGED errors

\* A statement fails.  (One that commits and then fails is its own step
\* followed by this; statements after the last one modelled fail at "item".)
DbError(d) ==
    /\ pc[d] \in Busy
    /\ errors' = [errors EXCEPT ![d] = @ + 1]
    /\ Throw(d)

-----------------------------------------------------------------------------
(* handleWhatsAppMessage and handleMessengerMessage. *)

\* upsert: find the contact by its provider id; if found, update it.
LookUpContact(d) ==
    /\ pc[d] = "item" /\ HasItem(d) /\ Item(d).kind = "message"
    /\ \/ Item(d).from \in contacts /\ Goto(d, "find")
       \/ Item(d).from \notin contacts /\ Goto(d, "addContact")
    /\ UNCHANGED <<tables, at, conv, attempt, errors, agents>>

\* Otherwise insert it: a unique index refuses a second row.
AddContact(d) ==
    /\ pc[d] = "addContact"
    /\ \/ /\ Item(d).from \notin contacts
          /\ contacts' = contacts \cup {Item(d).from}
          /\ Goto(d, "find")
          /\ UNCHANGED <<conversations, stored, at, conv, attempt, agents>>
       \/ Item(d).from \in contacts /\ Throw(d)
    /\ UNCHANGED errors

\* Mutant: the query looks for unassigned conversations only.
OpenIfPending(k) ==
    {i \in DOMAIN conversations :
        conversations[i].contact = k /\ conversations[i].status = "PENDING"}

\* The conversations findOrCreate looks for.
Open(k) ==
    {i \in DOMAIN conversations :
        /\ conversations[i].contact = k
        /\ conversations[i].status \in {"PENDING", "ASSIGNED"}}

\* The newest of them.  The caller's `if COMPLETED, reopen` has nothing to do:
\* no COMPLETED row is ever returned.
FindConversation(d) ==
    /\ pc[d] = "find"
    /\ \/ /\ Open(Item(d).from) = {}
          /\ Goto(d, "addConversation")
          /\ UNCHANGED conv
       \/ \E i \in Open(Item(d).from) :
             /\ \A j \in Open(Item(d).from) : j <= i
             /\ conv' = [conv EXCEPT ![d] = i]
             /\ Goto(d, "addMessage")
    /\ UNCHANGED <<tables, at, attempt, errors, agents>>

\* No index refuses a second open conversation of a contact.
AddConversation(d) ==
    /\ pc[d] = "addConversation"
    /\ conversations' = Append(conversations,
                            [contact |-> Item(d).from, status |-> "PENDING"])
    /\ conv' = [conv EXCEPT ![d] = Len(conversations) + 1]
    /\ Goto(d, "addMessage")
    /\ UNCHANGED <<contacts, stored, at, attempt, errors, agents>>

\* MessagesService.create, first its INSERT: providerMessageId is unique.
AddMessage(d) ==
    /\ pc[d] = "addMessage"
    /\ \/ /\ stored[Item(d).mid] = 0
          /\ stored' = [stored EXCEPT ![Item(d).mid] = conv[d]]
          /\ Goto(d, "reopenCheck")
          /\ UNCHANGED <<contacts, conversations, at, conv, attempt, agents>>
       \/ stored[Item(d).mid] # 0 /\ Throw(d)
    /\ UNCHANGED errors

\* Mutant: the check trusts the status findOrCreate returned, never COMPLETED.
ReopenCheckStale(d) ==
    /\ pc[d] = "reopenCheck"
    /\ NextItem(d)
    /\ UNCHANGED <<tables, attempt, errors, agents>>

\* ... and last, for an inbound message, reopen.
ReopenCheck(d) ==
    /\ pc[d] = "reopenCheck"
    /\ \/ /\ conversations[conv[d]].status = "COMPLETED"
          /\ Goto(d, "reopenWrite")
          /\ UNCHANGED <<at, conv>>
       \/ /\ conversations[conv[d]].status # "COMPLETED"
          /\ NextItem(d)
    /\ UNCHANGED <<tables, attempt, errors, agents>>

ReopenWrite(d) ==
    /\ pc[d] = "reopenWrite"
    /\ conversations' = [conversations EXCEPT ![conv[d]].status = "PENDING"]
    /\ NextItem(d)
    /\ UNCHANGED <<contacts, stored, attempt, errors, agents>>

-----------------------------------------------------------------------------
(* The agents meanwhile. *)

InStatus(status) == {i \in DOMAIN conversations : conversations[i].status = status}

Checked(c, op, rows) ==
    /\ calls[c] = NoCall
    /\ calls' = [calls EXCEPT ![c] = [op |-> op, rows |-> rows]]
    /\ UNCHANGED <<tables, handlers, revived>>

AcceptCheck(c) == \E i \in InStatus("PENDING") : Checked(c, "accept", {i})

ReleaseCheck(c) == \E i \in InStatus("ASSIGNED") : Checked(c, "release", {i})

CompleteCheck(c) == \E i \in InStatus("ASSIGNED") : Checked(c, "complete", {i})

\* releaseByAgent selects the rows of an agent that disconnects: any of those
\* assigned may be that agent's.
DisconnectSelect(c) ==
    \E rows \in (SUBSET InStatus("ASSIGNED")) \ {{}} : Checked(c, "release", rows)

Written(op) ==
    CASE op = "accept" -> "ASSIGNED"
      [] op = "release" -> "PENDING"
      [] op = "complete" -> "COMPLETED"

\* The UPDATE of a call, or the next one of releaseByAgent's loop.
CallWrite(c) ==
    \E i \in calls[c].rows :
        /\ conversations' = [conversations EXCEPT ![i].status = Written(calls[c].op)]
        /\ revived' = IF conversations[i].status = "COMPLETED"
                          /\ calls[c].op # "complete"
                      THEN revived \cup {i}
                      ELSE revived
        /\ calls' = [calls EXCEPT ![c] = IF @.rows = {i} THEN NoCall
                                         ELSE [op |-> @.op, rows |-> @.rows \ {i}]]
        /\ UNCHANGED <<contacts, stored, handlers>>

\* A statement of a call fails, and the rest is not done.
CallFails(c) ==
    /\ calls[c] # NoCall
    /\ calls' = [calls EXCEPT ![c] = NoCall]
    /\ UNCHANGED <<tables, handlers, revived>>

-----------------------------------------------------------------------------

Handle(d) ==
    \/ Finish(d) \/ SkipItem(d) \/ StatusById(d)
    \/ LookUpContact(d) \/ AddContact(d)
    \/ FindConversation(d) \/ AddConversation(d)
    \/ AddMessage(d) \/ ReopenCheck(d) \/ ReopenWrite(d)

Call(c) ==
    \/ AcceptCheck(c) \/ ReleaseCheck(c) \/ CompleteCheck(c) \/ DisconnectSelect(c)
    \/ CallWrite(c) \/ CallFails(c)

Next ==
    \/ \E d \in Deliveries : Start(d) \/ Handle(d) \/ DbError(d)
    \/ \E c \in Calls : Call(c)

Spec == Init /\ [][Next]_vars

\* A server goes on with what it has begun, and begins what was delivered.
FairSpec ==
    /\ Spec
    /\ \A d \in Deliveries : WF_vars(Handle(d)) /\ SF_vars(Start(d))

-----------------------------------------------------------------------------
(* Properties. *)

CallsOK ==
    /\ calls \in [Calls -> [op : {"none", "accept", "release", "complete"},
                            rows : SUBSET DOMAIN conversations]]
    /\ \A c \in Calls : calls[c].op = "none" <=> calls[c].rows = {}
    /\ revived \subseteq DOMAIN conversations

TypeOK ==
    /\ contacts \subseteq Contacts
    /\ conversations \in Seq(Conversation)
    /\ stored \in [Mids -> 0 .. Len(conversations)]
    /\ pc \in [Deliveries -> {"idle", "done", "failed"} \cup Busy]
    /\ at \in [Deliveries -> Nat \ {0}]
    /\ conv \in [Deliveries -> 0 .. Len(conversations)]
    /\ attempt \in [Deliveries -> 0 .. MaxAttempts]
    /\ errors \in [Deliveries -> 0 .. MaxAttempts]
    /\ CallsOK

\* A delivery never gets past a message that is not in the database, nor past
\* one filed under another sender: what it has passed is stored, in a
\* conversation of its sender, whatever other deliveries do and wherever an
\* attempt breaks off.
PassedIsStored ==
    \A d \in Deliveries : \A i \in 1 .. at[d] - 1 :
        LET it == Payload[d][i] IN
        it.kind = "message" =>
            /\ stored[it.mid] # 0
            /\ conversations[stored[it.mid]].contact = it.from

Rivals(i, j) ==
    /\ i # j
    /\ conversations[i].contact = conversations[j].contact
    /\ conversations[i].status # "COMPLETED" /\ conversations[j].status # "COMPLETED"

\* Two conversations of a contact are open at once only if an agent's write, one
\* that was checked before the conversation was completed, has opened the one
\* again.  (For a single worker, one job at a time: what else happens between
\* findOrCreate's read and its insert, or create's insert and its reopen, opens
\* no second one.)
OneOpenConversation ==
    \A i, j \in DOMAIN conversations : Rivals(i, j) => i \in revived \/ j \in revived

\* m is in a conversation that is closed.
Buried(m) == stored[m] # 0 /\ conversations[stored[m]].status = "COMPLETED"

\* A message inserted after its conversation was completed under the handler's
\* feet does not stay buried: create reopens the conversation, or fails.
MessageReopens ==
    \A d \in Deliveries, m \in Mids :
        (pc[d] = "reopenCheck" /\ Item(d).mid = m /\ Buried(m))
            ~> (~Buried(m) \/ errors[d] > 0)

\* Every delivery is processed to its end or given up.
DeliveriesEnd == \A d \in Deliveries : <>(pc[d] \in {"done", "failed"})

AllStored(d) ==
    \A i \in DOMAIN Payload[d] :
        Payload[d][i].kind = "message" => stored[Payload[d][i].mid] # 0

\* What a retry is for: a job is given up, after all its attempts and although no
\* statement of any has failed, only when its messages are stored.
RetryRecovers ==
    \A d \in Deliveries : pc[d] = "failed" /\ errors[d] = 0 => AllStored(d)
=============================================================================
