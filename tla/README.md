# Formal models of ChatOps Hub

TLA+ modules, TLC runs and TLAPS proofs for the backend in `src/`: a shared
inbox in which messages from WhatsApp and Messenger become conversations, agents
accept them, answer them and complete them. Paths below are relative to the
repository; `src/x.ts` is a source file, `BACKEND_PLAN.md` the design document.

## 1. Inventory

The server is one or more NestJS processes over PostgreSQL (drizzle), Valkey
(locks, sessions, pub/sub), BullMQ and two provider APIs. **No database
transaction is used anywhere**: every statement commits by itself, and every
`await` lets other requests run. What makes the system hard is therefore always
the same: what happens between two statements.

| Component | State | Operations | Interacts with | What must be right |
|---|---|---|---|---|
| Conversation assignment (`conversations.service.ts`) | rows of `conversations`; Valkey lock `lock:conversation:<id>`; `conversation_events` | `accept`, `release`, `complete`, `reopen`, `releaseByAgent`, `findOrCreate`, `setFirstResponseAt` | HTTP controller, gateway (on disconnect), webhooks (`reopen`) | one agent at a time; no hand-over; locks end; the trail tells who holds |
| Inbound webhooks (`webhooks.service.ts`, `webhook.processor.ts`) | none of its own | a loop over a payload's items, statement by statement | contacts, conversations, messages | no message lost or misfiled; one open conversation per contact; repeats harmless |
| Contacts (`contacts.service.ts`) | rows of `contacts`, unique per provider id | `upsert`, `update` | webhooks | one row per sender |
| Messages (`messages.service.ts`, `messages.controller.ts`) | rows of `messages`, unique provider id | `create`, `findByConversation` (pages by cursor), `updateStatus`, `markDelivered`, `markRead` | webhooks, POST of an agent, outbound job | status true; reopening; who may write; first response; pages complete |
| Audit queries (`conversation-events.service.ts`) | none of its own | `findByConversation` (pages by number) | the audit trail | no event lost between pages |
| Outbound delivery (`outbound-message.processor.ts`, `providers/`) | job in BullMQ; provider's copy | send, record, tell the room, retry, receipts | messages, gateway, provider | the status shown is true; jobs end |
| Agent presence (`events.gateway.ts`) | sockets per organization, session in Valkey | `handleConnection`, `handleDisconnect`, `handleSetStatus` | `releaseByAgent` | no session outlives its socket; a gone agent holds nothing; one who is back keeps what they have |
| Attachments, storage (`storage/`) | files, rows of `attachments` | `uploadFromBuffer`, `uploadFromStream`, `downloadAndCreate`, `create`, `createMany`, `delete`, `deleteByMessageId`, `download` | messages | a row without a file, or a file without a row, only after a failure that explains it |
| Users, channels | rows, unique e-mail | create, update | | check-then-insert |
| Analytics (`analytics.service.ts`) | `agent_sessions` (never written by the running program) | averages over events | the audit trail | every completed conversation measured, credited to who earned it, the same in both reports |
| Queues (`queues.service.ts`) | BullMQ queues `webhooks`, `outbound-messages` | enqueue, retry failed | processors | bounded retries |
| Auth, health, config, filters, guards, interceptors, pipes | none | library calls, formatting | | not modelled |

Some facts of wiring matter to what the models mean. `queueWebhook` and
`queueOutboundMessage` have no caller in the repository: today webhooks are
processed inside the request (`webhooks.controller.ts:112-119`), and an outbound
message stays `PENDING`. The processors are complete code all the same, so the
models run them, and suppose the missing caller. In the same way nothing calls the
creations and deletions `AttachmentsService` exports; only its downloads are served.

The list of hazards, each at its line with the properties that cover it, is in
`PROJECT.json`.

## 2. Modules

| Module | Models | Lines of code it follows |
|---|---|---|
| `ConversationLifecycle` | assignment, lock, audit trail | `conversations.service.ts:189-378`, `valkey.service.ts:43-51` |
| `Assignment` | what assignment promises, with no mechanism | (abstract) |
| `ConversationLifecycleProofs` | theorems about the two | |
| `InboundWebhooks` | a payload from POST or job to rows | `webhooks.service.ts`, `contacts.service.ts:12-66`, `messages.service.ts:24-69` |
| `OutboundDelivery` | job, both providers' services, receipts, the room's news | `outbound-message.processor.ts`, `providers/`, `messages.service.ts:143-199`, `webhooks.service.ts:191-208`, `344-362` |
| `MessageHistory` | POST, first response, pages of messages and of events | `messages.controller.ts:27-63`, `messages.service.ts:24-141`, `conversations.service.ts:333-343`, `conversation-events.service.ts:53-78` |
| `Attachments` | files and rows of a message's attachments | `attachments.service.ts`, `storage.service.ts:44-160`, `storage.controller.ts:24-48` |
| `Analytics` | the handle times of both reports, over `ConversationLifecycle` | `analytics.service.ts:129-220`, `227-291` |
| `AgentPresence` | sockets, sessions, what a disconnection releases | `events.gateway.ts:93-174`, `232-263`, `valkey.service.ts:53-65` |
| `AgentPresenceProofs`, `InboundWebhooksProofs`, `OutboundDeliveryProofs`, `MessageHistoryProofs`, `AttachmentsProofs`, `AnalyticsProofs` | theorems about each of these (section 4) | |
| `MC...` | bounded instances for TLC | |

In all of them **a step is one awaited statement**, with the synchronous code
around it; a read whose result decides a branch is one step with the branch, and
the write after it another. Errors thrown between statements are actions of
their own. A statement that commits and whose answer is lost is the statement's
action followed by the failure's.

### ConversationLifecycle

`row`, `lock` and `trail` are the tables and the lock key. `pc[r]` is the
statement the call `r` executes next and `job[r]` its arguments. Each request is
served once, and the set of requests is arbitrary.

| Action | Code |
|---|---|
| `AcceptLock` | `SET lock agentId PX 5000 NX`, 409 if the key is there |
| `AcceptCheck` | read, status must be `PENDING`; 409 still goes through `finally` |
| `AcceptWrite`, `ReleaseWrite`, `CompleteWrite`, `ReopenWrite`, `DisconnectWrite` | the `UPDATE ... WHERE id = ...` of each operation |
| `ReleaseCheck`, `CompleteCheck`, `ReopenCheck` | read and check, without a lock |
| `DisconnectSelect` | the SELECT of `releaseByAgent`; its loop is `AfterAudit` |
| `Audit` | the INSERT into `conversation_events`, and what follows it |
| `AcceptUnlock` | `DEL lock` in `finally`, whoever holds it |
| `AcceptThrow`, `Abandon` | an exception inside accept's `try`; a crash or an exception elsewhere |
| `LockExpires` | the TTL |

The lock's value is written and never read by the code, so the model stores the
request that set it. `HolderMayOverrun` says whether an accept may take longer
than the lock's 5 s: with `FALSE`, a lock expires only when its holder is no
longer running. The code does not enforce that; it is the assumption under which
the lock works, and the runs show both sides of it. `unaudited` is history: the
writes whose event was never recorded because of a failure.

`Assignment` has one variable, `holder`, and two actions: `Take` a conversation
nobody has, and `LetGo`. `Holder` maps a row to its agent if it is `ASSIGNED`.

### InboundWebhooks

`contacts`, `conversations`, `stored` are the three tables (a conversation's id
is its place in the order of creation; `stored` gives a message's conversation).
A delivery has a payload, a sequence of items: messages, statuses that are looked
up by row id, and items that change none of these tables. `Concurrency` and
`MaxAttempts` select the caller: the controller is `(any, 1)`, the BullMQ worker
`(1, 3)` in each server process, so `(n, 3)` in n of them. A statement's failure (`DbError`) and a violation of a unique index
both end the attempt (`Throw`). `errors` is history. A worker that dies is not told
apart from one whose statement fails.

`calls[c]` is what an agent's call has checked and will write, and to which rows:
`AcceptCheck`, `ReleaseCheck`, `CompleteCheck` and `DisconnectSelect` (`releaseByAgent`,
any number of assigned rows) read, `CallWrite` writes a row's status whatever has
become of it since, `CallFails` breaks off. Who calls makes no difference, and accept's
lock is left out, so that more interleavings are possible here than with it. `revived`
is history: the rows such a write opened after they had been completed.
`SkipItem` is an item without an effect on these tables, which a payload's messages
are too when it has no `contacts` (`webhooks.service.ts:76`), and silently.

### Analytics

It extends `ConversationLifecycle` with operators and has no actions: a report is
a reading of the rows and trails that the racing operations left. `AcceptEvents`,
`FirstAccept` and `LastComplete` are the three queries, `AgentHandleTimes` and
`OrgHandleTime` what the two reports make of them. The first query has `LIMIT 1`
and no order, so that the agent's report is a set of possible answers. An event's
place in its trail stands for its time. The properties speak of conversations whose
events are all written (`Audited`).

### OutboundDelivery

`channel[m]` is the provider a message goes through, `job[m]` the BullMQ job or the
processor's next statement, `answer[m]` the provider's answer in the processor's
hand, `told[m]` the status the room was last told. `owner` and `seen` are the
provider's side: which message an id was given to and how far that copy got. Which
free id it gives does not matter, so `Accepts` takes one. BullMQ and the provider
are external, modelled from how the code uses them: attempts, stalls, retry by
hand; an accepted request may lose its answer, which `sendRequest` turns into the
same `success: false` as a refusal; an answer that is ok may have no id, which
`sendRequest` passes on as a success (`Accepted`), and the row keeps the id it had; receipts come late, repeated, out of order or
never. A WhatsApp receipt may say "read", a Messenger one only "delivered".

### MessageHistory

`pc[p]` is the statement a POST executes next, `sender[p]` and `sent[p]` its agent
and the message it stored. `messages` is the table, oldest first, each with the
millisecond its `createdAt` is read as; `events` counts the trail. `first` is the
message whose POST last wrote `first_response_at`; `held` and `answered` are
history. `calls[c]` is a call on the assignment or a message of the contact: the checks
(`AcceptCheck`, `ReleaseCheck`, `CompleteCheck`, `ReopenCheck`), `CallWrite`, which writes
the row whatever it has become, and `CallAudit` are statements of their own, and so are
the three a contact's message begins with. Accept's lock is left out here too. `client` reads one of the
two lists page by page: `Before`, `Newest`, `PageOf`, `NextCursor` are the query of
`findByConversation` and what it returns, `EventsAt` the OFFSET query. What is
fetched is compared with what there was when the client began.

### Attachments

`disk` is what lies at an attachment's path (nothing, a part, the whole file),
`rows` the table. `pc[r]`, `target[r]` and `todo[r]` are a request's next step, the
attachments it is about and those whose file is still to be written or unlinked;
they stay as they are when a request fails or is lost with the server, so that a
property can tell why things are as they are. `kept[r]` are the files it failed to
unlink, an error the code logs and forgets.

| Action | Code |
|---|---|
| `DownloadAndCreate`, `Fetch`, `CreateMany` | `downloadAndCreate`, and uploads handed to `create` or `createMany` |
| `Write`, `StreamWriteFails`, `BufferWriteFails` | `uploadFromStream` rejects when a write fails; in `uploadFromBuffer` the write stream also emits an `error` without a listener, of which the process dies (`Die`) |
| `Insert` | the INSERT of the row, or of all rows at once |
| `Delete`, `DeleteByMessageId` | the SELECT both begin with, 404 |
| `Unlink`, `UnlinkFails`, `DeleteRows` | the unlinks, then DELETE by id or by message |
| `Download`, `Open` | `findById`, 404, and the read stream, which opens the file later |
| `Fail`, `Crash` | any other failing step, the server's death |

### AgentPresence

`net`, `tracked`, `session` are the connections, the gateway's `connectedAgents`
and the key `session:<agent>`; `pc` and `todo` follow `handleDisconnect` and its
`releaseByAgent`. `join` works in memory, so `handleConnection` runs from the
handshake to the moment it hands its SETEX to the client in one step; `setting`
holds the SETEX commands on their way. A server has one Valkey client, which sends
in order: a DEL comes after the earlier SETEX of the same socket, while nothing
orders the commands of different sockets. `Accept` and `LetGo` are
`ConversationLifecycle`'s, each in one step, and by HTTP, so that they need no
socket. `ServerDies` closes a socket without a `handleDisconnect`.

### Mutants

Operators whose comment begins with "Mutant" are not part of the specification.
Each is a plausible bug in the definition below it; `PROJECT.json` pairs every
checked property with one that breaks it.

## 3. Runs

| Run | Instance | Shows |
|---|---|---|
| `LifecycleTimely` | 2 agents, 1 conversation, 5 requests, no overrun, symmetry | `TypeOK`, `AcceptHoldsLock`, `TrailNamesHolder`, `NoHandOver`, and `Analytics`' `CompletedIsMeasured`, `CreditIsEarned`, `ReportsAgree` hold |
| `LifecycleTwoRows` | 2 agents, 2 conversations, 3 requests, fairness | `ImplementsAssignment`, `LocksAreFreed`, `RequestsEnd` hold |
| `LifecycleOverrun` | as the first, overrun allowed | `NoHandOver` **violated** |
| `LifecycleStaleRelease` | as the first | `OnlyHolderEnds` **violated** |
| `InboundQueued` | 2 deliveries of one sender, both at once, 2 attempts, an agent's call, fairness | `TypeOK`, `PassedIsStored`, `MessageReopens`, `DeliveriesEnd` hold |
| `InboundAgents` | 3 deliveries of one sender, one at a time, 1 attempt, two calls at once, symmetry | `OneOpenConversation` holds |
| `InboundRetry` | two messages in a payload, a status between them, 3 attempts | `RetryRecovers` **violated** |
| `Outbound` | 1 message through either provider, 3 provider ids, 2 receipts in flight, 3 attempts, 1 manual retry, fairness | `TypeOK`, `StatusIsTrue`, `CompletedIsSent`, `CopiesAreAccounted`, `JobsEnd` hold |
| `MessageHistory` | 2 agents, 2 POSTs, 2 calls at once, 2 of them on the assignment, 1 message of the contact, pages of 2, 2 milliseconds, symmetry | `TypeOK`, `SenderHeldIt`, `AnsweredHasTime`, `LateReplyIsNotFirst`, `PagesDescend`, `SkippedSharesTime`, `EventsComplete` hold |
| `Attachments` | 3 attachments, 4 requests of any kind, 1 death of the server, symmetry | `TypeOK`, `RowHasFile`, `OrphanHasCause`, `BrokenDownloadHasCause` hold |
| `AgentPresence` | 2 sockets of one agent, 1 of another, 2 conversations, fairness | `TypeOK`, `NoPhantomSession`, `GoneAgentReleased` hold |
| `PresenceFailure` | the same | `GoneAgentLetsGo` **violated** |

**Why the bounds suffice.** An assignment race needs one accept between another's
check and write, a way to end the first assignment, and someone to observe: three
calls; a stale lock adds one, and five leave room for a disconnection on top. Two
conversations are what makes `releaseByAgent` loop with something left to do. Two
deliveries at once make one contact and one conversation race; the second one's
status always throws, so that its retry meets its own message, and a second attempt
is already a retry: a third would meet what the second met. For two open
conversations a call must be checked before a completion and written after it, and
the contact write again in between: two calls at once and two messages do, the third
leaves room for a conversation that is opened again and found. Messages do not meet
in `OutboundDelivery`: each has its own row, job and provider ids, so one, through
either provider, is enough, with three attempts, one stall and one manual retry to
pass through every state of a job; the third provider id is for a copy more than a
resent message has, and a provider that has no id left only refuses. Two POSTs are
what races for the first response; two calls are an accept that a POST checks and
the ending it does not see, or two accepts of which one writes late, or an accept
and a completion that the contact's message opens again. What takes three (an
accept, and a release and a completion that were both checked before either wrote)
is beyond this instance, and in the theorems of `MessageHistoryProofs`, which have
every number of calls. With three messages and pages of two a client needs two
requests, with messages and events arriving in between and several in the same
millisecond. Four requests on three attachments are a creation of several, one that
comes too late for a deletion's list, that deletion, and a download or a second
deletion. Two sockets of an agent are a reconnection or two tabs. Requests and
deliveries are not served again, so behaviours end: deadlock checking is off for
that reason (and on for `AgentPresence`, where agents never stop).

**Fairness.** `WF` of a request's, a delivery's and a job's next statement: a
process that is not dead goes on (a crash is an action, not unfairness). `WF` of
`LockExpires`: Valkey drops a key at its TTL; of `StoreSession`: it answers a
command or the client gives it up. `SF` of a delivery's `Start`: the
worker's queue is first in, first out, so a waiting job is not passed over for
ever although the worker is busy again and again. Nothing is assumed of failures,
receipts, agents, or calls that have yet to arrive.

### What the violations say

* **LifecycleOverrun.** r1 locks and checks, its lock expires, r2 accepts, r1
  writes. The plan (`BACKEND_PLAN.md:1115`) has a transaction with
  `FOR UPDATE` around check and write; the code has neither, and its UPDATE names
  only the id.
* **LifecycleStaleRelease.** a1's release (or complete, or disconnection) checks,
  the conversation is released another way and accepted by a2, and a1's write
  takes it from a2. The endpoint promises 403.
* **PresenceFailure.** A server dies with its agents' sockets, or a statement of
  `handleDisconnect` fails before the last row is released: nothing releases the rest,
  then or later.
* **InboundRetry.** `handleWhatsAppStatus` gives the provider's id to `updateStatus`,
  which takes a row id, so that every "sent" and "failed" status throws. What stands
  behind it in the payload is not recovered by a retry, which throws on the unique
  provider id of the first message, stored by the first attempt: the second message is
  lost though no statement failed. The controller has one attempt, the provider gets
  200, and the message is lost at once.

### Departures without a run of their own

* A contact may have two open conversations (no index forbids it). Between
  concurrent requests of the controller `findOrCreate` makes them. With a single
  worker of the queue a stale write does: a release or `releaseByAgent` checks c1
  while it is assigned, c1 is completed, the contact writes and gets c2, and the
  UPDATE, which names only the id, makes c1 `PENDING` again; an accept that outlives
  its lock does the same. `OneOpenConversation` is checked for a single worker and
  says that there is no other way: one of the two was opened again by such a write.
  A row that once was is excused from then on.
* The later of two racing first responses wins `first_response_at`, against the
  comment at `conversations.service.ts:336`. `LateReplyIsNotFirst` says how late:
  its message was there when the time was first written.
* POST finds its agent assigned in one statement and inserts in another: released in
  between, the agent still writes, where the endpoint promises 403. It does not look at
  the status either: the agent of a completed row may go on writing. `SenderHeldIt`
  says what does hold.
* A contact who writes after a completion gets a second conversation: `findOrCreate`
  looks for open rows only, so that the handlers' "Reopen if completed"
  (`webhooks.service.ts:134`) and the plan's (`BACKEND_PLAN.md:1194`) never happen. The
  only reopening there is is the one `MessageReopens` is about.
* `handleDisconnect` releases what the agent holds even if they are connected again or
  have another socket; the plan (`BACKEND_PLAN.md:1535-1537`) waits 30 s and releases only
  if nobody is back. `GoneAgentReleased` asks for a release only where nobody is.
* Pages of messages skip what shares the cursor's millisecond (`SkippedSharesTime`
  says that nothing else is skipped). `lastMessageAt` may go back when two messages
  race, since each writes a time of its own.
* After a release the two reports of `Analytics` may pair different ACCEPTED events
  with a COMPLETED one and disagree, and an agent's handle time may be measured from the
  acceptance of another (`analytics.service.ts:155-164`: `LIMIT 1`, no order, no agent); an accept whose event is late is measured from
  there, which may be after the completion. Until the event of a completion is
  written, a conversation counts as completed with no time added.
* A message of which an attempt was refused and a later one sent keeps the error
  columns of the refusal. A Messenger "read" is logged and never shown. A receipt
  that arrives before its id is stored is dropped.
* An answer that is ok and has no id is a success: the message is `SENT` without an id,
  or with that of an earlier attempt, and no receipt of this copy finds it. The model
  takes every ok answer for an acceptance.
* Files without a row stay for ever: nothing cleans up (`OrphanHasCause` says where
  they come from). A failed write of a buffer ends the process
  (`storage.service.ts:57`), for instance when midnight passes between the two calls
  of `getDatePath` and the directory of the path was not made.
* `findLatestByType` ignores its type; it has no caller. Two creations of a user
  with one e-mail end in a 500 for the second, where the check before gives 409.
* A message sent twice keeps the id of one copy, and receipts of the other are
  dropped; a "delivered" receipt processed after a "read" one takes the status
  back. `StatusIsTrue` says what does hold.
* A job that fails before it sends (channel lookup, database) three times leaves
  its message as it was, `PENDING`: only a refused send marks it `FAILED`.
* A disconnection deletes the session even if the agent has another socket, whose
  session it may be.
* `complete` writes the status only: after a concurrent release it leaves a
  `COMPLETED` row without an agent, in `ConversationLifecycle` as in `MessageHistory`,
  where `TypeOK` says nothing of the agent of a completed row.

## 4. Proofs

Every safety property a passing run checks is also proved, for **every** value of
the constants: any agents, conversations, requests, payloads, page sizes, attempts.
The assumptions are the named ones of the modules (absent values are no members of
the sets they stand for; bounds are natural numbers), and two more where the table
says so: that no accept outlives its lock, and that deliveries are processed one at a
time. The runs and the departures of section 3 show that neither can be dropped.

| Module | Theorem | Statement | Further assumption |
|---|---|---|---|
| `ConversationLifecycleProofs` | `TypeCorrect` | `Spec => []TypeOK` | none |
| | `MutualExclusion` | `Spec => []AcceptHoldsLock` | `~HolderMayOverrun` |
| | `NoHandOverCorrect` | `Spec => NoHandOver` | `~HolderMayOverrun` |
| | `Refinement` | `Spec => ImplementsAssignment` | `~HolderMayOverrun` |
| | `TrailCorrect` | `Spec => []TrailNamesHolder` | `~HolderMayOverrun` |
| `AnalyticsProofs` | `CompletedIsMeasuredCorrect` | `Spec => []CompletedIsMeasured` | none |
| | `CreditIsEarnedCorrect` | `Spec => []CreditIsEarned` | `~HolderMayOverrun` |
| | `ReportsAgreeCorrect` | `Spec => []ReportsAgree` | `~HolderMayOverrun` |
| `InboundWebhooksProofs` | `WebhooksTypeCorrect` | `Spec => []TypeOK` | none |
| | `PassedIsStoredCorrect` | `Spec => []PassedIsStored` | none |
| | `DoneIsStored` | a delivery that is done has all its messages stored | none |
| | `OneOpenConversationCorrect` | `Spec => []OneOpenConversation` | `Concurrency = 1` |
| `OutboundDeliveryProofs` | `DeliveryTypeCorrect` | `Spec => []TypeOK` | none |
| | `StatusIsTrueCorrect` | `Spec => []StatusIsTrue` | none |
| | `CompletedIsSentCorrect` | `Spec => []CompletedIsSent` | none |
| | `CopiesAreAccountedCorrect` | `Spec => []CopiesAreAccounted` | none |
| `MessageHistoryProofs` | `HistoryTypeCorrect` | `Spec => []TypeOK` | none |
| | `SenderHeldItCorrect` | `Spec => []SenderHeldIt` | none |
| | `AnsweredHasTimeCorrect` | `Spec => []AnsweredHasTime` | none |
| | `LateReplyIsNotFirstCorrect` | `Spec => []LateReplyIsNotFirst` | none |
| | `PagesDescendCorrect` | `Spec => []PagesDescend` | none |
| | `SkippedSharesTimeCorrect` | `Spec => []SkippedSharesTime` | none |
| | `EventPagesCorrect` | `Spec => []EventsComplete` | none |
| `AttachmentsProofs` | `AttachmentsTypeCorrect` | `Spec => []TypeOK` | none |
| | `RowHasFileCorrect` | `Spec => []RowHasFile` | none |
| | `OrphanHasCauseCorrect` | `Spec => []OrphanHasCause` | none |
| | `BrokenDownloadHasCauseCorrect` | `Spec => []BrokenDownloadHasCause` | none |
| `AgentPresenceProofs` | `PresenceTypeCorrect` | `Spec => []TypeOK` | none |
| | `NoPhantomSessionCorrect` | `Spec => []NoPhantomSession` | none |

Each proof names an inductive invariant, shows it with one lemma per conjunct and one
case per action, and concludes.

**ConversationLifecycle.** Mutual exclusion alone does not say that the row is still
unassigned when an accept writes, since the UPDATE does not look. `LockInv` adds it:

* `TypeOK`: in particular, only accepts are at "check" and "unlock";
* `AcceptHoldsLock`: an accept between SET and DEL is the lock's value, so two
  accepts of a conversation never run together;
* `AcceptWritesUnassigned`: at "write", the accept's row is not `ASSIGNED`. It is
  so when checked; only an accept's write assigns a row (`OnlyAcceptAssigns`);
  and no other accept is running (`AcceptWriteAlone`);
* `AcceptAuditsHolder`: at "audit", a row still `ASSIGNED` is assigned to the
  accept's agent. This is what the trail needs: the event about to be inserted
  names the holder.

`HandOverStep` and `StepRefines` are then one step each: an accept's write takes
what nobody has (`AcceptTakes`), every other write lets go (`WriteLetsGo`), the
rest leaves `Holder` unchanged. `TrailStep` adds `AuditKeepsHolder` and two lemmas
on the last ACCEPTED of an extended sequence.

**Analytics.** What a row says was written once (`Wrote`: its event is in the trail,
still to come, or lost). `WritesAreOwed` says that a row that is not pending was
accepted and a completed one completed, and, because a complete writes what it
checked earlier, that a complete at "write" has found an accepted conversation. Credit
needs `LockInv` for completed rows too: from an accept's check to its write the row
has no agent (`AcceptWritesNobodys`), then that accept's or none
(`AcceptAuditsAgent`), so that the last ACCEPTED names the row's agent whatever its
status (`TrailNamesAgent`). The reports agree because a conversation that was never let
go has one ACCEPTED event (`AcceptedOnce`).

**InboundWebhooks.** `WebhookInv`: attempts and failures are counted
(`AttemptsCounted`), and a delivery past the look-up has a message in hand, in a
conversation of its sender, and the message is stored in that one once inserted
(`ItemInHand`). Rows are only added and keep their contact (`RowsKept`), a stored
message stays where it is, and an item is passed only behind its INSERT. What calls
have in hand are rows there are (`CallsOK`). `WorkerInv` adds for the single worker that
where `findOrCreate` found nothing open, whatever is open by the time it inserts was
opened again by a stale call (`FoundIsCurrent`). Of calls, two lemmas: a write that makes
an open row of a completed one is in `revived` (`CallRevives`), and so a call makes no
two rows rivals but by it (`AgentsOpenNothing`).

**OutboundDelivery.** `DeliveryInv`: the id the processor holds and the one in the row
are of the message's own copies (`IdsOfCopies`), what a matched receipt says is true of
one of them (`ReceiptsAreTrue`), and copies only go on (`CopiesKept`), so it is still true
when it is applied. The bound of the attempts is `AttemptsLeft`, that of the
stalls `StallsLeft`. `CopiesAreAccounted` is inductive with the types: a send adds one
copy and makes the attempt one that was tried, and what takes that back counts an attempt
or a stall. `CompletedIsSent` rests on `RecordedIsSent`: it holds from the UPDATE on, and
no receipt there is takes a row back to `PENDING`.

**MessageHistory.** For the POSTs `PostInv`: whoever is about to write the time of
first response, read as unset, had its message there when it was first written
(`PostsInHand`). What a row says of its agent is typed by what calls have in hand: only
an accept has an agent (`CallTypes`), so no write leaves a pending row with one or an
assigned row without (`RowTypesStep`). For the pages, lemmas about the operators first: in a finite set of
rows every rank is that of one row (`RankOnto`, by counting: ranks are distinct and
as many as rows), hence `PageOf` lists each row once and in order (`PageLists`),
`Newest` keeps the lowest ranks (`NewestRows`), a page of messages ends at its cursor
and passes nothing over (`PageOfMessages`), and a page of events that is not full is the
last (`PageOfEvents`). Between pages the invariant says what is reached:
`ReadsMessages`, everything not older than the cursor, save what shares the time of a
page's last; `ReadsEvents`, everything among the newest pages.

**Attachments.** `FilesInv`: two creations are never about one path
(`PathsOfTheirOwn`), what a creation has written stays whole up to its INSERT
(`WrittenAreWhole`), only what was inserted can be listed (`ListedAreCreated`), and what
was inserted has its file until a deletion unlinks it (`CreatedAreWhole`,
`UnlinkedAreGone`, `RowsOfDeletions`).

**AgentPresence.** `PresenceInv` adds `NothingOnItsWay`: a `handleDisconnect` runs on a
closed socket, which hands no SETEX to the client any more, and past the DEL none is
on its way.

Each invariant was checked by TLC on its module's instance before it was proved.

**Only model-checked.** Liveness (`LocksAreFreed`, `RequestsEnd`, `MessageReopens`,
`DeliveriesEnd`, `JobsEnd`, `GoneAgentReleased`): fairness and ENABLED are beyond the
prover. Induction over data is too; nothing here needs it, since no module defines
an operator by recursion, and what a client has read is shown by induction over the
requests it makes. The violations are counterexamples of TLC.

## 5. Not modelled

Signature checks, authentication, guards, validation, health, configuration and
logging have no state of the program's own. Users and channels are written by
single statements after a read that only decides between 404 and going on, or, for
a new e-mail, backed by a unique index; their status columns are read by no other
component. Rooms, typing and the `notify` methods of the gateway are fire and
forget; of the broadcasts only what a room is told of a message's status is
modelled. The text of messages, media ids, display names and times do not influence
control. Backoff delays only postpone a retry that may come at any time in the
model. `markFailed`, `getAssignedCount` and the `agent_sessions` table are
never used by the running program; `retryFailedWebhooks` has no caller either, and
would repeat what `MaxAttempts` already allows. Of the reports, wait times, first
response times and counts are sums over single rows and events.
The list of conversations (`findAll`) pages by OFFSET over an order that every
message changes and makes no promise a property could state.

## 6. Plan

Done, in this order: `ConversationLifecycle` with `Assignment` and its proofs (the
core: everything else hangs on who holds a conversation), `InboundWebhooks`,
`OutboundDelivery`, `AgentPresence` with its proofs, `Analytics`, `MessageHistory`,
`Attachments`, and the proofs about these.

Next, proofs of what the liveness properties rest on, and of what holds without the
assumptions above:

1. `ConversationLifecycle` with overrun: which writes may still hand over a
   conversation (an accept's, after its lock was lost), and that no other does.
2. `InboundWebhooks`: the safe part of `MessageReopens`, that a message is buried only
   while its delivery is still to reopen the conversation, or has failed.
3. `AgentPresence`: the safe part of `GoneAgentReleased`, that what a gone agent holds
   is in the list of a `handleDisconnect`, or was accepted after its SELECT.

## 7. Running

    tlc -workers 2 -config LifecycleTimely.cfg MCConversationLifecycle
    tlapm ConversationLifecycleProofs.tla

No run takes more than a few minutes on two cores.
