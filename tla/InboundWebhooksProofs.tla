----------------------- MODULE InboundWebhooksProofs -----------------------
(***************************************************************************)
(* Theorems about InboundWebhooks, for any senders, messages, deliveries,  *)
(* payloads, attempts and, where nothing else is said, any number of       *)
(* deliveries at once.                                                     *)
(***************************************************************************)
EXTENDS InboundWebhooks, FiniteSetTheorems, TLAPS

\* The steps at which findOrCreate has returned.
Filing == {"addMessage", "reopenCheck", "reopenWrite"}

\* An attempt under way has met no failure yet, and one is left to a delivery
\* that is queued.
AttemptsCounted ==
    \A d \in Deliveries :
        /\ errors[d] <= attempt[d]
        /\ pc[d] = "idle" => attempt[d] < MaxAttempts
        /\ pc[d] \in Busy => errors[d] < attempt[d]

\* A delivery has a message in hand from its look-up to its last statement, its
\* conversation is the sender's, and the message is in it once inserted.
InHand(d) ==
    /\ at[d] \in 1 .. Len(Payload[d]) + 1
    /\ pc[d] \in Busy \ {"item"} => HasItem(d) /\ Item(d).kind = "message"
    /\ pc[d] \in Filing =>
          conv[d] # 0 /\ conversations[conv[d]].contact = Item(d).from
    /\ pc[d] \in {"reopenCheck", "reopenWrite"} => stored[Item(d).mid] = conv[d]

ItemInHand == \A d \in Deliveries : InHand(d)

WebhookInv ==
    /\ TypeOK
    /\ AttemptsCounted
    /\ ItemInHand
    /\ PassedIsStored

\* A delivery is done only at the end of its payload.
DoneAtEnd == \A d \in Deliveries : pc[d] = "done" => ~HasItem(d)

\* The queue's worker: one delivery at a time.
OneAtATime ==
    \A d, e \in Deliveries : pc[d] \in Busy /\ pc[e] \in Busy => d = e

\* The open conversations that no agent's stale write has opened.
Fresh(k) == Open(k) \ revived

\* What findOrCreate has found remains so until the message is filed: there is no
\* such conversation of the sender, or none but the one it returned, unless that
\* one is itself an agent's stale write's.
FoundIsCurrent ==
    \A d \in Deliveries :
        /\ pc[d] = "addConversation" => Fresh(Item(d).from) = {}
        /\ pc[d] \in Filing =>
              conv[d] \in revived \/ Fresh(Item(d).from) \subseteq {conv[d]}

WorkerInv ==
    /\ WebhookInv
    /\ OneAtATime
    /\ FoundIsCurrent
    /\ OneOpenConversation

-----------------------------------------------------------------------------
(* Rows of conversations. *)

\* The item in hand, where it is a message.
LEMMA MessageFields ==
    ASSUME NEW d \in Deliveries, HasItem(d), Item(d).kind = "message"
    PROVE  Item(d).mid \in Mids /\ Item(d).from \in Contacts
<1>1. Item(d) \in Items
  BY PayloadAssumption DEF HasItem, Item
<1> QED
  BY <1>1 DEF Items

\* A row is inserted behind the others.
LEMMA RowInserted ==
    ASSUME NEW s \in Seq(Conversation), NEW k \in Contacts,
           NEW t, t = Append(s, [contact |-> k, status |-> "PENDING"])
    PROVE  /\ t \in Seq(Conversation) /\ Len(t) = Len(s) + 1
           /\ \A i \in 1 .. Len(s) : t[i] = s[i]
           /\ t[Len(s) + 1] = [contact |-> k, status |-> "PENDING"]
BY DEF Conversation, Statuses

\* A status is written: whose conversation it is does not change.
LEMMA StatusWritten ==
    ASSUME NEW s \in Seq(Conversation), NEW i \in DOMAIN s, NEW status \in Statuses,
           NEW t, t = [s EXCEPT ![i].status = status]
    PROVE  /\ t \in Seq(Conversation) /\ Len(t) = Len(s)
           /\ \A j \in 1 .. Len(s) : /\ t[j].contact = s[j].contact
                                     /\ j # i => t[j] = s[j]
           /\ t[i].status = status
<1>1. DOMAIN s = 1 .. Len(s) /\ DOMAIN t = DOMAIN s /\ Len(s) \in Nat
  OBVIOUS
<1>2. \A j \in DOMAIN s : s[j] \in Conversation
  OBVIOUS
<1>3. t[i] = [s[i] EXCEPT !.status = status] /\ \A j \in DOMAIN s : j # i => t[j] = s[j]
  OBVIOUS
<1>4. t[i] \in Conversation /\ t[i].contact = s[i].contact /\ t[i].status = status
  BY <1>2, <1>3 DEF Conversation
<1>5. t \in [1 .. Len(s) -> Conversation]
  BY <1>1, <1>2, <1>3, <1>4
<1>6. t \in Seq(Conversation) /\ Len(t) = Len(s)
  BY <1>1, <1>5
<1>7. \A j \in 1 .. Len(s) : t[j].contact = s[j].contact /\ (j # i => t[j] = s[j])
  BY <1>1, <1>3, <1>4
<1> QED
  BY <1>4, <1>6, <1>7

\* So rows stay, and stay their contacts'.
RowsKept ==
    /\ conversations' \in Seq(Conversation)
    /\ Len(conversations) <= Len(conversations')
    /\ \A i \in 1 .. Len(conversations) :
          conversations'[i].contact = conversations[i].contact

\* What a call under way will write, and where.
LEMMA CallTyped ==
    ASSUME CallsOK, NEW c \in Calls, NEW i \in calls[c].rows
    PROVE  /\ i \in DOMAIN conversations
           /\ calls[c].op \in {"accept", "release", "complete"}
           /\ Written(calls[c].op) \in Statuses
<1>1. /\ i \in DOMAIN conversations
      /\ calls[c].op \in {"accept", "release", "complete"}
  BY DEF CallsOK
<1> QED
  BY <1>1 DEF Written, Statuses

LEMMA RowsStay ==
    ASSUME TypeOK, ItemInHand, [Next]_vars
    PROVE  RowsKept
<1> DEFINE n == Len(conversations)
<1>1. conversations \in Seq(Conversation) /\ n \in Nat
  BY DEF TypeOK
<1>2. ASSUME NEW d \in Deliveries, AddConversation(d)
      PROVE  RowsKept
  <2>1. Item(d).from \in Contacts
    BY <1>2, MessageFields DEF AddConversation, ItemInHand, InHand, Busy
  <2> QED
    BY <1>1, <1>2, <2>1, RowInserted DEF AddConversation, RowsKept
<1>3. ASSUME NEW d \in Deliveries, ReopenWrite(d)
      PROVE  RowsKept
  <2>1. conv[d] \in DOMAIN conversations
    BY <1>1, <1>3 DEF ReopenWrite, ItemInHand, InHand, Filing, TypeOK
  <2> QED
    BY <1>1, <1>3, <2>1, StatusWritten DEF ReopenWrite, RowsKept, Statuses
<1>4. ASSUME NEW c \in Calls, CallWrite(c)
      PROVE  RowsKept
  <2>1. PICK i \in calls[c].rows :
            conversations' = [conversations EXCEPT ![i].status = Written(calls[c].op)]
    BY <1>4 DEF CallWrite
  <2>2. i \in DOMAIN conversations /\ Written(calls[c].op) \in Statuses
    BY <2>1, CallTyped DEF TypeOK
  <2>3. PICK status \in Statuses :
            conversations' = [conversations EXCEPT ![i].status = status]
    BY <2>1, <2>2
  <2>4. /\ conversations' \in Seq(Conversation)
        /\ Len(conversations') = Len(conversations)
        /\ \A j \in 1 .. Len(conversations) :
              conversations'[j].contact = conversations[j].contact
    BY <1>1, <2>2, <2>3, StatusWritten
  <2> QED
    BY <1>1, <2>4 DEF RowsKept
<1>5. CASE UNCHANGED conversations
  BY <1>1, <1>5 DEF RowsKept
<1>6. ASSUME NEW c \in Calls, Call(c)
      PROVE  RowsKept
  <2>1. CallWrite(c) \/ UNCHANGED conversations
    BY <1>6 DEF Call, AcceptCheck, ReleaseCheck, CompleteCheck, DisconnectSelect,
                CallFails, Checked, tables
  <2> QED
    BY <1>4, <1>5, <2>1
<1> QED
  BY <1>2, <1>3, <1>5, <1>6
     DEF Next, Handle, Start, Finish, SkipItem, StatusById, LookUpContact, AddContact,
         FindConversation, AddMessage, ReopenCheck, DbError, Throw, tables, vars

\* A step of a delivery leaves the agents' calls alone, and rows are only added.
LEMMA CallsWait ==
    ASSUME TypeOK, RowsKept, UNCHANGED agents
    PROVE  CallsOK'
<1>1. DOMAIN conversations \subseteq DOMAIN conversations'
  <2>1. conversations \in Seq(Conversation) /\ conversations' \in Seq(Conversation)
    BY DEF TypeOK, RowsKept
  <2> QED
    BY <2>1 DEF RowsKept
<1>2. CallsOK /\ calls' = calls /\ revived' = revived
  BY DEF TypeOK, agents
<1> QED
  BY <1>1, <1>2 DEF CallsOK

LEMMA DeliveryLeavesCalls ==
    ASSUME NEW d \in Deliveries, Start(d) \/ Handle(d) \/ DbError(d)
    PROVE  UNCHANGED agents
BY DEF Handle, Start, Finish, SkipItem, StatusById, LookUpContact, AddContact,
       FindConversation, AddConversation, AddMessage, ReopenCheck, ReopenWrite, DbError,
       Throw

\* An agent's call leaves everything else alone.
LEMMA CallLeavesRest ==
    ASSUME NEW c \in Calls, Call(c)
    PROVE  UNCHANGED <<contacts, stored, pc, at, conv, attempt, errors>>
BY DEF Call, AcceptCheck, ReleaseCheck, CompleteCheck, DisconnectSelect, Checked,
       CallWrite, CallFails, tables, handlers

LEMMA CallStep ==
    ASSUME TypeOK, RowsKept, NEW c \in Calls, Call(c)
    PROVE  /\ CallsOK'
           /\ UNCHANGED <<contacts, stored, pc, at, conv, attempt, errors>>
<1> DEFINE Rows == SUBSET DOMAIN conversations
           Ops == {"none", "accept", "release", "complete"}
<1>1. SUFFICES CallsOK'
  BY CallLeavesRest
<1>2. /\ calls \in [Calls -> [op : Ops, rows : Rows]]
      /\ \A e \in Calls : calls[e].op = "none" <=> calls[e].rows = {}
      /\ revived \subseteq DOMAIN conversations
  BY DEF TypeOK, CallsOK
<1>3. ASSUME NEW op \in Ops, NEW rows \in Rows, op = "none" <=> rows = {},
             calls' = [calls EXCEPT ![c] = [op |-> op, rows |-> rows]],
             DOMAIN conversations' = DOMAIN conversations,
             revived' \subseteq DOMAIN conversations
      PROVE  CallsOK'
  <2>1. [op |-> op, rows |-> rows] \in [op : Ops, rows : Rows]
    OBVIOUS
  <2>2. calls' \in [Calls -> [op : Ops, rows : Rows]]
    BY <1>2, <1>3, <2>1
  <2>3. \A e \in Calls : calls'[e].op = "none" <=> calls'[e].rows = {}
    BY <1>2, <1>3
  <2> QED
    BY <1>3, <2>2, <2>3 DEF CallsOK
<1>4. ASSUME NEW op \in Ops \ {"none"}, NEW rows \in Rows \ {{}}, Checked(c, op, rows)
      PROVE  CallsOK'
  <2>1. /\ calls' = [calls EXCEPT ![c] = [op |-> op, rows |-> rows]]
        /\ UNCHANGED <<conversations, revived>>
    BY <1>4 DEF Checked, tables
  <2> QED
    BY <1>2, <1>3, <2>1
<1>5. \A status : InStatus(status) \subseteq DOMAIN conversations
  BY DEF InStatus
<1>6. CASE AcceptCheck(c)
  <2>1. PICK i \in DOMAIN conversations : Checked(c, "accept", {i})
    BY <1>5, <1>6 DEF AcceptCheck
  <2> QED
    BY <1>4, <2>1
<1>7. CASE ReleaseCheck(c)
  <2>1. PICK i \in DOMAIN conversations : Checked(c, "release", {i})
    BY <1>5, <1>7 DEF ReleaseCheck
  <2> QED
    BY <1>4, <2>1
<1>8. CASE CompleteCheck(c)
  <2>1. PICK i \in DOMAIN conversations : Checked(c, "complete", {i})
    BY <1>5, <1>8 DEF CompleteCheck
  <2> QED
    BY <1>4, <2>1
<1>9. CASE DisconnectSelect(c)
  <2>1. PICK rows \in (SUBSET InStatus("ASSIGNED")) \ {{}} : Checked(c, "release", rows)
    BY <1>9 DEF DisconnectSelect
  <2>2. rows \in Rows \ {{}}
    BY <2>1 DEF InStatus
  <2> QED
    BY <1>4, <2>1, <2>2
<1>10. CASE CallWrite(c)
  <2>1. PICK i \in calls[c].rows :
            /\ conversations' = [conversations EXCEPT
                                    ![i].status = Written(calls[c].op)]
            /\ revived' \in {revived, revived \cup {i}}
            /\ calls' = [calls EXCEPT ![c] = IF @.rows = {i} THEN NoCall
                                              ELSE [op |-> @.op, rows |-> @.rows \ {i}]]
    BY <1>10 DEF CallWrite
  <2>2. /\ DOMAIN conversations' = DOMAIN conversations
        /\ calls[c] \in [op : Ops, rows : Rows] /\ calls[c].op # "none"
    BY <1>2, <2>1
  <2>3. revived' \subseteq DOMAIN conversations
    BY <1>2, <2>1, <2>2
  <2>4. CASE calls[c].rows = {i}
    <3>1. calls' = [calls EXCEPT ![c] = [op |-> "none", rows |-> {}]]
      BY <2>1, <2>4 DEF NoCall
    <3>2. "none" \in Ops /\ {} \in Rows
      OBVIOUS
    <3>3. ("none" = "none") <=> ({} = {})
      OBVIOUS
    <3> QED
      BY <1>3, <2>2, <2>3, <3>1, <3>2, <3>3, Zenon
  <2>5. CASE calls[c].rows # {i}
    <3>2. calls' = [calls EXCEPT ![c] = [op |-> calls[c].op,
                                         rows |-> calls[c].rows \ {i}]]
      BY <2>1, <2>5
    <3>3. calls[c].op \in Ops /\ calls[c].rows \ {i} \in Rows /\ calls[c].rows \ {i} # {}
      BY <2>1, <2>2, <2>5
    <3> QED
      BY <1>3, <2>2, <2>3, <3>2, <3>3
  <2> QED
    BY <2>4, <2>5
<1>11. CASE CallFails(c)
  <2>1. /\ calls' = [calls EXCEPT ![c] = [op |-> "none", rows |-> {}]]
        /\ UNCHANGED <<conversations, revived>>
    BY <1>11 DEF CallFails, tables, NoCall
  <2> QED
    BY <1>2, <1>3, <2>1
<1> QED
  BY <1>6, <1>7, <1>8, <1>9, <1>10, <1>11 DEF Call

\* Types: rows are only added, and an attempt is begun while one is left.
LEMMA TypeStep ==
    ASSUME TypeOK, AttemptsCounted, ItemInHand, RowsKept,
           NEW d \in Deliveries, Start(d) \/ Handle(d) \/ DbError(d)
    PROVE  TypeOK'
<1> USE DEF TypeOK, AttemptsCounted, Busy, tables, RowsKept
<1>0. 0 .. Len(conversations) \subseteq 0 .. Len(conversations') /\ CallsOK'
  BY CallsWait, DeliveryLeavesCalls
<1>1. CASE Start(d)
  BY <1>1, <1>0, BoundsAssumption DEF Start, Goto
<1>2. CASE Finish(d)
  BY <1>2, <1>0, BoundsAssumption DEF Finish, Goto
<1>3. CASE SkipItem(d)
  BY <1>3, <1>0, BoundsAssumption DEF SkipItem, NextItem, Goto
<1>4. CASE StatusById(d)
  BY <1>4, <1>0, BoundsAssumption DEF StatusById, Throw, Goto
<1>5. CASE LookUpContact(d)
  BY <1>5, <1>0, BoundsAssumption DEF LookUpContact, Goto
<1>6. CASE AddContact(d)
  <2>1. Item(d).from \in Contacts
    BY <1>6, MessageFields DEF AddContact, ItemInHand, InHand
  <2> QED
    BY <1>0, <1>6, <2>1 DEF AddContact, Throw, Goto
<1>7. CASE FindConversation(d)
  <2>1. Open(Item(d).from) \subseteq 0 .. Len(conversations)
    BY DEF Open
  <2> QED
    BY <1>0, <1>7, <2>1 DEF FindConversation, Goto
<1>8. CASE AddConversation(d)
  <2>1. Item(d).from \in Contacts
    BY <1>8, MessageFields DEF AddConversation, ItemInHand, InHand
  <2>2. Len(conversations') = Len(conversations) + 1
    BY <1>8, <2>1, RowInserted DEF AddConversation
  <2> QED
    BY <1>0, <1>8, <2>2 DEF AddConversation, Goto
<1>9. CASE AddMessage(d)
  <2>1. Item(d).mid \in Mids
    BY <1>9, MessageFields DEF AddMessage, ItemInHand, InHand
  <2> QED
    BY <1>0, <1>9, <2>1 DEF AddMessage, Throw, Goto
<1>10. CASE ReopenCheck(d)
  <2>1. CASE NextItem(d)
    BY <1>0, <1>10, <2>1 DEF ReopenCheck, NextItem, Goto
  <2>2. CASE Goto(d, "reopenWrite") /\ UNCHANGED <<at, conv>>
    BY <1>0, <1>10, <2>2 DEF ReopenCheck, Goto
  <2> QED
    BY <1>10, <2>1, <2>2 DEF ReopenCheck
<1>11. CASE ReopenWrite(d)
  BY <1>11, <1>0, BoundsAssumption DEF ReopenWrite, NextItem, Goto
<1>12. CASE DbError(d)
  <2>1. errors[d] + 1 \in 0 .. MaxAttempts
    BY <1>12, BoundsAssumption DEF DbError
  <2> QED
    BY <1>0, <1>12, <2>1 DEF DbError, Throw, Goto
<1> QED
  BY <1>1, <1>2, <1>3, <1>4, <1>5, <1>6, <1>7, <1>8, <1>9, <1>10, <1>11, <1>12 DEF Handle

\* A failure ends its attempt, and the last one the delivery.
LEMMA AttemptsStep ==
    ASSUME TypeOK, AttemptsCounted,
           NEW d \in Deliveries, Start(d) \/ Handle(d) \/ DbError(d)
    PROVE  AttemptsCounted'
<1> USE DEF TypeOK, AttemptsCounted, Busy, tables
<1>1. CASE Start(d)
  BY <1>1, BoundsAssumption DEF Start, Goto
<1>2. CASE Finish(d)
  BY <1>2, BoundsAssumption DEF Finish, Goto
<1>3. CASE SkipItem(d)
  BY <1>3, BoundsAssumption DEF SkipItem, NextItem, Goto
<1>4. CASE StatusById(d)
  BY <1>4, BoundsAssumption DEF StatusById, Throw, Goto
<1>5. CASE LookUpContact(d)
  BY <1>5, BoundsAssumption DEF LookUpContact, Goto
<1>6. CASE AddContact(d)
  BY <1>6, BoundsAssumption DEF AddContact, Throw, Goto
<1>7. CASE FindConversation(d)
  BY <1>7, BoundsAssumption DEF FindConversation, Goto
<1>8. CASE AddConversation(d)
  BY <1>8, BoundsAssumption DEF AddConversation, Goto
<1>9. CASE AddMessage(d)
  BY <1>9, BoundsAssumption DEF AddMessage, Throw, Goto
<1>10. CASE ReopenCheck(d)
  BY <1>10, BoundsAssumption DEF ReopenCheck, NextItem, Goto
<1>11. CASE ReopenWrite(d)
  BY <1>11, BoundsAssumption DEF ReopenWrite, NextItem, Goto
<1>12. CASE DbError(d)
  BY <1>12, BoundsAssumption DEF DbError, Throw, Goto
<1> QED
  BY <1>1, <1>2, <1>3, <1>4, <1>5, <1>6, <1>7, <1>8, <1>9, <1>10, <1>11, <1>12 DEF Handle

-----------------------------------------------------------------------------
(* What has been passed. *)

\* A message once inserted stays where it is.
StoredKept == \A m \in Mids : stored[m] # 0 => stored'[m] = stored[m]

LEMMA StoredStays ==
    ASSUME TypeOK, ItemInHand, [Next]_vars
    PROVE  StoredKept
<1>1. ASSUME NEW d \in Deliveries, AddMessage(d)
      PROVE  StoredKept
  <2>1. Item(d).mid \in Mids
    BY <1>1, MessageFields DEF AddMessage, ItemInHand, InHand, Busy
  <2> QED
    BY <1>1, <2>1 DEF AddMessage, StoredKept, TypeOK, Throw, tables
<1>2. CASE UNCHANGED stored
  BY <1>2 DEF StoredKept
<1> QED
  BY <1>1, <1>2
     DEF Next, Handle, Start, Finish, SkipItem, StatusById, LookUpContact, AddContact,
         FindConversation, AddConversation, ReopenCheck, ReopenWrite, DbError, Throw,
         Call, AcceptCheck, ReleaseCheck, CompleteCheck, DisconnectSelect, CallWrite,
         CallFails, Checked, tables, vars

\* A step is one delivery's.
LEMMA OthersWait ==
    ASSUME TypeOK, NEW d \in Deliveries, Start(d) \/ Handle(d) \/ DbError(d),
           NEW e \in Deliveries \ {d}
    PROVE  pc'[e] = pc[e] /\ at'[e] = at[e] /\ conv'[e] = conv[e]
BY DEF TypeOK, Handle, Start, Finish, SkipItem, StatusById, LookUpContact, AddContact,
       FindConversation, AddConversation, AddMessage, ReopenCheck, ReopenWrite, DbError,
       Throw, NextItem, Goto, tables

\* A delivery keeps what it has in hand while it waits, and has nothing in hand
\* between two messages.
LEMMA InHandWaits ==
    ASSUME TypeOK, RowsKept, StoredKept, NEW d \in Deliveries, InHand(d),
           pc'[d] = pc[d], at'[d] = at[d], conv'[d] = conv[d]
    PROVE  InHand(d)'
<1>1. Item(d)' = Item(d) /\ HasItem(d)' = HasItem(d)
  BY DEF Item, HasItem
<1>2. pc[d] \in Filing => conversations'[conv[d]].contact = conversations[conv[d]].contact
  BY DEF TypeOK, RowsKept, InHand
<1>3. ASSUME pc[d] \in {"reopenCheck", "reopenWrite"}
      PROVE  stored'[Item(d).mid] = stored[Item(d).mid]
  <2>1. Item(d).mid \in Mids /\ stored[Item(d).mid] # 0
    BY <1>3, MessageFields DEF InHand, Busy, Filing
  <2> QED
    BY <2>1 DEF StoredKept
<1> QED
  BY <1>1, <1>2, <1>3 DEF InHand

LEMMA NothingInHand ==
    ASSUME NEW d \in Deliveries, at'[d] \in 1 .. Len(Payload[d]) + 1,
           pc'[d] \in {"idle", "item", "done", "failed"}
    PROVE  InHand(d)'
BY DEF InHand, Busy, Filing

\* The next item is one of the payload, or just behind it.
LEMMA NextItemInPayload ==
    ASSUME TypeOK, NEW d \in Deliveries, InHand(d), HasItem(d), NextItem(d)
    PROVE  /\ at'[d] = at[d] + 1 /\ at'[d] \in 1 .. Len(Payload[d]) + 1
           /\ pc'[d] = "item"
<1>1. DOMAIN Payload[d] = 1 .. Len(Payload[d]) /\ Len(Payload[d]) \in Nat
  BY PayloadAssumption
<1>2. at[d] \in 1 .. Len(Payload[d])
  BY <1>1 DEF HasItem
<1> QED
  BY <1>1, <1>2 DEF NextItem, Goto, TypeOK

\* What a delivery has in hand, step by step.
LEMMA HandOwn ==
    ASSUME TypeOK, NEW d \in Deliveries, InHand(d),
           Start(d) \/ Handle(d) \/ DbError(d)
    PROVE  InHand(d)'
<1> USE DEF TypeOK, InHand, Busy, Filing, tables
<1>1. CASE Start(d)
  <2>1. at'[d] = 1 /\ pc'[d] = "item"
    BY <1>1 DEF Start, Goto
  <2>2. 1 \in 1 .. Len(Payload[d]) + 1
    BY PayloadAssumption
  <2> QED
    BY <2>1, <2>2, NothingInHand
<1>2. CASE Finish(d)
  <2>1. at'[d] = at[d] /\ pc'[d] \in {"idle", "item", "done", "failed"}
    BY <1>2 DEF Finish, Goto
  <2> QED
    BY <2>1, NothingInHand
<1>3. CASE SkipItem(d)
  BY <1>3, NextItemInPayload, NothingInHand DEF SkipItem
<1>4. CASE StatusById(d)
  <2>1. at'[d] = at[d] /\ pc'[d] \in {"idle", "item", "done", "failed"}
    BY <1>4 DEF StatusById, Throw, Goto
  <2> QED
    BY <2>1, NothingInHand
<1>5. CASE LookUpContact(d)
  <2>1. /\ HasItem(d) /\ Item(d).kind = "message" /\ UNCHANGED at
        /\ pc'[d] \in {"find", "addContact"}
    BY <1>5 DEF LookUpContact, Goto
  <2> QED
    BY <2>1 DEF HasItem, Item
<1>6. CASE AddContact(d)
  <2>1. CASE Goto(d, "find") /\ UNCHANGED <<conversations, stored, at, conv>>
    BY <1>6, <2>1 DEF AddContact, Goto, HasItem, Item
  <2>2. CASE Throw(d)
    <3>1. at'[d] = at[d] /\ pc'[d] \in {"idle", "failed"}
      BY <2>2 DEF Throw, Goto
    <3> QED
      BY <3>1, NothingInHand
  <2> QED
    BY <1>6, <2>1, <2>2 DEF AddContact
<1>7. CASE FindConversation(d)
  <2>1. /\ HasItem(d) /\ Item(d).kind = "message" /\ pc[d] = "find"
        /\ UNCHANGED <<at, conversations, stored>>
    BY <1>7 DEF FindConversation
  <2>2. CASE pc'[d] = "addConversation"
    BY <2>1, <2>2 DEF HasItem, Item
  <2>3. CASE pc'[d] = "addMessage"
    <3>1. conv'[d] \in Open(Item(d).from)
      BY <1>7, <2>3 DEF FindConversation, Goto
    <3>2. conv'[d] # 0 /\ conversations[conv'[d]].contact = Item(d).from
      BY <3>1 DEF Open
    <3> QED
      BY <2>1, <2>3, <3>2 DEF HasItem, Item
  <2> QED
    BY <1>7, <2>2, <2>3 DEF FindConversation, Goto
<1>8. CASE AddConversation(d)
  <2>1. Item(d).from \in Contacts /\ Len(conversations) \in Nat
    BY <1>8, MessageFields DEF AddConversation
  <2>2. conversations'[Len(conversations) + 1].contact = Item(d).from
    BY <1>8, <2>1, RowInserted DEF AddConversation
  <2>3. /\ pc'[d] = "addMessage" /\ conv'[d] = Len(conversations) + 1
        /\ at' = at /\ pc[d] = "addConversation"
    BY <1>8 DEF AddConversation, Goto
  <2> QED
    BY <2>1, <2>2, <2>3 DEF HasItem, Item
<1>9. CASE AddMessage(d)
  <2>1. CASE Throw(d)
    <3>1. at'[d] = at[d] /\ pc'[d] \in {"idle", "failed"}
      BY <2>1 DEF Throw, Goto
    <3> QED
      BY <3>1, NothingInHand
  <2>2. CASE ~Throw(d)
    <3>1. Item(d).mid \in Mids /\ HasItem(d) /\ Item(d).kind = "message"
      BY <1>9, MessageFields DEF AddMessage
    <3>2. /\ pc'[d] = "reopenCheck" /\ UNCHANGED <<at, conv, conversations>>
          /\ stored'[Item(d).mid] = conv[d] /\ pc[d] = "addMessage"
      BY <1>9, <2>2, <3>1 DEF AddMessage, Goto
    <3> QED
      BY <3>1, <3>2 DEF HasItem, Item
  <2> QED
    BY <2>1, <2>2
<1>10. CASE ReopenCheck(d)
  <2>1. HasItem(d)
    BY <1>10 DEF ReopenCheck
  <2>2. CASE NextItem(d)
    BY <2>1, <2>2, NextItemInPayload, NothingInHand
  <2>3. CASE Goto(d, "reopenWrite") /\ UNCHANGED <<at, conv>>
    BY <1>10, <2>3 DEF ReopenCheck, Goto, HasItem, Item
  <2> QED
    BY <1>10, <2>2, <2>3 DEF ReopenCheck
<1>11. CASE ReopenWrite(d)
  <2>1. HasItem(d)
    BY <1>11 DEF ReopenWrite
  <2> QED
    BY <1>11, <2>1, NextItemInPayload, NothingInHand DEF ReopenWrite
<1>12. CASE DbError(d)
  <2>1. at'[d] = at[d] /\ pc'[d] \in {"idle", "item", "done", "failed"}
    BY <1>12 DEF DbError, Throw, Goto
  <2> QED
    BY <2>1, NothingInHand
<1> QED
  BY <1>1, <1>2, <1>3, <1>4, <1>5, <1>6, <1>7, <1>8, <1>9, <1>10, <1>11, <1>12 DEF Handle

\* An item gets behind a delivery only at its end: a message is then inserted, in
\* a conversation of its sender's, and both stay.
LEMMA PassedStep ==
    ASSUME TypeOK, PassedIsStored, RowsKept, StoredKept,
           ItemInHand, NEW d \in Deliveries, Start(d) \/ Handle(d) \/ DbError(d)
    PROVE  PassedIsStored'
<1> DEFINE Filed(it) == /\ stored[it.mid] # 0
                        /\ conversations[stored[it.mid]].contact = it.from
           Moved == \/ at'[d] \in {1, at[d]}
                    \/ /\ at'[d] = at[d] + 1 /\ at[d] \in 1 .. Len(Payload[d])
                       /\ Item(d).kind = "message" => Filed(Item(d))
<1>0. \A e \in Deliveries : /\ Len(Payload[e]) \in Nat
                            /\ DOMAIN Payload[e] = 1 .. Len(Payload[e])
                            /\ \A i \in 1 .. Len(Payload[e]) : Payload[e][i] \in Items
  BY PayloadAssumption
<1>1. ASSUME NEW it \in Items, it.kind = "message", Filed(it)
      PROVE  Filed(it)'
  <2>1. it.mid \in Mids
    BY <1>1 DEF Items
  <2>2. stored'[it.mid] = stored[it.mid] /\ stored[it.mid] \in 1 .. Len(conversations)
    BY <1>1, <2>1 DEF StoredKept, TypeOK
  <2> QED
    BY <1>1, <2>2 DEF RowsKept
<1>2. Moved
  <2>0. InHand(d)
    BY DEF ItemInHand
  <2>1. ASSUME NextItem(d), HasItem(d)
        PROVE  at'[d] = at[d] + 1 /\ at[d] \in 1 .. Len(Payload[d])
    BY <1>0, <2>0, <2>1, NextItemInPayload DEF HasItem
  <2>2. CASE SkipItem(d)
    BY <2>1, <2>2 DEF SkipItem
  <2>3. CASE ReopenWrite(d) \/ (ReopenCheck(d) /\ NextItem(d))
    <3>1. pc[d] \in {"reopenCheck", "reopenWrite"}
      BY <2>3 DEF ReopenWrite, ReopenCheck
    <3>2. HasItem(d) /\ Filed(Item(d))
      BY <2>0, <3>1 DEF InHand, Busy, Filing
    <3> QED
      BY <2>1, <2>3, <3>2 DEF ReopenWrite
  <2>4. CASE UNCHANGED at
    BY <2>4
  <2>5. CASE Start(d)
    BY <2>5 DEF Start, TypeOK
  <2>6. \/ Start(d) \/ SkipItem(d) \/ ReopenWrite(d) \/ UNCHANGED at
        \/ ReopenCheck(d) /\ NextItem(d)
    BY DEF Handle, Finish, StatusById, LookUpContact, AddContact, FindConversation,
           AddConversation, AddMessage, ReopenCheck, DbError, Throw, tables
  <2> HIDE DEF Moved
  <2> QED
    BY <2>2, <2>3, <2>4, <2>5, <2>6
<1>3. ASSUME NEW e \in Deliveries, NEW i \in 1 .. at'[e] - 1,
             Payload[e][i].kind = "message"
      PROVE  Filed(Payload[e][i])'
  <2>1. at[e] \in Nat \ {0} /\ at[e] <= Len(Payload[e]) + 1
    BY <1>0 DEF ItemInHand, InHand
  <2>2. CASE i \in 1 .. at[e] - 1
    <3>1. Payload[e][i] \in Items
      BY <1>0, <2>1, <2>2
    <3>2. Filed(Payload[e][i])
      BY <1>3, <2>2 DEF PassedIsStored
    <3> HIDE DEF Filed
    <3> QED
      BY <1>1, <1>3, <3>1, <3>2
  <2>3. CASE i \notin 1 .. at[e] - 1
    <3>1. e = d
      BY <1>3, <2>3, OthersWait
    <3>2. at'[d] = at[d] + 1 /\ i = at[d] /\ i \in 1 .. Len(Payload[d])
      BY <1>2, <1>3, <2>1, <2>3, <3>1
    <3>3. Filed(Payload[d][i]) /\ Payload[d][i] \in Items
      BY <1>0, <1>2, <1>3, <2>1, <3>1, <3>2 DEF Item
    <3> HIDE DEF Filed
    <3> QED
      BY <1>1, <1>3, <3>1, <3>3
  <2> QED
    BY <2>2, <2>3
<1> QED
  BY <1>3 DEF PassedIsStored

LEMMA WebhookInit ==
    Init => WebhookInv
<1>1. Init => TypeOK /\ AttemptsCounted
  BY BoundsAssumption DEF Init, TypeOK, CallsOK, NoCall, AttemptsCounted, Busy
<1>2. Init => ItemInHand /\ PassedIsStored
  BY PayloadAssumption DEF Init, ItemInHand, InHand, Busy, Filing, PassedIsStored
<1> QED
  BY <1>1, <1>2 DEF WebhookInv

\* The agents write statuses alone.
LEMMA AgentsStep ==
    ASSUME WebhookInv, RowsKept, StoredKept, CallsOK',
           UNCHANGED <<contacts, stored, pc, at, conv, attempt, errors>>
    PROVE  WebhookInv'
<1>1. TypeOK'
  <2>1. 0 .. Len(conversations) \subseteq 0 .. Len(conversations')
    BY DEF WebhookInv, TypeOK, RowsKept
  <2> QED
    BY <2>1 DEF WebhookInv, TypeOK, RowsKept
<1>2. AttemptsCounted'
  BY DEF WebhookInv, AttemptsCounted
<1>3. ItemInHand'
  BY InHandWaits DEF WebhookInv, ItemInHand
<1>4. PassedIsStored'
  <2> SUFFICES ASSUME NEW d \in Deliveries, NEW i \in 1 .. at[d] - 1,
                      Payload[d][i].kind = "message"
               PROVE  LET it == Payload[d][i] IN
                      /\ stored[it.mid] # 0
                      /\ conversations'[stored[it.mid]].contact = it.from
    BY DEF PassedIsStored
  <2>1. i \in DOMAIN Payload[d] /\ Payload[d][i] \in Items
    BY PayloadAssumption DEF WebhookInv, TypeOK, ItemInHand, InHand
  <2>2. Payload[d][i].mid \in Mids
    BY <2>1 DEF Items
  <2>3. /\ stored[Payload[d][i].mid] \in 1 .. Len(conversations)
        /\ conversations[stored[Payload[d][i].mid]].contact = Payload[d][i].from
    BY <2>2 DEF WebhookInv, PassedIsStored, TypeOK
  <2> QED
    BY <2>3 DEF RowsKept
<1> QED
  BY <1>1, <1>2, <1>3, <1>4 DEF WebhookInv

LEMMA WebhookInvStep ==
    WebhookInv /\ [Next]_vars => WebhookInv'
<1> SUFFICES ASSUME WebhookInv, [Next]_vars
             PROVE  WebhookInv'
  OBVIOUS
<1>1. RowsKept /\ StoredKept
  BY RowsStay, StoredStays DEF WebhookInv
<1>2. ASSUME NEW d \in Deliveries, Start(d) \/ Handle(d) \/ DbError(d)
      PROVE  WebhookInv'
  <2>1. TypeOK' /\ AttemptsCounted' /\ PassedIsStored'
    BY <1>1, <1>2, TypeStep, AttemptsStep, PassedStep DEF WebhookInv
  <2>2. ASSUME NEW e \in Deliveries
        PROVE  InHand(e)'
    <3>1. CASE e = d
      BY <1>2, <3>1, HandOwn DEF WebhookInv, ItemInHand
    <3>2. CASE e # d
      BY <1>1, <1>2, <3>2, OthersWait, InHandWaits DEF WebhookInv, ItemInHand
    <3> QED
      BY <3>1, <3>2
  <2> QED
    BY <2>1, <2>2 DEF WebhookInv, ItemInHand
<1>3. ASSUME NEW c \in Calls, Call(c)
      PROVE  WebhookInv'
  BY <1>1, <1>3, AgentsStep, CallStep DEF WebhookInv
<1>4. CASE UNCHANGED vars
  BY <1>1, <1>4, AgentsStep, CallsWait DEF vars, handlers, WebhookInv
<1> QED
  BY <1>2, <1>3, <1>4 DEF Next

LEMMA WebhookInvariant ==
    Spec => []WebhookInv
BY WebhookInit, WebhookInvStep, PTL DEF Spec

\* Every table and every delivery keeps its type: a stored message and a
\* delivery in hand name conversations there are, and no delivery is attempted,
\* or fails, more often than its queue allows.
THEOREM WebhooksTypeCorrect ==
    Spec => []TypeOK
<1>1. WebhookInv => TypeOK
  BY DEF WebhookInv
<1> QED
  BY WebhookInvariant, <1>1, PTL

\* A delivery never gets past a message that is not in the database, nor past one
\* filed under another sender: for any payloads, repeated, overlapping and
\* retried, any number of them at once, and wherever statements fail.
THEOREM PassedIsStoredCorrect ==
    Spec => []PassedIsStored
<1>1. WebhookInv => PassedIsStored
  BY DEF WebhookInv
<1> QED
  BY WebhookInvariant, <1>1, PTL

\* A delivery is done at the end of its payload, and stays there.
LEMMA DoneAtEndStep ==
    ASSUME WebhookInv, DoneAtEnd, [Next]_vars
    PROVE  DoneAtEnd'
<1>1. TypeOK
  BY DEF WebhookInv
<1>2. ASSUME NEW d \in Deliveries, Start(d) \/ Handle(d) \/ DbError(d)
      PROVE  DoneAtEnd'
  <2>1. ASSUME NEW e \in Deliveries \ {d}, pc'[e] = "done"
        PROVE  at'[e] \notin DOMAIN Payload[e]
    BY <1>1, <1>2, <2>1, OthersWait DEF DoneAtEnd, HasItem
  <2>2. CASE Finish(d)
    BY <1>1, <2>1, <2>2 DEF DoneAtEnd, HasItem, Finish
  <2>3. CASE ~Finish(d)
    <3>1. pc'[d] # "done"
      BY <1>1, <1>2, <2>3
         DEF TypeOK, Handle, Start, SkipItem, StatusById, LookUpContact, AddContact,
             FindConversation, AddConversation, AddMessage, ReopenCheck, ReopenWrite,
             DbError, Throw, NextItem, Goto
    <3> QED
      BY <2>1, <3>1 DEF DoneAtEnd, HasItem
  <2> QED
    BY <2>2, <2>3
<1>3. CASE UNCHANGED <<pc, at>>
  BY <1>3 DEF DoneAtEnd, HasItem
<1> QED
  BY <1>1, <1>2, <1>3, RowsStay, CallStep DEF Next, WebhookInv, vars, handlers

\* So a delivery that was processed to its end has put all its messages into the
\* database: what the provider is answered 200 for, without anything having been
\* thrown, is there.
THEOREM DoneIsStored ==
    Spec => [](\A d \in Deliveries : pc[d] = "done" => AllStored(d))
<1>1. Init => WebhookInv /\ DoneAtEnd
  BY WebhookInit DEF Init, DoneAtEnd
<1>2. WebhookInv /\ DoneAtEnd /\ [Next]_vars => WebhookInv' /\ DoneAtEnd'
  BY WebhookInvStep, DoneAtEndStep
<1>3. ASSUME WebhookInv, DoneAtEnd, NEW d \in Deliveries, pc[d] = "done"
      PROVE  AllStored(d)
  <2>1. at[d] \in 1 .. Len(Payload[d]) + 1 /\ at[d] \notin DOMAIN Payload[d]
    BY <1>3 DEF WebhookInv, ItemInHand, InHand, DoneAtEnd, HasItem
  <2>2. Payload[d] \in Seq(Items)
    BY PayloadAssumption
  <2>3. at[d] - 1 = Len(Payload[d]) /\ DOMAIN Payload[d] = 1 .. Len(Payload[d])
    BY <2>1, <2>2
  <2> QED
    BY <1>3, <2>3 DEF WebhookInv, PassedIsStored, AllStored
<1>4. WebhookInv /\ DoneAtEnd => \A d \in Deliveries : pc[d] = "done" => AllStored(d)
  BY <1>3
<1> QED
  BY <1>1, <1>2, <1>4, PTL DEF Spec

-----------------------------------------------------------------------------
(* The queue's worker, which runs one job at a time. *)

LEMMA OneStep ==
    ASSUME Concurrency = 1, TypeOK, OneAtATime,
           NEW d \in Deliveries, Start(d) \/ Handle(d) \/ DbError(d)
    PROVE  /\ OneAtATime'
           /\ \A e \in Deliveries \ {d} : pc'[e] \notin Busy
           /\ ~Start(d) => pc[d] \in Busy
<1>1. CASE Start(d)
  <2> DEFINE S == {e \in Deliveries : pc[e] \in Busy}
  <2>1. S = {}
    <3> SUFFICES ASSUME NEW e \in S PROVE FALSE
      OBVIOUS
    <3>1. S = {e}
      BY DEF OneAtATime
    <3>2. Cardinality(S) = 1
      BY <3>1, FS_Singleton
    <3> QED
      BY <1>1, <3>2 DEF Start
  <2>2. \A e \in Deliveries \ {d} : pc'[e] \notin Busy
    BY <2>1, OthersWait
  <2> QED
    BY <1>1, <2>2 DEF OneAtATime
<1>2. CASE Handle(d) \/ DbError(d)
  <2>1. pc[d] \in Busy
    BY <1>2 DEF Handle, Finish, SkipItem, StatusById, LookUpContact, AddContact,
                FindConversation, AddConversation, AddMessage, ReopenCheck,
                ReopenWrite, DbError, Busy
  <2>2. \A e \in Deliveries \ {d} : pc'[e] \notin Busy
    BY <2>1, OthersWait DEF OneAtATime
  <2> QED
    BY <2>1, <2>2 DEF OneAtATime
<1> QED
  BY <1>1, <1>2

LEMMA FreshRows ==
    ASSUME TypeOK, NEW k
    PROVE  Fresh(k) = {i \in DOMAIN conversations :
                          /\ conversations[i].contact = k
                          /\ conversations[i].status # "COMPLETED"
                          /\ i \notin revived}
<1>1. \A i \in DOMAIN conversations : conversations[i].status \in Statuses
  <2>1. conversations \in Seq(Conversation)
    BY DEF TypeOK
  <2>2. \A i \in DOMAIN conversations : conversations[i] \in Conversation
    BY <2>1
  <2> QED
    BY <2>2 DEF Conversation
<1> QED
  BY <1>1 DEF Fresh, Open, Statuses

\* Two of them are never the same contact's.
LEMMA FreshIsOne ==
    ASSUME TypeOK, OneOpenConversation, NEW k, NEW i \in Fresh(k), NEW j \in Fresh(k)
    PROVE  i = j
BY FreshRows DEF OneOpenConversation, Rivals

\* What d has found is still so after its step, and so is the promise.
LEMMA WorkerStep ==
    ASSUME Concurrency = 1, WorkerInv, TypeOK', RowsKept,
           NEW d \in Deliveries, Start(d) \/ Handle(d) \/ DbError(d)
    PROVE  /\ pc'[d] = "addConversation" => Fresh(Item(d).from)' = {}
           /\ pc'[d] \in Filing =>
                 conv'[d] \in revived' \/ Fresh(Item(d).from)' \subseteq {conv'[d]}
           /\ OneOpenConversation'
<1> DEFINE k == Item(d).from
           n == Len(conversations)
           Current == /\ pc'[d] = "addConversation" => Fresh(Item(d).from)' = {}
                      /\ pc'[d] \in Filing =>
                            \/ conv'[d] \in revived'
                            \/ Fresh(Item(d).from)' \subseteq {conv'[d]}
<1>1. /\ TypeOK /\ n \in Nat /\ DOMAIN conversations = 1 .. n
      /\ pc[d] = "addConversation" => Fresh(k) = {}
      /\ pc[d] \in Filing => conv[d] \in revived \/ Fresh(k) \subseteq {conv[d]}
      /\ OneOpenConversation
      /\ revived' = revived
  <2>1. TypeOK /\ OneOpenConversation
    BY DEF WorkerInv, WebhookInv
  <2>2. conversations \in Seq(Conversation)
    BY <2>1 DEF TypeOK
  <2>3. n \in Nat /\ DOMAIN conversations = 1 .. n
    BY <2>2
  <2>4. /\ pc[d] = "addConversation" => Fresh(k) = {}
        /\ pc[d] \in Filing => conv[d] \in revived \/ Fresh(k) \subseteq {conv[d]}
    BY DEF WorkerInv, FoundIsCurrent
  <2> QED
    BY <2>1, <2>3, <2>4, DeliveryLeavesCalls DEF agents
<1>2. Fresh(k) = {i \in 1 .. n : /\ conversations[i].contact = k
                                /\ conversations[i].status # "COMPLETED"
                                /\ i \notin revived}
  BY <1>1, FreshRows
<1>3. ASSUME UNCHANGED conversations
      PROVE  OneOpenConversation'
  BY <1>1, <1>3 DEF OneOpenConversation, Rivals
<1>4. ASSUME UNCHANGED <<conversations, at>>
      PROVE  Fresh(Item(d).from)' = Fresh(k)
  BY <1>1, <1>4 DEF Fresh, Open, Item
<1>5. CASE FindConversation(d)
  <2>1. UNCHANGED <<conversations, at>> /\ pc'[d] \in {"addConversation", "addMessage"}
    BY <1>1, <1>5 DEF FindConversation, Goto, tables, TypeOK
  <2>2. pc'[d] = "addConversation" => Open(k) = {}
    BY <1>1, <1>5 DEF FindConversation, Goto, TypeOK
  <2>3. pc'[d] = "addMessage" => conv'[d] \in Open(k)
    BY <1>1, <1>5 DEF FindConversation, Goto, TypeOK
  <2>4. pc'[d] = "addConversation" => Fresh(k) = {}
    BY <2>2 DEF Fresh
  <2>5. pc'[d] = "addMessage" => conv'[d] \in revived \/ Fresh(k) \subseteq {conv'[d]}
    BY <1>1, <2>3, FreshIsOne DEF Fresh
  <2>6. Fresh(Item(d).from)' = Fresh(k) /\ OneOpenConversation'
    BY <1>3, <1>4, <2>1
  <2> QED
    BY <1>1, <2>1, <2>4, <2>5, <2>6 DEF Filing
<1>6. CASE AddConversation(d)
  <2>1. k \in Contacts /\ pc[d] = "addConversation" /\ at' = at
    BY <1>6, MessageFields
       DEF AddConversation, WorkerInv, WebhookInv, ItemInHand, InHand, Busy
  <2>2. /\ Len(conversations') = n + 1
        /\ \A i \in 1 .. n : conversations'[i] = conversations[i]
        /\ conversations'[n + 1] = [contact |-> k, status |-> "PENDING"]
    BY <1>1, <1>6, <2>1, RowInserted DEF AddConversation, TypeOK
  <2>3. conv'[d] = n + 1 /\ pc'[d] = "addMessage"
    BY <1>1, <1>6 DEF AddConversation, Goto, TypeOK
  <2>4. DOMAIN conversations' = 1 .. n + 1
    BY <2>2 DEF TypeOK
  <2>5. \A i \in 1 .. n : ~(/\ conversations'[i].contact = k
                            /\ conversations'[i].status # "COMPLETED"
                            /\ i \notin revived)
    BY <1>1, <1>2, <2>1, <2>2
  <2>6. OneOpenConversation'
    BY <1>1, <2>2, <2>4, <2>5 DEF OneOpenConversation, Rivals
  <2>7. Fresh(Item(d).from)' \subseteq {n + 1}
    BY <1>1, <2>1, <2>4, <2>5 DEF Fresh, Open, Item
  <2> QED
    BY <2>3, <2>6, <2>7 DEF Filing
<1>7. CASE ReopenWrite(d)
  <2>1. conv[d] \in 1 .. n /\ conversations[conv[d]].contact = k /\ pc[d] = "reopenWrite"
    BY <1>1, <1>7
       DEF ReopenWrite, WorkerInv, WebhookInv, ItemInHand, InHand, Filing, TypeOK
  <2>2. /\ Len(conversations') = n
        /\ \A j \in 1 .. n : /\ conversations'[j].contact = conversations[j].contact
                             /\ j # conv[d] => conversations'[j] = conversations[j]
    BY <1>1, <1>7, <2>1, StatusWritten DEF ReopenWrite, TypeOK, Statuses
  <2>3. DOMAIN conversations' = 1 .. n
    BY <2>2 DEF TypeOK
  <2>4. conv[d] \in revived
        \/ \A j \in 1 .. n : /\ conversations[j].contact = k
                            /\ conversations[j].status # "COMPLETED"
                            /\ j \notin revived
                            => j = conv[d]
    BY <1>1, <1>2, <2>1 DEF Filing
  <2>5. OneOpenConversation'
    BY <1>1, <2>1, <2>2, <2>3, <2>4 DEF OneOpenConversation, Rivals
  <2>6. pc'[d] = "item"
    BY <1>1, <1>7 DEF ReopenWrite, NextItem, Goto, TypeOK
  <2> QED
    BY <2>5, <2>6 DEF Filing
<1>8. CASE AddMessage(d) \/ ReopenCheck(d)
  <2>1. pc[d] \in Filing /\ UNCHANGED conversations
    BY <1>8 DEF AddMessage, ReopenCheck, Filing, Throw, tables
  <2>2. \/ UNCHANGED <<at, conv>> /\ pc'[d] # "addConversation"
        \/ pc'[d] = "item"
    BY <1>1, <1>8 DEF AddMessage, ReopenCheck, Throw, NextItem, Goto, TypeOK
  <2> QED
    BY <1>1, <1>3, <1>4, <2>1, <2>2 DEF Filing
<1>9. ASSUME UNCHANGED conversations,
             pc'[d] \notin Filing \cup {"addConversation"}
      PROVE  Current /\ OneOpenConversation'
  BY <1>3, <1>9
<1>10. CASE \/ Start(d) \/ Finish(d) \/ SkipItem(d) \/ StatusById(d) \/ LookUpContact(d)
            \/ AddContact(d) \/ DbError(d)
  <2>1. /\ UNCHANGED conversations
        /\ pc'[d] \notin Filing \cup {"addConversation"}
    BY <1>1, <1>10 DEF Start, Finish, SkipItem, StatusById, LookUpContact, AddContact,
                       DbError, Throw, NextItem, Goto, Filing, TypeOK, tables
  <2> QED
    BY <1>9, <2>1
<1> QED
  BY <1>5, <1>6, <1>7, <1>8, <1>10 DEF Handle

\* A call of an agent opens a conversation only by way of revived.
LEMMA CallRevives ==
    ASSUME TypeOK, RowsKept, NEW c \in Calls, Call(c)
    PROVE  /\ DOMAIN conversations' = DOMAIN conversations
           /\ revived \subseteq revived'
           /\ \A j \in DOMAIN conversations :
                 /\ conversations'[j].contact = conversations[j].contact
                 /\ conversations'[j].status # "COMPLETED" /\ j \notin revived'
                       => conversations[j].status # "COMPLETED" /\ j \notin revived
<1>1. conversations \in Seq(Conversation) /\ conversations' \in Seq(Conversation)
  BY DEF TypeOK, RowsKept
<1>2. CASE CallWrite(c)
  <2>1. PICK i \in calls[c].rows :
            /\ conversations' = [conversations EXCEPT
                                    ![i].status = Written(calls[c].op)]
            /\ revived' = IF conversations[i].status = "COMPLETED"
                              /\ calls[c].op # "complete"
                          THEN revived \cup {i}
                          ELSE revived
    BY <1>2 DEF CallWrite
  <2>2. /\ i \in DOMAIN conversations
        /\ calls[c].op \in {"accept", "release", "complete"}
        /\ Written(calls[c].op) \in Statuses
    BY <2>1, CallTyped DEF TypeOK
  <2>3. DOMAIN conversations' = DOMAIN conversations
    BY <2>1
  <2>4. \A j \in DOMAIN conversations :
            /\ conversations'[j].contact = conversations[j].contact
            /\ j # i => conversations'[j] = conversations[j]
    <3>1. DOMAIN conversations = 1 .. Len(conversations)
      BY <1>1
    <3> QED
      BY <1>1, <2>1, <2>2, <3>1, StatusWritten
  <2>5. conversations'[i].status = Written(calls[c].op)
    BY <1>1, <2>1, <2>2, StatusWritten
  <2>6. calls[c].op = "complete" => conversations'[i].status = "COMPLETED"
    BY <2>5 DEF Written
  <2>7. revived \subseteq revived'
    BY <2>1
  <2>8. ASSUME NEW j \in DOMAIN conversations,
               conversations'[j].status # "COMPLETED", j \notin revived'
        PROVE  conversations[j].status # "COMPLETED" /\ j \notin revived
    BY <2>1, <2>4, <2>6, <2>7, <2>8
  <2> QED
    BY <2>3, <2>4, <2>7, <2>8
<1>3. CASE ~CallWrite(c)
  <2>1. UNCHANGED <<conversations, revived>>
    BY <1>3 DEF Call, AcceptCheck, ReleaseCheck, CompleteCheck, DisconnectSelect,
                Checked, CallFails, tables
  <2> QED
    BY <2>1
<1> QED
  BY <1>2, <1>3

LEMMA AgentsOpenNothing ==
    ASSUME WorkerInv, RowsKept, TypeOK', NEW c \in Calls, Call(c)
    PROVE  FoundIsCurrent' /\ OneOpenConversation'
<1>1. TypeOK
  BY DEF WorkerInv, WebhookInv
<1>2. UNCHANGED <<pc, at, conv>>
  BY <1>1, CallStep
<1>3. \A k : Fresh(k)' \subseteq Fresh(k)
  <2> SUFFICES ASSUME NEW k, NEW j \in Fresh(k)'
               PROVE  j \in Fresh(k)
    OBVIOUS
  <2>1. /\ j \in DOMAIN conversations' /\ conversations'[j].contact = k
        /\ conversations'[j].status # "COMPLETED" /\ j \notin revived'
    BY DEF Fresh, Open
  <2>2. /\ j \in DOMAIN conversations /\ conversations[j].contact = k
        /\ conversations[j].status # "COMPLETED" /\ j \notin revived
    BY <1>1, <2>1, CallRevives
  <2> QED
    BY <1>1, <2>2, FreshRows
<1>4. FoundIsCurrent'
  <2>1. \A d : Item(d)' = Item(d)
    BY <1>2 DEF Item
  <2>2. revived \subseteq revived'
    BY <1>1, CallRevives
  <2>3. \A d \in Deliveries : Fresh(Item(d).from)' \subseteq Fresh(Item(d).from)
    BY <1>3, <2>1
  <2> QED
    BY <1>2, <2>1, <2>2, <2>3 DEF WorkerInv, FoundIsCurrent
<1>5. OneOpenConversation'
  BY <1>1, CallRevives DEF WorkerInv, OneOpenConversation, Rivals
<1> QED
  BY <1>4, <1>5

LEMMA WorkerInvStep ==
    ASSUME Concurrency = 1, WorkerInv, [Next]_vars
    PROVE  WorkerInv'
<1>1. WebhookInv' /\ RowsKept
  BY WebhookInvStep, RowsStay DEF WorkerInv, WebhookInv
<1>2. ASSUME NEW d \in Deliveries, Start(d) \/ Handle(d) \/ DbError(d)
      PROVE  OneAtATime' /\ FoundIsCurrent' /\ OneOpenConversation'
  <2>1. OneAtATime' /\ \A e \in Deliveries \ {d} : pc'[e] \notin Busy
    BY <1>2, OneStep DEF WorkerInv, WebhookInv
  <2>2. /\ pc'[d] = "addConversation" => Fresh(Item(d).from)' = {}
        /\ pc'[d] \in Filing =>
              conv'[d] \in revived' \/ Fresh(Item(d).from)' \subseteq {conv'[d]}
        /\ OneOpenConversation'
    BY <1>1, <1>2, WorkerStep DEF WebhookInv
  <2> QED
    BY <2>1, <2>2 DEF FoundIsCurrent, Filing, Busy
<1>3. ASSUME NEW c \in Calls, Call(c)
      PROVE  OneAtATime' /\ FoundIsCurrent' /\ OneOpenConversation'
  <2>1. UNCHANGED pc
    BY <1>1, <1>3, CallStep DEF WorkerInv, WebhookInv
  <2> QED
    BY <1>1, <1>3, <2>1, AgentsOpenNothing DEF WorkerInv, WebhookInv, OneAtATime
<1>4. CASE UNCHANGED vars
  <2>1. UNCHANGED <<conversations, pc, at, conv, revived>>
    BY <1>4 DEF vars, handlers, agents
  <2>2. \A d : Fresh(Item(d).from)' = Fresh(Item(d).from)
    BY <2>1 DEF Fresh, Open, Item
  <2>3. FoundIsCurrent'
    BY <2>1, <2>2 DEF WorkerInv, FoundIsCurrent
  <2>4. OneAtATime' /\ OneOpenConversation'
    BY <2>1 DEF WorkerInv, OneAtATime, OneOpenConversation, Rivals
  <2> QED
    BY <1>1, <2>3, <2>4 DEF WorkerInv
<1> QED
  BY <1>1, <1>2, <1>3, <1>4 DEF Next, WorkerInv

\* With one delivery at a time, two conversations of a contact are open at once
\* only by way of an agent's stale write (accept's, release's or releaseByAgent's
\* UPDATE of a row completed since the check).  The worker itself opens no second
\* one, for any payloads and attempts and wherever an attempt breaks off,
\* although findOrCreate is a read and an insert, and reopen a read and a write,
\* and agents check and write between any two of them.
THEOREM OneOpenConversationCorrect ==
    ASSUME Concurrency = 1
    PROVE  Spec => []OneOpenConversation
<1>1. Init => WorkerInv
  BY WebhookInit DEF Init, WorkerInv, OneAtATime, FoundIsCurrent, Filing, Busy,
                     OneOpenConversation, Rivals
<1>2. WorkerInv /\ [Next]_vars => WorkerInv'
  BY WorkerInvStep
<1>3. WorkerInv => OneOpenConversation
  BY DEF WorkerInv
<1> QED
  BY <1>1, <1>2, <1>3, PTL DEF Spec

=============================================================================
