------------------------- MODULE MessageHistoryProofs -------------------------
(***************************************************************************)
(* Theorems about MessageHistory, for any agents, POSTs, page size and     *)
(* numbers of messages, moves and milliseconds.                            *)
(***************************************************************************)
EXTENDS MessageHistory, FiniteSetTheorems, TLAPS

\* The clock does not go back.
TimesAscend ==
    \A j \in DOMAIN messages :
        /\ messages[j].at <= time
        /\ \A i \in 1 .. j : messages[i].at <= messages[j].at

\* The agents of the row and of the POSTs under way have held the conversation.
SendersAreHeld ==
    /\ row.agent \in held \cup {NoAgent}
    /\ \A p \in Posts : sender[p] \in held \cup {NoAgent}

\* A POST past its INSERT has its message, and one about to write the time of
\* first response over another's was there when it was first written.
PostsInHand ==
    \A p \in Posts :
        /\ pc[p] \in {"record", "readFirst", "writeFirst"} => sent[p] # 0
        /\ pc[p] = "writeFirst" /\ first # 0 => sent[p] <= answered

PostInv ==
    /\ TypeOK
    /\ TimesAscend
    /\ SendersAreHeld
    /\ SenderHeldIt
    /\ PostsInHand
    /\ AnsweredHasTime
    /\ LateReplyIsNotFirst

ClientType ==
    client \in [list : Lists, state : {"idle", "reading", "done"},
                next : Nat, known : Nat, got : Seq(Nat)]

IdleHasNothing ==
    client.state = "idle" => client.next = 0 /\ client.known = 0 /\ client.got = <<>>

\* The reader has i, or the last message of one of its pages shares i's time.
Reached(i) ==
    \/ i \in Got
    \/ \E k \in DOMAIN client.got :
          k % Limit = 0 /\ messages[client.got[k]].at = messages[i].at

\* Between two pages of messages the cursor is the last message the reader has,
\* and all that is not older than the cursor is reached.
ReadsMessages ==
    client.list = "messages" =>
        /\ client.known <= Len(messages)
        /\ client.state = "reading" =>
              /\ Len(client.got) # 0 /\ Len(client.got) % Limit = 0
              /\ client.next = client.got[Len(client.got)]
              /\ \A i \in 1 .. client.known :
                    Reached(i) \/ messages[i].at < messages[client.next].at

\* Between two pages of events the reader has all it began with that are among
\* the newest of the pages it has asked for.
ReadsEvents ==
    client.list = "events" =>
        /\ client.known <= events
        /\ client.state = "reading" =>
              \A e \in 1 .. client.known : events - e < client.next * Limit => e \in Got

PagingInv ==
    /\ PostInv
    /\ ClientType
    /\ IdleHasNothing
    /\ ReadsMessages
    /\ ReadsEvents
    /\ PagesDescend
    /\ SkippedSharesTime
    /\ EventsComplete
-----------------------------------------------------------------------------
(* Pages: what Newest and PageOf give of any finite set of rows. *)

\* How many of the rows S are newer than i.
Rank(S, i) == Cardinality({j \in S : j > i})

LEMMA RankBounds ==
    ASSUME NEW S \in SUBSET Nat, IsFiniteSet(S), NEW i \in S
    PROVE  Rank(S, i) \in 0 .. Cardinality(S) - 1
<1>1. IsFiniteSet({j \in S : j > i}) /\ Cardinality({j \in S : j > i}) <= Cardinality(S)
  BY FS_Subset
<1>2. {j \in S : j > i} # S
  OBVIOUS
<1>3. Cardinality({j \in S : j > i}) # Cardinality(S)
  BY <1>2, FS_Subset
<1> QED
  BY <1>1, <1>3, FS_CardinalityType DEF Rank

\* A newer row has a lower rank.
LEMMA RankOrder ==
    ASSUME NEW S \in SUBSET Nat, IsFiniteSet(S), NEW i \in S, NEW j \in S, i < j
    PROVE  Rank(S, j) < Rank(S, i)
<1> DEFINE A == {l \in S : l > i}
           B == {l \in S : l > j}
<1>1. IsFiniteSet(A) /\ B \in SUBSET A /\ B # A
  <2>1. j \in A /\ j \notin B
    OBVIOUS
  <2>2. A \in SUBSET S
    OBVIOUS
  <2>3. IsFiniteSet(A)
    BY <2>2, FS_Subset
  <2>4. B \in SUBSET A
    <3>1. ASSUME NEW l \in S, l > j PROVE l > i
      <4>1. l \in Nat /\ i \in Nat /\ j \in Nat
        OBVIOUS
      <4> QED
        BY <3>1, <4>1
    <3> QED
      BY <3>1
  <2> QED
    BY <2>1, <2>3, <2>4
<1>2. Cardinality(B) <= Cardinality(A) /\ Cardinality(A) # Cardinality(B) /\ IsFiniteSet(B)
  BY <1>1, FS_Subset
<1>3. Cardinality(A) \in Nat /\ Cardinality(B) \in Nat
  BY <1>1, <1>2, FS_CardinalityType
<1> QED
  BY <1>2, <1>3 DEF Rank

\* So every rank there can be is the rank of one row.
LEMMA RankOnto ==
    ASSUME NEW S \in SUBSET Nat, IsFiniteSet(S), NEW k \in 0 .. Cardinality(S) - 1
    PROVE  \E i \in S : Rank(S, i) = k
<1> DEFINE n == Cardinality(S)
           f == [i \in S |-> Rank(S, i)]
<1>1. n \in Nat
  BY FS_CardinalityType
<1>2. IsFiniteSet(0 .. n - 1) /\ Cardinality(0 .. n - 1) = n
  BY <1>1, FS_Interval
<1>3. f \in [S -> 0 .. n - 1]
  BY RankBounds
<1>4. \A i, j \in S : f[i] = f[j] => i = j
  <2>1. SUFFICES ASSUME NEW i \in S, NEW j \in S, i < j
                 PROVE  f[i] # f[j]
    OBVIOUS
  <2>2. Rank(S, j) < Rank(S, i)
    BY <2>1, RankOrder
  <2>3. Rank(S, i) \in Nat /\ Rank(S, j) \in Nat
    BY RankBounds
  <2> QED
    BY <2>2, <2>3
<1>5. f \in Injection(S, 0 .. n - 1)
  <2> HIDE DEF f
  <2> QED
    BY <1>3, <1>4 DEF Injection, IsInjective
<1>6. f \in Surjection(S, 0 .. n - 1)
  BY <1>2, <1>5, FS_Injection
<1> QED
  BY <1>6 DEF Surjection

\* PageOf lists the rows, each once, from new to old.
LEMMA PageLists ==
    ASSUME NEW S \in SUBSET Nat, IsFiniteSet(S)
    PROVE  /\ PageOf(S) \in Seq(S) /\ Len(PageOf(S)) = Cardinality(S)
           /\ Cardinality(S) \in Nat
           /\ \A k \in 1 .. Cardinality(S) :
                 PageOf(S)[k] \in S /\ Rank(S, PageOf(S)[k]) = k - 1
           /\ \A k, l \in 1 .. Cardinality(S) : k < l => PageOf(S)[k] > PageOf(S)[l]
           /\ \A i \in S : \E k \in 1 .. Cardinality(S) : PageOf(S)[k] = i
<1> DEFINE n == Cardinality(S)
<1>1. n \in Nat
  BY FS_CardinalityType
<1>2. ASSUME NEW k \in 1 .. n
      PROVE  PageOf(S)[k] \in S /\ Rank(S, PageOf(S)[k]) = k - 1
  <2>1. k - 1 \in 0 .. n - 1
    BY <1>1
  <2>2. \E i \in S : Rank(S, i) = k - 1
    BY <2>1, RankOnto
  <2>3. PageOf(S)[k] = CHOOSE i \in S : Rank(S, i) = k - 1
    BY DEF PageOf, Rank
  <2> QED
    BY <2>2, <2>3
<1>3. PageOf(S) \in Seq(S) /\ Len(PageOf(S)) = n
  <2> DEFINE g == [k \in 1 .. n |-> CHOOSE i \in S : Rank(S, i) = k - 1]
  <2>1. PageOf(S) = g
    BY DEF PageOf, Rank
  <2>2. \A k \in 1 .. n : g[k] \in S
    BY <1>2, <2>1
  <2>3. g \in [1 .. n -> S]
    BY <2>2
  <2> HIDE DEF g
  <2> QED
    BY <1>1, <2>1, <2>3
<1>4. ASSUME NEW k \in 1 .. n, NEW l \in 1 .. n, k < l
      PROVE  PageOf(S)[k] > PageOf(S)[l]
  <2> DEFINE i == PageOf(S)[k]
             j == PageOf(S)[l]
  <2>1. /\ i \in S /\ Rank(S, i) = k - 1
        /\ j \in S /\ Rank(S, j) = l - 1
    BY <1>2
  <2> HIDE DEF i, j
  <2>2. ~(i < j)
    BY <1>4, <2>1, RankOrder
  <2>3. i # j
    BY <1>4, <2>1
  <2>4. i > j
    BY <2>1, <2>2, <2>3
  <2> QED
    BY <2>4 DEF i, j
<1>5. ASSUME NEW i \in S
      PROVE  \E k \in 1 .. n : PageOf(S)[k] = i
  <2> DEFINE k == Rank(S, i) + 1
             j == PageOf(S)[k]
  <2>1. k \in 1 .. n /\ Rank(S, i) \in Nat
    BY <1>1, RankBounds
  <2>2. j \in S /\ Rank(S, j) = Rank(S, i)
    BY <1>2, <2>1
  <2>3. ~(i < j) /\ ~(j < i)
    <3> HIDE DEF j
    <3>1. ASSUME i < j PROVE FALSE
      BY <2>1, <2>2, <3>1, RankOrder
    <3>2. ASSUME j < i PROVE FALSE
      BY <2>1, <2>2, <3>2, RankOrder
    <3> QED
      BY <3>1, <3>2
  <2>4. i = j
    <3> HIDE DEF j
    <3> QED
      BY <2>2, <2>3
  <2> QED
    BY <2>1, <2>4
<1> QED
  BY <1>1, <1>2, <1>3, <1>4, <1>5

\* Newest keeps the rows of the lowest ranks, with their ranks: n of them, or
\* all if there are no more.
LEMMA NewestRows ==
    ASSUME NEW S \in SUBSET Nat, IsFiniteSet(S), NEW n \in Nat
    PROVE  /\ Newest(S, n) \in SUBSET S /\ IsFiniteSet(Newest(S, n))
           /\ \A i \in Newest(S, n), j \in S : j > i => j \in Newest(S, n)
           /\ \A i \in Newest(S, n) : Rank(Newest(S, n), i) = Rank(S, i)
           /\ Cardinality(S) <= n => Newest(S, n) = S
           /\ Cardinality(S) > n => Cardinality(Newest(S, n)) = n
<1> DEFINE N == Newest(S, n)
<1>1. N = {i \in S : Rank(S, i) < n}
  BY DEF Newest, Rank
<1>2. N \in SUBSET S /\ IsFiniteSet(N)
  BY <1>1, FS_Subset
<1>3. Cardinality(S) \in Nat /\ Cardinality(N) \in Nat
  BY <1>2, FS_CardinalityType
<1> HIDE DEF N
<1>4. ASSUME NEW i \in N, NEW j \in S, j > i
      PROVE  j \in N
  <2>1. Rank(S, j) < Rank(S, i) /\ Rank(S, i) < n
    BY <1>1, <1>4, RankOrder
  <2>2. Rank(S, j) \in Nat /\ Rank(S, i) \in Nat
    BY <1>1, <1>3, RankBounds
  <2> QED
    BY <1>1, <2>1, <2>2
<1>5. ASSUME NEW i \in N
      PROVE  Rank(N, i) = Rank(S, i)
  <2>1. {j \in N : j > i} = {j \in S : j > i}
    BY <1>2, <1>4
  <2> QED
    BY <2>1 DEF Rank
<1>6. ASSUME Cardinality(S) <= n
      PROVE  N = S
  <2>1. \A i \in S : Rank(S, i) < n
    BY <1>3, <1>6, RankBounds
  <2> QED
    BY <1>1, <2>1
<1>7. ASSUME Cardinality(S) > n
      PROVE  Cardinality(N) = n
  <2>1. ~(Cardinality(N) > n)
    <3>1. SUFFICES ASSUME Cardinality(N) > n
                   PROVE  FALSE
      OBVIOUS
    <3>2. PICK i \in N : Rank(N, i) = n
      BY <1>2, <1>3, <3>1, RankOnto
    <3>3. Rank(S, i) = n /\ Rank(S, i) < n
      BY <1>1, <1>5, <3>2
    <3> QED
      BY <3>3
  <2>2. ~(Cardinality(N) < n)
    <3>1. SUFFICES ASSUME Cardinality(N) < n
                   PROVE  FALSE
      OBVIOUS
    <3>2. PICK i \in S : Rank(S, i) = n - 1
      <4>1. n - 1 \in 0 .. Cardinality(S) - 1
        BY <1>3, <1>7, <3>1
      <4> QED
        BY <4>1, RankOnto
    <3>3. i \in N
      BY <1>1, <3>2
    <3>4. Rank(N, i) = n - 1
      BY <1>5, <3>2, <3>3
    <3>5. Rank(N, i) <= Cardinality(N) - 1
      BY <1>2, <1>3, <3>3, RankBounds
    <3> QED
      BY <1>3, <3>1, <3>4, <3>5
  <2> QED
    BY <1>3, <2>1, <2>2
<1> QED
  BY <1>2, <1>4, <1>5, <1>6, <1>7 DEF N

-----------------------------------------------------------------------------
(* POSTs. *)

\* Rows are only added, at the time it is; events are only added.
RowsGrow ==
    /\ messages' \in Seq(Message)
    /\ Len(messages) <= Len(messages')
    /\ \A i \in 1 .. Len(messages) : messages'[i] = messages[i]
    /\ events' \in Nat /\ events <= events'

LEMMA Stored ==
    ASSUME TypeOK, NEW agent \in Agents \cup {NoAgent}, Store(agent)
    PROVE  /\ messages' \in Seq(Message) /\ Len(messages') = Len(messages) + 1
           /\ \A i \in 1 .. Len(messages) : messages'[i] = messages[i]
           /\ messages'[Len(messages) + 1] = [agent |-> agent, at |-> time]
BY DEF TypeOK, Store, Message

\* A call on the assignment, or a message of the contact, leaves the POSTs and the
\* client alone.
LEMMA CallLeavesRest ==
    ASSUME NEW c \in Calls, Call(c)
    PROVE  UNCHANGED <<time, first, answered, posts, client>>
BY DEF Call, AcceptCheck, ReleaseCheck, CompleteCheck, Checked, Receive, ReceiveRecord,
       ReopenCheck, CallWrite, CallAudit, CallFails

\* It stores a message of the contact or none, and one event or none.
LEMMA CallAdds ==
    ASSUME NEW c \in Calls, Call(c)
    PROVE  /\ Store(NoAgent) \/ UNCHANGED messages
           /\ events' = events + 1 \/ UNCHANGED events
BY DEF Call, AcceptCheck, ReleaseCheck, CompleteCheck, Checked, Receive, ReceiveRecord,
       ReopenCheck, CallWrite, CallAudit, CallFails

\* Only its write touches the row and who has held it.
LEMMA CallMoves ==
    ASSUME NEW c \in Calls, Call(c)
    PROVE  CallWrite(c) \/ UNCHANGED <<row, held>>
BY DEF Call, AcceptCheck, ReleaseCheck, CompleteCheck, Checked, Receive, ReceiveRecord,
       ReopenCheck, CallAudit, CallFails

\* The steps that store no message, and those that store one.
LEMMA StoringSteps ==
    ASSUME [Next]_vars
    PROVE  \/ UNCHANGED messages
           \/ \E c \in Calls : Call(c) /\ Store(NoAgent)
           \/ \E p \in Posts : Insert(p)
<1>1. ASSUME NEW c \in Calls, Call(c)
      PROVE  Store(NoAgent) \/ UNCHANGED messages
  BY <1>1, CallAdds
<1> QED
  BY <1>1 DEF Next, vars, Tick, Post, Record, ReadFirst, WriteFirst, Fail, Check,
              FindMessages, FindEvents, Fetch

LEMMA RowsGrowing ==
    ASSUME TypeOK, [Next]_vars
    PROVE  RowsGrow
<1>1. messages \in Seq(Message) /\ events \in Nat
  BY DEF TypeOK
<1>2. events' \in Nat /\ events <= events'
  <2>1. ASSUME NEW c \in Calls, Call(c)
        PROVE  events' = events + 1 \/ events' = events
    BY <2>1, CallAdds
  <2> QED
    BY <1>1, <2>1 DEF Next, vars, Tick, Post, Insert, Record, ReadFirst, WriteFirst, Fail,
                      Check, FindMessages, FindEvents, Fetch
<1>3. CASE UNCHANGED messages
  BY <1>1, <1>2, <1>3 DEF RowsGrow
<1>4. ASSUME NEW agent \in Agents \cup {NoAgent}, Store(agent)
      PROVE  RowsGrow
  <2>1. /\ messages' \in Seq(Message) /\ Len(messages') = Len(messages) + 1
        /\ \A i \in 1 .. Len(messages) : messages'[i] = messages[i]
    BY <1>4, Stored
  <2>2. Len(messages) <= Len(messages')
    BY <1>1, <2>1
  <2> QED
    BY <1>2, <2>1, <2>2 DEF RowsGrow
<1>5. ASSUME NEW p \in Posts, Insert(p)
      PROVE  RowsGrow
  <2>1. sender[p] \in Agents \cup {NoAgent}
    BY DEF TypeOK
  <2> QED
    BY <1>4, <1>5, <2>1 DEF Insert
<1>6. ASSUME Store(NoAgent)
      PROVE  RowsGrow
  BY <1>4, <1>6
<1> QED
  BY <1>3, <1>5, <1>6, StoringSteps

LEMMA TimesStep ==
    ASSUME TypeOK, TimesAscend, [Next]_vars
    PROVE  TimesAscend'
<1> DEFINE n == Len(messages)
<1>1. /\ messages \in Seq(Message) /\ n \in Nat /\ DOMAIN messages = 1 .. n
      /\ time \in Nat
  BY DEF TypeOK
<1>2. time' \in Nat /\ time <= time'
  <2>1. ASSUME NEW c \in Calls, Call(c)
        PROVE  time' = time
    BY <2>1, CallLeavesRest
  <2> QED
    BY <1>1, <2>1 DEF Next, vars, Tick, Post, Insert, Record, ReadFirst, WriteFirst, Fail,
                      Check, FindMessages, FindEvents, Fetch
<1>3. \A i \in 1 .. n : messages[i].at \in Nat
  <2>1. \A i \in 1 .. n : messages[i] \in Message
    BY <1>1
  <2> QED
    BY <2>1 DEF Message
<1>4. CASE UNCHANGED messages
  BY <1>1, <1>2, <1>3, <1>4 DEF TimesAscend
<1>5. ASSUME NEW agent \in Agents \cup {NoAgent}, Store(agent), time' = time
      PROVE  TimesAscend'
  <2>1. /\ Len(messages') = n + 1 /\ messages' \in Seq(Message)
        /\ \A i \in 1 .. n : messages'[i] = messages[i]
        /\ messages'[n + 1] = [agent |-> agent, at |-> time]
    BY <1>5, Stored
  <2>2. DOMAIN messages' = 1 .. n + 1 /\ messages'[n + 1].at = time
    BY <1>1, <2>1
  <2>3. ASSUME NEW j \in 1 .. n
        PROVE  /\ messages'[j].at <= time
               /\ \A i \in 1 .. j : messages'[i].at <= messages'[j].at
    BY <1>1, <2>1 DEF TimesAscend
  <2>4. \A i \in 1 .. n + 1 : messages'[i].at <= time
    BY <1>1, <2>2, <2>3
  <2> QED
    BY <1>1, <1>5, <2>2, <2>3, <2>4 DEF TimesAscend
<1>6. ASSUME NEW c \in Calls, Call(c), Store(NoAgent)
      PROVE  TimesAscend'
  BY <1>5, <1>6, CallLeavesRest
<1>7. ASSUME NEW p \in Posts, Insert(p)
      PROVE  TimesAscend'
  <2>1. sender[p] \in Agents \cup {NoAgent}
    BY DEF TypeOK
  <2> QED
    BY <1>5, <1>7, <2>1 DEF Insert
<1> QED
  BY <1>4, <1>6, <1>7, StoringSteps

LEMMA SendersStep ==
    ASSUME TypeOK, SendersAreHeld, SenderHeldIt, [Next]_vars
    PROVE  SendersAreHeld' /\ SenderHeldIt'
<1>1. messages \in Seq(Message)
  BY DEF TypeOK
<1>2. SendersAreHeld' /\ held \subseteq held'
  <2> USE DEF TypeOK, SendersAreHeld
  <2>1. ASSUME NEW c \in Calls, CallWrite(c)
        PROVE  SendersAreHeld' /\ held \subseteq held'
    <3>1. /\ row' = Written(calls[c])
          /\ held' = held \cup ({calls[c].agent} \ {NoAgent})
          /\ sender' = sender
      BY <2>1 DEF CallWrite, posts
    <3>2. Written(calls[c]).agent \in {calls[c].agent, NoAgent, row.agent}
      BY <2>1 DEF CallWrite, Written, Writing
    <3> QED
      BY <3>1, <3>2
  <2>2. ASSUME NEW c \in Calls, Call(c)
        PROVE  SendersAreHeld' /\ held \subseteq held'
    <3>1. sender' = sender
      BY <2>2, CallLeavesRest DEF posts
    <3>2. CallWrite(c) \/ (row' = row /\ held' = held)
      BY <2>2, CallMoves
    <3> QED
      BY <2>1, <3>1, <3>2
  <2>4. CASE Tick \/ FindMessages \/ FindEvents
    BY <2>4 DEF Tick, FindMessages, FindEvents, Fetch, conversation, posts
  <2>5. ASSUME NEW p \in Posts, NEW a \in Agents, Check(p, a)
        PROVE  SendersAreHeld' /\ held \subseteq held'
    BY <2>5 DEF Check, Begin, Finish, conversation
  <2>6. ASSUME NEW p \in Posts, Post(p) \/ Fail(p)
        PROVE  SendersAreHeld' /\ held \subseteq held'
    <3>1. UNCHANGED conversation
      BY <2>6 DEF Post, Insert, Record, ReadFirst, WriteFirst, Fail
    <3>2. sender' = sender \/ sender' = [sender EXCEPT ![p] = NoAgent]
      BY <2>6 DEF Post, Insert, Record, ReadFirst, WriteFirst, Fail, Goto, Finish
    <3> QED
      BY <3>1, <3>2 DEF conversation
  <2>7. CASE UNCHANGED vars
    BY <2>7 DEF vars, conversation, posts
  <2> QED
    BY <2>2, <2>4, <2>5, <2>6, <2>7 DEF Next
<1>3. ASSUME NEW agent \in held \cup {NoAgent}, Store(agent), agent \in Agents \cup {NoAgent}
      PROVE  SenderHeldIt'
  <2>1. /\ messages' \in Seq(Message) /\ Len(messages') = Len(messages) + 1
        /\ \A i \in 1 .. Len(messages) : messages'[i] = messages[i]
        /\ messages'[Len(messages) + 1] = [agent |-> agent, at |-> time]
    BY <1>3, Stored
  <2>2. DOMAIN messages' = 1 .. Len(messages) + 1 /\ DOMAIN messages = 1 .. Len(messages)
    BY <1>1, <2>1
  <2>3. messages'[Len(messages) + 1].agent = agent
    BY <2>1
  <2> QED
    BY <1>1, <1>2, <1>3, <2>1, <2>2, <2>3 DEF SenderHeldIt
<1>4. CASE UNCHANGED messages
  BY <1>2, <1>4 DEF SenderHeldIt
<1>5. ASSUME Store(NoAgent)
      PROVE  SenderHeldIt'
  <2>1. NoAgent \in held \cup {NoAgent} /\ NoAgent \in Agents \cup {NoAgent}
    OBVIOUS
  <2> QED
    BY <1>3, <1>5, <2>1
<1>6. ASSUME NEW p \in Posts, Insert(p)
      PROVE  SenderHeldIt'
  <2>1. sender[p] \in held \cup {NoAgent} /\ sender[p] \in Agents \cup {NoAgent}
    BY DEF TypeOK, SendersAreHeld
  <2> QED
    BY <1>3, <1>6, <2>1 DEF Insert
<1> QED
  BY <1>2, <1>4, <1>5, <1>6, StoringSteps

\* The race of the first POSTs: whoever has read no time of first response may
\* write it, but all who have are there when the first of them does.
LEMMA PostsStep ==
    ASSUME TypeOK, PostsInHand, AnsweredHasTime, LateReplyIsNotFirst, [Next]_vars
    PROVE  PostsInHand' /\ AnsweredHasTime' /\ LateReplyIsNotFirst'
<1> USE DEF TypeOK, PostsInHand, AnsweredHasTime, LateReplyIsNotFirst
<1> DEFINE Goal == PostsInHand' /\ AnsweredHasTime' /\ LateReplyIsNotFirst'
<1>1. CASE UNCHANGED <<first, answered, posts>>
  BY <1>1 DEF posts
<1>2. ASSUME NEW c \in Calls, Call(c)
      PROVE  Goal
  BY <1>1, <1>2, CallLeavesRest
<1>3. CASE Tick \/ FindMessages \/ FindEvents
  BY <1>1, <1>3 DEF Tick, FindMessages, FindEvents, Fetch
<1>4. ASSUME NEW p \in Posts, NEW a \in Agents, Check(p, a)
      PROVE  Goal
  BY <1>4 DEF Check, Begin, Finish
<1>5. ASSUME NEW p \in Posts, Insert(p)
      PROVE  Goal
  <2>1. Len(messages) \in Nat
    BY DEF TypeOK
  <2> QED
    BY <1>5, <2>1 DEF Insert
<1>6. ASSUME NEW p \in Posts, Record(p)
      PROVE  Goal
  BY <1>6 DEF Record, Goto
<1>7. ASSUME NEW p \in Posts, ReadFirst(p)
      PROVE  Goal
  BY <1>7 DEF ReadFirst, Goto, Finish
<1>8. ASSUME NEW p \in Posts, WriteFirst(p)
      PROVE  Goal
  <2>1. /\ first' = sent[p] /\ sent[p] # 0 /\ Len(messages) \in Nat
        /\ answered' = IF first = 0 THEN Len(messages) ELSE answered
    BY <1>8 DEF WriteFirst
  <2>2. \A q \in Posts : /\ sent[q] \in 0 .. Len(messages)
                         /\ pc[q] = "writeFirst" => sent[q] <= answered'
    BY <2>1
  <2> QED
    BY <1>8, <2>1, <2>2 DEF WriteFirst, Finish
<1>9. ASSUME NEW p \in Posts, Fail(p)
      PROVE  Goal
  BY <1>9 DEF Fail, Finish
<1>10. CASE UNCHANGED vars
  BY <1>1, <1>10 DEF vars
<1> QED
  BY <1>2, <1>3, <1>4, <1>5, <1>6, <1>7, <1>8, <1>9, <1>10 DEF Next, Post

-----------------------------------------------------------------------------
(* The pages a client gets. *)

LEMMA SeqOfSubset ==
    ASSUME NEW S, NEW T, S \subseteq T, NEW s \in Seq(S)
    PROVE  s \in Seq(T)
<1>1. s \in [1 .. Len(s) -> T] /\ Len(s) \in Nat
  OBVIOUS
<1> QED
  BY <1>1

LEMMA RowsAreFinite ==
    ASSUME NEW n \in Nat, NEW S \in SUBSET (1 .. n)
    PROVE  S \in SUBSET Nat /\ IsFiniteSet(S)
<1>1. IsFiniteSet(1 .. n)
  BY FS_Interval
<1>2. IsFiniteSet(S)
  BY <1>1, FS_Subset
<1>3. S \in SUBSET Nat
  OBVIOUS
<1> QED
  BY <1>2, <1>3

MessagePage(c) == PageOf(Newest(Before(c), Limit))

\* A page of messages: older than the cursor and from new to old; the next cursor
\* is the last of them, nothing between two of them is passed over, and without
\* a next cursor nothing is left.
LEMMA PageOfMessages ==
    ASSUME TypeOK, NEW c
    PROVE  /\ MessagePage(c) \in Seq(DOMAIN messages)
           /\ \A k \in 1 .. Len(MessagePage(c)) : MessagePage(c)[k] \in Before(c)
           /\ \A k, l \in 1 .. Len(MessagePage(c)) :
                 k < l => MessagePage(c)[k] > MessagePage(c)[l]
           /\ NextCursor(Before(c)) = 0 =>
                 \A i \in Before(c) : \E k \in 1 .. Len(MessagePage(c)) :
                     MessagePage(c)[k] = i
           /\ NextCursor(Before(c)) # 0 =>
                 /\ Len(MessagePage(c)) = Limit
                 /\ NextCursor(Before(c)) = MessagePage(c)[Limit]
                 /\ \A i \in Before(c) :
                       \/ \E k \in 1 .. Len(MessagePage(c)) : MessagePage(c)[k] = i
                       \/ i < NextCursor(Before(c))
<1> DEFINE S == Before(c)
           N == Newest(S, Limit)
           P == PageOf(N)
<1>1. messages \in Seq(Message) /\ DOMAIN messages = 1 .. Len(messages) /\ Len(messages) \in Nat
  BY DEF TypeOK
<1>2. S \in SUBSET (1 .. Len(messages))
  BY <1>1 DEF Before
<1>3. S \in SUBSET Nat /\ IsFiniteSet(S)
  <2> HIDE DEF S
  <2> QED
    BY <1>1, <1>2, RowsAreFinite
<1>4. Limit \in Nat \ {0}
  BY BoundAssumption
<1> HIDE DEF S
<1>5. /\ N \in SUBSET S /\ IsFiniteSet(N)
      /\ \A i \in N, j \in S : j > i => j \in N
      /\ Cardinality(S) <= Limit => N = S
      /\ Cardinality(S) > Limit => Cardinality(N) = Limit
  BY <1>3, <1>4, NewestRows
<1>6. N \in SUBSET Nat /\ Cardinality(S) \in Nat
  BY <1>3, <1>5, FS_CardinalityType
<1> HIDE DEF N
<1>7. /\ P \in Seq(N) /\ Len(P) = Cardinality(N) /\ Cardinality(N) \in Nat
      /\ \A k \in 1 .. Cardinality(N) : P[k] \in N
      /\ \A k, l \in 1 .. Cardinality(N) : k < l => P[k] > P[l]
      /\ \A i \in N : \E k \in 1 .. Cardinality(N) : P[k] = i
  BY <1>5, <1>6, PageLists
<1>8. HasMore(S) <=> Cardinality(S) > Limit
  <2>1. /\ Cardinality(S) <= Limit + 1 => Newest(S, Limit + 1) = S
        /\ Cardinality(S) > Limit + 1 => Cardinality(Newest(S, Limit + 1)) = Limit + 1
    BY <1>3, <1>4, NewestRows
  <2> QED
    BY <1>4, <1>6, <2>1 DEF HasMore
<1>9. CASE HasMore(S)
  <2>1. Cardinality(N) = Limit /\ NextCursor(S) = P[Limit]
    BY <1>5, <1>8, <1>9 DEF NextCursor, N
  <2>2. P[Limit] \in N /\ P[Limit] # 0
    BY <1>2, <1>4, <1>5, <1>7, <2>1
  <2>3. ASSUME NEW i \in S, i \notin N
        PROVE  i < P[Limit]
    <3> DEFINE last == P[Limit]
    <3>1. last \in N /\ last \in Nat /\ i \in Nat
      BY <1>3, <1>6, <2>2
    <3> HIDE DEF last
    <3>2. i # last /\ ~(i > last)
      BY <1>5, <2>3, <3>1
    <3>3. i < last
      BY <3>1, <3>2
    <3> QED
      BY <3>3 DEF last
  <2>4. \A i \in S : (\E k \in 1 .. Len(P) : P[k] = i) \/ i < P[Limit]
    BY <1>7, <2>3
  <2> QED
    BY <1>1, <1>2, <1>5, <1>7, <2>1, <2>2, <2>4 DEF MessagePage, N, S
<1>10. CASE ~HasMore(S)
  <2>1. NextCursor(S) = 0 /\ N = S
    BY <1>5, <1>6, <1>8, <1>10, <1>4 DEF NextCursor
  <2> QED
    BY <1>1, <1>2, <1>7, <2>1 DEF MessagePage, N, S
<1> QED
  BY <1>9, <1>10

EventPage(p) == PageOf(EventsAt(p))

\* A page of events; one that is not full is the last.
LEMMA PageOfEvents ==
    ASSUME TypeOK, NEW p \in Nat \ {0}
    PROVE  /\ EventPage(p) \in Seq(1 .. events)
           /\ \A e \in EventsAt(p) : \E k \in 1 .. Len(EventPage(p)) : EventPage(p)[k] = e
           /\ Cardinality(EventsAt(p)) < Limit => events < p * Limit
<1> DEFINE S == EventsAt(p)
<1>1. events \in Nat /\ Limit \in Nat \ {0}
  BY BoundAssumption DEF TypeOK
<1>2. S \in SUBSET (1 .. events)
  BY DEF EventsAt
<1>3. S \in SUBSET Nat /\ IsFiniteSet(S)
  <2> HIDE DEF S
  <2> QED
    BY <1>1, <1>2, RowsAreFinite
<1>4. /\ EventPage(p) \in Seq(S)
      /\ \A e \in S : \E k \in 1 .. Len(EventPage(p)) : EventPage(p)[k] = e
  BY <1>3, PageLists DEF EventPage
<1>5. EventPage(p) \in Seq(1 .. events)
  <2> HIDE DEF S
  <2> QED
    BY <1>2, <1>4, SeqOfSubset
<1>6. ASSUME events >= p * Limit
      PROVE  Cardinality(S) = Limit
  <2> DEFINE top == events - p * Limit
  <2>1. p * Limit \in Nat /\ (p - 1) * Limit = p * Limit - Limit
    BY <1>1
  <2>2. top \in Nat
    BY <1>1, <1>6, <2>1
  <2>3. S = (top + 1) .. (top + Limit)
    BY <1>1, <2>1, <2>2 DEF EventsAt
  <2> HIDE DEF top, S
  <2> QED
    BY <1>1, <2>2, <2>3, FS_Interval
<1>7. p * Limit \in Nat
  BY <1>1
<1> QED
  BY <1>1, <1>4, <1>5, <1>6, <1>7

\* What a fetch makes of the client.
LEMMA Fetched ==
    ASSUME ClientType, NEW list, NEW n \in Nat, NEW page \in Seq(Nat), NEW next \in Nat,
           Fetch(list, n, page, next)
    PROVE  /\ client.list = list /\ client'.list = list
           /\ client.state \in {"idle", "reading"}
           /\ client'.state = IF next = 0 THEN "done" ELSE "reading"
           /\ client'.next = next
           /\ client'.known = IF client.state = "idle" THEN n ELSE client.known
           /\ client'.got = client.got \o page
           /\ ClientType'
<1>1. /\ client.list = list /\ client.state \in {"idle", "reading"}
      /\ client' = [client EXCEPT
                       !.state = IF next = 0 THEN "done" ELSE "reading",
                       !.next = next,
                       !.known = IF client.state = "idle" THEN n ELSE @,
                       !.got = @ \o page]
  BY DEF Fetch
<1>2. /\ client.list \in Lists /\ client.known \in Nat /\ client.got \in Seq(Nat)
      /\ client.got \o page \in Seq(Nat)
  BY DEF ClientType
<1>3. /\ client'.list = client.list
      /\ client'.state = IF next = 0 THEN "done" ELSE "reading"
      /\ client'.next = next
      /\ client'.known = IF client.state = "idle" THEN n ELSE client.known
      /\ client'.got = client.got \o page
  BY <1>1 DEF ClientType
<1>4. client' = [list |-> client'.list, state |-> client'.state, next |-> client'.next,
                 known |-> client'.known, got |-> client'.got]
  BY <1>1 DEF ClientType
<1>5. client' \in [list : Lists, state : {"idle", "reading", "done"},
                   next : Nat, known : Nat, got : Seq(Nat)]
  BY <1>2, <1>3, <1>4
<1> QED
  BY <1>1, <1>3, <1>5 DEF ClientType

LEMMA MessagesFetched ==
    ASSUME TypeOK, ClientType, FindMessages
    PROVE  /\ client.list = "messages" /\ client'.list = "messages"
           /\ client.state \in {"idle", "reading"}
           /\ client'.state = IF NextCursor(Before(client.next)) = 0
                                 THEN "done" ELSE "reading"
           /\ client'.next = NextCursor(Before(client.next))
           /\ client'.known = IF client.state = "idle" THEN Len(messages)
                                                       ELSE client.known
           /\ client'.got = client.got \o MessagePage(client.next)
           /\ ClientType'
<1> DEFINE P == MessagePage(client.next)
           next == NextCursor(Before(client.next))
<1>1. Len(messages) \in Nat /\ DOMAIN messages = 1 .. Len(messages)
  BY DEF TypeOK
<1>2. P \in Seq(DOMAIN messages) /\ (next # 0 => Len(P) = Limit /\ next = P[Limit])
  BY PageOfMessages
<1>3. P \in Seq(Nat) /\ next \in Nat
  <2> HIDE DEF P, next
  <2> QED
    BY <1>1, <1>2, BoundAssumption
<1>4. Fetch("messages", Len(messages), P, next)
  BY DEF FindMessages, MessagePage
<1> HIDE DEF P, next
<1>5. /\ client.list = "messages" /\ client'.list = "messages"
      /\ client.state \in {"idle", "reading"}
      /\ client'.state = IF next = 0 THEN "done" ELSE "reading"
      /\ client'.next = next
      /\ client'.known = IF client.state = "idle" THEN Len(messages) ELSE client.known
      /\ client'.got = client.got \o P
      /\ ClientType'
  BY <1>1, <1>3, <1>4, Fetched
<1> QED
  BY <1>5 DEF P, next

LEMMA EventsFetched ==
    ASSUME TypeOK, ClientType, FindEvents
    PROVE  /\ client.list = "events" /\ client'.list = "events"
           /\ client.state \in {"idle", "reading"}
           /\ client'.state = IF Cardinality(EventsAt(client.next + 1)) < Limit
                                 THEN "done" ELSE "reading"
           /\ client'.state = "reading" => client'.next = client.next + 1
           /\ client'.known = IF client.state = "idle" THEN events ELSE client.known
           /\ client'.got = client.got \o EventPage(client.next + 1)
           /\ ClientType'
<1> DEFINE p == client.next + 1
           P == EventPage(p)
           next == IF Cardinality(EventsAt(p)) < Limit THEN 0 ELSE p
<1>1. events \in Nat /\ p \in Nat \ {0}
  BY DEF TypeOK
<1> HIDE DEF p
<1>2. P \in Seq(1 .. events)
  BY <1>1, PageOfEvents
<1>3. P \in Seq(Nat) /\ next \in Nat
  <2>1. P \in Seq(Nat)
    <3> HIDE DEF P
    <3> QED
      BY <1>1, <1>2
  <2> QED
    BY <1>1, <2>1
<1>4. Fetch("events", events, P, next)
  BY DEF FindEvents, EventPage, p
<1> HIDE DEF P, next
<1>5. /\ client.list = "events" /\ client'.list = "events"
      /\ client.state \in {"idle", "reading"}
      /\ client'.state = IF next = 0 THEN "done" ELSE "reading"
      /\ client'.next = next
      /\ client'.known = IF client.state = "idle" THEN events ELSE client.known
      /\ client'.got = client.got \o P
      /\ ClientType'
  BY <1>1, <1>3, <1>4, Fetched
<1> QED
  BY <1>1, <1>5 DEF P, next, p

-----------------------------------------------------------------------------
(* Types, for the client as for the rest. *)

\* The steps that are not the client's.
LEMMA OtherSteps ==
    ASSUME [Next]_vars
    PROVE  \/ UNCHANGED client
           \/ FindMessages
           \/ FindEvents
<1>1. ASSUME NEW c \in Calls, Call(c)
      PROVE  UNCHANGED client
  BY <1>1, CallLeavesRest
<1> QED
  BY <1>1 DEF Next, vars, Tick, Post, Insert, Record, ReadFirst, WriteFirst, Fail, Check

LEMMA ClientTypes ==
    ASSUME TypeOK, ClientType, RowsGrow, [Next]_vars
    PROVE  /\ ClientType'
           /\ client'.got \in Seq(IF client'.list = "messages" THEN DOMAIN messages'
                                                               ELSE 1 .. events')
<1> DEFINE had == IF client.list = "messages" THEN DOMAIN messages ELSE 1 .. events
           has == IF client.list = "messages" THEN DOMAIN messages' ELSE 1 .. events'
<1>1. /\ DOMAIN messages = 1 .. Len(messages) /\ Len(messages) \in Nat
      /\ DOMAIN messages' = 1 .. Len(messages') /\ Len(messages') \in Nat
      /\ events \in Nat
  BY DEF TypeOK, RowsGrow
<1>2. had \subseteq has
  BY <1>1 DEF RowsGrow
<1>3. client.got \in Seq(had)
  BY DEF TypeOK
<1> HIDE DEF had, has
<1>4. client.got \in Seq(has)
  BY <1>2, <1>3, SeqOfSubset
<1>5. CASE UNCHANGED client
  BY <1>4, <1>5 DEF ClientType, has
<1>6. CASE FindMessages
  <2>1. /\ client.list = "messages" /\ client'.list = "messages"
        /\ client'.got = client.got \o MessagePage(client.next)
        /\ ClientType'
    BY <1>6, MessagesFetched
  <2>2. MessagePage(client.next) \in Seq(has)
    <3>1. MessagePage(client.next) \in Seq(had)
      BY <2>1, PageOfMessages DEF had
    <3> QED
      BY <1>2, <3>1, SeqOfSubset
  <2>3. client'.got \in Seq(has)
    BY <1>4, <2>1, <2>2
  <2> QED
    BY <2>1, <2>3 DEF has
<1>7. CASE FindEvents
  <2>1. /\ client.list = "events" /\ client'.list = "events"
        /\ client'.got = client.got \o EventPage(client.next + 1)
        /\ ClientType'
    BY <1>7, EventsFetched
  <2>2. EventPage(client.next + 1) \in Seq(has)
    <3>1. client.next + 1 \in Nat \ {0}
      BY DEF ClientType
    <3>2. EventPage(client.next + 1) \in Seq(had)
      BY <2>1, <3>1, PageOfEvents DEF had
    <3> QED
      BY <1>2, <3>2, SeqOfSubset
  <2>3. client'.got \in Seq(has)
    BY <1>4, <2>1, <2>2
  <2> QED
    BY <2>1, <2>3 DEF has
<1> QED
  BY <1>5, <1>6, <1>7, OtherSteps

\* The row, who has held it, and the calls on it.
RowTypes ==
    /\ row \in [status : Statuses, agent : Agents \cup {NoAgent}]
    /\ row.status = "PENDING" => row.agent = NoAgent
    /\ row.status = "ASSIGNED" => row.agent # NoAgent
    /\ held \subseteq Agents
    /\ moves \in 0 .. MaxMoves

Ops == {"none", "record", "reopenCheck", "audit"} \cup Writing

CallTypes ==
    /\ calls \in [Calls -> [op : Ops, agent : Agents \cup {NoAgent}]]
    /\ \A c \in Calls : calls[c].op = "accept" <=> calls[c].agent # NoAgent

LEMMA CallTypesStep ==
    ASSUME TypeOK, NEW c \in Calls, Call(c)
    PROVE  CallTypes'
<1> USE AgentAssumption
<1>1. CallTypes
  BY DEF TypeOK, CallTypes, Ops
<1>2. ASSUME NEW op \in Ops, NEW agent \in Agents \cup {NoAgent},
             op = "accept" <=> agent # NoAgent,
             calls' = [calls EXCEPT ![c] = [op |-> op, agent |-> agent]]
      PROVE  CallTypes'
  <2>1. [op |-> op, agent |-> agent] \in [op : Ops, agent : Agents \cup {NoAgent}]
    OBVIOUS
  <2>2. calls' \in [Calls -> [op : Ops, agent : Agents \cup {NoAgent}]]
    BY <1>1, <1>2, <2>1 DEF CallTypes
  <2>3. \A d \in Calls : calls'[d].op = "accept" <=> calls'[d].agent # NoAgent
    BY <1>1, <1>2 DEF CallTypes
  <2> QED
    BY <2>2, <2>3 DEF CallTypes
<1>3. CASE AcceptCheck(c)
  <2>1. PICK a \in Agents : calls' = [calls EXCEPT ![c] = [op |-> "accept", agent |-> a]]
    BY <1>3 DEF AcceptCheck, Checked, Goes
  <2>2. "accept" \in Ops /\ a \in Agents \cup {NoAgent} /\ a # NoAgent
    BY DEF Ops, Writing
  <2> QED
    BY <1>2, <2>1, <2>2
<1>4. ASSUME NEW op \in Ops \ {"accept"}, Goes(c, op, NoAgent)
      PROVE  CallTypes'
  <2>1. calls' = [calls EXCEPT ![c] = [op |-> op, agent |-> NoAgent]]
    BY <1>4 DEF Goes
  <2>2. op \in Ops /\ op # "accept" /\ NoAgent \in Agents \cup {NoAgent}
    OBVIOUS
  <2> QED
    BY <1>2, <2>1, <2>2
<1>5. ASSUME Ends(c)
      PROVE  CallTypes'
  <2>1. Goes(c, "none", NoAgent) /\ "none" \in Ops \ {"accept"}
    BY <1>5 DEF Ends, Goes, NoCall, Ops, Writing
  <2> QED
    BY <1>4, <2>1
<1>6. CASE ReleaseCheck(c) \/ CompleteCheck(c)
  <2>1. Goes(c, "release", NoAgent) \/ Goes(c, "complete", NoAgent)
    BY <1>6 DEF ReleaseCheck, CompleteCheck, Checked
  <2>2. {"release", "complete"} \subseteq Ops \ {"accept"}
    BY DEF Ops, Writing
  <2> QED
    BY <1>4, <2>1, <2>2
<1>7. CASE Receive(c) \/ ReceiveRecord(c) \/ ReopenCheck(c)
  <2>1. \/ Goes(c, "record", NoAgent) \/ Goes(c, "reopenCheck", NoAgent)
        \/ Goes(c, "reopen", NoAgent) \/ Ends(c)
    BY <1>7 DEF Receive, ReceiveRecord, ReopenCheck
  <2>2. {"record", "reopenCheck", "reopen"} \subseteq Ops \ {"accept"}
    BY DEF Ops, Writing
  <2> QED
    BY <1>4, <1>5, <2>1, <2>2
<1>8. CASE CallWrite(c) \/ CallAudit(c) \/ CallFails(c)
  <2>1. Goes(c, "audit", NoAgent) \/ Ends(c)
    BY <1>8 DEF CallWrite, CallAudit, CallFails
  <2>2. "audit" \in Ops \ {"accept"}
    BY DEF Ops, Writing
  <2> QED
    BY <1>4, <1>5, <2>1, <2>2
<1> QED
  BY <1>3, <1>6, <1>7, <1>8 DEF Call

LEMMA RowTypesStep ==
    ASSUME TypeOK, NEW c \in Calls, Call(c)
    PROVE  RowTypes'
<1> USE AgentAssumption
<1>1. RowTypes
  BY DEF TypeOK, RowTypes
<1>2. moves' \in 0 .. MaxMoves
  <2>1. moves \in 0 .. MaxMoves
    BY DEF TypeOK
  <2>2. \/ moves' = moves
        \/ moves < MaxMoves /\ moves' = moves + 1
    BY DEF Call, AcceptCheck, ReleaseCheck, CompleteCheck, Checked, Receive, ReceiveRecord,
           ReopenCheck, CallWrite, CallAudit, CallFails
  <2> QED
    BY <2>1, <2>2, BoundAssumption
<1>3. CASE UNCHANGED <<row, held>>
  BY <1>1, <1>2, <1>3 DEF RowTypes
<1>4. CASE CallWrite(c)
  <2> DEFINE agent == calls[c].agent
  <2>1. /\ calls[c].op \in Writing
        /\ row' = Written(calls[c])
        /\ held' = held \cup ({agent} \ {NoAgent})
    BY <1>4 DEF CallWrite
  <2>2. agent \in Agents \cup {NoAgent} /\ (calls[c].op = "accept" <=> agent # NoAgent)
    BY DEF TypeOK
  <2>3. CASE calls[c].op = "accept"
    <3>1. row' = [status |-> "ASSIGNED", agent |-> agent]
      BY <2>1, <2>3 DEF Written
    <3> QED
      BY <1>1, <1>2, <2>1, <2>2, <2>3, <3>1 DEF RowTypes, Statuses
  <2>4. CASE calls[c].op \in {"release", "reopen"}
    <3>1. row' = [status |-> "PENDING", agent |-> NoAgent]
      BY <2>1, <2>4 DEF Written
    <3> QED
      BY <1>1, <1>2, <2>1, <2>2, <3>1 DEF RowTypes, Statuses
  <2>5. CASE calls[c].op = "complete"
    <3>1. row' = [row EXCEPT !.status = "COMPLETED"]
      BY <2>1, <2>5 DEF Written
    <3> QED
      BY <1>1, <1>2, <2>1, <2>2, <3>1 DEF RowTypes, Statuses
  <2> QED
    BY <2>1, <2>3, <2>4, <2>5 DEF Writing
<1> QED
  BY <1>3, <1>4, CallMoves

LEMMA TypeStep ==
    ASSUME TypeOK, SendersAreHeld, ClientType, RowsGrow, [Next]_vars
    PROVE  TypeOK'
<1> DEFINE PostTypes ==
              /\ first \in 0 .. Len(messages)
              /\ answered \in 0 .. Len(messages)
              /\ pc \in [Posts -> {"idle", "insert", "record", "readFirst", "writeFirst",
                                   "done", "refused", "failed"}]
              /\ sender \in [Posts -> Agents \cup {NoAgent}]
              /\ sent \in [Posts -> 0 .. Len(messages)]
<1>1. RowTypes' /\ CallTypes'
  <2>1. ASSUME NEW c \in Calls, Call(c)
        PROVE  RowTypes' /\ CallTypes'
    BY <2>1, RowTypesStep, CallTypesStep
  <2>2. CASE UNCHANGED conversation
    BY <2>2 DEF TypeOK, RowTypes, CallTypes, Ops, conversation
  <2> QED
    BY <2>1, <2>2 DEF Next, vars, Tick, Post, Insert, Record, ReadFirst, WriteFirst, Fail,
                      Check, FindMessages, FindEvents, Fetch
<1>4. time' \in 0 .. MaxTime
  <2>1. ASSUME NEW c \in Calls, Call(c)
        PROVE  time' = time
    BY <2>1, CallLeavesRest
  <2>2. time \in 0 .. MaxTime
    BY DEF TypeOK
  <2> QED
    BY <2>1, <2>2, BoundAssumption
       DEF Next, vars, Tick, Post, Insert, Record, ReadFirst, WriteFirst, Fail, Check,
           FindMessages, FindEvents, Fetch
<1>2. PostTypes'
  <2> DEFINE n == Len(messages)
  <2>1. n \in Nat /\ Len(messages') \in Nat /\ n <= Len(messages')
    BY DEF TypeOK, RowsGrow
  <2>2. CASE UNCHANGED <<first, answered, posts>>
    BY <2>1, <2>2 DEF TypeOK, posts
  <2>3. ASSUME NEW p \in Posts, Insert(p)
        PROVE  PostTypes'
    <3>1. Len(messages') = n + 1
      <4>1. sender[p] \in Agents \cup {NoAgent}
        BY DEF TypeOK
      <4> QED
        BY <2>3, <4>1, Stored DEF Insert
    <3> QED
      BY <2>1, <2>3, <3>1 DEF Insert, TypeOK
  <2>4. ASSUME NEW p \in Posts,
               \/ Record(p) \/ ReadFirst(p) \/ Fail(p) \/ \E a \in Agents : Check(p, a)
        PROVE  PostTypes'
    <3>1. UNCHANGED <<messages, first, answered>>
      BY <2>4 DEF Record, ReadFirst, Fail, Check
    <3>2. \/ \E step \in {"readFirst", "writeFirst"} : Goto(p, step)
          \/ \E step \in {"done", "failed", "refused"} : Finish(p, step)
          \/ \E a \in Agents : Begin(p, a)
      BY <2>4 DEF Record, ReadFirst, Fail, Check
    <3>3. PostTypes
      BY DEF TypeOK
    <3>4. pc' \in [Posts -> {"idle", "insert", "record", "readFirst", "writeFirst",
                             "done", "refused", "failed"}]
      BY <3>2, <3>3 DEF Goto, Finish, Begin
    <3>5. sender' \in [Posts -> Agents \cup {NoAgent}]
      BY <3>2, <3>3 DEF Goto, Finish, Begin
    <3>6. sent' \in [Posts -> 0 .. n]
      <4>1. sent' = sent \/ sent' = [sent EXCEPT ![p] = 0]
        BY <3>2 DEF Goto, Finish, Begin
      <4> QED
        BY <2>1, <3>3, <4>1
    <3> QED
      BY <3>1, <3>3, <3>4, <3>5, <3>6
  <2>5. ASSUME NEW p \in Posts, WriteFirst(p)
        PROVE  PostTypes'
    BY <2>1, <2>5 DEF WriteFirst, Finish, TypeOK
  <2>6. ASSUME NEW c \in Calls, Call(c)
        PROVE  PostTypes'
    BY <2>2, <2>6, CallLeavesRest
  <2> QED
    BY <2>2, <2>3, <2>4, <2>5, <2>6
       DEF Next, vars, Post, Tick, FindMessages, FindEvents, Fetch
<1>3. client'.list \in Lists /\ client'.state \in {"idle", "reading", "done"}
      /\ client'.next \in Nat /\ client'.known \in Nat
      /\ client'.got \in Seq(IF client'.list = "messages" THEN DOMAIN messages'
                                                          ELSE 1 .. events')
  BY ClientTypes DEF ClientType
<1> QED
  BY <1>1, <1>2, <1>3, <1>4 DEF TypeOK, RowsGrow, RowTypes, CallTypes, Ops

-----------------------------------------------------------------------------
(* Reading page by page. *)

\* Two lists end to end.
LEMMA Joined ==
    ASSUME NEW S, NEW s \in Seq(S), NEW t \in Seq(S)
    PROVE  /\ s \o t \in Seq(S) /\ Len(s \o t) = Len(s) + Len(t)
           /\ Len(s) \in Nat /\ Len(t) \in Nat
           /\ \A k \in 1 .. Len(s) : (s \o t)[k] = s[k]
           /\ \A k \in 1 .. Len(t) : (s \o t)[Len(s) + k] = t[k]
           /\ \A k \in Len(s) + 1 .. Len(s) + Len(t) : (s \o t)[k] = t[k - Len(s)]
OBVIOUS

\* A page more is a multiple of the page size more.
LEMMA NextMultiple ==
    ASSUME NEW n \in Nat, n % Limit = 0
    PROVE  (n + Limit) % Limit = 0
<1>1. Limit \in Nat \ {0}
  BY BoundAssumption
<1>2. PICK c \in Nat : n = c * Limit
  <2>1. \A a \in Nat, b \in Nat \ {0} : a % b = 0 => \E c \in Nat : a = c * b
    OBVIOUS
  <2> QED
    BY <1>1, <2>1
<1>3. n + Limit = (c + 1) * Limit
  BY <1>1, <1>2
<1>4. \A a \in Nat, b \in Nat \ {0} : (a * b) % b = 0
  OBVIOUS
<1>5. ((c + 1) * Limit) % Limit = 0
  BY <1>1, <1>2, <1>4
<1> QED
  BY <1>1, <1>2, <1>3, <1>5

LEMMA PagesDescendStep ==
    ASSUME TypeOK, TimesAscend, ClientType, IdleHasNothing, ReadsMessages, PagesDescend,
           [Next]_vars
    PROVE  PagesDescend'
<1> DEFINE got == client.got
           c == client.next
           P == MessagePage(c)
<1>1. CASE UNCHANGED client
  BY <1>1 DEF PagesDescend
<1>2. CASE FindEvents
  BY <1>2, EventsFetched DEF PagesDescend
<1>3. CASE FindMessages
  <2>1. /\ client.list = "messages" /\ client'.list = "messages"
        /\ client.state \in {"idle", "reading"}
        /\ client'.got = got \o P
    BY <1>3, MessagesFetched
  <2>2. messages \in Seq(Message) /\ DOMAIN messages = 1 .. Len(messages)
        /\ Len(messages) \in Nat
    BY DEF TypeOK
  <2>3. got \in Seq(DOMAIN messages)
    BY <2>1 DEF TypeOK
  <2>4. /\ P \in Seq(DOMAIN messages)
        /\ \A k \in 1 .. Len(P) : P[k] \in Before(c)
        /\ \A k, l \in 1 .. Len(P) : k < l => P[k] > P[l]
    BY PageOfMessages
  <2>5. /\ DOMAIN got = 1 .. Len(got) /\ Len(got) \in Nat
        /\ \A j, k \in 1 .. Len(got) : j < k => got[j] > got[k]
    BY <2>1, <2>3 DEF PagesDescend
  <2>6. ASSUME NEW j \in 1 .. Len(got), NEW k \in 1 .. Len(P)
        PROVE  P[k] < got[j]
    <3>1. client.state = "reading"
      BY <2>1, <2>5 DEF IdleHasNothing
    <3>2. c = got[Len(got)] /\ Len(got) \in 1 .. Len(got)
      BY <2>1, <2>5, <3>1 DEF ReadsMessages
    <3>3. c \in DOMAIN messages /\ got[j] \in DOMAIN messages
      BY <2>3, <3>2
    <3>4. P[k] \in Before(c)
      BY <2>4
    <3>5. P[k] \in DOMAIN messages /\ messages[P[k]].at < messages[c].at
      BY <2>2, <3>3, <3>4 DEF Before
    <3> DEFINE i == P[k]
    <3> HIDE DEF i
    <3>6. i \in DOMAIN messages /\ messages[i].at < messages[c].at
      BY <3>5 DEF i
    <3>7. messages[i] \in Message /\ messages[c] \in Message
      BY <2>2, <3>3, <3>6
    <3>8. messages[i].at \in Nat /\ messages[c].at \in Nat
      BY <3>7 DEF Message
    <3>9. c <= i => messages[c].at <= messages[i].at
      BY <2>2, <3>3, <3>6 DEF TimesAscend
    <3>10. i < c
      BY <2>2, <3>3, <3>6, <3>8, <3>9
    <3>11. c <= got[j]
      BY <2>2, <2>5, <3>2, <3>3
    <3>12. i < got[j]
      BY <2>2, <3>3, <3>6, <3>10, <3>11
    <3> QED
      BY <3>12 DEF i
  <2> HIDE DEF P, c, got
  <2>7. /\ Len(got \o P) = Len(got) + Len(P) /\ Len(got) \in Nat /\ Len(P) \in Nat
        /\ DOMAIN (got \o P) = 1 .. Len(got) + Len(P)
        /\ \A k \in 1 .. Len(got) : (got \o P)[k] = got[k]
        /\ \A k \in Len(got) + 1 .. Len(got) + Len(P) : (got \o P)[k] = P[k - Len(got)]
    <3>1. got \o P \in Seq(DOMAIN messages)
      BY <2>3, <2>4
    <3> QED
      BY <2>3, <2>4, <3>1, Joined
  <2>8. ASSUME NEW j \in DOMAIN (got \o P), NEW k \in DOMAIN (got \o P), j < k
        PROVE  (got \o P)[j] > (got \o P)[k]
    <3>1. CASE k <= Len(got)
      BY <2>5, <2>7, <2>8, <3>1
    <3>2. CASE j <= Len(got) /\ k > Len(got)
      <4> DEFINE l == k - Len(got)
      <4>1. j \in 1 .. Len(got) /\ l \in 1 .. Len(P)
        BY <2>7, <3>2
      <4>2. (got \o P)[j] = got[j] /\ (got \o P)[k] = P[l]
        BY <2>7, <3>2
      <4>3. P[l] < got[j]
        BY <2>6, <4>1
      <4>4. P[l] \in DOMAIN messages /\ got[j] \in DOMAIN messages
        BY <2>3, <2>4, <4>1
      <4> HIDE DEF l
      <4> QED
        BY <2>2, <4>2, <4>3, <4>4
    <3>3. CASE j > Len(got)
      <4> DEFINE l == j - Len(got)
                 m == k - Len(got)
      <4>1. l \in 1 .. Len(P) /\ m \in 1 .. Len(P) /\ l < m
        BY <2>7, <2>8, <3>3
      <4>2. (got \o P)[j] = P[l] /\ (got \o P)[k] = P[m]
        BY <2>7, <2>8, <3>3
      <4> HIDE DEF l, m
      <4> QED
        BY <2>4, <4>1, <4>2
    <3> QED
      BY <2>7, <2>8, <3>1, <3>2, <3>3
  <2> QED
    BY <2>1, <2>8 DEF PagesDescend
<1> QED
  BY <1>1, <1>2, <1>3, OtherSteps

\* The elements of a sequence over S are in S, and a longer sequence has the
\* positions of a shorter one.
LEMMA ElementOf ==
    ASSUME NEW S, NEW s \in Seq(S), NEW k \in DOMAIN s
    PROVE  s[k] \in S
OBVIOUS

LEMMA LongerRange ==
    ASSUME NEW a \in Nat, NEW b \in Nat, a <= b, NEW k \in 1 .. a
    PROVE  k \in 1 .. b
OBVIOUS

\* What has been read stays read, and rows keep their times.
LEMMA ReachedStays ==
    ASSUME TypeOK, RowsGrow, client.list = "messages",
           client'.got \in Seq(Nat), Len(client.got) <= Len(client'.got),
           \A k \in 1 .. Len(client.got) : client'.got[k] = client.got[k],
           NEW i \in DOMAIN messages, Reached(i)
    PROVE  Reached(i)'
<1>1. messages \in Seq(Message) /\ client.got \in Seq(DOMAIN messages)
  BY DEF TypeOK
<1>2. ASSUME NEW k \in DOMAIN client.got
      PROVE  k \in DOMAIN client'.got /\ client'.got[k] = client.got[k]
  <2>1. DOMAIN client.got = 1 .. Len(client.got) /\ Len(client.got) \in Nat
    BY <1>1
  <2>2. DOMAIN client'.got = 1 .. Len(client'.got) /\ Len(client'.got) \in Nat
    OBVIOUS
  <2>3. k \in 1 .. Len(client.got)
    BY <2>1
  <2>4. k \in 1 .. Len(client'.got)
    BY <2>1, <2>2, <2>3, LongerRange
  <2> QED
    BY <2>2, <2>3, <2>4
<1>3. ASSUME NEW k \in DOMAIN messages
      PROVE  messages'[k] = messages[k]
  <2>1. k \in 1 .. Len(messages)
    BY <1>1
  <2> QED
    BY <2>1 DEF RowsGrow
<1>4. CASE i \in Got
  <2>1. PICK k \in DOMAIN client.got : client.got[k] = i
    BY <1>4 DEF Got
  <2>2. k \in DOMAIN client'.got /\ client'.got[k] = i
    BY <1>2, <2>1
  <2> QED
    BY <2>2 DEF Reached, Got
<1>5. ASSUME NEW k \in DOMAIN client.got,
             k % Limit = 0, messages[client.got[k]].at = messages[i].at
      PROVE  Reached(i)'
  <2>1. k \in DOMAIN client'.got /\ client'.got[k] = client.got[k]
    BY <1>2
  <2>2. client.got[k] \in DOMAIN messages
    BY <1>1, ElementOf
  <2>3. messages'[client'.got[k]].at = messages'[i].at
    BY <1>3, <1>5, <2>1, <2>2
  <2> QED
    BY <1>5, <2>1, <2>3 DEF Reached
<1> QED
  BY <1>4, <1>5 DEF Reached

\* A page of messages is added to what has been read.
LEMMA PageAdded ==
    ASSUME TypeOK, TimesAscend, ClientType, IdleHasNothing, ReadsMessages, RowsGrow,
           FindMessages
    PROVE  /\ client'.known <= Len(messages')
           /\ client'.state = "reading" =>
                 /\ Len(client'.got) # 0 /\ Len(client'.got) % Limit = 0
                 /\ client'.next = client'.got[Len(client'.got)]
           /\ \A i \in 1 .. client'.known :
                 Reached(i)' \/ (/\ client'.state = "reading"
                                 /\ messages'[i].at < messages'[client'.next].at)
<1> DEFINE got == client.got
           c == client.next
           P == MessagePage(c)
           next == NextCursor(Before(c))
           n == Len(messages)
<1>1. /\ client.list = "messages"
      /\ client.state \in {"idle", "reading"}
      /\ client'.state = IF next = 0 THEN "done" ELSE "reading"
      /\ client'.next = next
      /\ client'.known = IF client.state = "idle" THEN n ELSE client.known
      /\ client'.got = got \o P
      /\ messages' = messages
  BY MessagesFetched DEF FindMessages, Fetch
<1>2. messages \in Seq(Message) /\ DOMAIN messages = 1 .. n /\ n \in Nat
  BY DEF TypeOK
<1>3. /\ got \in Seq(DOMAIN messages) /\ client.known \in Nat
      /\ client.state = "idle" => c = 0 /\ got = <<>>
      /\ client.state = "reading" =>
            /\ Len(got) # 0 /\ Len(got) % Limit = 0 /\ c = got[Len(got)]
            /\ \A i \in 1 .. client.known : Reached(i) \/ messages[i].at < messages[c].at
      /\ client.known <= n
  BY <1>1 DEF TypeOK, IdleHasNothing, ReadsMessages
<1>4. /\ P \in Seq(DOMAIN messages)
      /\ next = 0 => \A i \in Before(c) : \E k \in 1 .. Len(P) : P[k] = i
      /\ next # 0 => /\ Len(P) = Limit /\ next = P[Limit]
                     /\ \A i \in Before(c) : (\E k \in 1 .. Len(P) : P[k] = i) \/ i < next
  BY PageOfMessages
<1>5. Limit \in Nat \ {0}
  BY BoundAssumption
<1>6. client'.known <= n /\ client'.known \in Nat
  BY <1>1, <1>2, <1>3
<1> HIDE DEF P, next
<1>7. /\ got \o P \in Seq(DOMAIN messages)
      /\ Len(got \o P) = Len(got) + Len(P) /\ Len(got) \in Nat /\ Len(P) \in Nat
      /\ \A k \in 1 .. Len(got) : (got \o P)[k] = got[k]
      /\ \A k \in 1 .. Len(P) : (got \o P)[Len(got) + k] = P[k]
  <2>1. got \in Seq(DOMAIN messages) /\ P \in Seq(DOMAIN messages)
    BY <1>3, <1>4
  <2> HIDE DEF got
  <2> QED
    BY <2>1, Joined
<1>8. DOMAIN (got \o P) = 1 .. Len(got \o P)
  BY <1>7
<1>9. ASSUME NEW i \in 1 .. n, Reached(i)
      PROVE  Reached(i)'
  <2>1. client'.got \in Seq(Nat)
    BY MessagesFetched DEF ClientType
  <2>2. /\ Len(got) <= Len(client'.got)
        /\ \A k \in 1 .. Len(got) : client'.got[k] = got[k]
    BY <1>1, <1>7
  <2> QED
    BY <1>1, <1>2, <1>9, <2>1, <2>2, ReachedStays
<1>10. ASSUME NEW i, \E k \in 1 .. Len(P) : P[k] = i
       PROVE  Reached(i)'
  <2>1. PICK k \in 1 .. Len(P) : P[k] = i
    BY <1>10
  <2>2. Len(got) + k \in DOMAIN (got \o P) /\ (got \o P)[Len(got) + k] = i
    BY <1>7, <1>8, <2>1
  <2>3. i \in Got'
    BY <1>1, <2>2 DEF Got
  <2> QED
    BY <2>3 DEF Reached
<1>11. ASSUME NEW i \in 1 .. client'.known
       PROVE  Reached(i) \/ i \in Before(c)
  <2>1. i \in DOMAIN messages
    BY <1>2, <1>6
  <2>2. CASE client.state = "idle"
    BY <1>3, <2>1, <2>2 DEF Before
  <2>3. CASE client.state = "reading"
    <3>1. Reached(i) \/ messages[i].at < messages[c].at
      BY <1>1, <1>3, <2>3
    <3> QED
      BY <2>1, <3>1 DEF Before
  <2> QED
    BY <1>1, <2>2, <2>3
<1>12. CASE next = 0
  <2>1. \A i \in 1 .. client'.known : Reached(i)'
    BY <1>2, <1>4, <1>6, <1>9, <1>10, <1>11, <1>12
  <2> QED
    BY <1>1, <1>6, <1>12, <2>1
<1>13. CASE next # 0
  <2> DEFINE m == Len(got) + Limit
  <2>1. Len(got) % Limit = 0
    <3>1. CASE client.state = "idle"
      <4>1. \A b \in Nat \ {0} : 0 % b = 0
        OBVIOUS
      <4>2. Len(got) = 0
        BY <1>3, <3>1
      <4> QED
        BY <1>5, <4>1, <4>2
    <3> QED
      BY <1>1, <1>3, <3>1
  <2>2. m % Limit = 0
    BY <1>7, <2>1, NextMultiple
  <2>3. /\ Len(got \o P) = m /\ m # 0 /\ m \in DOMAIN (got \o P)
        /\ (got \o P)[m] = next
    <3>1. Len(P) = Limit /\ next = P[Limit] /\ Limit \in 1 .. Len(P)
      BY <1>4, <1>5, <1>13
    <3>2. (got \o P)[Len(got) + Limit] = P[Limit]
      BY <1>7, <3>1
    <3>3. m \in Nat \ {0} /\ Len(got \o P) = m
      BY <1>5, <1>7, <3>1
    <3> QED
      BY <1>8, <3>1, <3>2, <3>3
  <2> HIDE DEF m
  <2>4. next \in 1 .. n
    <3>1. (got \o P)[m] \in DOMAIN messages
      BY <1>7, <2>3, ElementOf
    <3> QED
      BY <1>2, <2>3, <3>1
  <2>5. ASSUME NEW i \in Before(c), i < next
        PROVE  Reached(i)' \/ messages[i].at < messages[next].at
    <3>1. i \in 1 .. n
      BY <1>2 DEF Before
    <3>2. messages[i].at <= messages[next].at
      BY <1>2, <2>4, <2>5, <3>1 DEF TimesAscend
    <3>3. messages[i] \in Message /\ messages[next] \in Message
      BY <1>2, <2>4, <3>1
    <3>4. CASE messages[i].at = messages[next].at
      BY <1>1, <2>2, <2>3, <3>4 DEF Reached
    <3> QED
      BY <3>2, <3>3, <3>4 DEF Message
  <2>6. \A i \in 1 .. client'.known : Reached(i)' \/ messages[i].at < messages[next].at
    BY <1>2, <1>4, <1>6, <1>9, <1>10, <1>11, <1>13, <2>5
  <2> QED
    BY <1>1, <1>6, <1>13, <2>2, <2>3, <2>6
<1> QED
  BY <1>12, <1>13

LEMMA ReadsMessagesStep ==
    ASSUME TypeOK, TimesAscend, ClientType, IdleHasNothing, ReadsMessages,
           SkippedSharesTime, RowsGrow, [Next]_vars
    PROVE  ReadsMessages' /\ SkippedSharesTime'
<1>1. CASE FindMessages
  <2>1. /\ client'.state = IF client'.next = 0 THEN "done" ELSE "reading"
        /\ client'.list = "messages"
    BY <1>1, MessagesFetched
  <2> QED
    BY <1>1, <2>1, PageAdded DEF ReadsMessages, SkippedSharesTime, Reached
<1>2. CASE FindEvents
  BY <1>2, EventsFetched DEF ReadsMessages, SkippedSharesTime
<1>3. CASE UNCHANGED client
  <2>1. SUFFICES ASSUME client.list = "messages"
                 PROVE  ReadsMessages' /\ SkippedSharesTime'
    BY <1>3 DEF ReadsMessages, SkippedSharesTime
  <2>2. /\ messages \in Seq(Message) /\ DOMAIN messages = 1 .. Len(messages)
        /\ Len(messages) \in Nat /\ Len(messages') \in Nat
        /\ client.known \in Nat /\ client.known <= Len(messages)
        /\ client.got \in Seq(DOMAIN messages)
        /\ client.got \in Seq(Nat)
    BY <2>1 DEF TypeOK, ClientType, ReadsMessages, RowsGrow
  <2>3. ASSUME NEW i \in 1 .. client.known, Reached(i)
        PROVE  Reached(i)'
    BY <1>3, <2>1, <2>2, <2>3, ReachedStays
  <2>4. ASSUME client.state = "reading"
        PROVE  client.next \in 1 .. Len(messages)
    <3>1. Len(client.got) # 0 /\ client.next = client.got[Len(client.got)]
      BY <2>1, <2>4 DEF ReadsMessages
    <3> QED
      BY <2>2, <3>1
  <2>5. ReadsMessages'
    <3>1. client'.known <= Len(messages')
      BY <1>3, <2>2 DEF RowsGrow
    <3>2. ASSUME client.state = "reading", NEW i \in 1 .. client.known
          PROVE  Reached(i)' \/ messages'[i].at < messages'[client.next].at
      <4>1. i \in 1 .. Len(messages)
        BY <2>2
      <4>2. /\ messages'[i] = messages[i]
            /\ messages'[client.next] = messages[client.next]
        BY <2>4, <3>2, <4>1 DEF RowsGrow
      <4>3. Reached(i) \/ messages[i].at < messages[client.next].at
        BY <2>1, <3>2 DEF ReadsMessages
      <4>4. CASE Reached(i)
        BY <2>3, <4>4
      <4> QED
        BY <4>2, <4>3, <4>4
    <3>3. ASSUME client.state = "reading"
          PROVE  /\ Len(client.got) # 0 /\ Len(client.got) % Limit = 0
                 /\ client.next = client.got[Len(client.got)]
      BY <2>1, <3>3 DEF ReadsMessages
    <3> QED
      BY <1>3, <3>1, <3>2, <3>3 DEF ReadsMessages
  <2>6. ASSUME client.state = "done"
        PROVE  \A i \in 1 .. client.known : Reached(i)
    BY <2>1, <2>6 DEF SkippedSharesTime, Reached
  <2>7. SkippedSharesTime'
    BY <1>3, <2>1, <2>3, <2>6 DEF SkippedSharesTime, Reached
  <2> QED
    BY <2>5, <2>7
<1> QED
  BY <1>1, <1>2, <1>3, OtherSteps

LEMMA IdleStep ==
    ASSUME TypeOK, ClientType, IdleHasNothing, [Next]_vars
    PROVE  IdleHasNothing'
<1>1. CASE UNCHANGED client
  BY <1>1 DEF IdleHasNothing
<1>2. CASE FindMessages
  BY <1>2, MessagesFetched DEF IdleHasNothing
<1>3. CASE FindEvents
  BY <1>3, EventsFetched DEF IdleHasNothing
<1> QED
  BY <1>1, <1>2, <1>3, OtherSteps

\* Events that arrive between two pages push those already there to later pages:
\* a page may repeat some of them, but passes none over.
LEMMA ReadsEventsStep ==
    ASSUME TypeOK, ClientType, IdleHasNothing, ReadsEvents, EventsComplete, RowsGrow,
           [Next]_vars
    PROVE  ReadsEvents' /\ EventsComplete'
<1>1. CASE FindMessages
  BY <1>1, MessagesFetched DEF ReadsEvents, EventsComplete
<1>2. CASE UNCHANGED client
  <2>1. events \in Nat /\ events' \in Nat /\ events <= events'
        /\ client.known \in Nat /\ client.next * Limit \in Nat
    BY BoundAssumption DEF TypeOK, RowsGrow
  <2>2. Got' = Got
    BY <1>2 DEF Got
  <2>3. EventsComplete'
    BY <1>2, <2>2 DEF EventsComplete
  <2>4. ASSUME client.list = "events"
        PROVE  /\ client.known <= events'
               /\ client.state = "reading" =>
                     \A e \in 1 .. client.known :
                         events' - e < client.next * Limit => e \in Got
    BY <2>1, <2>4 DEF ReadsEvents
  <2> QED
    BY <1>2, <2>2, <2>3, <2>4 DEF ReadsEvents
<1>3. CASE FindEvents
  <2> DEFINE p == client.next + 1
             P == EventPage(p)
             got == client.got
  <2>1. /\ client.list = "events" /\ client'.list = "events"
        /\ client.state \in {"idle", "reading"}
        /\ client'.state = IF Cardinality(EventsAt(p)) < Limit THEN "done" ELSE "reading"
        /\ client'.state = "reading" => client'.next = p
        /\ client'.known = IF client.state = "idle" THEN events ELSE client.known
        /\ client'.got = got \o P
        /\ events' = events
    BY <1>3, EventsFetched DEF FindEvents, Fetch
  <2>2. /\ events \in Nat /\ client.known \in Nat /\ client.next \in Nat
        /\ p \in Nat \ {0} /\ Limit \in Nat \ {0}
    BY BoundAssumption DEF TypeOK
  <2>3. /\ client.next * Limit \in Nat /\ p * Limit = client.next * Limit + Limit
        /\ (p - 1) * Limit = client.next * Limit
    BY <2>2
  <2>4. client'.known <= events /\ client'.known \in Nat
    BY <2>1, <2>2 DEF ReadsEvents
  <2>5. ASSUME NEW e \in 1 .. client'.known, events - e < client.next * Limit
        PROVE  e \in Got
    <3>1. CASE client.state = "idle"
      <4>1. client.next = 0
        BY <3>1 DEF IdleHasNothing
      <4>2. client.next * Limit = 0
        BY <2>2, <4>1
      <4> QED
        BY <2>2, <2>4, <2>5, <4>2
    <3>2. CASE client.state = "reading"
      BY <2>1, <2>5, <3>2 DEF ReadsEvents
    <3> QED
      BY <2>1, <3>1, <3>2
  <2>6. /\ P \in Seq(1 .. events)
        /\ \A e \in EventsAt(p) : \E k \in 1 .. Len(P) : P[k] = e
        /\ Cardinality(EventsAt(p)) < Limit => events < p * Limit
    BY <2>2, PageOfEvents
  <2>7. got \in Seq(1 .. events)
    BY <2>1 DEF TypeOK
  <2> HIDE DEF P, got
  <2>8. /\ got \o P \in Seq(1 .. events)
        /\ Len(got \o P) = Len(got) + Len(P) /\ Len(got) \in Nat /\ Len(P) \in Nat
        /\ \A k \in 1 .. Len(got) : (got \o P)[k] = got[k]
        /\ \A k \in 1 .. Len(P) : (got \o P)[Len(got) + k] = P[k]
    BY <2>6, <2>7, Joined
  <2>9. DOMAIN (got \o P) = 1 .. Len(got \o P) /\ DOMAIN got = 1 .. Len(got)
    BY <2>7, <2>8
  <2>10. ASSUME NEW e \in Got
         PROVE  e \in Got'
    <3>1. PICK k \in 1 .. Len(got) : got[k] = e
      BY <2>9 DEF Got, got
    <3>2. k \in DOMAIN (got \o P) /\ (got \o P)[k] = e
      BY <2>8, <2>9, <3>1
    <3> QED
      BY <2>1, <3>2 DEF Got
  <2>11. ASSUME NEW e \in EventsAt(p)
         PROVE  e \in Got'
    <3>1. PICK k \in 1 .. Len(P) : P[k] = e
      BY <2>6
    <3>2. Len(got) + k \in DOMAIN (got \o P) /\ (got \o P)[Len(got) + k] = e
      BY <2>8, <2>9, <3>1
    <3> QED
      BY <2>1, <3>2 DEF Got
  <2> HIDE DEF p
  <2>12. ASSUME NEW e \in 1 .. client'.known, events - e < p * Limit
         PROVE  e \in Got'
    <3>1. CASE events - e < client.next * Limit
      BY <2>5, <2>10, <3>1
    <3>2. CASE events - e >= client.next * Limit
      <4>1. e \in 1 .. events
        BY <2>2, <2>4
      <4>2. events - e \in (p - 1) * Limit .. p * Limit - 1
        BY <2>2, <2>3, <2>12, <3>2, <4>1
      <4> QED
        BY <2>11, <4>1, <4>2 DEF EventsAt
    <3> QED
      BY <2>2, <2>3, <2>4, <3>1, <3>2
  <2>13. CASE Cardinality(EventsAt(p)) < Limit
    <3>1. \A e \in 1 .. client'.known : events - e < p * Limit
      BY <2>2, <2>3, <2>4, <2>6, <2>13
    <3> QED
      BY <2>1, <2>4, <2>12, <2>13, <3>1 DEF ReadsEvents, EventsComplete
  <2>14. CASE ~(Cardinality(EventsAt(p)) < Limit)
    BY <2>1, <2>4, <2>12, <2>14 DEF ReadsEvents, EventsComplete
  <2> QED
    BY <2>13, <2>14
<1> QED
  BY <1>1, <1>2, <1>3, OtherSteps

-----------------------------------------------------------------------------
(* The theorems. *)

\* The inductive invariant: what POSTs under way hold, and what the client has
\* read so far, is as PostInv, ReadsMessages and ReadsEvents say.
THEOREM HistoryInvariant == Spec => []PagingInv
<1>1. Init => PagingInv
  <2> USE BoundAssumption
  <2>1. Init => TypeOK
    <3>1. NoCall \in [op : {"none", "record", "reopenCheck", "audit"} \cup Writing,
                      agent : Agents \cup {NoAgent}]
          /\ NoCall.op # "accept" /\ NoCall.agent = NoAgent
      BY DEF NoCall
    <3> QED
      BY <3>1 DEF Init, TypeOK, Statuses, Lists
  <2>2. Init => TimesAscend /\ SendersAreHeld /\ SenderHeldIt /\ PostsInHand
                  /\ AnsweredHasTime /\ LateReplyIsNotFirst
    BY DEF Init, TimesAscend, SendersAreHeld, SenderHeldIt, PostsInHand,
           AnsweredHasTime, LateReplyIsNotFirst
  <2>3. Init => ClientType /\ IdleHasNothing /\ ReadsMessages /\ ReadsEvents
                  /\ PagesDescend /\ SkippedSharesTime /\ EventsComplete
    BY DEF Init, ClientType, IdleHasNothing, ReadsMessages, ReadsEvents, PagesDescend,
           SkippedSharesTime, EventsComplete
  <2> QED
    BY <2>1, <2>2, <2>3 DEF PagingInv, PostInv
<1>2. PagingInv /\ [Next]_vars => PagingInv'
  <2> SUFFICES ASSUME PagingInv, [Next]_vars
               PROVE  PagingInv'
    OBVIOUS
  <2> USE DEF PagingInv, PostInv
  <2>1. RowsGrow
    BY RowsGrowing
  <2>2. TypeOK' /\ ClientType'
    BY <2>1, TypeStep, ClientTypes
  <2>3. TimesAscend' /\ SendersAreHeld' /\ SenderHeldIt'
    BY TimesStep, SendersStep
  <2>4. PostsInHand' /\ AnsweredHasTime' /\ LateReplyIsNotFirst'
    BY PostsStep
  <2>5. IdleHasNothing' /\ PagesDescend'
    BY IdleStep, PagesDescendStep
  <2>6. ReadsMessages' /\ SkippedSharesTime' /\ ReadsEvents' /\ EventsComplete'
    BY <2>1, ReadsMessagesStep, ReadsEventsStep
  <2> QED
    BY <2>2, <2>3, <2>4, <2>5, <2>6
<1> QED
  BY <1>1, <1>2, PTL DEF Spec

\* Rows, calls, POSTs and the client are of their types; a pending conversation has
\* no agent and an assigned one has, though a call writes by what it checked before.
\* A completed one may have either: its agent may have let go before complete wrote.
THEOREM HistoryTypeCorrect == Spec => []TypeOK
<1>1. PagingInv => TypeOK
  BY DEF PagingInv, PostInv
<1> QED
  BY HistoryInvariant, <1>1, PTL

\* No stranger writes: who has a message in the conversation has held it, although
\* a POST checks the assignment and inserts in two statements.
THEOREM SenderHeldItCorrect == Spec => []SenderHeldIt
<1>1. PagingInv => SenderHeldIt
  BY DEF PagingInv, PostInv
<1> QED
  BY HistoryInvariant, <1>1, PTL

\* An answered conversation has a time of first response, although
\* setFirstResponseAt reads and writes it in two statements.
THEOREM AnsweredHasTimeCorrect == Spec => []AnsweredHasTime
<1>1. PagingInv => AnsweredHasTime
  BY DEF PagingInv, PostInv
<1> QED
  BY HistoryInvariant, <1>1, PTL

\* Racing POSTs move the time of first response only among the messages there
\* were when it was first written: a later reply is never taken for the first.
THEOREM LateReplyIsNotFirstCorrect == Spec => []LateReplyIsNotFirst
<1>1. PagingInv => LateReplyIsNotFirst
  BY DEF PagingInv, PostInv
<1> QED
  BY HistoryInvariant, <1>1, PTL

\* Pages of messages go from new to old and give no message twice, whatever arrives
\* between two of them.
THEOREM PagesDescendCorrect == Spec => []PagesDescend
<1>1. PagingInv => PagesDescend
  BY DEF PagingInv
<1> QED
  BY HistoryInvariant, <1>1, PTL

\* A reader of all pages has every message there was when it began, except such
\* as share the millisecond at which one of its pages ends.
THEOREM SkippedSharesTimeCorrect == Spec => []SkippedSharesTime
<1>1. PagingInv => SkippedSharesTime
  BY DEF PagingInv
<1> QED
  BY HistoryInvariant, <1>1, PTL

\* Pages of events give every event there was when the first was asked for.
THEOREM EventPagesCorrect == Spec => []EventsComplete
<1>1. PagingInv => EventsComplete
  BY DEF PagingInv
<1> QED
  BY HistoryInvariant, <1>1, PTL

===============================================================================
