------------------------ MODULE AgentPresenceProofs ------------------------
(***************************************************************************)
(* Theorems about AgentPresence, for any agents, sockets and               *)
(* conversations: types, and that no session outlives its socket's         *)
(* handleDisconnect.                                                       *)
(***************************************************************************)
EXTENDS AgentPresence, TLAPS

\* What handleDisconnect relies on: it runs on a closed socket, which sends no
\* SETEX any more, and past its DEL none is on its way.
NothingOnItsWay ==
    \A s \in Sockets :
        /\ pc[s] \in {"deleteSession", "select", "write", "done"} => net[s] = "closed"
        /\ pc[s] \in {"select", "write", "done"} => s \notin setting

PresenceInv == TypeOK /\ NothingOnItsWay /\ NoPhantomSession

LEMMA PresenceInit ==
    Init => PresenceInv
BY AgentOfAssumption, NoneAssumption
   DEF Init, PresenceInv, TypeOK, NothingOnItsWay, NoPhantomSession

\* The handlers of a socket.
Steps(s) ==
    \/ Connect(s) \/ SetStatus(s) \/ StoreSession(s) \/ Disconnect(s)
    \/ DeleteSession(s) \/ SelectAssigned(s) \/ WriteReleased(s)
    \/ DisconnectFails(s) \/ ServerDies(s)

\* What agents and Valkey do by themselves.
Others ==
    \/ \E a \in Agents : SessionExpires(a)
    \/ \E c \in Conversations : LetGo(c) \/ \E a \in Agents : Accept(a, c)

LEMMA NextSplit ==
    ASSUME Next
    PROVE  (\E s \in Sockets : Steps(s)) \/ Others
BY DEF Next, Continue, Steps, Others

\* Types are preserved by each handler: a socket that closes was open, so its
\* handleDisconnect selected nothing before.
LEMMA TypeHandlers ==
    ASSUME TypeOK, NothingOnItsWay, NEW s \in Sockets, Steps(s)
    PROVE  TypeOK'
<1>1. AgentOf[s] \in Agents
  BY AgentOfAssumption
<1>2. CASE Connect(s)
  BY <1>2 DEF Connect, TypeOK
<1>3. CASE SetStatus(s)
  BY <1>3 DEF SetStatus, TypeOK
<1>4. CASE StoreSession(s)
  BY <1>1, <1>4 DEF StoreSession, TypeOK
<1>5. CASE Disconnect(s)
  BY <1>5 DEF Disconnect, Goto, TypeOK, NothingOnItsWay
<1>6. CASE DeleteSession(s)
  BY <1>1, <1>6 DEF DeleteSession, Goto, TypeOK
<1>7. CASE SelectAssigned(s)
  BY <1>7 DEF SelectAssigned, Goto, TypeOK
<1>8. CASE WriteReleased(s)
  <2>1. PICK c \in todo[s] :
           /\ holder' = [holder EXCEPT ![c] = NoAgent]
           /\ todo' = [todo EXCEPT ![s] = @ \ {c}]
           /\ Goto(s, IF todo[s] = {c} THEN "done" ELSE "write")
    BY <1>8 DEF WriteReleased
  <2>2. c \in Conversations /\ (todo[s] \ {c} = {} <=> todo[s] = {c})
    BY <2>1 DEF TypeOK
  <2> QED
    BY <1>8, <2>1, <2>2 DEF WriteReleased, Goto, TypeOK
<1>9. CASE DisconnectFails(s)
  BY <1>9 DEF DisconnectFails, Goto, TypeOK
<1>10. CASE ServerDies(s)
  BY <1>10 DEF ServerDies, Goto, TypeOK
<1> QED
  BY <1>2, <1>3, <1>4, <1>5, <1>6, <1>7, <1>8, <1>9, <1>10 DEF Steps

\* So are the facts about closed sockets.
LEMMA WayHandlers ==
    ASSUME TypeOK, NothingOnItsWay, NEW s \in Sockets, Steps(s)
    PROVE  NothingOnItsWay'
<1>2. CASE Connect(s)
  BY <1>2 DEF Connect, TypeOK, NothingOnItsWay
<1>3. CASE SetStatus(s)
  BY <1>3 DEF SetStatus, TypeOK, NothingOnItsWay
<1>4. CASE StoreSession(s)
  BY <1>4 DEF StoreSession, TypeOK, NothingOnItsWay
<1>5. CASE Disconnect(s)
  BY <1>5 DEF Disconnect, Goto, TypeOK, NothingOnItsWay
<1>6. CASE DeleteSession(s)
  BY <1>6 DEF DeleteSession, Goto, TypeOK, NothingOnItsWay
<1>7. CASE SelectAssigned(s)
  BY <1>7 DEF SelectAssigned, Goto, TypeOK, NothingOnItsWay
<1>8. CASE WriteReleased(s)
  BY <1>8 DEF WriteReleased, Goto, TypeOK, NothingOnItsWay
<1>9. CASE DisconnectFails(s)
  BY <1>9 DEF DisconnectFails, Goto, TypeOK, NothingOnItsWay
<1>10. CASE ServerDies(s)
  BY <1>10 DEF ServerDies, Goto, TypeOK, NothingOnItsWay
<1> QED
  BY <1>2, <1>3, <1>4, <1>5, <1>6, <1>7, <1>8, <1>9, <1>10 DEF Steps

\* A session can come to name a socket only by that socket's SETEX, which is not
\* on its way once the DEL is past; and it names none after a DEL.
LEMMA SessionHandlers ==
    ASSUME TypeOK, NothingOnItsWay, NoPhantomSession, NEW s \in Sockets, Steps(s)
    PROVE  NoPhantomSession'
<1>1. AgentOf \in [Sockets -> Agents] /\ NoSocket \notin Sockets
  BY AgentOfAssumption, NoneAssumption
<1>2. CASE Connect(s)
  BY <1>2 DEF Connect, TypeOK, NoPhantomSession
<1>3. CASE SetStatus(s)
  BY <1>3 DEF SetStatus, TypeOK, NoPhantomSession
<1>4. CASE StoreSession(s)
  BY <1>1, <1>4 DEF StoreSession, TypeOK, NothingOnItsWay, NoPhantomSession
<1>5. CASE Disconnect(s)
  BY <1>5 DEF Disconnect, Goto, TypeOK, NoPhantomSession
<1>6. CASE DeleteSession(s)
  BY <1>1, <1>6 DEF DeleteSession, Goto, TypeOK, NoPhantomSession
<1>7. CASE SelectAssigned(s)
  BY <1>7 DEF SelectAssigned, Goto, TypeOK, NoPhantomSession
<1>8. CASE WriteReleased(s)
  BY <1>8 DEF WriteReleased, Goto, TypeOK, NoPhantomSession
<1>9. CASE DisconnectFails(s)
  BY <1>9 DEF DisconnectFails, Goto, TypeOK, NoPhantomSession
<1>10. CASE ServerDies(s)
  BY <1>10 DEF ServerDies, Goto, TypeOK, NoPhantomSession
<1> QED
  BY <1>2, <1>3, <1>4, <1>5, <1>6, <1>7, <1>8, <1>9, <1>10 DEF Steps

LEMMA PresenceOthers ==
    ASSUME PresenceInv, Others
    PROVE  PresenceInv'
<1>1. ASSUME NEW a \in Agents, SessionExpires(a)
      PROVE  PresenceInv'
  BY <1>1, AgentOfAssumption, NoneAssumption
     DEF SessionExpires, PresenceInv, TypeOK, NothingOnItsWay, NoPhantomSession
<1>2. ASSUME NEW c \in Conversations, LetGo(c)
      PROVE  PresenceInv'
  BY <1>2 DEF LetGo, PresenceInv, TypeOK, NothingOnItsWay, NoPhantomSession
<1>3. ASSUME NEW c \in Conversations, NEW a \in Agents, Accept(a, c)
      PROVE  PresenceInv'
  BY <1>3 DEF Accept, PresenceInv, TypeOK, NothingOnItsWay, NoPhantomSession
<1> QED
  BY <1>1, <1>2, <1>3 DEF Others

LEMMA PresenceStep ==
    PresenceInv /\ [Next]_vars => PresenceInv'
<1> SUFFICES ASSUME PresenceInv, [Next]_vars
             PROVE  PresenceInv'
  OBVIOUS
<1>1. CASE UNCHANGED vars
  BY <1>1 DEF vars, PresenceInv, TypeOK, NothingOnItsWay, NoPhantomSession
<1>2. ASSUME NEW s \in Sockets, Steps(s)
      PROVE  PresenceInv'
  BY <1>2, TypeHandlers, WayHandlers, SessionHandlers DEF PresenceInv
<1> QED
  BY <1>1, <1>2, NextSplit, PresenceOthers

\* The variables keep their types, and connectedAgents is exactly the open
\* sockets: handleConnection and handleDisconnect change it with the socket.
THEOREM PresenceTypeCorrect == Spec => []TypeOK
<1>1. PresenceInv => TypeOK
  BY DEF PresenceInv
<1> QED
  BY <1>1, PresenceInit, PresenceStep, PTL DEF Spec

\* No session names a socket whose handleDisconnect is past its DEL.
THEOREM NoPhantomSessionCorrect == Spec => []NoPhantomSession
<1>1. PresenceInv => NoPhantomSession
  BY DEF PresenceInv
<1> QED
  BY <1>1, PresenceInit, PresenceStep, PTL DEF Spec

=============================================================================
