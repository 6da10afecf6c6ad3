----------------------------- MODULE Assignment -----------------------------
(***************************************************************************)
(* What the inbox promises about who handles a conversation, with no lock, *)
(* no rows and no requests: a conversation has at most one agent, an agent *)
(* takes it only while nobody has it, and it is let go in one step.        *)
(* ConversationLifecycle implements this when no accept outlives its lock. *)
(***************************************************************************)
CONSTANTS Agents, Conversations, NoAgent

VARIABLE holder     \* the agent of each conversation, or NoAgent

Init == holder = [c \in Conversations |-> NoAgent]

Take(c, a) ==
    /\ holder[c] = NoAgent
    /\ holder' = [holder EXCEPT ![c] = a]

LetGo(c) == holder' = [holder EXCEPT ![c] = NoAgent]

Next == \E c \in Conversations : LetGo(c) \/ \E a \in Agents : Take(c, a)

Spec == Init /\ [][Next]_holder
=============================================================================
