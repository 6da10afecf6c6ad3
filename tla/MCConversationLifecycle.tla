---------------------- MODULE MCConversationLifecycle ----------------------
(***************************************************************************)
(* Bounded instances of ConversationLifecycle, with the reports Analytics  *)
(* makes of it: the number of requests bounds every behaviour, since a     *)
(* request is served once.                                                 *)
(***************************************************************************)
EXTENDS Analytics, TLC

\* Agents, conversations and requests are interchangeable in the safety runs.
Symmetry == Permutations(Agents) \cup Permutations(Conversations)
                \cup Permutations(Requests)
=============================================================================
