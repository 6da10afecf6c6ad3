--------------------------- MODULE MCAgentPresence ---------------------------
(***************************************************************************)
(* Bounded instance of AgentPresence: a socket is opened once, so the      *)
(* number of sockets bounds connections and reconnections.                 *)
(***************************************************************************)
EXTENDS AgentPresence, TLC

CONSTANTS s1, s2, s3, a1, a2

\* a1 has two sockets, at once or one after the other.
TwoAndOne == s1 :> a1 @@ s2 :> a1 @@ s3 :> a2
=============================================================================
