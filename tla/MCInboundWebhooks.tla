------------------------- MODULE MCInboundWebhooks -------------------------
(***************************************************************************)
(* Bounded instances of InboundWebhooks: what is delivered bounds every    *)
(* behaviour.                                                              *)
(***************************************************************************)
EXTENDS InboundWebhooks, TLC

CONSTANTS d1, d2, d3, m1, m2, m3, k1, k2

Msg(m, k) == [kind |-> "message", mid |-> m, from |-> k]

StatusItem == [kind |-> "statusById"]

OtherItem == [kind |-> "noEffect"]

\* A message, and one of the same sender with a "sent" status behind it.
Queued == d1 :> <<Msg(m1, k1)>> @@ d2 :> <<Msg(m2, k1), StatusItem>>

\* Three messages of one sender.
Thrice ==
    d1 :> <<Msg(m1, k1)>>
    @@ d2 :> <<Msg(m2, k1)>>
    @@ d3 :> <<OtherItem, Msg(m3, k1)>>

\* Two messages in one payload, with a "sent" status between them.
Mixed == d1 :> <<Msg(m1, k1), StatusItem, Msg(m2, k1)>>

\* Calls of agents are interchangeable.
Symmetry == Permutations(Calls)
=============================================================================
