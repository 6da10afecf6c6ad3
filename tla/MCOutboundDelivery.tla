------------------------ MODULE MCOutboundDelivery -------------------------
(***************************************************************************)
(* A bounded instance of OutboundDelivery: the ids the providers can give  *)
(* bound how often they accept, MaxAttempts and MaxManualRetries the jobs. *)
(***************************************************************************)
EXTENDS OutboundDelivery, TLC
=============================================================================
