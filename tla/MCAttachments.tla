--------------------------- MODULE MCAttachments ---------------------------
(***************************************************************************)
(* A bounded instance of Attachments.                                      *)
(***************************************************************************)
EXTENDS Attachments, TLC

\* Attachments and requests are interchangeable.
Symmetry == Permutations(Attachments) \cup Permutations(Requests)
=============================================================================
