------------------------- MODULE MCConversationMessages -------------------------
(***************************************************************************)
(* Instances of ConversationMessages for TLC.                              *)
(***************************************************************************)
EXTENDS ConversationMessages, TLC

\* Requests and texts differ in nothing but their names.
Symmetry == Permutations(Requests) \cup Permutations(Texts)
=============================================================================
