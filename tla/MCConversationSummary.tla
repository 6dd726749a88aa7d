------------------------- MODULE MCConversationSummary -------------------------
(***************************************************************************)
(* Instances of ConversationSummary for TLC.                               *)
(***************************************************************************)
EXTENDS ConversationSummary, TLC

\* The calls of updateSummary differ in nothing but their state.
Symmetry == Permutations(Jobs)
=============================================================================
