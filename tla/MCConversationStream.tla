------------------------- MODULE MCConversationStream -------------------------
(***************************************************************************)
(* Instances of ConversationStream for TLC.                                *)
(***************************************************************************)
EXTENDS ConversationStream

MCKeyOf == [s \in Streams |-> CHOOSE k \in Keys : TRUE]
MCCallers == Tasks

\* Bound: one thing goes wrong in a behaviour, an operation that fails or a crash.
OneMishap == faults + crashes <= 1
=============================================================================
