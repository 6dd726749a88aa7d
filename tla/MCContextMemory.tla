---------------------------- MODULE MCContextMemory ----------------------------
(***************************************************************************)
(* Instances of ContextMemory for TLC.                                     *)
(***************************************************************************)
EXTENDS ContextMemory, TLC

CONSTANTS u, admin

NewRow(owner, scope, source, words) ==
  [owner |-> owner, scope |-> scope, source |-> source, words |-> words,
   forgotten |-> FALSE]

\* A user's own memory without the words of any question, one of a conversation
\* and one for everybody.
MCNewRows ==
  {NewRow(u, "USER", Null, FALSE), NewRow(u, "CONVERSATION", u, TRUE),
   NewRow(admin, "GLOBAL", Null, TRUE)}

\* A plan's search and one of the controller's.
MCSearches ==
  {[user |-> u, scope |-> "any", asks |-> TRUE],
   [user |-> admin, scope |-> "USER", asks |-> FALSE]}

\* Requests differ in nothing but their state.
Symmetry == Permutations(Requests)
=============================================================================
