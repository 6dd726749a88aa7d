------------------------------ MODULE AnswerSource ------------------------------
(***************************************************************************)
(* What startDetachedGeneration counts on from the observable that         *)
(* resolveStreamObservable gives it, be it the model's own stream (direct  *)
(* mode) or the agent's: text, then either the payload with done, with     *)
(* which the observable completes in the same turn, or an error; and       *)
(* nothing more for a subscriber that has unsubscribed.                    *)
(*                                                                         *)
(* The finalizer of ConversationStream relies on it twice: finishedNormally*)
(* is set by the done payload and read at completion, and an observable    *)
(* that never ends would leave its session in "generating".                *)
(***************************************************************************)
CONSTANT Runs       \* the answers generated, each with one subscription

VARIABLE feed       \* of every run: what its subscriber has been sent

Feed == [state : {"unsubscribed", "open", "completed", "failed", "dropped"},
         text : BOOLEAN,     \* a delta has been sent
         done : BOOLEAN]     \* the payload with done has been sent

Quiet == [state |-> "unsubscribed", text |-> FALSE, done |-> FALSE]

Init == feed = [r \in Runs |-> Quiet]

-----------------------------------------------------------------------------
(* Each operator moves one run's subscription and leaves the others alone.  *)

Open(r) == feed[r].state = "open"

Subscribe(r) ==
  /\ feed[r].state = "unsubscribed"
  /\ feed' = [feed EXCEPT ![r].state = "open"]

Text(r) ==
  /\ Open(r)
  /\ feed' = [feed EXCEPT ![r].text = TRUE]

\* The done payload carries the whole text, so a feed may finish at once.
Finish(r) ==
  /\ Open(r)
  /\ feed' = [feed EXCEPT ![r].done = TRUE, ![r].state = "completed"]

Fail(r) ==
  /\ Open(r)
  /\ feed' = [feed EXCEPT ![r].state = "failed"]

\* cancelGeneration unsubscribes.
Drop(r) ==
  /\ Open(r)
  /\ feed' = [feed EXCEPT ![r].state = "dropped"]

Next == \E r \in Runs : Subscribe(r) \/ Text(r) \/ Finish(r) \/ Fail(r) \/ Drop(r)

\* A source that is subscribed to ends, unless its subscriber leaves first.
Fairness == \A r \in Runs : WF_feed(Finish(r) \/ Fail(r))

Spec == Init /\ [][Next]_feed /\ Fairness
=============================================================================
