------------------------------ MODULE ReplyPromise ------------------------------
(***************************************************************************)
(* What ConversationStreamService promises the conversation about a reply   *)
(* generated in the background, however sessions, progress writes, stops,   *)
(* failures and crashes interleave: once the model has ended, the stream is *)
(* settled exactly once, with a message that is all the model had sent and  *)
(* says how it ended, or with none; and a settled stream stays as it is.    *)
(*                                                                         *)
(* ConversationStream implements it (KeepsPromise).                        *)
(***************************************************************************)
EXTENDS Naturals

CONSTANTS Streams, Null

VARIABLES
  phase,     \* of every stream: how far it is
  sent,      \* how many deltas the model has sent
  answer     \* the message in the conversation, or Null

vars == <<phase, sent, answer>>

Endings == {"done", "error", "stopped"}
Phases == {"idle", "open", "settled"} \cup Endings

\* A message that ends a stream in phase p after n deltas; moderation may
\* withhold any output.
MarkOf(p) ==
  CASE p = "done" -> "none" [] p = "error" -> "broken" [] OTHER -> "stopped"

Messages(p, n) ==
  {[len |-> n, mark |-> MarkOf(p)]}
    \cup (IF n > 0 THEN {[len |-> 0, mark |-> "withheld"]} ELSE {})

Init ==
  /\ phase = [s \in Streams |-> "idle"]
  /\ sent = [s \in Streams |-> 0]
  /\ answer = [s \in Streams |-> Null]

Moves(s, from, to) == phase[s] \in from /\ phase' = [phase EXCEPT ![s] = to]

Open(s) == Moves(s, {"idle"}, "open") /\ UNCHANGED <<sent, answer>>

Send(s) ==
  /\ phase[s] = "open"
  /\ sent' = [sent EXCEPT ![s] = @ + 1]
  /\ UNCHANGED <<phase, answer>>

End(s) ==
  /\ \E how \in Endings : Moves(s, {"open"}, how)
  /\ UNCHANGED <<sent, answer>>

\* With a message or, also after some output, without one.
Answer(s) ==
  /\ Moves(s, Endings, "settled")
  /\ \E message \in Messages(phase[s], sent[s]) :
       answer' = [answer EXCEPT ![s] = message]
  /\ UNCHANGED sent

GiveUp(s) == Moves(s, Endings, "settled") /\ UNCHANGED <<sent, answer>>

\* The process ends: what was being generated or settled will never have a
\* message, nor will some streams that were being set up.
Lose ==
  /\ \E idle \in SUBSET {s \in Streams : phase[s] = "idle"} :
       phase' = [s \in Streams |->
         IF phase[s] = "idle" /\ s \notin idle THEN "idle" ELSE "settled"]
  /\ UNCHANGED <<sent, answer>>

Next ==
  \/ \E s \in Streams : Open(s) \/ Send(s) \/ End(s) \/ Answer(s) \/ GiveUp(s)
  \/ Lose

Spec == Init /\ [][Next]_vars

\* Models end, and what has ended is settled.
Fairness ==
  \A s \in Streams :
    WF_vars(End(s)) /\ WF_vars(Answer(s) \/ GiveUp(s))

FairSpec == Spec /\ Fairness
=============================================================================
