-------------------------- MODULE ConversationSummary --------------------------
(***************************************************************************)
(* SummaryService: the rolling summary of one conversation.                *)
(*                                                                         *)
(* A summary is made in the background after every reply, and before a     *)
(* request goes on when a long conversation has none.  updateSummary reads *)
(* the conversation, then the messages, asks the model for a new summary,  *)
(* has it shortened when it is too long, and stores it on condition that   *)
(* summarizedMessageId moves forward.  Several of these run at once, and   *)
(* messages come and go meanwhile.                                         *)
(*                                                                         *)
(* A summary is the set of the messages it was made from, through all the  *)
(* summaries before it; null and '' are the empty set (the code tests for  *)
(* both in one way).  Every database operation is one step.                *)
(*                                                                         *)
(* Not modelled: messages whose order of creation is not that of their     *)
(* ids; the removal of the whole conversation (updateMany then matches     *)
(* nothing).                                                               *)
(***************************************************************************)
EXTENDS Naturals, FiniteSets

CONSTANTS
  Jobs,          \* the calls of updateSummary that may be in progress
  RecentCount,   \* RECENT_COUNT
  Trigger,       \* SUMMARY_TRIGGER
  MaxMessages,   \* how many messages are ever created
  MaxRemovals    \* how many replies are removed by a regeneration

\* slice(-0) would be all messages: with no recent window nothing is summarised.
ASSUME RecentCountAssumption == RecentCount \in Nat \ {0}
ASSUME TriggerAssumption == Trigger \in Nat
ASSUME MaxMessagesAssumption == MaxMessages \in Nat
ASSUME MaxRemovalsAssumption == MaxRemovals \in Nat

VARIABLES
  messages,      \* the ids of the messages in the database
  replies,       \* those of them the assistant wrote
  lastId,        \* the last id given
  summary,       \* Conversation.summary, as the messages it was made from
  summarizedId,  \* Conversation.summarizedMessageId, 0 for null
  job,           \* the calls of updateSummary
  emptied,       \* history: an empty summary has been stored
  removals,      \* how many replies were removed
  peak           \* history: the most messages there ever were

vars == <<messages, replies, lastId, summary, summarizedId, job, emptied,
          removals, peak>>
messageVars == <<messages, replies, lastId, removals, peak>>
summaryVars == <<summary, summarizedId, emptied>>

Ids == 1 .. MaxMessages
JobStages == {"idle", "conversation", "messages", "model", "compress", "store"}

\* base and upto: the summary and summarizedMessageId it has read; todo: the
\* messages to summarise; last: the id of the last of them; text: the result.
Job == [stage : JobStages, base : SUBSET Ids, upto : 0 .. MaxMessages,
        todo : SUBSET Ids, last : 0 .. MaxMessages, text : SUBSET Ids]
NoJob == [stage |-> "idle", base |-> {}, upto |-> 0, todo |-> {}, last |-> 0,
          text |-> {}]

Init ==
  /\ messages = {} /\ replies = {} /\ lastId = 0
  /\ summary = {} /\ summarizedId = 0
  /\ job = [j \in Jobs |-> NoJob]
  /\ emptied = FALSE /\ removals = 0 /\ peak = 0

-----------------------------------------------------------------------------
(* Messages.                                                               *)

NewMessage ==
  /\ lastId < MaxMessages
  /\ lastId' = lastId + 1
  /\ messages' = messages \cup {lastId + 1}
  /\ peak' = IF Cardinality(messages) >= peak THEN Cardinality(messages) + 1
                                              ELSE peak
  /\ UNCHANGED <<summaryVars, removals>>

Schedule(j) ==
  /\ job[j].stage = "idle"
  /\ job' = [job EXCEPT ![j] = [@ EXCEPT !.stage = "conversation"]]

UserMessage ==
  /\ NewMessage
  /\ UNCHANGED <<replies, job>>

\* The finalizer stores the reply and calls scheduleSummaryUpdate.
AssistantMessage(j) ==
  /\ NewMessage
  /\ replies' = replies \cup {lastId + 1}
  /\ Schedule(j)

\* A regeneration removes the reply the conversation ends with.
RemoveReply(m) ==
  /\ removals < MaxRemovals
  /\ m \in replies
  /\ \A n \in messages : n <= m
  /\ messages' = messages \ {m}
  /\ replies' = replies \ {m}
  /\ removals' = removals + 1
  /\ UNCHANGED <<lastId, summaryVars, job, peak>>

-----------------------------------------------------------------------------
(* What there is to summarise.                                             *)

\* Mutant: the window is one message short.
ToSummarizeOneMore(upto) ==
  LET unsummarized == {m \in messages : m > upto} IN
  {m \in unsummarized :
     Cardinality({n \in unsummarized : n > m}) >= RecentCount - 1}

\* getMessagesToSummarize: what follows upto, without the RecentCount newest.
ToSummarize(upto) ==
  LET unsummarized == {m \in messages : m > upto} IN
  {m \in unsummarized :
     Cardinality({n \in unsummarized : n > m}) >= RecentCount}

\* needsSummary, asked when a request finds the conversation without summary.
NeedsSummary ==
  /\ Cardinality(messages) > Trigger
  /\ ToSummarize(summarizedId) # {}

\* InputStage has generateInitialSummary run first (its two reads taken as one).
InitialSummary(j) ==
  /\ summary = {}
  /\ NeedsSummary
  /\ Schedule(j)
  /\ UNCHANGED <<messageVars, summaryVars>>

-----------------------------------------------------------------------------
(* updateSummary.                                                          *)

ReadConversation(j) ==
  /\ job[j].stage = "conversation"
  /\ job' = [job EXCEPT ![j] = [NoJob EXCEPT !.stage = "messages",
                                             !.base = summary,
                                             !.upto = summarizedId]]
  /\ UNCHANGED <<messageVars, summaryVars>>

\* findMany, and the prompt, if there is anything to summarise.
ReadMessages(j) ==
  LET todo == ToSummarize(job[j].upto) IN
  /\ job[j].stage = "messages"
  /\ \E last \in todo :
       /\ \A m \in todo : m <= last
       /\ job' = [job EXCEPT ![j] = [@ EXCEPT !.stage = "model", !.todo = todo,
                                              !.last = last]]
  /\ UNCHANGED <<messageVars, summaryVars>>

NothingToDo(j) ==
  /\ job[j].stage = "messages"
  /\ ToSummarize(job[j].upto) = {}
  /\ job' = [job EXCEPT ![j] = NoJob]
  /\ UNCHANGED <<messageVars, summaryVars>>

\* Mutant: the prompt leaves the existing summary out.
SummarizedAnew(j) == job[j].todo
Summarized(j) == job[j].base \cup job[j].todo

\* The model's summary: short enough, or to be compressed first.
Replied(j) ==
  /\ job[j].stage = "model"
  /\ \E next \in {"store", "compress"} :
       job' = [job EXCEPT ![j] = [@ EXCEPT !.stage = next,
                                           !.text = Summarized(j)]]
  /\ UNCHANGED <<messageVars, summaryVars>>

\* The compressed summary (cut off when the model fails), which may be empty.
Compressed(j) ==
  /\ job[j].stage = "compress"
  /\ \E text \in {job[j].text, {}} :
       job' = [job EXCEPT ![j] = [@ EXCEPT !.stage = "store", !.text = text]]
  /\ UNCHANGED <<messageVars, summaryVars>>

\* Mutant: update instead of updateMany with a condition.
StoredAnyway(j) ==
  /\ job[j].stage = "store"
  /\ summary' = job[j].text
  /\ summarizedId' = job[j].last
  /\ emptied' = (emptied \/ job[j].text = {})
  /\ job' = [job EXCEPT ![j] = NoJob]
  /\ UNCHANGED messageVars

\* updateMany, where summarizedMessageId is null or less than the new one.
Stored(j) ==
  /\ job[j].stage = "store"
  /\ IF summarizedId < job[j].last
     THEN /\ summary' = job[j].text
          /\ summarizedId' = job[j].last
          /\ emptied' = (emptied \/ job[j].text = {})
     ELSE UNCHANGED summaryVars
  /\ job' = [job EXCEPT ![j] = NoJob]
  /\ UNCHANGED messageVars

\* The model or the database fails, the first reply is empty, or the process
\* ends: a warning at most.
Fails(j) ==
  /\ job[j].stage # "idle"
  /\ job' = [job EXCEPT ![j] = NoJob]
  /\ UNCHANGED <<messageVars, summaryVars>>

UpdateSummary(j) ==
  \/ ReadConversation(j) \/ ReadMessages(j) \/ NothingToDo(j)
  \/ Replied(j) \/ Compressed(j) \/ Stored(j) \/ Fails(j)

Next ==
  \/ UserMessage
  \/ \E m \in messages : RemoveReply(m)
  \/ \E j \in Jobs : AssistantMessage(j) \/ InitialSummary(j) \/ UpdateSummary(j)

Spec == Init /\ [][Next]_vars

-----------------------------------------------------------------------------
(* Properties.                                                             *)

TypeOK ==
  /\ lastId \in 0 .. MaxMessages
  /\ messages \subseteq 1 .. lastId
  /\ replies \subseteq messages
  /\ summary \subseteq Ids
  /\ summarizedId \in 0 .. lastId
  /\ job \in [Jobs -> Job]
  /\ \A j \in Jobs : job[j].upto <= lastId /\ job[j].last <= lastId
  /\ emptied \in BOOLEAN
  /\ removals \in 0 .. MaxRemovals
  /\ peak \in 0 .. MaxMessages

Covers(text, id) == \A m \in messages : m <= id => m \in text

\* Nothing is forgotten: a message up to summarizedMessageId, which is not sent
\* to the model any more (ContextPruningService), is in the summary that was
\* stored, whichever of the concurrent updates came last; unless one of the
\* summaries was lost to an empty answer to the compression.
NothingForgotten == ~emptied => Covers(summary, summarizedId)

\* What makes it inductive: the same of what the calls under way have in hand.
JobRemembers(j) ==
  /\ Covers(job[j].base, job[j].upto)
  /\ job[j].stage = "model" => Covers(Summarized(j), job[j].last)
  /\ job[j].stage \in {"compress", "store"} =>
       job[j].text = {} \/ Covers(job[j].text, job[j].last)
JobsRemember == ~emptied => \A j \in Jobs : JobRemembers(j)
SummaryInv == NothingForgotten /\ JobsRemember

\* A late update never replaces a newer summary.
SummaryMovesForward ==
  [][<<summary, summarizedId>>' # <<summary, summarizedId>>
       => summarizedId' > summarizedId]_vars

\* The model is sent the RecentCount newest messages as they are: they are not
\* summarised, but for those a regeneration makes the newest.
WindowAfter(id) ==
  Cardinality({m \in messages : m > id}) + removals >= RecentCount
RecentWindowKept == summarizedId > 0 => WindowAfter(summarizedId)

\* What makes it inductive: the calls under way stay out of the window too.
JobsKeepWindow ==
  \A j \in Jobs :
    job[j].stage \in {"model", "compress", "store"} => WindowAfter(job[j].last)
WindowInv == RecentWindowKept /\ JobsKeepWindow

\* context-pruning.service.ts:25: the messages that are dropped from the
\* context are covered by the summary.  An empty compressed summary is stored
\* like any other and covers none of them.
DroppedIsCovered == Covers(summary, summarizedId)

\* constants.ts:11: the summary mode starts above SUMMARY_TRIGGER messages.
\* The update after a reply does not look at SUMMARY_TRIGGER.
SummaryAboveTrigger == summarizedId > 0 => peak > Trigger

=============================================================================
