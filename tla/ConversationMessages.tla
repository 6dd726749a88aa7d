-------------------------- MODULE ConversationMessages --------------------------
(***************************************************************************)
(* The messages and the title of one conversation, as the requests on it   *)
(* change them: InputStage (the message limit, a new user message or the   *)
(* removal of the reply to regenerate and the edit of its question, the    *)
(* first title), then the reply of the generation and the refined title.   *)
(*                                                                         *)
(* Nothing stops two requests on one conversation, nor its removal while   *)
(* one is in progress, and every database operation is a step of its own.  *)
(* What lies between the second read of the messages and the reply         *)
(* (ConversationStream) is one wait here.                                  *)
(*                                                                         *)
(* A message is its id, its role and a text: what a user message asks, and *)
(* the question that a reply answers.  Not modelled: the binding of a      *)
(* prompt template, which nothing reads; pins and feedback; findOneOrFail, *)
(* which changes nothing and fails like any other operation (Fails);       *)
(* messages whose order of creation is not that of their ids.              *)
(***************************************************************************)
EXTENDS Naturals, FiniteSets

CONSTANTS
  Requests,      \* the requests that may be in progress
  Texts,         \* what can be asked
  NoText,
  MaxMessages,   \* MAX_MESSAGES
  MaxIds         \* how many messages are ever created

ASSUME RequestsAssumption == IsFiniteSet(Requests)
ASSUME MaxMessagesAssumption == MaxMessages \in Nat \ {0}
ASSUME MaxIdsAssumption == MaxIds \in Nat
ASSUME TextsAssumption == NoText \notin Texts

VARIABLES
  users,         \* the ids of the user messages in the database
  replies,       \* the ids of the assistant messages
  content,       \* the text of every message
  lastId,        \* the last id given
  title,         \* where the title comes from, and of which user message
  exists,        \* the conversation has not been removed
  lone,          \* never was a request made before another had its reply
  req            \* the requests

database == <<users, replies, content, lastId, title, exists>>
vars == <<database, lone, req>>

Ids == 1 .. MaxIds
messages == users \cup replies

\* Where a request is: the operation it waits for.
Points == {"idle", "count", "read", "delete", "edit", "create", "title",
           "reread", "reply", "refine"}

\* text: what is asked; target: the reply to remove; question: the user message
\* to answer (0 for none); edit: its content was another; fresh: no user message
\* was there before; first: isFirstAiReply.
Request == [pc : Points, regenerate : BOOLEAN, text : Texts \cup {NoText},
            target : 0 .. MaxIds, question : 0 .. MaxIds, edit : BOOLEAN,
            fresh : BOOLEAN, first : BOOLEAN]
NoRequest == [pc |-> "idle", regenerate |-> FALSE, text |-> NoText, target |-> 0,
              question |-> 0, edit |-> FALSE, fresh |-> FALSE, first |-> FALSE]

Title == [from : {"default", "question", "model", "user"}, of : 0 .. MaxIds]
NewTitle == [from |-> "default", of |-> 0]
NoContent == [m \in Ids |-> NoText]

Init ==
  /\ users = {} /\ replies = {} /\ content = NoContent /\ lastId = 0
  /\ title = NewTitle
  /\ exists = TRUE /\ lone = TRUE
  /\ req = [r \in Requests |-> NoRequest]

-----------------------------------------------------------------------------
(* Helpers.                                                                *)

Set(r, q) == req' = [req EXCEPT ![r] = q]
At(r, pc) == req[r].pc = pc
IsLast(m, S) == m \in S /\ \A n \in S : n <= m

-----------------------------------------------------------------------------
(* InputStage.execute.                                                     *)

Begin(r, regenerate, text) ==
  /\ At(r, "idle")
  /\ Set(r, [NoRequest EXCEPT !.pc = "count", !.regenerate = regenerate,
                              !.text = text])
  /\ lone' = (lone /\ \A q \in Requests : req[q].pc \in {"idle", "refine"})
  /\ UNCHANGED database

\* Mutant: refused only above the limit.
AssertMessageLimitAbove(r) ==
  /\ At(r, "count")
  /\ Set(r, IF Cardinality(messages) > MaxMessages
            THEN NoRequest ELSE [req[r] EXCEPT !.pc = "read"])
  /\ UNCHANGED <<database, lone>>

\* It does not ask whether the conversation is there, the read after it does.
AssertMessageLimit(r) ==
  /\ At(r, "count")
  /\ Set(r, IF Cardinality(messages) >= MaxMessages
            THEN NoRequest ELSE [req[r] EXCEPT !.pc = "read"])
  /\ UNCHANGED <<database, lone>>

\* getMessages: the newest MaxMessages.
Page == {m \in messages :
           Cardinality({n \in messages : n > m}) < MaxMessages}

\* Mutant: the first message is one before any reply.
ReadToSendUnanswered(r) ==
  /\ At(r, "read") /\ exists
  /\ ~req[r].regenerate
  /\ Set(r, [req[r] EXCEPT !.pc = "create", !.fresh = (Page \cap replies = {})])
  /\ UNCHANGED <<database, lone>>

ReadToSend(r) ==
  /\ At(r, "read") /\ exists
  /\ ~req[r].regenerate
  /\ Set(r, [req[r] EXCEPT !.pc = "create", !.fresh = (Page \cap users = {})])
  /\ UNCHANGED <<database, lone>>

\* q is the user message that S ends with, 0 if it ends with none.
Ends(q, S) == IF q = 0 THEN \A u \in users : ~IsLast(u, S) ELSE IsLast(q, S)
Differs(r, q) == q # 0 /\ content[q] # req[r].text
EditOrReread(edit) == IF edit THEN "edit" ELSE "reread"

\* Mutant: the question is edited while the reply to the old one is still there.
ReadToRegenerateEdits(r) ==
  /\ At(r, "read") /\ exists
  /\ req[r].regenerate
  /\ \E m \in replies, q \in users :
       /\ IsLast(m, Page) /\ IsLast(q, Page \ {m})
       /\ content' = [content EXCEPT ![q] = req[r].text]
       /\ Set(r, [req[r] EXCEPT !.pc = "delete", !.target = m, !.question = q])
  /\ UNCHANGED <<users, replies, lastId, title, exists, lone>>

\* The conversation ends with a reply, with a user message, or has neither.
ReadToRegenerate(r) ==
  /\ At(r, "read") /\ exists
  /\ req[r].regenerate
  /\ \/ \E m \in replies, q \in users \cup {0} :
          /\ IsLast(m, Page) /\ Ends(q, Page \ {m})
          /\ Set(r, [req[r] EXCEPT !.pc = "delete", !.target = m,
                       !.question = q, !.edit = Differs(r, q)])
     \/ \E q \in users :
          /\ IsLast(q, Page)
          /\ Set(r, [req[r] EXCEPT !.pc = EditOrReread(Differs(r, q)),
                                   !.question = q])
     \/ Page = {} /\ Set(r, NoRequest)
  /\ UNCHANGED <<database, lone>>

\* Mutant: deleteMany, which does not mind that the reply is gone.
DeleteMessages(r) ==
  /\ At(r, "delete")
  /\ req[r].question # 0
  /\ replies' = replies \ {req[r].target}
  /\ content' = [content EXCEPT ![req[r].target] = NoText]
  /\ Set(r, [req[r] EXCEPT !.pc = EditOrReread(req[r].edit)])
  /\ UNCHANGED <<users, lastId, title, exists, lone>>

\* deleteMessage: fails if the reply is gone.  Then the message before it has
\* to be the user's, or the request fails with the reply removed.
DeleteMessage(r) ==
  /\ At(r, "delete")
  /\ IF req[r].target \in replies
     THEN /\ replies' = replies \ {req[r].target}
          /\ content' = [content EXCEPT ![req[r].target] = NoText]
          /\ Set(r, IF req[r].question = 0 THEN NoRequest
                    ELSE [req[r] EXCEPT !.pc = EditOrReread(req[r].edit)])
     ELSE /\ Set(r, NoRequest)
          /\ UNCHANGED <<replies, content>>
  /\ UNCHANGED <<users, lastId, title, exists, lone>>

\* updateUserMessageContent, after the reply to the old content is gone.
UpdateUserMessageContent(r) ==
  /\ At(r, "edit") /\ exists
  /\ content' = [content EXCEPT ![req[r].question] = req[r].text]
  /\ Set(r, [req[r] EXCEPT !.pc = "reread"])
  /\ UNCHANGED <<users, replies, lastId, title, exists, lone>>

\* createUserMessage; a title next if there was no user message before.
CreateUserMessage(r) ==
  /\ At(r, "create") /\ exists
  /\ lastId < MaxIds
  /\ lastId' = lastId + 1
  /\ users' = users \cup {lastId + 1}
  /\ content' = [content EXCEPT ![lastId + 1] = req[r].text]
  /\ Set(r, [req[r] EXCEPT !.pc = IF req[r].fresh THEN "title" ELSE "reread",
                           !.question = lastId + 1])
  /\ UNCHANGED <<replies, title, exists, lone>>

\* updateTitleDirect(truncateTitle(...)).
UpdateTitle(r) ==
  /\ At(r, "title") /\ exists
  /\ title' = [from |-> "question", of |-> req[r].question]
  /\ Set(r, [req[r] EXCEPT !.pc = "reread"])
  /\ UNCHANGED <<users, replies, content, lastId, exists, lone>>

\* The second getMessages, which also tells whether this is the first reply.
Reread(r) ==
  /\ At(r, "reread") /\ exists
  /\ Set(r, [req[r] EXCEPT !.pc = "reply", !.first = (Page \cap replies = {})])
  /\ UNCHANGED <<database, lone>>

-----------------------------------------------------------------------------
(* The reply, and the title made from it.                                  *)

\* createAssistantMessage; refineTitle follows a first reply, unless that was
\* stopped or broken off.
CreateAssistantMessage(r) ==
  /\ At(r, "reply") /\ exists
  /\ lastId < MaxIds
  /\ lastId' = lastId + 1
  /\ replies' = replies \cup {lastId + 1}
  /\ content' = [content EXCEPT ![lastId + 1] = req[r].text]
  /\ \/ Set(r, NoRequest)
     \/ req[r].first /\ Set(r, [req[r] EXCEPT !.pc = "refine"])
  /\ UNCHANGED <<users, title, exists, lone>>

\* refineTitle: the model's title, when it is one.
RefineTitle(r) ==
  /\ At(r, "refine") /\ exists
  /\ title' = [from |-> "model", of |-> req[r].question]
  /\ Set(r, NoRequest)
  /\ UNCHANGED <<users, replies, content, lastId, exists, lone>>

\* An operation fails, the generation ends without a message, the refined
\* title is none, or the process ends.
Fails(r) ==
  /\ ~At(r, "idle")
  /\ Set(r, NoRequest)
  /\ UNCHANGED <<database, lone>>

-----------------------------------------------------------------------------
(* What the user does to the conversation itself.                          *)

\* PATCH :id.
Rename ==
  /\ exists
  /\ title' = [from |-> "user", of |-> 0]
  /\ UNCHANGED <<users, replies, content, lastId, exists, lone, req>>

\* remove, removeAllByUser: the messages go with it (onDelete: Cascade).
Remove ==
  /\ exists
  /\ exists' = FALSE
  /\ users' = {} /\ replies' = {} /\ content' = NoContent
  /\ title' = NewTitle
  /\ UNCHANGED <<lastId, lone, req>>

Next ==
  \/ \E r \in Requests :
       \/ \E regenerate \in BOOLEAN, text \in Texts : Begin(r, regenerate, text)
       \/ AssertMessageLimit(r) \/ ReadToSend(r) \/ ReadToRegenerate(r)
       \/ DeleteMessage(r) \/ UpdateUserMessageContent(r) \/ CreateUserMessage(r)
       \/ UpdateTitle(r) \/ Reread(r)
       \/ CreateAssistantMessage(r) \/ RefineTitle(r) \/ Fails(r)
  \/ Rename \/ Remove

Spec == Init /\ [][Next]_vars

-----------------------------------------------------------------------------
(* Properties.                                                             *)

TypeOK ==
  /\ users \subseteq 1 .. lastId
  /\ replies \subseteq 1 .. lastId
  /\ users \cap replies = {}
  /\ content \in [Ids -> Texts \cup {NoText}]
  /\ lastId \in 0 .. MaxIds
  /\ title \in Title
  /\ exists \in BOOLEAN /\ lone \in BOOLEAN
  /\ req \in [Requests -> Request]

\* The requests past the limit that are still to create a user message, and
\* those that are still to create a reply.
Asking == {r \in Requests : req[r].pc \in {"read", "create"}}
Answering ==
  {r \in Requests :
     req[r].pc \in {"read", "delete", "edit", "create", "title", "reread",
                    "reply"}}

\* The limit is checked once, before two messages are written: what is stored and
\* what is still to come overrun it by at most one message, and two more for
\* every other request in progress.
OverrunBounded ==
  Cardinality(messages) + Cardinality(Asking) + Cardinality(Answering)
    <= MaxMessages - 1 + 2 * Cardinality(Requests)

\* Of two regenerations of one reply one fails: no reply is replaced twice.
Replacing(r) ==
  req[r].regenerate /\ req[r].target # 0 /\ req[r].pc \notin {"idle", "delete"}
ReplacedOnce ==
  \A r, q \in Requests :
    Replacing(r) /\ Replacing(q) /\ req[r].target = req[q].target => r = q

\* What makes it inductive: a reply being replaced is gone for good.
ReplacedGone ==
  \A r \in Requests : Replacing(r) => req[r].target \in (1 .. lastId) \ messages
TargetsKnown == \A r \in Requests : req[r].target <= lastId
ReplacedInv == ReplacedOnce /\ ReplacedGone /\ TargetsKnown

\* Of the user messages q is the one right before reply m.
Follows(m, q) == q < m /\ \A n \in messages : n < m => n <= q

\* Whatever fails half way and however often it is regenerated, every stored reply
\* is right behind its question and answers the question as that is stored, as
\* long as the user waits for each reply: the reply is removed before its
\* question is edited, and a new one comes after that.
AnswersItsQuestion ==
  lone => \A m \in replies :
            \E q \in users : Follows(m, q) /\ content[m] = content[q]

\* title.service.ts:75: the first user message makes the first title, unless a
\* second request comes before the first has its reply (then the later one may).
TitleOfFirstMessage ==
  lone /\ title.from = "question" =>
    title.of \in users /\ \A m \in users : title.of <= m

\* What makes the two inductive: of requests that follow each other at most one
\* is at work; what it is about ends the conversation; and the messages it read
\* were all there are.
Working(r) == req[r].pc \notin {"idle", "refine"}
OneAtWork == \A r, q \in Requests : Working(r) /\ Working(q) => r = q
AllRead ==
  \A r \in Requests :
    /\ At(r, "read") => Cardinality(messages) < MaxMessages
    /\ At(r, "create") /\ req[r].fresh => users = {}
TargetLast ==
  \A r \in Requests : At(r, "delete") /\ exists =>
    /\ req[r].target \in replies /\ IsLast(req[r].target, messages)
    /\ req[r].question # 0 =>
         /\ req[r].question \in users /\ Follows(req[r].target, req[r].question)
         /\ ~req[r].edit => content[req[r].question] = req[r].text
QuestionLast ==
  \A r \in Requests :
    exists /\ req[r].pc \in {"edit", "title", "reread", "reply"} =>
      /\ req[r].question \in users /\ IsLast(req[r].question, messages)
      /\ ~At(r, "edit") => content[req[r].question] = req[r].text
      /\ At(r, "title") => \A m \in users : req[r].question <= m
LoneInv ==
  /\ exists \/ messages = {}
  /\ AnswersItsQuestion /\ TitleOfFirstMessage
  /\ lone => OneAtWork /\ AllRead /\ TargetLast /\ QuestionLast

-----------------------------------------------------------------------------
(* What comments in the code say, which the code does not do.              *)

\* constants.ts:1: the most messages of one conversation.  The reply to the last
\* message that was allowed is one too many.
MessagesWithinLimit == Cardinality(messages) <= MaxMessages

=============================================================================
