----------------------- MODULE ConversationMessagesProofs -----------------------
(***************************************************************************)
(* For any number of requests, any texts and any limit: by how much the    *)
(* limit can be overrun, that no reply is replaced twice, and that every   *)
(* reply answers the question before it and the title is of the first one, *)
(* as long as one request follows the other.                               *)
(***************************************************************************)
EXTENDS ConversationMessages, FiniteSetTheorems, TLAPS

-----------------------------------------------------------------------------
(* What a step does to the request that takes it, field by field.          *)

\* Only r moves.
Moves(r) ==
  /\ req' \in [Requests -> Request]
  /\ \A p \in Requests \ {r} : req'[p] = req[p]

\* r still asks the same and is about the same messages.
Same(r) ==
  /\ req'[r].regenerate = req[r].regenerate
  /\ req'[r].text = req[r].text
  /\ req'[r].target = req[r].target

Leaves(r) == req'[r] = NoRequest

\* Messages have ids that have been given.
LEMMA IdsKnown ==
  ASSUME TypeOK
  PROVE  /\ \A m \in users \cup replies : m \in Nat \ {0} /\ m <= lastId /\ m \in Ids
         /\ lastId \in Nat /\ MaxIds \in Nat
         /\ Page \subseteq users \cup replies
PROOF
  <1>1. lastId \in Nat /\ MaxIds \in Nat /\ lastId <= MaxIds
    BY MaxIdsAssumption DEF TypeOK
  <1>2. \A m \in users \cup replies : m \in Nat \ {0} /\ m <= lastId /\ m \in Ids
    BY <1>1 DEF TypeOK, Ids
  <1>3. Page \subseteq users \cup replies
    BY DEF Page, messages
  <1> QED
    BY <1>1, <1>2, <1>3

LEMMA Nobody ==
  /\ NoRequest \in Request
  /\ NoRequest.pc = "idle" /\ NoRequest.target = 0
  /\ NoRequest.question = 0 /\ NoRequest.regenerate = FALSE
  BY MaxIdsAssumption DEF NoRequest, Request, Points

\* What Set leaves of the requests.
LEMMA SetOne ==
  ASSUME NEW r \in Requests, NEW q \in Request, Set(r, q), TypeOK
  PROVE  Moves(r) /\ req'[r] = q
  BY DEF Set, Moves, TypeOK

LEMMA BeginFields ==
  ASSUME TypeOK, NEW r \in Requests, NEW regenerate \in BOOLEAN, NEW text \in Texts,
         Begin(r, regenerate, text)
  PROVE  /\ Moves(r) /\ UNCHANGED database
         /\ req[r].pc = "idle" /\ req'[r].pc = "count" /\ req'[r].target = 0
         /\ lone' = (lone /\ \A q \in Requests : req[q].pc \in {"idle", "refine"})
PROOF
  <1> DEFINE q == [NoRequest EXCEPT !.pc = "count", !.regenerate = regenerate,
                                    !.text = text]
  <1>1. q \in Request /\ q.pc = "count" /\ q.target = 0
    BY Nobody DEF Request, Points
  <1>2. Set(r, q)
    BY DEF Begin
  <1> HIDE DEF q
  <1> QED
    BY <1>1, <1>2, SetOne DEF Begin, At

LEMMA AssertMessageLimitFields ==
  ASSUME TypeOK, NEW r \in Requests, AssertMessageLimit(r)
  PROVE  /\ Moves(r) /\ UNCHANGED <<database, lone>>
         /\ req[r].pc = "count"
         /\ \/ Leaves(r) /\ Cardinality(messages) >= MaxMessages
            \/ /\ Same(r) /\ req'[r].pc = "read"
               /\ ~(Cardinality(messages) >= MaxMessages)
PROOF
  <1> DEFINE q == [req[r] EXCEPT !.pc = "read"]
  <1>1. /\ q \in Request /\ q.pc = "read" /\ q.text = req[r].text
        /\ q.regenerate = req[r].regenerate /\ q.target = req[r].target
    BY DEF TypeOK, Request, Points
  <1>2. Set(r, IF Cardinality(messages) >= MaxMessages THEN NoRequest ELSE q)
    BY DEF AssertMessageLimit
  <1> HIDE DEF q
  <1> QED
    BY <1>1, <1>2, Nobody, SetOne DEF AssertMessageLimit, At, Same, Leaves

LEMMA ReadToSendFields ==
  ASSUME TypeOK, NEW r \in Requests, ReadToSend(r)
  PROVE  /\ Moves(r) /\ Same(r) /\ UNCHANGED <<database, lone>>
         /\ req[r].pc = "read" /\ req'[r].pc = "create"
         /\ req'[r].fresh = (Page \cap users = {})
PROOF
  <1> DEFINE q == [req[r] EXCEPT !.pc = "create", !.fresh = (Page \cap users = {})]
  <1>1. /\ q \in Request /\ q.pc = "create" /\ q.text = req[r].text
        /\ q.regenerate = req[r].regenerate /\ q.target = req[r].target
        /\ q.fresh = (Page \cap users = {})
    BY DEF TypeOK, Request, Points
  <1>2. Set(r, q)
    BY DEF ReadToSend
  <1> HIDE DEF q
  <1> QED
    BY <1>1, <1>2, SetOne DEF ReadToSend, At, Same

\* It finds a reply to remove, or a question, or leaves.
LEMMA ReadToRegenerateFields ==
  ASSUME TypeOK, NEW r \in Requests, ReadToRegenerate(r)
  PROVE  /\ Moves(r) /\ UNCHANGED <<database, lone>>
         /\ req[r].pc = "read"
         /\ \/ /\ req'[r].pc = "delete" /\ req'[r].text = req[r].text
               /\ req'[r].target \in replies /\ IsLast(req'[r].target, Page)
               /\ req'[r].question \in users \cup {0}
               /\ Ends(req'[r].question, Page \ {req'[r].target})
               /\ req'[r].edit = Differs(r, req'[r].question)
            \/ /\ Same(r)
               /\ req'[r].question \in users /\ IsLast(req'[r].question, Page)
               /\ req'[r].pc = EditOrReread(Differs(r, req'[r].question))
            \/ Leaves(r)
PROOF
  <1>0. \A m \in users \cup replies \cup {0} : m \in 0 .. MaxIds
    BY IdsKnown DEF Ids
  <1>1. ASSUME NEW m \in replies, NEW u \in users \cup {0},
               IsLast(m, Page), Ends(u, Page \ {m}),
               Set(r, [req[r] EXCEPT !.pc = "delete", !.target = m,
                         !.question = u, !.edit = Differs(r, u)])
        PROVE  /\ Moves(r)
               /\ req'[r].pc = "delete" /\ req'[r].text = req[r].text
               /\ req'[r].target \in replies /\ IsLast(req'[r].target, Page)
               /\ req'[r].question \in users \cup {0}
               /\ Ends(req'[r].question, Page \ {req'[r].target})
               /\ req'[r].edit = Differs(r, req'[r].question)
    <2>0. Differs(r, u) \in BOOLEAN
      BY DEF Differs
    <2> DEFINE e == Differs(r, u)
               q == [req[r] EXCEPT !.pc = "delete", !.target = m,
                                   !.question = u, !.edit = e]
    <2>1. Set(r, q)
      BY <1>1
    <2> HIDE DEF e
    <2>2. /\ q \in Request /\ q.pc = "delete" /\ q.text = req[r].text
          /\ q.target = m /\ q.question = u /\ q.edit = e
      BY <1>0, <2>0 DEF TypeOK, Request, Points, e
    <2> HIDE DEF q
    <2>3. Moves(r) /\ req'[r] = q
      BY <2>1, <2>2, SetOne
    <2> QED
      BY <1>1, <2>2, <2>3 DEF e
  <1>2. ASSUME NEW u \in users, IsLast(u, Page),
               Set(r, [req[r] EXCEPT !.pc = EditOrReread(Differs(r, u)), !.question = u])
        PROVE  /\ Moves(r) /\ Same(r)
               /\ req'[r].question \in users /\ IsLast(req'[r].question, Page)
               /\ req'[r].pc = EditOrReread(Differs(r, req'[r].question))
    <2>0. EditOrReread(Differs(r, u)) \in {"edit", "reread"}
      BY DEF EditOrReread
    <2> DEFINE e == EditOrReread(Differs(r, u))
               q == [req[r] EXCEPT !.pc = e, !.question = u]
    <2>1. Set(r, q)
      BY <1>2
    <2> HIDE DEF e
    <2>2. /\ q \in Request /\ q.pc = e /\ q.text = req[r].text
          /\ q.target = req[r].target /\ q.question = u
          /\ q.regenerate = req[r].regenerate
      BY <1>0, <2>0 DEF TypeOK, Request, Points, e
    <2> HIDE DEF q
    <2>3. Moves(r) /\ req'[r] = q
      BY <2>1, <2>2, SetOne
    <2> QED
      BY <1>2, <2>2, <2>3 DEF e, Same
  <1>3. ASSUME Set(r, NoRequest)
        PROVE  Moves(r) /\ Leaves(r)
    BY <1>3, Nobody, SetOne DEF Leaves
  <1> QED
    BY <1>1, <1>2, <1>3 DEF ReadToRegenerate, At

LEMMA DeleteMessageFields ==
  ASSUME TypeOK, NEW r \in Requests, DeleteMessage(r)
  PROVE  /\ Moves(r) /\ UNCHANGED <<users, lastId, title, exists, lone>>
         /\ req[r].pc = "delete"
         /\ \/ Leaves(r) /\ req[r].target \notin replies /\ UNCHANGED <<replies, content>>
            \/ /\ req[r].target \in replies
               /\ replies' = replies \ {req[r].target}
               /\ content' = [content EXCEPT ![req[r].target] = NoText]
               /\ \/ Leaves(r)
                  \/ /\ Same(r) /\ req[r].question # 0
                     /\ req'[r].question = req[r].question
                     /\ req'[r].pc = EditOrReread(req[r].edit)
PROOF
  <1>0. EditOrReread(req[r].edit) \in {"edit", "reread"}
    BY DEF EditOrReread
  <1> DEFINE e == EditOrReread(req[r].edit)
             q == [req[r] EXCEPT !.pc = e]
  <1>1. Set(r, NoRequest) \/ (Set(r, q) /\ req[r].target \in replies /\ req[r].question # 0)
    BY DEF DeleteMessage
  <1> HIDE DEF e
  <1>2. /\ q \in Request /\ q.pc = e /\ q.text = req[r].text
        /\ q.target = req[r].target /\ q.question = req[r].question
        /\ q.regenerate = req[r].regenerate
    BY <1>0 DEF TypeOK, Request, Points, e
  <1> HIDE DEF q
  <1>3. /\ Moves(r)
        /\ \/ Leaves(r)
           \/ /\ Same(r) /\ req[r].target \in replies /\ req[r].question # 0
              /\ req'[r].question = req[r].question /\ req'[r].pc = e
    BY <1>1, <1>2, Nobody, SetOne DEF Same, Leaves
  <1>4. CASE req[r].target \in replies
    BY <1>3, <1>4 DEF DeleteMessage, At, e
  <1>5. CASE req[r].target \notin replies
    BY <1>3, <1>5 DEF DeleteMessage, At
  <1> QED
    BY <1>4, <1>5

LEMMA UpdateUserMessageContentFields ==
  ASSUME TypeOK, NEW r \in Requests, UpdateUserMessageContent(r)
  PROVE  /\ Moves(r) /\ Same(r)
         /\ UNCHANGED <<users, replies, lastId, title, exists, lone>>
         /\ content' = [content EXCEPT ![req[r].question] = req[r].text]
         /\ req[r].pc = "edit" /\ req'[r].pc = "reread" /\ exists
         /\ req'[r].question = req[r].question
PROOF
  <1> DEFINE q == [req[r] EXCEPT !.pc = "reread"]
  <1>1. /\ q \in Request /\ q.pc = "reread" /\ q.text = req[r].text
        /\ q.target = req[r].target /\ q.question = req[r].question
        /\ q.regenerate = req[r].regenerate
    BY DEF TypeOK, Request, Points
  <1>2. Set(r, q)
    BY DEF UpdateUserMessageContent
  <1> HIDE DEF q
  <1> QED
    BY <1>1, <1>2, SetOne DEF UpdateUserMessageContent, At, Same

LEMMA CreateUserMessageFields ==
  ASSUME TypeOK, NEW r \in Requests, CreateUserMessage(r)
  PROVE  /\ Moves(r) /\ Same(r) /\ UNCHANGED <<replies, title, exists, lone>>
         /\ lastId' = lastId + 1 /\ lastId + 1 \in Ids /\ exists
         /\ users' = users \cup {lastId + 1}
         /\ content' = [content EXCEPT ![lastId + 1] = req[r].text]
         /\ req[r].pc = "create" /\ req'[r].question = lastId + 1
         /\ \/ req'[r].pc = "title" /\ req[r].fresh
            \/ req'[r].pc = "reread"
PROOF
  <1>0. lastId + 1 \in Ids /\ lastId + 1 \in 0 .. MaxIds
    BY IdsKnown DEF CreateUserMessage, Ids
  <1>1. PICK pc \in {"title", "reread"} :
          /\ Set(r, [req[r] EXCEPT !.pc = pc, !.question = lastId + 1])
          /\ pc = "title" => req[r].fresh
    BY DEF CreateUserMessage
  <1> DEFINE q == [req[r] EXCEPT !.pc = pc, !.question = lastId + 1]
  <1>2. /\ q \in Request /\ q.pc = pc /\ q.text = req[r].text
        /\ q.target = req[r].target /\ q.question = lastId + 1
        /\ q.regenerate = req[r].regenerate
    BY <1>0 DEF TypeOK, Request, Points
  <1>3. Set(r, q)
    BY <1>1
  <1> HIDE DEF q
  <1>4. Moves(r) /\ req'[r] = q
    BY <1>2, <1>3, SetOne
  <1> QED
    BY <1>0, <1>1, <1>2, <1>4 DEF CreateUserMessage, At, Same

LEMMA UpdateTitleFields ==
  ASSUME TypeOK, NEW r \in Requests, UpdateTitle(r)
  PROVE  /\ Moves(r) /\ Same(r)
         /\ UNCHANGED <<users, replies, content, lastId, exists, lone>>
         /\ title' = [from |-> "question", of |-> req[r].question]
         /\ req[r].pc = "title" /\ req'[r].pc = "reread" /\ exists
         /\ req'[r].question = req[r].question
PROOF
  <1> DEFINE q == [req[r] EXCEPT !.pc = "reread"]
  <1>1. /\ q \in Request /\ q.pc = "reread" /\ q.text = req[r].text
        /\ q.target = req[r].target /\ q.question = req[r].question
        /\ q.regenerate = req[r].regenerate
    BY DEF TypeOK, Request, Points
  <1>2. Set(r, q)
    BY DEF UpdateTitle
  <1> HIDE DEF q
  <1> QED
    BY <1>1, <1>2, SetOne DEF UpdateTitle, At, Same

LEMMA RereadFields ==
  ASSUME TypeOK, NEW r \in Requests, Reread(r)
  PROVE  /\ Moves(r) /\ Same(r) /\ UNCHANGED <<database, lone>>
         /\ req[r].pc = "reread" /\ req'[r].pc = "reply"
         /\ req'[r].question = req[r].question
PROOF
  <1> DEFINE f == (Page \cap replies = {})
             q == [req[r] EXCEPT !.pc = "reply", !.first = f]
  <1>1. Set(r, q)
    BY DEF Reread
  <1>2. f \in BOOLEAN
    OBVIOUS
  <1> HIDE DEF f
  <1>3. /\ q \in Request /\ q.pc = "reply" /\ q.text = req[r].text
        /\ q.target = req[r].target /\ q.question = req[r].question
        /\ q.regenerate = req[r].regenerate
    BY <1>2 DEF TypeOK, Request, Points
  <1> HIDE DEF q
  <1> QED
    BY <1>1, <1>3, SetOne DEF Reread, At, Same

LEMMA CreateAssistantMessageFields ==
  ASSUME TypeOK, NEW r \in Requests, CreateAssistantMessage(r)
  PROVE  /\ Moves(r) /\ UNCHANGED <<users, title, exists, lone>>
         /\ lastId' = lastId + 1 /\ lastId + 1 \in Ids /\ exists
         /\ replies' = replies \cup {lastId + 1}
         /\ content' = [content EXCEPT ![lastId + 1] = req[r].text]
         /\ req[r].pc = "reply"
         /\ Leaves(r) \/ (Same(r) /\ req'[r].pc = "refine")
PROOF
  <1>0. lastId + 1 \in Ids
    BY IdsKnown DEF CreateAssistantMessage, Ids
  <1> DEFINE q == [req[r] EXCEPT !.pc = "refine"]
  <1>1. /\ q \in Request /\ q.pc = "refine" /\ q.text = req[r].text
        /\ q.target = req[r].target /\ q.regenerate = req[r].regenerate
    BY DEF TypeOK, Request, Points
  <1>2. Set(r, NoRequest) \/ Set(r, q)
    BY DEF CreateAssistantMessage
  <1> HIDE DEF q
  <1>3. Moves(r) /\ (Leaves(r) \/ (Same(r) /\ req'[r].pc = "refine"))
    BY <1>1, <1>2, Nobody, SetOne DEF Same, Leaves
  <1> QED
    BY <1>0, <1>3 DEF CreateAssistantMessage, At

LEMMA RefineTitleFields ==
  ASSUME TypeOK, NEW r \in Requests, RefineTitle(r)
  PROVE  /\ Moves(r) /\ Leaves(r)
         /\ UNCHANGED <<users, replies, content, lastId, exists, lone>>
         /\ title' = [from |-> "model", of |-> req[r].question]
  BY Nobody, SetOne DEF RefineTitle, Leaves

LEMMA FailsFields ==
  ASSUME TypeOK, NEW r \in Requests, Fails(r)
  PROVE  Moves(r) /\ Leaves(r) /\ UNCHANGED <<database, lone>>
  BY Nobody, SetOne DEF Fails, Leaves

-----------------------------------------------------------------------------
(* Types.                                                                  *)

\* Nothing has been written.
LEMMA TypeInit == Init => TypeOK
PROOF
  <1> SUFFICES ASSUME Init PROVE TypeOK
    OBVIOUS
  <1>1. MaxIds \in Nat
    BY MaxIdsAssumption
  <1> QED
    BY <1>1, Nobody DEF Init, TypeOK, Title, NewTitle, NoContent

\* Every action keeps the types.
LEMMA TypeNext == TypeOK /\ [Next]_vars => TypeOK'
PROOF
  <1> SUFFICES ASSUME TypeOK, [Next]_vars PROVE TypeOK'
    OBVIOUS
  <1>0. /\ \A m \in users \cup replies : m \in Nat \ {0} /\ m <= lastId /\ m \in Ids
        /\ lastId \in Nat /\ MaxIds \in Nat
    BY IdsKnown
  <1>R. \A r \in Requests : req[r] \in Request
    BY DEF TypeOK
  <1>T. \A r \in Requests : req[r].text \in Texts \cup {NoText}
    BY <1>R DEF Request
  <1>Q. \A r \in Requests : req[r].question \in 0 .. MaxIds
    BY <1>R DEF Request
  <1>K. ASSUME NEW r \in Requests, Moves(r), UNCHANGED <<database, lone>>
        PROVE  TypeOK'
    BY <1>K DEF TypeOK, database, Moves
  <1>1. ASSUME NEW r \in Requests, NEW regenerate \in BOOLEAN, NEW text \in Texts,
               Begin(r, regenerate, text)
        PROVE  TypeOK'
    <2>1. Moves(r) /\ UNCHANGED database /\ lone' \in BOOLEAN
      BY <1>1, BeginFields
    <2> QED
      BY <2>1 DEF TypeOK, database, Moves
  <1>2. ASSUME NEW r \in Requests,
               \/ AssertMessageLimit(r) \/ ReadToSend(r) \/ ReadToRegenerate(r)
               \/ Reread(r) \/ Fails(r)
        PROVE  TypeOK'
    BY <1>2, <1>K, AssertMessageLimitFields, ReadToSendFields,
       ReadToRegenerateFields, RereadFields, FailsFields
  <1>3. ASSUME NEW r \in Requests, DeleteMessage(r)
        PROVE  TypeOK'
    <2>1. /\ Moves(r) /\ UNCHANGED <<users, lastId, title, exists, lone>>
          /\ replies' \subseteq replies
          /\ \/ content' = content
             \/ content' = [content EXCEPT ![req[r].target] = NoText]
      BY <1>3, DeleteMessageFields
    <2>2. content' \in [Ids -> Texts \cup {NoText}]
      BY <2>1 DEF TypeOK
    <2> QED
      BY <2>1, <2>2 DEF TypeOK, Moves
  <1>4. ASSUME NEW r \in Requests, UpdateUserMessageContent(r)
        PROVE  TypeOK'
    <2>1. /\ Moves(r) /\ UNCHANGED <<users, replies, lastId, title, exists, lone>>
          /\ content' = [content EXCEPT ![req[r].question] = req[r].text]
      BY <1>4, UpdateUserMessageContentFields
    <2>2. content' \in [Ids -> Texts \cup {NoText}]
      BY <1>T, <2>1 DEF TypeOK
    <2> QED
      BY <2>1, <2>2 DEF TypeOK, Moves
  <1>5. ASSUME NEW r \in Requests, CreateUserMessage(r)
        PROVE  TypeOK'
    <2>1. /\ Moves(r) /\ UNCHANGED <<replies, title, exists, lone>>
          /\ lastId' = lastId + 1 /\ lastId + 1 \in Ids
          /\ users' = users \cup {lastId + 1}
          /\ content' = [content EXCEPT ![lastId + 1] = req[r].text]
      BY <1>5, CreateUserMessageFields
    <2>2. content' \in [Ids -> Texts \cup {NoText}]
      BY <1>T, <2>1 DEF TypeOK
    <2>3. lastId + 1 \notin replies /\ 1 .. lastId \subseteq 1 .. (lastId + 1)
      BY <1>0
    <2>4. lastId + 1 \in 0 .. MaxIds
      BY <1>0, <2>1 DEF Ids
    <2> QED
      BY <1>0, <2>1, <2>2, <2>3, <2>4 DEF TypeOK, Moves
  <1>6. ASSUME NEW r \in Requests, UpdateTitle(r) \/ RefineTitle(r)
        PROVE  TypeOK'
    <2>1. /\ Moves(r) /\ UNCHANGED <<users, replies, content, lastId, exists, lone>>
          /\ \E from \in {"question", "model"} :
               title' = [from |-> from, of |-> req[r].question]
      BY <1>6, UpdateTitleFields, RefineTitleFields
    <2>2. title' \in Title
      BY <1>Q, <2>1 DEF Title
    <2> QED
      BY <2>1, <2>2 DEF TypeOK, Moves
  <1>7. ASSUME NEW r \in Requests, CreateAssistantMessage(r)
        PROVE  TypeOK'
    <2>1. /\ Moves(r) /\ UNCHANGED <<users, title, exists, lone>>
          /\ lastId' = lastId + 1 /\ lastId + 1 \in Ids
          /\ replies' = replies \cup {lastId + 1}
          /\ content' = [content EXCEPT ![lastId + 1] = req[r].text]
      BY <1>7, CreateAssistantMessageFields
    <2>2. content' \in [Ids -> Texts \cup {NoText}]
      BY <1>T, <2>1 DEF TypeOK
    <2>3. lastId + 1 \notin users /\ 1 .. lastId \subseteq 1 .. (lastId + 1)
      BY <1>0
    <2>4. lastId + 1 \in 0 .. MaxIds
      BY <1>0, <2>1 DEF Ids
    <2> QED
      BY <1>0, <2>1, <2>2, <2>3, <2>4 DEF TypeOK, Moves
  <1>8. ASSUME Rename
        PROVE  TypeOK'
    BY <1>0, <1>8 DEF Rename, TypeOK, Title
  <1>9. ASSUME Remove
        PROVE  TypeOK'
    <2>1. NewTitle \in Title /\ NoContent \in [Ids -> Texts \cup {NoText}]
      BY <1>0 DEF NewTitle, Title, NoContent
    <2> QED
      BY <1>9, <2>1 DEF Remove, TypeOK
  <1>10. ASSUME UNCHANGED vars
         PROVE  TypeOK'
    BY <1>10 DEF vars, database, TypeOK
  <1> QED
    BY <1>1, <1>2, <1>3, <1>4, <1>5, <1>6, <1>7, <1>8, <1>9, <1>10 DEF Next

\* The state is well typed: messages have ids that have been given, and none is
\* both a question and a reply.
THEOREM TypeCorrect == Spec => []TypeOK
PROOF
  <1> QED
    BY TypeInit, TypeNext, PTL DEF Spec

-----------------------------------------------------------------------------
(* How many messages there can be.                                         *)

\* All that a step does to the messages and to those still to come: a request
\* passes the check; a message that was still to come is created; or there is
\* no more of either than before.
Passes == messages' = messages /\ Cardinality(messages) < MaxMessages
Settles ==
  /\ messages' \subseteq messages
  /\ Asking' \subseteq Asking
  /\ Answering' \subseteq Answering
Asked(r) ==
  /\ messages' = messages \cup {lastId + 1}
  /\ r \in Asking /\ Asking' \subseteq Asking \ {r}
  /\ Answering' \subseteq Answering
Answered(r) ==
  /\ messages' = messages \cup {lastId + 1}
  /\ r \in Answering /\ Answering' \subseteq Answering \ {r}
  /\ Asking' \subseteq Asking

\* Ids are bounded, so there are finitely many messages.
LEMMA FiniteMessages ==
  ASSUME TypeOK
  PROVE  IsFiniteSet(messages)
PROOF
  <1>1. MaxIds \in Int /\ IsFiniteSet(1 .. MaxIds)
    BY MaxIdsAssumption, FS_Interval
  <1>2. messages \in SUBSET (1 .. MaxIds)
    BY IdsKnown DEF messages, Ids
  <1> QED
    BY <1>1, <1>2, FS_Subset

\* Where a request that moves leaves the two sets.
LEMMA OwingAfter ==
  ASSUME NEW r \in Requests, Moves(r)
  PROVE  /\ req'[r].pc \notin {"read", "create"} => Asking' \subseteq Asking \ {r}
         /\ req'[r].pc \in {"idle", "count", "refine"}
              => Answering' \subseteq Answering \ {r}
         /\ Asking' \subseteq Asking \cup {r}
         /\ Answering' \subseteq Answering \cup {r}
  BY DEF Moves, Asking, Answering

\* Every step is one of these, whichever request takes it.
LEMMA OwingStep ==
  ASSUME TypeOK, [Next]_vars
  PROVE  Passes \/ Settles \/ \E r \in Requests : Asked(r) \/ Answered(r)
PROOF
  <1>I. \A r \in Requests : Leaves(r) => req'[r].pc = "idle"
    BY Nobody DEF Leaves
  <1>S. ASSUME NEW r \in Requests, Moves(r), messages' \subseteq messages,
               req'[r].pc \in {"idle", "count", "refine"}
        PROVE  Settles
    BY <1>S, OwingAfter DEF Settles
  <1>T. ASSUME NEW r \in Requests, Moves(r), messages' \subseteq messages,
               req[r].pc \in {"read", "delete", "edit", "title", "reread"},
               req'[r].pc \notin {"read", "create"}
        PROVE  Settles
    <2>1. r \in Answering
      BY <1>T DEF Answering
    <2> QED
      BY <1>T, <2>1, OwingAfter DEF Settles
  <1>E. \A e : EditOrReread(e) \in {"edit", "reread"}
    BY DEF EditOrReread
  <1>1. ASSUME NEW r \in Requests, NEW regenerate \in BOOLEAN, NEW text \in Texts,
               Begin(r, regenerate, text)
        PROVE  Settles
    BY <1>1, <1>S, BeginFields DEF database, messages
  <1>2. ASSUME NEW r \in Requests, AssertMessageLimit(r)
        PROVE  Passes \/ Settles
    <2>1. Cardinality(messages) \in Nat /\ MaxMessages \in Nat
      BY FiniteMessages, FS_CardinalityType, MaxMessagesAssumption
    <2>2. messages' = messages /\ Moves(r)
      BY <1>2, AssertMessageLimitFields DEF database, messages
    <2>3. CASE Leaves(r)
      BY <1>I, <1>S, <2>2, <2>3
    <2>4. CASE ~(Cardinality(messages) >= MaxMessages)
      BY <2>1, <2>2, <2>4 DEF Passes
    <2> QED
      BY <1>2, <2>3, <2>4, AssertMessageLimitFields
  <1>3. ASSUME NEW r \in Requests, ReadToSend(r)
        PROVE  Settles
    <2>1. Moves(r) /\ req[r].pc = "read" /\ messages' = messages
      BY <1>3, ReadToSendFields DEF database, messages
    <2>2. r \in Asking /\ r \in Answering
      BY <2>1 DEF Asking, Answering
    <2> QED
      BY <2>1, <2>2, OwingAfter DEF Settles
  <1>4. ASSUME NEW r \in Requests, ReadToRegenerate(r)
        PROVE  Settles
    <2>1. /\ Moves(r) /\ req[r].pc = "read" /\ messages' = messages
          /\ req'[r].pc \in {"delete", "edit", "reread", "idle"}
      BY <1>4, <1>E, <1>I, ReadToRegenerateFields DEF database, messages
    <2> QED
      BY <1>T, <2>1
  <1>5. ASSUME NEW r \in Requests, DeleteMessage(r)
        PROVE  Settles
    <2>1. /\ Moves(r) /\ req[r].pc = "delete" /\ messages' \subseteq messages
          /\ req'[r].pc \in {"edit", "reread", "idle"}
      BY <1>5, <1>E, <1>I, DeleteMessageFields DEF messages
    <2> QED
      BY <1>T, <2>1
  <1>6. ASSUME NEW r \in Requests,
               UpdateUserMessageContent(r) \/ UpdateTitle(r) \/ Reread(r)
        PROVE  Settles
    <2>1. /\ Moves(r) /\ req[r].pc \in {"edit", "title", "reread"}
          /\ messages' = messages /\ req'[r].pc \in {"reread", "reply"}
      BY <1>6, UpdateUserMessageContentFields, UpdateTitleFields, RereadFields
         DEF database, messages
    <2> QED
      BY <1>T, <2>1
  <1>7. ASSUME NEW r \in Requests, CreateUserMessage(r)
        PROVE  Asked(r)
    <2>1. /\ Moves(r) /\ req[r].pc = "create"
          /\ req'[r].pc \in {"title", "reread"}
          /\ messages' = messages \cup {lastId + 1}
      BY <1>7, CreateUserMessageFields DEF messages
    <2>2. r \in Asking /\ r \in Answering
      BY <2>1 DEF Asking, Answering
    <2> QED
      BY <2>1, <2>2, OwingAfter DEF Asked
  <1>8. ASSUME NEW r \in Requests, CreateAssistantMessage(r)
        PROVE  Answered(r)
    <2>1. /\ Moves(r) /\ req[r].pc = "reply" /\ req'[r].pc \in {"idle", "refine"}
          /\ messages' = messages \cup {lastId + 1}
      BY <1>8, <1>I, CreateAssistantMessageFields DEF messages
    <2>2. r \in Answering
      BY <2>1 DEF Answering
    <2> QED
      BY <2>1, <2>2, OwingAfter DEF Answered
  <1>9. ASSUME NEW r \in Requests, RefineTitle(r) \/ Fails(r)
        PROVE  Settles
    <2>1. Moves(r) /\ req'[r].pc = "idle" /\ messages' = messages
      BY <1>9, <1>I, RefineTitleFields, FailsFields DEF database, messages
    <2> QED
      BY <1>S, <2>1
  <1>10. ASSUME Rename \/ Remove \/ UNCHANGED vars
         PROVE  Settles
    BY <1>10 DEF Rename, Remove, vars, database, Settles, messages, Asking, Answering
  <1> QED
    BY <1>1, <1>2, <1>3, <1>4, <1>5, <1>6, <1>7, <1>8, <1>9, <1>10 DEF Next

\* The three cardinalities are numbers, and no more requests owe than there are.
LEMMA Owed ==
  ASSUME TypeOK
  PROVE  /\ IsFiniteSet(messages) /\ IsFiniteSet(Asking) /\ IsFiniteSet(Answering)
         /\ Cardinality(messages) \in Nat
         /\ Cardinality(Asking) \in Nat /\ Cardinality(Answering) \in Nat
         /\ Cardinality(Requests) \in Nat
         /\ Cardinality(Asking) <= Cardinality(Requests)
         /\ Cardinality(Answering) <= Cardinality(Requests)
PROOF
  <1>1. Asking \in SUBSET Requests /\ Answering \in SUBSET Requests
    BY DEF Asking, Answering
  <1>2. IsFiniteSet(Asking) /\ IsFiniteSet(Answering)
    BY <1>1, RequestsAssumption, FS_Subset
  <1>3. /\ Cardinality(Asking) <= Cardinality(Requests)
        /\ Cardinality(Answering) <= Cardinality(Requests)
    BY <1>1, RequestsAssumption, FS_Subset
  <1> QED
    BY <1>2, <1>3, FiniteMessages, RequestsAssumption, FS_CardinalityType

\* At first there is no message and no request.
LEMMA OverrunInit == Init => OverrunBounded
PROOF
  <1> SUFFICES ASSUME Init PROVE OverrunBounded
    OBVIOUS
  <1>1. messages = {} /\ Asking = {} /\ Answering = {}
    BY DEF Init, messages, Asking, Answering, NoRequest
  <1>2. Cardinality(messages) + Cardinality(Asking) + Cardinality(Answering) = 0
    BY <1>1, FS_EmptySet
  <1>3. Cardinality(Requests) \in Nat /\ MaxMessages \in Nat \ {0}
    BY RequestsAssumption, FS_CardinalityType, MaxMessagesAssumption
  <1> QED
    BY <1>2, <1>3 DEF OverrunBounded

\* A message that comes was owed, and the check leaves room for what is owed.
LEMMA OverrunNext ==
  TypeOK /\ TypeOK' /\ OverrunBounded /\ [Next]_vars => OverrunBounded'
PROOF
  <1> SUFFICES ASSUME TypeOK, TypeOK', OverrunBounded, [Next]_vars
               PROVE  OverrunBounded'
    OBVIOUS
  <1> DEFINE M == messages   A == Asking   B == Answering
             N == messages'  C == Asking'  D == Answering'
  <1>1. /\ IsFiniteSet(M) /\ IsFiniteSet(A) /\ IsFiniteSet(B)
        /\ Cardinality(M) \in Nat /\ Cardinality(A) \in Nat /\ Cardinality(B) \in Nat
    BY Owed
  <1>2. /\ IsFiniteSet(N) /\ IsFiniteSet(C) /\ IsFiniteSet(D)
        /\ Cardinality(N) \in Nat /\ Cardinality(C) \in Nat /\ Cardinality(D) \in Nat
        /\ Cardinality(C) <= Cardinality(Requests)
        /\ Cardinality(D) <= Cardinality(Requests)
    <2>1. C \in SUBSET Requests /\ D \in SUBSET Requests
      BY DEF Asking, Answering
    <2>2. MaxIds \in Int /\ IsFiniteSet(1 .. MaxIds)
      BY MaxIdsAssumption, FS_Interval
    <2>3. N \in SUBSET (1 .. MaxIds)
      BY MaxIdsAssumption DEF TypeOK, messages
    <2> HIDE DEF N, C, D
    <2>4. IsFiniteSet(N) /\ IsFiniteSet(C) /\ IsFiniteSet(D)
      BY <2>1, <2>2, <2>3, RequestsAssumption, FS_Subset
    <2>5. /\ Cardinality(C) <= Cardinality(Requests)
          /\ Cardinality(D) <= Cardinality(Requests)
      BY <2>1, RequestsAssumption, FS_Subset
    <2> QED
      BY <2>4, <2>5, FS_CardinalityType
  <1>3. /\ Cardinality(Requests) \in Nat /\ MaxMessages \in Nat \ {0}
        /\ Cardinality(M) + Cardinality(A) + Cardinality(B)
             <= MaxMessages - 1 + 2 * Cardinality(Requests)
    BY Owed, MaxMessagesAssumption DEF OverrunBounded
  <1>4. \/ N = M /\ Cardinality(M) < MaxMessages
        \/ N \subseteq M /\ C \subseteq A /\ D \subseteq B
        \/ \E r, x : N = M \cup {x} /\ r \in A /\ C \subseteq A \ {r} /\ D \subseteq B
        \/ \E r, x : N = M \cup {x} /\ r \in B /\ D \subseteq B \ {r} /\ C \subseteq A
    BY OwingStep DEF Passes, Settles, Asked, Answered
  <1>5. SUFFICES Cardinality(N) + Cardinality(C) + Cardinality(D)
                   <= MaxMessages - 1 + 2 * Cardinality(Requests)
    BY DEF OverrunBounded
  <1> HIDE DEF M, N, A, B, C, D
  <1>6. CASE N = M /\ Cardinality(M) < MaxMessages
    BY <1>1, <1>2, <1>3, <1>6
  <1>7. CASE N \subseteq M /\ C \subseteq A /\ D \subseteq B
    <2>1. /\ Cardinality(N) <= Cardinality(M)
          /\ Cardinality(C) <= Cardinality(A)
          /\ Cardinality(D) <= Cardinality(B)
      BY <1>1, <1>7, FS_Subset
    <2> QED
      BY <1>1, <1>2, <1>3, <2>1
  <1>8. ASSUME NEW r, NEW x, N = M \cup {x}, r \in A, C \subseteq A \ {r}, D \subseteq B
        PROVE  Cardinality(N) + Cardinality(C) + Cardinality(D)
                 <= MaxMessages - 1 + 2 * Cardinality(Requests)
    <2>1. Cardinality(N) <= Cardinality(M) + 1
      <3>1. Cardinality(M \cup {x}) = IF x \in M THEN Cardinality(M) ELSE Cardinality(M) + 1
        BY <1>1, FS_AddElement
      <3> QED
        BY <1>1, <1>8, <3>1
    <2>2. IsFiniteSet(A \ {r}) /\ Cardinality(A \ {r}) = Cardinality(A) - 1
      BY <1>1, <1>8, FS_RemoveElement
    <2>3. Cardinality(C) <= Cardinality(A) - 1 /\ Cardinality(D) <= Cardinality(B)
      BY <1>1, <1>8, <2>2, FS_Subset
    <2> QED
      BY <1>1, <1>2, <1>3, <2>1, <2>3
  <1>9. ASSUME NEW r, NEW x, N = M \cup {x}, r \in B, D \subseteq B \ {r}, C \subseteq A
        PROVE  Cardinality(N) + Cardinality(C) + Cardinality(D)
                 <= MaxMessages - 1 + 2 * Cardinality(Requests)
    <2>1. Cardinality(N) <= Cardinality(M) + 1
      <3>1. Cardinality(M \cup {x}) = IF x \in M THEN Cardinality(M) ELSE Cardinality(M) + 1
        BY <1>1, FS_AddElement
      <3> QED
        BY <1>1, <1>9, <3>1
    <2>2. IsFiniteSet(B \ {r}) /\ Cardinality(B \ {r}) = Cardinality(B) - 1
      BY <1>1, <1>9, FS_RemoveElement
    <2>3. Cardinality(D) <= Cardinality(B) - 1 /\ Cardinality(C) <= Cardinality(A)
      BY <1>1, <1>9, <2>2, FS_Subset
    <2> QED
      BY <1>1, <1>2, <1>3, <2>1, <2>3
  <1> QED
    BY <1>4, <1>6, <1>7, <1>8, <1>9

\* The limit on messages (assertMessageLimit) is overrun by at most what the
\* requests that passed it together may write: one message, and two for every
\* other request.
THEOREM OverrunAlwaysBounded == Spec => []OverrunBounded
PROOF
  <1>1. Init => OverrunBounded
    BY OverrunInit
  <1>2. TypeOK /\ TypeOK' /\ OverrunBounded /\ [Next]_vars => OverrunBounded'
    BY OverrunNext
  <1> QED
    BY <1>1, <1>2, TypeCorrect, PTL DEF Spec

-----------------------------------------------------------------------------
(* No reply is replaced twice.                                             *)

\* The reply r is about to remove is removed.
Removes(r) ==
  /\ req[r].pc = "delete" /\ req[r].target \in replies
  /\ messages' = messages \ {req[r].target}
  /\ \A p \in Requests : req'[p].target \in {0, req[p].target}
  /\ \A p \in Requests \ {r} : req'[p] = req[p]

\* No request starts to replace a reply; one may take a message for its target.
Keeps ==
  /\ \A m \in messages' : m \in messages \/ m > lastId
  /\ \A p \in Requests :
       /\ req'[p].target \in {0, req[p].target} \cup messages
       /\ Replacing(p)' => Replacing(p) /\ req'[p].target = req[p].target

\* A request moves, no message comes back, and it does not start to replace one.
LEMMA KeepsOne ==
  ASSUME NEW r \in Requests, Moves(r),
         \A m \in messages' : m \in messages \/ m > lastId,
         req'[r].target \in {0, req[r].target} \cup messages,
         \/ req'[r].pc \in {"idle", "delete"}
         \/ req'[r].pc = "count" /\ req'[r].target = 0
         \/ req[r].pc \notin {"idle", "delete"} /\ Same(r)
  PROVE  Keeps
  BY DEF Keeps, Replacing, Moves, Same

\* Every step is one of the two.
LEMMA ReplacingStep ==
  ASSUME TypeOK, [Next]_vars
  PROVE  Keeps \/ \E r \in Requests : Removes(r)
PROOF
  <1>I. lastId \in Nat /\ lastId + 1 > lastId
    BY IdsKnown
  <1>L. ASSUME NEW r \in Requests, Moves(r), Leaves(r),
               messages' \subseteq messages \cup {lastId + 1}
        PROVE  Keeps
    BY <1>I, <1>L, Nobody, KeepsOne DEF Leaves
  <1>S. ASSUME NEW r \in Requests, Moves(r), Same(r),
               req[r].pc \notin {"idle", "delete"},
               messages' \subseteq messages \cup {lastId + 1}
        PROVE  Keeps
    BY <1>I, <1>S, KeepsOne DEF Same
  <1>1. ASSUME NEW r \in Requests, NEW regenerate \in BOOLEAN, NEW text \in Texts,
               Begin(r, regenerate, text)
        PROVE  Keeps
    <2>1. Moves(r) /\ req'[r].pc = "count" /\ req'[r].target = 0 /\ messages' = messages
      BY <1>1, BeginFields DEF database, messages
    <2> QED
      BY <2>1, KeepsOne
  <1>2. ASSUME NEW r \in Requests,
               \/ AssertMessageLimit(r) \/ ReadToSend(r) \/ UpdateUserMessageContent(r)
               \/ UpdateTitle(r) \/ Reread(r) \/ RefineTitle(r) \/ Fails(r)
        PROVE  Keeps
    <2>1. /\ Moves(r) /\ messages' = messages
          /\ Leaves(r) \/ (Same(r) /\ req[r].pc \notin {"idle", "delete"})
      BY <1>2, AssertMessageLimitFields, ReadToSendFields,
         UpdateUserMessageContentFields, UpdateTitleFields, RereadFields,
         RefineTitleFields, FailsFields DEF database, messages
    <2> QED
      BY <1>L, <1>S, <2>1
  <1>3. ASSUME NEW r \in Requests, CreateUserMessage(r) \/ CreateAssistantMessage(r)
        PROVE  Keeps
    <2>1. /\ Moves(r) /\ messages' = messages \cup {lastId + 1}
          /\ Leaves(r) \/ (Same(r) /\ req[r].pc \notin {"idle", "delete"})
      BY <1>3, CreateUserMessageFields, CreateAssistantMessageFields DEF messages
    <2> QED
      BY <1>L, <1>S, <2>1
  <1>4. ASSUME NEW r \in Requests, ReadToRegenerate(r)
        PROVE  Keeps
    <2>1. /\ Moves(r) /\ messages' = messages
          /\ \/ Leaves(r) \/ (Same(r) /\ req[r].pc = "read")
             \/ req'[r].pc = "delete" /\ req'[r].target \in messages
      BY <1>4, ReadToRegenerateFields DEF database, messages
    <2> QED
      BY <1>L, <1>S, <2>1, KeepsOne
  <1>5. ASSUME NEW r \in Requests, DeleteMessage(r)
        PROVE  Keeps \/ Removes(r)
    <2>0. Moves(r) /\ users' = users /\ req[r].pc = "delete"
      BY <1>5, DeleteMessageFields
    <2>1. CASE Leaves(r) /\ UNCHANGED replies
      BY <1>L, <2>0, <2>1 DEF messages
    <2>2. CASE /\ req[r].target \in replies
               /\ replies' = replies \ {req[r].target}
               /\ Leaves(r) \/ Same(r)
      <3>1. messages' = messages \ {req[r].target}
        BY <2>0, <2>2 DEF messages, TypeOK
      <3> QED
        BY <2>0, <2>2, <3>1, Nobody DEF Removes, Moves, Same, Leaves
    <2> QED
      BY <1>5, <2>1, <2>2, DeleteMessageFields
  <1>6. ASSUME Rename \/ Remove \/ UNCHANGED vars
        PROVE  Keeps
    BY <1>6 DEF Rename, Remove, vars, database, Keeps, messages, Replacing
  <1> QED
    BY <1>1, <1>2, <1>3, <1>4, <1>5, <1>6 DEF Next

\* No request is in progress at first.
LEMMA ReplacedInit == Init => ReplacedInv
  BY MaxIdsAssumption
  DEF Init, NoRequest, ReplacedInv, ReplacedOnce, ReplacedGone, TargetsKnown, Replacing

\* A reply that is removed is being replaced by no one, since it was there; from
\* then on it is gone for good.
LEMMA ReplacedNext ==
  TypeOK /\ TypeOK' /\ ReplacedInv /\ [Next]_vars => ReplacedInv'
PROOF
  <1> SUFFICES ASSUME TypeOK, TypeOK', ReplacedInv, [Next]_vars
               PROVE  ReplacedInv'
    OBVIOUS
  <1>1. /\ lastId \in Nat /\ lastId' \in Nat /\ lastId <= lastId'
        /\ messages \subseteq 1 .. lastId /\ messages' \subseteq 1 .. lastId'
    <2>1. lastId' \in {lastId, lastId + 1}
      BY DEF Next, vars, database, Begin, AssertMessageLimit, ReadToSend,
             ReadToRegenerate, DeleteMessage, UpdateUserMessageContent,
             CreateUserMessage, UpdateTitle, Reread, CreateAssistantMessage,
             RefineTitle, Fails, Rename, Remove
    <2> QED
      BY <2>1, MaxIdsAssumption DEF TypeOK, messages
  <1>2. \A r \in Requests : req[r].target \in 0 .. lastId
    BY <1>1 DEF TypeOK, Request, ReplacedInv, TargetsKnown
  <1>3. CASE Keeps
    <2>1. \A p \in Requests : req'[p].target <= lastId'
      <3>1. \A p \in Requests : req'[p].target \in {0, req[p].target} \cup messages
        BY <1>3 DEF Keeps
      <3>2. \A m \in {0} \cup messages : m \in 0 .. lastId
        BY <1>1
      <3>3. \A p \in Requests : req'[p].target \in 0 .. lastId
        BY <1>2, <3>1, <3>2
      <3> QED
        BY <1>1, <3>3
    <2>2. \A p \in Requests :
            Replacing(p)' => req'[p].target \in (1 .. lastId') \ messages'
      BY <1>1, <1>2, <1>3 DEF Keeps, ReplacedInv, ReplacedGone
    <2>3. \A p, q \in Requests :
            Replacing(p)' /\ Replacing(q)' /\ req'[p].target = req'[q].target => p = q
      BY <1>3 DEF Keeps, ReplacedInv, ReplacedOnce
    <2> QED
      BY <2>1, <2>2, <2>3 DEF ReplacedInv, ReplacedOnce, ReplacedGone, TargetsKnown
  <1>4. ASSUME NEW r \in Requests, Removes(r)
        PROVE  ReplacedInv'
    <2>1. \A p \in Requests : req'[p].target <= lastId'
      <3>1. \A p \in Requests : req'[p].target \in {0, req[p].target}
        BY <1>4 DEF Removes
      <3> QED
        BY <1>1, <1>2, <3>1
    <2>2. \A p \in Requests \ {r} :
            /\ Replacing(p)' => Replacing(p) /\ req'[p].target = req[p].target
            /\ Replacing(p) => req[p].target # req[r].target
      BY <1>4 DEF Removes, Replacing, ReplacedInv, ReplacedGone, messages
    <2>3. \A p \in Requests :
            Replacing(p)' => req'[p].target \in (1 .. lastId') \ messages'
      <3>1. ASSUME NEW p \in Requests \ {r}, Replacing(p)'
            PROVE  req'[p].target \in (1 .. lastId') \ messages'
        BY <1>1, <1>4, <2>2, <3>1 DEF Removes, ReplacedInv, ReplacedGone
      <3>2. ASSUME Replacing(r)'
            PROVE  req'[r].target \in (1 .. lastId') \ messages'
        <4>1. req'[r].target = req[r].target
          BY <1>4, <3>2 DEF Removes, Replacing
        <4> QED
          BY <1>1, <1>4, <4>1 DEF Removes, messages
      <3> QED
        BY <3>1, <3>2
    <2>4. \A p, q \in Requests :
            Replacing(p)' /\ Replacing(q)' /\ req'[p].target = req'[q].target => p = q
      <3>1. Replacing(r)' => req'[r].target = req[r].target
        BY <1>4 DEF Removes, Replacing
      <3> QED
        BY <2>2, <3>1 DEF ReplacedInv, ReplacedOnce
    <2> QED
      BY <2>1, <2>3, <2>4 DEF ReplacedInv, ReplacedOnce, ReplacedGone, TargetsKnown
  <1> QED
    BY <1>3, <1>4, ReplacingStep

\* Of two regenerations that read the same reply only one goes on, so no reply is
\* replaced by two new ones (deleteMessage fails when the message is gone).
THEOREM NoReplyReplacedTwice == Spec => []ReplacedOnce
PROOF
  <1>1. TypeOK /\ TypeOK' /\ ReplacedInv /\ [Next]_vars => ReplacedInv'
    BY ReplacedNext
  <1>2. ReplacedInv => ReplacedOnce
    BY DEF ReplacedInv
  <1> QED
    BY ReplacedInit, <1>1, <1>2, TypeCorrect, PTL DEF Spec

-----------------------------------------------------------------------------
(* Requests that follow each other: questions, replies, the first title.   *)

\* What LoneInv says of one request.
PartOf(r) ==
  /\ At(r, "read") => Cardinality(messages) < MaxMessages
  /\ At(r, "create") /\ req[r].fresh => users = {}
  /\ At(r, "delete") /\ exists =>
       /\ req[r].target \in replies /\ IsLast(req[r].target, messages)
       /\ req[r].question # 0 =>
            /\ req[r].question \in users /\ Follows(req[r].target, req[r].question)
            /\ ~req[r].edit => content[req[r].question] = req[r].text
  /\ exists /\ req[r].pc \in {"edit", "title", "reread", "reply"} =>
       /\ req[r].question \in users /\ IsLast(req[r].question, messages)
       /\ ~At(r, "edit") => content[req[r].question] = req[r].text
       /\ At(r, "title") => \A m \in users : req[r].question <= m

\* What it says of the messages and the title.
Stored ==
  /\ exists \/ messages = {}
  /\ AnswersItsQuestion /\ TitleOfFirstMessage

LEMMA Parts ==
  LoneInv <=> Stored /\ (lone => OneAtWork /\ \A r \in Requests : PartOf(r))
  BY DEF LoneInv, Stored, PartOf, AllRead, TargetLast, QuestionLast

\* A request that is not at work has no part, nor has one that just began.
LEMMA NoPart ==
  ASSUME NEW r \in Requests, ~Working(r) \/ At(r, "count")
  PROVE  PartOf(r)
  BY DEF PartOf, Working, At

\* One at work is the only one.
LEMMA OnlyOne ==
  ASSUME LoneInv, lone, NEW r \in Requests, Working(r), Moves(r), PartOf(r)'
  PROVE  (OneAtWork /\ \A p \in Requests : PartOf(p))'
PROOF
  <1>1. \A p \in Requests \ {r} : ~Working(p) /\ req'[p] = req[p]
    BY Parts DEF OneAtWork, Moves
  <1>2. \A p \in Requests \ {r} : ~(Working(p)')
    BY <1>1 DEF Working
  <1>3. \A p \in Requests \ {r} : PartOf(p)'
    BY <1>2 DEF PartOf, Working, At
  <1> QED
    BY <1>2, <1>3 DEF OneAtWork

\* A request that leaves or begins, with the rest as it was.
LEMMA OneQuiet ==
  ASSUME LoneInv, lone, NEW r \in Requests, Moves(r),
         UNCHANGED <<users, replies, content, exists>>,
         \/ ~(Working(r)')
         \/ At(r, "count")' /\ \A p \in Requests : ~Working(p)
  PROVE  (OneAtWork /\ \A p \in Requests : PartOf(p))'
PROOF
  <1>1. PartOf(r)'
    BY DEF PartOf, Working, At
  <1>2. \A p \in Requests \ {r} : PartOf(p)' /\ (Working(p)' <=> Working(p))
    BY Parts DEF PartOf, Moves, At, messages, Follows, Working
  <1>3. OneAtWork'
    BY <1>2, Parts DEF OneAtWork
  <1> QED
    BY <1>1, <1>2, <1>3

\* The page is upward closed, so what it ends with the conversation ends with.
LEMMA PageClosed ==
  ASSUME TypeOK, NEW m \in Page, NEW n \in messages, n > m
  PROVE  n \in Page
PROOF
  <1> DEFINE M == {k \in messages : k > m}
             N == {k \in messages : k > n}
  <1>1. \A k \in messages : k \in Nat
    BY IdsKnown DEF messages
  <1>2. m \in messages /\ Cardinality(M) < MaxMessages
    BY DEF Page
  <1>3. N \subseteq M
    BY <1>1, <1>2
  <1>4. IsFiniteSet(M) /\ M \subseteq messages
    BY FiniteMessages, FS_Subset
  <1> HIDE DEF M, N
  <1>5. IsFiniteSet(N) /\ Cardinality(N) <= Cardinality(M)
    BY <1>3, <1>4, FS_Subset
  <1>6. Cardinality(N) \in Nat /\ Cardinality(M) \in Nat
    BY <1>4, <1>5, FS_CardinalityType
  <1>7. Cardinality(N) < MaxMessages
    BY <1>2, <1>5, <1>6, MaxMessagesAssumption
  <1> QED
    BY <1>7 DEF N, Page

LEMMA LastOfPage ==
  ASSUME TypeOK, NEW m, IsLast(m, Page)
  PROVE  /\ IsLast(m, messages)
         /\ \A q \in Page : IsLast(q, Page \ {m}) => Follows(m, q)
PROOF
  <1>1. \A k \in messages : k \in Nat
    BY IdsKnown DEF messages
  <1>2. Page \subseteq messages
    BY DEF Page
  <1>3. m \in Page
    BY DEF IsLast
  <1>4. ASSUME NEW n \in messages
        PROVE  n <= m
    BY <1>1, <1>2, <1>3, <1>4, PageClosed DEF IsLast
  <1>5. ASSUME NEW q \in Page, IsLast(q, Page \ {m})
        PROVE  Follows(m, q)
    <2>1. q \in Page /\ q # m /\ q < m
      BY <1>1, <1>2, <1>3, <1>5 DEF IsLast
    <2>2. ASSUME NEW n \in messages, n < m
          PROVE  n <= q
      <3>1. CASE n > q
        BY <1>1, <1>5, <2>1, <2>2, <3>1, PageClosed DEF IsLast
      <3> QED
        BY <1>1, <1>2, <2>1, <3>1
    <2> QED
      BY <2>1, <2>2 DEF Follows
  <1> QED
    BY <1>2, <1>3, <1>4, <1>5 DEF IsLast

\* Below the limit the page is all there is.
LEMMA PageIsAll ==
  ASSUME TypeOK, Cardinality(messages) < MaxMessages
  PROVE  Page = messages
PROOF
  <1>1. ASSUME NEW m \in messages
        PROVE  m \in Page
    <2> DEFINE M == {n \in messages : n > m}
    <2>1. M \subseteq messages
      OBVIOUS
    <2> HIDE DEF M
    <2>2. IsFiniteSet(M) /\ Cardinality(M) <= Cardinality(messages)
      BY <2>1, FiniteMessages, FS_Subset
    <2>3. Cardinality(M) \in Nat /\ Cardinality(messages) \in Nat
      BY <2>2, FiniteMessages, FS_CardinalityType
    <2>4. Cardinality(M) < MaxMessages
      BY <2>2, <2>3, MaxMessagesAssumption
    <2> QED
      BY <2>4 DEF M, Page
  <1> QED
    BY <1>1 DEF Page

LEMMA LoneInit == Init => LoneInv
  BY DEF Init, LoneInv, messages, AnswersItsQuestion, TitleOfFirstMessage, NewTitle,
         OneAtWork, AllRead, TargetLast, QuestionLast, Working, At, NoRequest

\* As long as nothing is stored, what is stored stays in order.
LEMMA StoredKept ==
  ASSUME LoneInv, UNCHANGED <<users, replies, content, exists>>, lone' => lone,
         title' = title \/ title'.from # "question"
  PROVE  Stored'
  BY Parts DEF Stored, AnswersItsQuestion, TitleOfFirstMessage, Follows, messages

LEMMA LoneNext == TypeOK /\ LoneInv /\ [Next]_vars => LoneInv'
PROOF
  <1> SUFFICES ASSUME TypeOK, LoneInv, [Next]_vars PROVE LoneInv'
    OBVIOUS
  <1>P. Stored /\ (lone => OneAtWork /\ \A r \in Requests : PartOf(r))
    BY Parts
  <1>G. ASSUME Stored', lone' => (OneAtWork /\ \A r \in Requests : PartOf(r))'
        PROVE  LoneInv'
    BY <1>G DEF LoneInv, Stored, PartOf, AllRead, TargetLast, QuestionLast
  <1>M. /\ \A m \in users \cup replies : m \in Nat \ {0} /\ m <= lastId /\ m \in Ids
        /\ lastId \in Nat /\ Page \subseteq messages
    BY IdsKnown DEF messages
  <1>I. \A r \in Requests : Leaves(r) => ~(Working(r)')
    BY Nobody DEF Leaves, Working
  <1>L. ASSUME NEW r \in Requests, Moves(r), UNCHANGED <<database, lone>>, ~(Working(r)')
        PROVE  LoneInv'
    BY <1>L, <1>G, StoredKept, OneQuiet DEF database
  <1>K. ASSUME NEW r \in Requests, Moves(r), UNCHANGED <<database, lone>>,
               Working(r), lone => PartOf(r)'
        PROVE  LoneInv'
    BY <1>K, <1>G, StoredKept, OnlyOne DEF database
  <1>1. ASSUME NEW r \in Requests, NEW regenerate \in BOOLEAN, NEW text \in Texts,
               Begin(r, regenerate, text)
        PROVE  LoneInv'
    <2>1. /\ Moves(r) /\ UNCHANGED database /\ At(r, "count")'
          /\ lone' => lone /\ \A p \in Requests : ~Working(p)
      BY <1>1, BeginFields DEF Working, At
    <2> QED
      BY <1>G, <2>1, StoredKept, OneQuiet DEF database
  <1>2. ASSUME NEW r \in Requests, AssertMessageLimit(r)
        PROVE  LoneInv'
    <2>1. Cardinality(messages) \in Nat /\ MaxMessages \in Nat
      BY FiniteMessages, FS_CardinalityType, MaxMessagesAssumption
    <2>2. Moves(r) /\ UNCHANGED <<database, lone>> /\ Working(r)
      BY <1>2, AssertMessageLimitFields DEF Working
    <2>3. CASE Leaves(r)
      BY <1>I, <1>L, <2>2, <2>3
    <2>4. CASE req'[r].pc = "read" /\ ~(Cardinality(messages) >= MaxMessages)
      <3>1. messages' = messages
        BY <2>2 DEF database, messages
      <3>2. PartOf(r)'
        BY <2>1, <2>4, <3>1 DEF PartOf, At
      <3> QED
        BY <1>K, <2>2, <3>2
    <2> QED
      BY <1>2, <2>3, <2>4, AssertMessageLimitFields
  <1>3. ASSUME NEW r \in Requests, ReadToSend(r)
        PROVE  LoneInv'
    <2>1. /\ Moves(r) /\ UNCHANGED <<database, lone>> /\ Working(r)
          /\ req[r].pc = "read" /\ req'[r].pc = "create"
          /\ req'[r].fresh = (Page \cap users = {})
      BY <1>3, ReadToSendFields DEF Working
    <2>2. lone => Page = messages
      BY <1>P, <2>1, PageIsAll DEF PartOf, At
    <2>3. lone => PartOf(r)'
      BY <2>1, <2>2 DEF PartOf, At, messages, database
    <2> QED
      BY <1>K, <2>1, <2>3
  <1>4. ASSUME NEW r \in Requests, ReadToRegenerate(r)
        PROVE  LoneInv'
    <2>1. Moves(r) /\ UNCHANGED <<database, lone>> /\ Working(r)
      BY <1>4, ReadToRegenerateFields DEF Working
    <2>2. messages' = messages /\ UNCHANGED <<users, replies, content, exists>>
      BY <2>1 DEF database, messages
    <2>3. CASE /\ req'[r].pc = "delete" /\ req'[r].text = req[r].text
               /\ req'[r].target \in replies /\ IsLast(req'[r].target, Page)
               /\ req'[r].question \in users \cup {0}
               /\ Ends(req'[r].question, Page \ {req'[r].target})
               /\ req'[r].edit = Differs(r, req'[r].question)
      <3>1. IsLast(req'[r].target, messages)
        BY <2>3, LastOfPage
      <3>2. ASSUME req'[r].question # 0
            PROVE  /\ req'[r].question \in users
                   /\ Follows(req'[r].target, req'[r].question)
                   /\ ~req'[r].edit => content[req'[r].question] = req'[r].text
        <4>1. /\ IsLast(req'[r].question, Page \ {req'[r].target})
              /\ req'[r].question \in Page
          BY <2>3, <3>2 DEF Ends, IsLast
        <4> QED
          BY <2>3, <3>2, <4>1, LastOfPage DEF Differs
      <3>3. PartOf(r)'
        BY <2>2, <2>3, <3>1, <3>2 DEF PartOf, At, IsLast, Follows
      <3> QED
        BY <1>K, <2>1, <3>3
    <2>4. CASE /\ Same(r)
               /\ req'[r].question \in users /\ IsLast(req'[r].question, Page)
               /\ req'[r].pc = EditOrReread(Differs(r, req'[r].question))
      <3>1. IsLast(req'[r].question, messages)
        BY <2>4, LastOfPage
      <3>2. req'[r].question # 0
        BY <1>M, <2>4
      <3>3. PartOf(r)'
        BY <2>2, <2>4, <3>1, <3>2
           DEF PartOf, At, IsLast, Same, EditOrReread, Differs
      <3> QED
        BY <1>K, <2>1, <3>3
    <2>5. CASE Leaves(r)
      BY <1>I, <1>L, <2>1, <2>5
    <2> QED
      BY <1>4, <2>3, <2>4, <2>5, ReadToRegenerateFields
  <1>5. ASSUME NEW r \in Requests, DeleteMessage(r)
        PROVE  LoneInv'
    <2>1. /\ Moves(r) /\ UNCHANGED <<users, lastId, title, exists, lone>>
          /\ req[r].pc = "delete" /\ Working(r)
      BY <1>5, DeleteMessageFields DEF Working
    <2>2. CASE Leaves(r) /\ UNCHANGED <<replies, content>>
      BY <1>I, <1>L, <2>1, <2>2 DEF database
    <2>3. CASE /\ req[r].target \in replies
               /\ replies' = replies \ {req[r].target}
               /\ content' = [content EXCEPT ![req[r].target] = NoText]
               /\ \/ Leaves(r)
                  \/ /\ Same(r) /\ req[r].question # 0
                     /\ req'[r].question = req[r].question
                     /\ req'[r].pc = EditOrReread(req[r].edit)
      <3>1. req[r].target \notin users /\ messages' = messages \ {req[r].target}
        BY <2>1, <2>3 DEF TypeOK, messages
      <3>2. \A m \in messages' : content'[m] = content[m]
        BY <2>3, <3>1 DEF TypeOK
      <3>3. Stored'
        <4>1. exists' \/ messages' = {}
          BY <1>P, <2>1, <3>1 DEF Stored
        <4>2. AnswersItsQuestion'
          BY <1>P, <2>1, <2>3, <3>1, <3>2 DEF Stored, AnswersItsQuestion, Follows, messages
        <4>3. TitleOfFirstMessage'
          BY <1>P, <2>1 DEF Stored, TitleOfFirstMessage
        <4> QED
          BY <4>1, <4>2, <4>3 DEF Stored
      <3>4. CASE Leaves(r)
        <4>1. PartOf(r)'
          BY <3>4, Nobody DEF Leaves, PartOf, At
        <4> QED
          BY <1>G, <2>1, <3>3, <4>1, OnlyOne
      <3>5. CASE /\ Same(r) /\ req[r].question # 0
                 /\ req'[r].question = req[r].question
                 /\ req'[r].pc = EditOrReread(req[r].edit)
        <4>1. exists
          BY <1>P, <2>3 DEF Stored, messages
        <4>2. ASSUME lone
              PROVE  PartOf(r)'
          <5>1. /\ IsLast(req[r].target, messages)
                /\ req[r].question \in users /\ Follows(req[r].target, req[r].question)
                /\ ~req[r].edit => content[req[r].question] = req[r].text
            BY <1>P, <2>1, <3>5, <4>1, <4>2 DEF PartOf, At
          <5>2. IsLast(req[r].question, messages')
            BY <1>M, <3>1, <5>1 DEF IsLast, Follows, messages
          <5>3. content'[req[r].question] = content[req[r].question]
            BY <2>1, <3>1, <3>2, <5>1 DEF messages
          <5> QED
            BY <2>1, <3>5, <5>1, <5>2, <5>3 DEF PartOf, At, Same, EditOrReread, IsLast
        <4> QED
          BY <1>G, <2>1, <3>3, <4>2, OnlyOne
      <3> QED
        BY <2>3, <3>4, <3>5
    <2> QED
      BY <1>5, <2>2, <2>3, DeleteMessageFields
  <1>6. ASSUME NEW r \in Requests, UpdateUserMessageContent(r)
        PROVE  LoneInv'
    <2> DEFINE q == req[r].question
    <2>1. /\ Moves(r) /\ Same(r) /\ Working(r) /\ exists
          /\ UNCHANGED <<users, replies, lastId, title, exists, lone>>
          /\ content' = [content EXCEPT ![q] = req[r].text]
          /\ req[r].pc = "edit" /\ req'[r].pc = "reread" /\ req'[r].question = q
      BY <1>6, UpdateUserMessageContentFields DEF Working
    <2>2. messages' = messages
      BY <2>1 DEF messages
    <2>3. lone => q \in users /\ IsLast(q, messages)
      BY <1>P, <2>1 DEF PartOf
    <2> HIDE DEF q
    <2>4. AnswersItsQuestion'
      <3> SUFFICES ASSUME lone, NEW m \in replies
                   PROVE  \E p \in users : Follows(m, p) /\ content'[m] = content'[p]
        BY <2>1, <2>2 DEF AnswersItsQuestion, Follows
      <3>1. PICK p \in users : Follows(m, p) /\ content[m] = content[p]
        BY <1>P DEF Stored, AnswersItsQuestion
      <3>2. m # q
        BY <2>3 DEF TypeOK
      <3>3. p # q
        BY <1>M, <2>3, <3>1 DEF Follows, IsLast, messages
      <3> QED
        BY <1>M, <2>1, <3>1, <3>2, <3>3 DEF TypeOK
    <2>5. Stored'
      BY <1>P, <2>1, <2>2, <2>4 DEF Stored, TitleOfFirstMessage
    <2>6. lone => PartOf(r)'
      <3>1. lone => content'[q] = req[r].text
        BY <1>M, <2>1, <2>3 DEF TypeOK
      <3> QED
        BY <2>1, <2>2, <2>3, <3>1 DEF PartOf, At, Same, IsLast
    <2> QED
      BY <1>G, <2>1, <2>5, <2>6, OnlyOne
  <1>7. ASSUME NEW r \in Requests, CreateUserMessage(r)
        PROVE  LoneInv'
    <2> DEFINE n == lastId + 1
    <2>1. /\ Moves(r) /\ Same(r) /\ Working(r)
          /\ UNCHANGED <<replies, title, exists, lone>> /\ exists
          /\ n \in Ids /\ users' = users \cup {n}
          /\ content' = [content EXCEPT ![n] = req[r].text]
          /\ req[r].pc = "create" /\ req'[r].question = n
          /\ \/ req'[r].pc = "title" /\ req[r].fresh
             \/ req'[r].pc = "reread"
      BY <1>7, CreateUserMessageFields DEF Working
    <2>2. /\ n \notin messages /\ \A m \in messages : m < n
          /\ messages' = messages \cup {n}
      BY <1>M, <2>1 DEF messages
    <2>0. n \in Nat
      BY <1>M DEF n
    <2> HIDE DEF n
    <2>3. \A m \in messages : content'[m] = content[m]
      BY <2>1, <2>2 DEF TypeOK
    <2>4. content'[n] = req[r].text
      BY <2>1 DEF TypeOK
    <2>5. AnswersItsQuestion'
      <3> SUFFICES ASSUME lone, NEW m \in replies
                   PROVE  \E p \in users' : Follows(m, p)' /\ content'[m] = content'[p]
        BY <2>1 DEF AnswersItsQuestion
      <3>1. PICK p \in users : Follows(m, p) /\ content[m] = content[p]
        BY <1>P DEF Stored, AnswersItsQuestion
      <3>2. ~(n < m)
        BY <1>M, <2>0, <2>2 DEF messages
      <3>3. Follows(m, p)'
        BY <2>2, <3>1, <3>2 DEF Follows
      <3> QED
        BY <2>1, <2>3, <3>1, <3>3 DEF messages
    <2>6. lone => PartOf(r)'
      <3>1. IsLast(n, messages')
        BY <1>M, <2>1, <2>2 DEF IsLast, messages, Ids
      <3>2. lone /\ req'[r].pc = "title" => users' = {n}
        BY <1>P, <2>1 DEF PartOf, At
      <3>3. n <= n
        BY <1>M DEF n
      <3> QED
        BY <2>1, <2>4, <3>1, <3>2, <3>3 DEF PartOf, At, Same, IsLast
    <2>7. TitleOfFirstMessage'
      <3>1. \A m \in users : m <= n
        BY <1>M DEF n
      <3> QED
        BY <1>P, <2>1, <3>1 DEF Stored, TitleOfFirstMessage
    <2>8. Stored'
      BY <2>1, <2>5, <2>7 DEF Stored
    <2> QED
      BY <1>G, <2>1, <2>6, <2>8, OnlyOne
  <1>8. ASSUME NEW r \in Requests, UpdateTitle(r)
        PROVE  LoneInv'
    <2>1. /\ Moves(r) /\ Same(r) /\ Working(r) /\ exists
          /\ UNCHANGED <<users, replies, content, lastId, exists, lone>>
          /\ title' = [from |-> "question", of |-> req[r].question]
          /\ req[r].pc = "title" /\ req'[r].pc = "reread"
          /\ req'[r].question = req[r].question
      BY <1>8, UpdateTitleFields DEF Working
    <2>2. lone => PartOf(r)
      BY <1>P
    <2>3. lone => PartOf(r)'
      BY <2>1, <2>2 DEF PartOf, At, messages, IsLast, Same
    <2>4. TitleOfFirstMessage'
      BY <2>1, <2>2 DEF PartOf, At, TitleOfFirstMessage
    <2>5. Stored'
      BY <1>P, <2>1, <2>4 DEF Stored, AnswersItsQuestion, Follows, messages
    <2> QED
      BY <1>G, <2>1, <2>3, <2>5, OnlyOne
  <1>9. ASSUME NEW r \in Requests, Reread(r)
        PROVE  LoneInv'
    <2>1. /\ Moves(r) /\ Same(r) /\ Working(r) /\ UNCHANGED <<database, lone>>
          /\ req[r].pc = "reread" /\ req'[r].pc = "reply"
          /\ req'[r].question = req[r].question
      BY <1>9, RereadFields DEF Working
    <2>2. lone => PartOf(r)'
      BY <1>P, <2>1 DEF PartOf, At, messages, IsLast, Same, database
    <2> QED
      BY <1>K, <2>1, <2>2
  <1>10. ASSUME NEW r \in Requests, CreateAssistantMessage(r)
         PROVE  LoneInv'
    <2> DEFINE n == lastId + 1   q == req[r].question
    <2>1. /\ Moves(r) /\ Working(r) /\ UNCHANGED <<users, title, exists, lone>>
          /\ exists /\ n \in Ids /\ replies' = replies \cup {n}
          /\ content' = [content EXCEPT ![n] = req[r].text]
          /\ req[r].pc = "reply"
          /\ Leaves(r) \/ (Same(r) /\ req'[r].pc = "refine")
      BY <1>10, CreateAssistantMessageFields DEF Working
    <2>2. /\ n \notin messages /\ \A m \in messages : m < n
          /\ messages' = messages \cup {n}
      BY <1>M, <2>1 DEF messages
    <2>0. n \in Nat
      BY <1>M DEF n
    <2> HIDE DEF n
    <2>3. \A m \in messages : content'[m] = content[m]
      BY <2>1, <2>2 DEF TypeOK
    <2>4. content'[n] = req[r].text
      BY <2>1 DEF TypeOK
    <2>5. lone => q \in users /\ IsLast(q, messages) /\ content[q] = req[r].text
      BY <1>P, <2>1 DEF PartOf, At
    <2> HIDE DEF q
    <2>6. AnswersItsQuestion'
      <3> SUFFICES ASSUME lone, NEW m \in replies'
                   PROVE  \E p \in users : Follows(m, p)' /\ content'[m] = content'[p]
        BY <2>1 DEF AnswersItsQuestion
      <3>1. CASE m = n
        <4>1. PICK p \in users : IsLast(p, messages) /\ content[p] = req[r].text
          BY <2>5
        <4>2. ~(m < m)
          BY <2>0, <3>1
        <4>3. Follows(m, p)'
          BY <2>2, <3>1, <4>1, <4>2 DEF Follows, IsLast
        <4>4. content'[p] = content[p]
          BY <2>3, <4>1 DEF messages
        <4> QED
          BY <2>4, <3>1, <4>1, <4>3, <4>4
      <3>2. CASE m \in replies
        <4>1. PICK p \in users : Follows(m, p) /\ content[m] = content[p]
          BY <1>P, <3>2 DEF Stored, AnswersItsQuestion
        <4>2. ~(n < m)
          BY <1>M, <2>0, <2>2, <3>2 DEF messages
        <4>3. Follows(m, p)'
          BY <2>2, <4>1, <4>2 DEF Follows
        <4> QED
          BY <2>3, <3>2, <4>1, <4>3 DEF messages
      <3> QED
        BY <2>1, <3>1, <3>2
    <2>7. Stored'
      BY <1>P, <2>1, <2>6 DEF Stored, TitleOfFirstMessage
    <2>8. PartOf(r)'
      BY <2>1, Nobody DEF Leaves, PartOf, At
    <2> QED
      BY <1>G, <2>1, <2>7, <2>8, OnlyOne
  <1>11. ASSUME NEW r \in Requests, RefineTitle(r)
         PROVE  LoneInv'
    <2>1. /\ Moves(r) /\ ~(Working(r)')
          /\ UNCHANGED <<users, replies, content, lastId, exists, lone>>
          /\ title'.from # "question"
      BY <1>11, <1>I, RefineTitleFields
    <2> QED
      BY <1>G, <2>1, StoredKept, OneQuiet
  <1>12. ASSUME NEW r \in Requests, Fails(r)
         PROVE  LoneInv'
    BY <1>12, <1>I, <1>L, FailsFields
  <1>13. ASSUME Rename
         PROVE  LoneInv'
    <2>1. /\ UNCHANGED <<users, replies, content, exists, lone, req>>
          /\ title'.from # "question"
      BY <1>13 DEF Rename
    <2>2. Stored'
      BY <2>1, StoredKept
    <2> QED
      BY <1>G, <1>P, <2>1, <2>2
         DEF OneAtWork, PartOf, At, Working, messages, Follows
  <1>14. ASSUME Remove
         PROVE  LoneInv'
    <2>1. /\ ~exists' /\ users' = {} /\ replies' = {} /\ title'.from # "question"
          /\ UNCHANGED <<lone, req>> /\ messages' = {}
      BY <1>14 DEF Remove, NewTitle, messages
    <2>2. Stored'
      BY <2>1 DEF Stored, AnswersItsQuestion, TitleOfFirstMessage
    <2>3. Cardinality(messages') < MaxMessages
      BY <2>1, FS_EmptySet, MaxMessagesAssumption
    <2>4. ASSUME lone
          PROVE  (OneAtWork /\ \A r \in Requests : PartOf(r))'
      BY <1>P, <2>1, <2>3, <2>4 DEF OneAtWork, PartOf, At, Working
    <2> QED
      BY <1>G, <2>1, <2>2, <2>4
  <1>15. ASSUME UNCHANGED vars
         PROVE  LoneInv'
    BY <1>15, <1>P, <1>G
       DEF vars, database, Stored, AnswersItsQuestion, TitleOfFirstMessage, OneAtWork,
           PartOf, At, Working, messages, Follows
  <1> QED
    BY <1>1, <1>2, <1>3, <1>4, <1>5, <1>6, <1>7, <1>8, <1>9, <1>10, <1>11, <1>12,
       <1>13, <1>14, <1>15 DEF Next

LEMMA LoneAlways == Spec => []LoneInv
PROOF
  <1> QED
    BY LoneInit, LoneNext, TypeCorrect, PTL DEF Spec

\* Of requests that follow each other, whatever fails in between (input.stage.ts
\* removes the reply, then edits its question, then has a new one made), every
\* stored reply is behind its question and answers it as it is stored.
THEOREM EveryReplyAnswersItsQuestion == Spec => []AnswersItsQuestion
PROOF
  <1>1. LoneInv => AnswersItsQuestion
    BY DEF LoneInv
  <1> QED
    BY <1>1, LoneAlways, PTL

\* And the title made from a question is made from the first (userCountBefore,
\* which was counted before the message was written, was still right).
THEOREM FirstTitleIsOfFirstMessage == Spec => []TitleOfFirstMessage
PROOF
  <1>1. LoneInv => TitleOfFirstMessage
    BY DEF LoneInv
  <1> QED
    BY <1>1, LoneAlways, PTL

=============================================================================
