----------------------- MODULE ConversationSummaryProofs -----------------------
(***************************************************************************)
(* For any number of concurrent updates, of messages and of regenerations: *)
(* what the summary is said to cover it does cover, a late update never    *)
(* replaces a newer summary, and the recent window is left alone.          *)
(***************************************************************************)
EXTENDS ConversationSummary, FiniteSetTheorems, TLAPS

\* The messages, and any part of them, are finitely many.
LEMMA FiniteMessages ==
  ASSUME lastId \in Nat, messages \subseteq 1 .. lastId
  PROVE  /\ IsFiniteSet(messages)
         /\ Cardinality(messages) \in Nat
         /\ Cardinality(messages) <= lastId
         /\ \A S \in SUBSET messages :
              IsFiniteSet(S) /\ Cardinality(S) \in Nat
PROOF
  <1>1. IsFiniteSet(1 .. lastId) /\ Cardinality(1 .. lastId) = lastId
    BY FS_Interval
  <1>2. /\ IsFiniteSet(messages)
        /\ Cardinality(messages) <= lastId
    BY <1>1, FS_Subset
  <1>3. \A S \in SUBSET messages : IsFiniteSet(S)
    BY <1>2, FS_Subset
  <1> QED
    BY <1>2, <1>3, FS_CardinalityType

\* Of the messages after upto, what ToSummarize leaves for later is the newest:
\* it takes every message up to the last that it takes.
LEMMA ToSummarizeIsAPrefix ==
  ASSUME lastId \in Nat, messages \subseteq 1 .. lastId,
         NEW upto \in Nat, NEW last \in ToSummarize(upto)
  PROVE  \A m \in messages : m > upto /\ m <= last => m \in ToSummarize(upto)
PROOF
  <1> DEFINE After(m) == {n \in {k \in messages : k > upto} : n > m}
  <1> SUFFICES ASSUME NEW m \in messages, m > upto, m <= last
               PROVE  m \in ToSummarize(upto)
    OBVIOUS
  <1>1. messages \subseteq Nat /\ last \in Nat
    BY DEF ToSummarize
  <1>2. After(last) \subseteq After(m)
    <2> SUFFICES ASSUME NEW n \in messages, n > last
                 PROVE  n > m
      OBVIOUS
    <2>1. n \in Nat /\ m \in Nat /\ last \in Nat
      BY <1>1
    <2> QED
      BY <2>1
  <1>3. After(m) \subseteq messages /\ After(last) \subseteq messages
    OBVIOUS
  <1>4. Cardinality(After(last)) <= Cardinality(After(m))
    BY <1>2, <1>3, FiniteMessages, FS_Subset
  <1>5. Cardinality(After(last)) >= RecentCount
    BY DEF ToSummarize
  <1>6. Cardinality(After(m)) >= RecentCount
    BY <1>3, <1>4, <1>5, FiniteMessages, RecentCountAssumption
  <1> QED
    BY <1>6 DEF ToSummarize

\* ToSummarize takes messages the summary does not stand for yet, and leaves
\* RecentCount newer ones.
LEMMA ToSummarizeLeavesWindow ==
  ASSUME lastId \in Nat, messages \subseteq 1 .. lastId,
         NEW upto \in Nat, NEW last \in ToSummarize(upto)
  PROVE  /\ ToSummarize(upto) \subseteq messages
         /\ last > upto
         /\ Cardinality({m \in messages : m > last}) >= RecentCount
PROOF
  <1>1. /\ ToSummarize(upto) \subseteq messages
        /\ last > upto
        /\ last \in messages
    BY DEF ToSummarize
  <1>2. {n \in {k \in messages : k > upto} : n > last}
          = {m \in messages : m > last}
    <2> SUFFICES ASSUME NEW n \in messages, n > last
                 PROVE  n > upto
      OBVIOUS
    <2>1. n \in Nat /\ last \in Nat
      BY <1>1
    <2> QED
      BY <1>1, <2>1
  <1>3. Cardinality({n \in {k \in messages : k > upto} : n > last})
          >= RecentCount
    BY DEF ToSummarize
  <1> QED
    BY <1>1, <1>2, <1>3

\* The calls start typed, and a call replaced by a typed one leaves them typed.
LEMMA NoJobTyped ==
  NoJob \in Job /\ NoJob.stage = "idle" /\ NoJob.upto = 0 /\ NoJob.last = 0
PROOF
  BY MaxMessagesAssumption DEF NoJob, Job, JobStages

\* One call replaced by another leaves the calls typed.
LEMMA JobReplaced ==
  ASSUME TypeOK, NEW j \in Jobs, NEW c \in Job,
         c.upto <= lastId, c.last <= lastId,
         job' = [job EXCEPT ![j] = c], lastId' = lastId
  PROVE  /\ job' \in [Jobs -> Job]
         /\ \A i \in Jobs : job'[i].upto <= lastId' /\ job'[i].last <= lastId'
PROOF
  BY DEF TypeOK

\* A step of updateSummary, other than storing, changes its own call only.
LEMMA JobSteps ==
  ASSUME TypeOK, NEW j \in Jobs, NEW c \in Job,
         c.upto <= lastId, c.last <= lastId,
         job' = [job EXCEPT ![j] = c], UNCHANGED <<messageVars, summaryVars>>
  PROVE  TypeOK'
PROOF
  BY JobReplaced DEF messageVars, summaryVars, TypeOK

\* Creating a message.
LEMMA NewMessageTyped ==
  ASSUME TypeOK, NewMessage
  PROVE  /\ lastId' = lastId + 1
         /\ lastId' \in 0 .. MaxMessages
         /\ messages' \subseteq 1 .. lastId'
         /\ replies \cup {lastId'} \subseteq messages'
         /\ summary' \subseteq Ids
         /\ summarizedId' \in 0 .. lastId'
         /\ emptied' \in BOOLEAN
         /\ removals' \in 0 .. MaxRemovals
         /\ peak' \in 0 .. MaxMessages
PROOF
  <1>1. Cardinality(messages) \in Nat /\ Cardinality(messages) <= lastId
    BY FiniteMessages DEF TypeOK
  <1> QED
    BY <1>1, MaxMessagesAssumption DEF NewMessage, summaryVars, TypeOK

\* What there is to summarise is made of ids that were given.
LEMMA ReadMessagesTyped ==
  ASSUME TypeOK, NEW j \in Jobs, NEW last \in ToSummarize(job[j].upto)
  PROVE  /\ ToSummarize(job[j].upto) \subseteq Ids
         /\ last \in 0 .. MaxMessages
         /\ last <= lastId
PROOF
  <1>1. ToSummarize(job[j].upto) \subseteq messages
    BY DEF ToSummarize
  <1>2. messages \subseteq Ids
    BY MaxMessagesAssumption DEF TypeOK, Ids
  <1>3. last \in messages
    BY <1>1
  <1>4. last \in 1 .. lastId /\ lastId \in 0 .. MaxMessages
    BY <1>3 DEF TypeOK
  <1>5. last \in 0 .. MaxMessages /\ last <= lastId
    BY <1>4, MaxMessagesAssumption
  <1> QED
    BY <1>1, <1>2, <1>5

\* One step of updateSummary.
LEMMA UpdateSummaryTyped ==
  ASSUME TypeOK, NEW j \in Jobs, UpdateSummary(j)
  PROVE  TypeOK'
PROOF
  <1> USE MaxMessagesAssumption
  <1>0. job[j] \in Job /\ job[j].upto <= lastId /\ job[j].last <= lastId
    BY DEF TypeOK
  <1>1. CASE ReadConversation(j)
    <2> DEFINE c == [NoJob EXCEPT !.stage = "messages", !.base = summary,
                                  !.upto = summarizedId]
    <2>1. /\ summary \in SUBSET Ids
          /\ summarizedId \in 0 .. MaxMessages
          /\ summarizedId <= lastId
          /\ 0 <= lastId
      BY DEF TypeOK
    <2>2. c \in Job
      BY <2>1, NoJobTyped DEF Job, JobStages
    <2>3. c.upto = summarizedId /\ c.last = 0
      BY DEF NoJob
    <2>4. job' = [job EXCEPT ![j] = c]
      BY <1>1 DEF ReadConversation
    <2> HIDE DEF c
    <2> QED
      BY <1>1, <2>1, <2>2, <2>3, <2>4, JobSteps DEF ReadConversation
  <1>2. CASE ReadMessages(j)
    <2> DEFINE todo == ToSummarize(job[j].upto)
    <2>1. PICK last \in todo :
            job' = [job EXCEPT ![j] = [@ EXCEPT !.stage = "model", !.todo = todo,
                                                !.last = last]]
      BY <1>2 DEF ReadMessages
    <2>2. /\ todo \subseteq Ids
          /\ last \in 0 .. MaxMessages
          /\ last <= lastId
      BY ReadMessagesTyped
    <2> HIDE DEF todo
    <2> DEFINE c == [job[j] EXCEPT !.stage = "model", !.todo = todo, !.last = last]
    <2>3. c \in Job /\ c.upto <= lastId /\ c.last <= lastId
      BY <1>0, <2>2 DEF Job, JobStages
    <2>4. job' = [job EXCEPT ![j] = c]
      BY <2>1
    <2> HIDE DEF c
    <2> QED
      BY <1>2, <2>3, <2>4, JobSteps DEF ReadMessages
  <1>3. CASE NothingToDo(j) \/ Fails(j)
    <2>1. lastId \in Nat
      BY DEF TypeOK
    <2> QED
      BY <1>3, <2>1, NoJobTyped, JobSteps DEF NothingToDo, Fails
  <1>4. CASE Replied(j)
    <2>1. PICK next \in {"store", "compress"} :
            job' = [job EXCEPT ![j] = [@ EXCEPT !.stage = next,
                                                !.text = Summarized(j)]]
      BY <1>4 DEF Replied
    <2> DEFINE text == Summarized(j)
               c == [job[j] EXCEPT !.stage = next, !.text = text]
    <2>2. text \in SUBSET Ids
      BY <1>0 DEF Summarized, Job
    <2>3. next \in JobStages
      BY DEF JobStages
    <2>4. job' = [job EXCEPT ![j] = [@ EXCEPT !.stage = next, !.text = text]]
      BY <2>1
    <2> HIDE DEF text
    <2>5. c \in Job /\ c.upto <= lastId /\ c.last <= lastId
      BY <1>0, <2>2, <2>3 DEF Job
    <2>6. job' = [job EXCEPT ![j] = c]
      BY <2>4
    <2> HIDE DEF c
    <2> QED
      BY <1>4, <2>5, <2>6, JobSteps DEF Replied
  <1>5. CASE Compressed(j)
    <2>1. PICK text \in {job[j].text, {}} :
            job' = [job EXCEPT ![j] = [@ EXCEPT !.stage = "store", !.text = text]]
      BY <1>5 DEF Compressed
    <2> DEFINE c == [job[j] EXCEPT !.stage = "store", !.text = text]
    <2>2. c \in Job /\ c.upto <= lastId /\ c.last <= lastId
      BY <1>0 DEF Job, JobStages
    <2>3. job' = [job EXCEPT ![j] = c]
      BY <2>1
    <2> HIDE DEF c
    <2> QED
      BY <1>5, <2>2, <2>3, JobSteps DEF Compressed
  <1>6. CASE Stored(j)
    <2>1. /\ summary' \subseteq Ids
          /\ summarizedId' \in 0 .. lastId
          /\ emptied' \in BOOLEAN
      <3>1. (emptied \/ job[j].text = {}) \in BOOLEAN
        OBVIOUS
      <3>2. CASE summarizedId < job[j].last
        BY <1>0, <1>6, <3>1, <3>2 DEF Stored, TypeOK, Job
      <3>3. CASE ~(summarizedId < job[j].last)
        BY <1>6, <3>3 DEF Stored, summaryVars, TypeOK
      <3> QED
        BY <3>2, <3>3
    <2>2. /\ job' \in [Jobs -> Job]
          /\ \A i \in Jobs : job'[i].upto <= lastId' /\ job'[i].last <= lastId'
      BY <1>6, NoJobTyped, JobReplaced DEF Stored, messageVars, TypeOK
    <2> QED
      BY <1>6, <2>1, <2>2 DEF Stored, messageVars, TypeOK
  <1> QED
    BY <1>1, <1>2, <1>3, <1>4, <1>5, <1>6 DEF UpdateSummary

\* Every variable stays in its type; no id runs ahead of lastId.
THEOREM TypeCorrect == Spec => []TypeOK
PROOF
  <1>1. Init => TypeOK
    <2> SUFFICES ASSUME Init
                 PROVE  TypeOK
      OBVIOUS
    <2>1. /\ job \in [Jobs -> Job]
          /\ \A j \in Jobs : job[j].upto = 0 /\ job[j].last = 0
      BY NoJobTyped DEF Init
    <2>2. /\ lastId \in 0 .. MaxMessages
          /\ removals \in 0 .. MaxRemovals
          /\ peak \in 0 .. MaxMessages
          /\ summarizedId \in 0 .. lastId
          /\ 0 <= lastId
      BY MaxMessagesAssumption, MaxRemovalsAssumption DEF Init
    <2> QED
      BY <2>1, <2>2 DEF Init, TypeOK
  <1>2. TypeOK /\ [Next]_vars => TypeOK'
    <2> SUFFICES ASSUME TypeOK, [Next]_vars
                 PROVE  TypeOK'
      OBVIOUS
    <2>1. CASE UNCHANGED vars
      BY <2>1 DEF TypeOK, vars
    <2>2. ASSUME NEW j \in Jobs, Schedule(j)
          PROVE  /\ job' \in [Jobs -> Job]
                 /\ \A i \in Jobs : job'[i].upto <= lastId /\ job'[i].last <= lastId
      BY <2>2 DEF Schedule, TypeOK, Job, JobStages
    <2>3. CASE UserMessage
      BY <2>3, NewMessageTyped, MaxMessagesAssumption DEF UserMessage, TypeOK, Job
    <2>4. ASSUME NEW j \in Jobs, AssistantMessage(j)
          PROVE  TypeOK'
      <3>1. \A i \in Jobs : job'[i].upto <= lastId' /\ job'[i].last <= lastId'
        BY <2>2, <2>4, NewMessageTyped DEF AssistantMessage, TypeOK, Job
      <3> QED
        BY <2>2, <2>4, <3>1, NewMessageTyped DEF AssistantMessage, TypeOK
    <2>5. ASSUME NEW m \in messages, RemoveReply(m)
          PROVE  TypeOK'
      BY <2>5, MaxRemovalsAssumption DEF RemoveReply, summaryVars, TypeOK
    <2>6. ASSUME NEW j \in Jobs, InitialSummary(j)
          PROVE  TypeOK'
      BY <2>2, <2>6 DEF InitialSummary, messageVars, summaryVars, TypeOK
    <2> QED
      BY <2>1, <2>3, <2>4, <2>5, <2>6, UpdateSummaryTyped DEF Next
  <1> QED
    BY <1>1, <1>2, PTL DEF Spec

-----------------------------------------------------------------------------
(* The summary covers what it stands for.                                  *)

\* Messages go, and come above lastId: what was covered stays covered.
LEMMA CoversKept ==
  ASSUME TypeOK, \A m \in messages' : m \in messages \/ (m \in Nat /\ m > lastId),
         NEW text, NEW id \in Nat, id <= lastId, Covers(text, id)
  PROVE  Covers(text, id)'
PROOF
  <1> SUFFICES ASSUME NEW m \in messages', m <= id
               PROVE  m \in text
    BY DEF Covers
  <1>1. lastId \in Nat
    BY DEF TypeOK
  <1>2. m \in messages
    BY <1>1
  <1> QED
    BY <1>2 DEF Covers

\* As long as the stored summary is not replaced, the calls that a step leaves
\* alone remember what they remembered.
LEMMA CoverKept ==
  ASSUME TypeOK, SummaryInv,
         \A m \in messages' : m \in messages \/ (m \in Nat /\ m > lastId),
         UNCHANGED summaryVars,
         \A i \in Jobs : job'[i] = job[i] \/ emptied \/ JobRemembers(i)'
  PROVE  NothingForgotten' /\ JobsRemember'
PROOF
  <1>1. NothingForgotten'
    BY CoversKept DEF SummaryInv, NothingForgotten, summaryVars, TypeOK
  <1>2. ASSUME ~emptied, NEW i \in Jobs, job'[i] = job[i]
        PROVE  JobRemembers(i)'
    <2>1. /\ job[i].upto \in Nat /\ job[i].upto <= lastId
          /\ job[i].last \in Nat /\ job[i].last <= lastId
      BY DEF TypeOK, Job
    <2>2. JobRemembers(i)
      BY <1>2 DEF SummaryInv, JobsRemember
    <2>3. Covers(job[i].base, job[i].upto)'
      BY <1>2, <2>1, <2>2, CoversKept DEF JobRemembers, Covers
    <2>4. job'[i].stage = "model" => Covers(Summarized(i), job[i].last)'
      BY <1>2, <2>1, <2>2, CoversKept DEF JobRemembers, Covers, Summarized
    <2>5. job'[i].stage \in {"compress", "store"} =>
            job'[i].text = {} \/ Covers(job[i].text, job[i].last)'
      BY <1>2, <2>1, <2>2, CoversKept DEF JobRemembers, Covers
    <2> QED
      BY <2>3, <2>4, <2>5 DEF JobRemembers
  <1>3. ASSUME ~emptied, NEW i \in Jobs
        PROVE  JobRemembers(i)'
    BY <1>2, <1>3
  <1>4. JobsRemember'
    BY <1>3 DEF JobsRemember, summaryVars
  <1> QED
    BY <1>1, <1>4

\* One step of updateSummary: what it reads together belongs together, and the
\* condition of the update keeps what is stored together.
LEMMA UpdateSummaryCovers ==
  ASSUME TypeOK, SummaryInv, NEW j \in Jobs, UpdateSummary(j)
  PROVE  NothingForgotten' /\ JobsRemember'
PROOF
  <1>0. /\ job[j] \in Job
        /\ \A i \in Jobs : i # j => job'[i] = job[i]
        /\ messages' = messages
    BY DEF TypeOK, UpdateSummary, ReadConversation, ReadMessages, NothingToDo,
           Replied, Compressed, Stored, Fails, messageVars
  <1>1. ~emptied => JobRemembers(j) /\ Covers(summary, summarizedId)
    BY DEF SummaryInv, JobsRemember, NothingForgotten
  <1>2. ASSUME UNCHANGED summaryVars, emptied \/ JobRemembers(j)'
        PROVE  NothingForgotten' /\ JobsRemember'
    <2>1. \A i \in Jobs : job'[i] = job[i] \/ emptied \/ JobRemembers(i)'
      BY <1>0, <1>2
    <2> QED
      BY <1>0, <1>2, <2>1, CoverKept
  <1>3. CASE ReadConversation(j)
    <2>1. job'[j] = [NoJob EXCEPT !.stage = "messages", !.base = summary,
                                  !.upto = summarizedId]
      BY <1>3 DEF ReadConversation, TypeOK
    <2>2. /\ job'[j].stage = "messages"
          /\ job'[j].base = summary /\ job'[j].upto = summarizedId
      BY <2>1 DEF NoJob
    <2>3. emptied \/ JobRemembers(j)'
      BY <1>0, <1>1, <2>2 DEF JobRemembers, Covers
    <2> QED
      BY <1>2, <1>3, <2>3 DEF ReadConversation
  <1>4. CASE ReadMessages(j)
    <2> DEFINE todo == ToSummarize(job[j].upto)
    <2>1. PICK last \in todo :
            job' = [job EXCEPT ![j] = [@ EXCEPT !.stage = "model", !.todo = todo,
                                                !.last = last]]
      BY <1>4 DEF ReadMessages
    <2>2. /\ job[j].upto \in Nat /\ lastId \in Nat
          /\ messages \subseteq 1 .. lastId
      BY <1>0 DEF TypeOK, Job
    <2>3. \A m \in messages : m > job[j].upto /\ m <= last => m \in todo
      BY <2>2, ToSummarizeIsAPrefix
    <2> HIDE DEF todo
    <2>4. /\ job'[j].stage = "model"
          /\ job'[j].base = job[j].base /\ job'[j].upto = job[j].upto
          /\ job'[j].todo = todo /\ job'[j].last = last
      BY <1>0, <2>1 DEF TypeOK, Job
    <2>5. ~emptied => \A m \in messages : m <= last => m \in job[j].base \cup todo
      BY <1>1, <2>2, <2>3 DEF JobRemembers, Covers
    <2>6. emptied \/ JobRemembers(j)'
      BY <1>0, <1>1, <2>4, <2>5 DEF JobRemembers, Covers, Summarized
    <2> QED
      BY <1>2, <1>4, <2>6 DEF ReadMessages
  <1>5. ASSUME job'[j] = NoJob
        PROVE  JobRemembers(j)'
    <2>1. \A m \in messages' : ~(m <= 0)
      BY <1>0 DEF TypeOK
    <2> QED
      BY <1>5, <2>1 DEF JobRemembers, NoJob, Covers
  <1>6. CASE NothingToDo(j) \/ Fails(j)
    <2>1. job'[j] = NoJob
      BY <1>6 DEF NothingToDo, Fails, TypeOK
    <2> QED
      BY <1>2, <1>5, <1>6, <2>1 DEF NothingToDo, Fails
  <1>7. CASE Replied(j)
    <2>1. PICK next \in {"store", "compress"} :
            job' = [job EXCEPT ![j] = [@ EXCEPT !.stage = next,
                                                !.text = Summarized(j)]]
      BY <1>7 DEF Replied
    <2> DEFINE text == Summarized(j)
    <2>2. job[j].stage = "model" /\ (~emptied => Covers(text, job[j].last))
      BY <1>1, <1>7 DEF Replied, JobRemembers
    <2>3. job' = [job EXCEPT ![j] = [@ EXCEPT !.stage = next, !.text = text]]
      BY <2>1
    <2> HIDE DEF text
    <2>4. /\ job'[j].stage = next /\ job'[j].text = text
          /\ job'[j].base = job[j].base /\ job'[j].upto = job[j].upto
          /\ job'[j].last = job[j].last
      BY <1>0, <2>3 DEF TypeOK, Job
    <2>5. emptied \/ JobRemembers(j)'
      BY <1>0, <1>1, <2>2, <2>4 DEF JobRemembers, Covers
    <2> QED
      BY <1>2, <1>7, <2>5 DEF Replied
  <1>8. CASE Compressed(j)
    <2>1. PICK text \in {job[j].text, {}} :
            job' = [job EXCEPT ![j] = [@ EXCEPT !.stage = "store", !.text = text]]
      BY <1>8 DEF Compressed
    <2>2. /\ job'[j].stage = "store" /\ job'[j].text = text
          /\ job'[j].base = job[j].base /\ job'[j].upto = job[j].upto
          /\ job'[j].last = job[j].last
      BY <1>0, <2>1 DEF TypeOK, Job
    <2>3. emptied \/ JobRemembers(j)'
      BY <1>0, <1>1, <1>8, <2>2 DEF Compressed, JobRemembers, Covers
    <2> QED
      BY <1>2, <1>8, <2>3 DEF Compressed
  <1>9. CASE Stored(j)
    <2>1. job'[j] = NoJob
      BY <1>9 DEF Stored, TypeOK
    <2>2. JobRemembers(j)'
      BY <1>5, <2>1
    <2>3. CASE ~(summarizedId < job[j].last)
      BY <1>2, <1>9, <2>2, <2>3 DEF Stored
    <2>4. CASE summarizedId < job[j].last
      <3>1. /\ summary' = job[j].text /\ summarizedId' = job[j].last
            /\ emptied' = (emptied \/ job[j].text = {})
            /\ job[j].stage = "store"
        BY <1>9, <2>4 DEF Stored
      <3>2. NothingForgotten'
        BY <1>0, <1>1, <3>1 DEF NothingForgotten, JobRemembers, Covers
      <3>3. ASSUME ~emptied', NEW i \in Jobs, i # j
            PROVE  JobRemembers(i)'
        <4>1. ~emptied /\ job'[i] = job[i]
          BY <1>0, <3>1, <3>3
        <4>2. JobRemembers(i)
          BY <4>1 DEF SummaryInv, JobsRemember
        <4> QED
          BY <1>0, <4>1, <4>2 DEF JobRemembers, Covers, Summarized
      <3>4. ASSUME ~emptied', NEW i \in Jobs
            PROVE  JobRemembers(i)'
        BY <2>2, <3>3, <3>4
      <3>5. JobsRemember'
        BY <3>4 DEF JobsRemember
      <3> QED
        BY <3>2, <3>5
    <2> QED
      BY <2>3, <2>4
  <1> QED
    BY <1>3, <1>4, <1>6, <1>7, <1>8, <1>9 DEF UpdateSummary

\* What a message is sent to the model as: itself, or a part of the summary;
\* however many updates read, summarise and store at once, and whatever is
\* written and regenerated meanwhile.
THEOREM SummaryForgetsNothing == Spec => []NothingForgotten
PROOF
  <1>1. Init => SummaryInv
    <2> SUFFICES ASSUME Init
                 PROVE  SummaryInv
      OBVIOUS
    <2>1. \A text, id : Covers(text, id)
      BY DEF Init, Covers
    <2> QED
      BY <2>1 DEF Init, SummaryInv, NothingForgotten, JobsRemember, JobRemembers,
                  NoJob
  <1>2. TypeOK /\ SummaryInv /\ [Next]_vars => SummaryInv'
    <2> SUFFICES ASSUME TypeOK, SummaryInv, [Next]_vars
                 PROVE  NothingForgotten' /\ JobsRemember'
      BY DEF SummaryInv
    <2>1. CASE UNCHANGED vars
      BY <2>1, CoverKept DEF vars, summaryVars
    <2>2. ASSUME NewMessage
          PROVE  \A m \in messages' : m \in messages \/ (m \in Nat /\ m > lastId)
      BY <2>2 DEF NewMessage, TypeOK
    <2>3. ASSUME NEW j \in Jobs, Schedule(j), UNCHANGED summaryVars,
                 \A m \in messages' : m \in messages \/ (m \in Nat /\ m > lastId)
          PROVE  NothingForgotten' /\ JobsRemember'
      <3>1. /\ job[j].upto \in Nat /\ job[j].upto <= lastId
            /\ job'[j].stage = "conversation"
            /\ job'[j].base = job[j].base /\ job'[j].upto = job[j].upto
            /\ \A i \in Jobs : i # j => job'[i] = job[i]
        BY <2>3 DEF Schedule, TypeOK, Job
      <3>2. ~emptied => Covers(job[j].base, job[j].upto)
        BY DEF SummaryInv, JobsRemember, JobRemembers
      <3>3. ~emptied => Covers(job[j].base, job[j].upto)'
        BY <2>3, <3>1, <3>2, CoversKept DEF Covers
      <3>4. emptied \/ JobRemembers(j)'
        BY <3>1, <3>3 DEF JobRemembers
      <3>5. \A i \in Jobs : job'[i] = job[i] \/ emptied \/ JobRemembers(i)'
        BY <3>1, <3>4
      <3> QED
        BY <2>3, <3>5, CoverKept
    <2>4. CASE UserMessage
      BY <2>2, <2>4, CoverKept DEF UserMessage, NewMessage
    <2>5. ASSUME NEW j \in Jobs, AssistantMessage(j)
          PROVE  NothingForgotten' /\ JobsRemember'
      BY <2>2, <2>3, <2>5 DEF AssistantMessage, NewMessage
    <2>6. ASSUME NEW m \in messages, RemoveReply(m)
          PROVE  NothingForgotten' /\ JobsRemember'
      BY <2>6, CoverKept DEF RemoveReply
    <2>7. ASSUME NEW j \in Jobs, InitialSummary(j)
          PROVE  NothingForgotten' /\ JobsRemember'
      BY <2>3, <2>7 DEF InitialSummary, messageVars
    <2> QED
      BY <2>1, <2>4, <2>5, <2>6, <2>7, UpdateSummaryCovers DEF Next
  <1>3. SummaryInv => NothingForgotten
    BY DEF SummaryInv
  <1> QED
    BY <1>1, <1>2, <1>3, TypeCorrect, PTL DEF Spec

-----------------------------------------------------------------------------
(* The window of recent messages, and the order of the updates.            *)

\* A call's window is that after the id it has in hand.
LEMMA WindowOf ==
  ASSUME NEW i \in Jobs, NEW id
  PROVE  /\ job[i].last = id => (WindowAfter(job[i].last) <=> WindowAfter(id))
         /\ job'[i].last = id => (WindowAfter(job[i].last)' <=> WindowAfter(id)')
PROOF
  <1>1. ASSUME job[i].last = id
        PROVE  WindowAfter(job[i].last) <=> WindowAfter(id)
    <2>1. {m \in messages : m > job[i].last} = {m \in messages : m > id}
      BY <1>1
    <2> QED
      BY <2>1 DEF WindowAfter
  <1>2. ASSUME job'[i].last = id
        PROVE  WindowAfter(job[i].last)' <=> WindowAfter(id)'
    <2>1. {m \in messages' : m > job'[i].last} = {m \in messages' : m > id}
      BY <1>2
    <2> QED
      BY <2>1 DEF WindowAfter
  <1> QED
    BY <1>1, <1>2

\* A window outlives a step that removes no more messages than it counts.
LEMMA WindowKept ==
  ASSUME TypeOK, WindowInv,
         \A id \in Nat : id <= lastId /\ WindowAfter(id) => WindowAfter(id)',
         UNCHANGED summarizedId,
         \A i \in Jobs : \/ job'[i].stage = job[i].stage /\ job'[i].last = job[i].last
                         \/ job'[i].stage \in {"idle", "conversation", "messages"}
                         \/ \E id \in Nat : job'[i].last = id /\ WindowAfter(id)'
  PROVE  WindowInv'
PROOF
  <1>1. RecentWindowKept'
    <2>1. summarizedId \in Nat /\ summarizedId <= lastId
      BY DEF TypeOK
    <2> QED
      BY <2>1 DEF WindowInv, RecentWindowKept, WindowAfter
  <1>2. ASSUME NEW i \in Jobs, job'[i].stage \in {"model", "compress", "store"}
        PROVE  WindowAfter(job[i].last)'
    <2>1. CASE job'[i].stage = job[i].stage /\ job'[i].last = job[i].last
      <3>1. PICK id \in Nat : id = job[i].last /\ id <= lastId
        BY DEF TypeOK, Job
      <3>2. WindowAfter(job[i].last)
        BY <1>2, <2>1 DEF WindowInv, JobsKeepWindow
      <3>3. WindowAfter(id)'
        BY <3>1, <3>2, WindowOf
      <3> QED
        BY <2>1, <3>1, <3>3, WindowOf
    <2>2. CASE \E id \in Nat : job'[i].last = id /\ WindowAfter(id)'
      BY <2>2, WindowOf
    <2> QED
      BY <1>2, <2>1, <2>2
  <1> QED
    BY <1>1, <1>2 DEF WindowInv, JobsKeepWindow

\* A new message widens every window, a regeneration takes one message of it.
LEMMA WindowMoves ==
  ASSUME TypeOK, NEW id \in Nat, id <= lastId, WindowAfter(id)
  PROVE  /\ NewMessage => WindowAfter(id)'
         /\ \A m \in messages : RemoveReply(m) => WindowAfter(id)'
         /\ UNCHANGED messageVars => WindowAfter(id)'
PROOF
  <1> DEFINE W == {m \in messages : m > id}
  <1>1. /\ IsFiniteSet(W) /\ Cardinality(W) \in Nat
        /\ Cardinality(W) + removals >= RecentCount
        /\ lastId \in Nat /\ removals \in Nat
    BY FiniteMessages DEF TypeOK, WindowAfter
  <1>2. RecentCount \in Nat
    BY RecentCountAssumption
  <1>3. ASSUME NewMessage
        PROVE  WindowAfter(id)'
    <2>1. {m \in messages' : m > id} = W \cup {lastId + 1}
      BY <1>1, <1>3 DEF NewMessage, TypeOK
    <2>4. removals' = removals
      BY <1>3 DEF NewMessage
    <2> HIDE DEF W
    <2>2. /\ Cardinality(W \cup {lastId + 1})
               = IF lastId + 1 \in W THEN Cardinality(W) ELSE Cardinality(W) + 1
      BY <1>1, FS_AddElement
    <2>3. /\ Cardinality(W \cup {lastId + 1}) >= Cardinality(W)
          /\ Cardinality(W \cup {lastId + 1}) \in Nat
      BY <1>1, <2>2
    <2>5. Cardinality(W \cup {lastId + 1}) + removals >= RecentCount
      BY <1>1, <1>2, <2>3
    <2> QED
      BY <2>1, <2>4, <2>5 DEF WindowAfter
  <1>4. ASSUME NEW r \in messages, RemoveReply(r)
        PROVE  WindowAfter(id)'
    <2>1. {m \in messages' : m > id} = W \ {r}
      BY <1>4 DEF RemoveReply
    <2>2. removals' = removals + 1
      BY <1>4 DEF RemoveReply
    <2> HIDE DEF W
    <2>3. /\ IsFiniteSet(W \ {r})
          /\ Cardinality(W \ {r})
               = IF r \in W THEN Cardinality(W) - 1 ELSE Cardinality(W)
      BY <1>1, FS_RemoveElement
    <2>4. Cardinality(W \ {r}) \in Nat
      BY <2>3, FS_CardinalityType
    <2>5. Cardinality(W \ {r}) + (removals + 1) >= RecentCount
      BY <1>1, <1>2, <2>3, <2>4
    <2> QED
      BY <2>1, <2>2, <2>5 DEF WindowAfter
  <1>5. UNCHANGED messageVars => WindowAfter(id)'
    BY DEF messageVars, WindowAfter
  <1> QED
    BY <1>3, <1>4, <1>5

\* The RecentCount newest messages are never summarised, but for those that a
\* regeneration moved up.
THEOREM RecentWindowAlwaysKept == Spec => []RecentWindowKept
PROOF
  <1>1. Init => WindowInv
    BY DEF Init, WindowInv, RecentWindowKept, JobsKeepWindow, NoJob
  <1>2. TypeOK /\ WindowInv /\ [Next]_vars => WindowInv'
    <2> SUFFICES ASSUME TypeOK, WindowInv, [Next]_vars
                 PROVE  WindowInv'
      OBVIOUS
    <2>1. CASE UNCHANGED vars
      BY <2>1, WindowKept, WindowMoves DEF vars, messageVars
    <2>2. CASE UserMessage
      BY <2>2, WindowKept, WindowMoves DEF UserMessage, NewMessage, summaryVars
    <2>3. ASSUME NEW j \in Jobs, Schedule(j)
          PROVE  \A i \in Jobs :
                   \/ job'[i].stage = job[i].stage /\ job'[i].last = job[i].last
                   \/ job'[i].stage \in {"idle", "conversation", "messages"}
      BY <2>3 DEF Schedule, TypeOK, Job
    <2>4. ASSUME NEW j \in Jobs, AssistantMessage(j)
          PROVE  WindowInv'
      BY <2>3, <2>4, WindowKept, WindowMoves
      DEF AssistantMessage, NewMessage, summaryVars
    <2>5. ASSUME NEW m \in messages, RemoveReply(m)
          PROVE  WindowInv'
      BY <2>5, WindowKept, WindowMoves DEF RemoveReply, summaryVars
    <2>6. ASSUME NEW j \in Jobs, InitialSummary(j)
          PROVE  WindowInv'
      BY <2>3, <2>6, WindowKept, WindowMoves DEF InitialSummary, summaryVars
    <2>7. ASSUME NEW j \in Jobs, UpdateSummary(j)
          PROVE  WindowInv'
      <3>0. /\ job[j] \in Job
            /\ \A i \in Jobs : i # j => job'[i] = job[i]
            /\ UNCHANGED messageVars
        BY <2>7
        DEF TypeOK, UpdateSummary, ReadConversation, ReadMessages, NothingToDo,
            Replied, Compressed, Stored, Fails
      <3>1. CASE ReadConversation(j) \/ NothingToDo(j) \/ Fails(j)
        <4>1. \/ job'[j] = NoJob
              \/ job'[j] = [NoJob EXCEPT !.stage = "messages", !.base = summary,
                                         !.upto = summarizedId]
          BY <3>1 DEF ReadConversation, NothingToDo, Fails, TypeOK
        <4>2. job'[j].stage \in {"idle", "conversation", "messages"}
          BY <4>1, NoJobTyped DEF Job
        <4>3. UNCHANGED summarizedId
          BY <3>1 DEF ReadConversation, NothingToDo, Fails, summaryVars
        <4> QED
          BY <3>0, <4>2, <4>3, WindowKept, WindowMoves
      <3>2. CASE ReadMessages(j)
        <4>1. PICK last \in ToSummarize(job[j].upto) :
                job' = [job EXCEPT ![j] = [@ EXCEPT !.stage = "model",
                          !.todo = ToSummarize(job[j].upto), !.last = last]]
          BY <3>2 DEF ReadMessages
        <4>2. job'[j].last = last
          BY <3>0, <4>1 DEF TypeOK, Job
        <4>3. /\ job[j].upto \in Nat /\ lastId \in Nat
              /\ messages \subseteq 1 .. lastId
          BY <3>0 DEF TypeOK, Job
        <4>4. /\ Cardinality({m \in messages : m > last}) >= RecentCount
              /\ ToSummarize(job[j].upto) \subseteq messages
          BY <4>3, ToSummarizeLeavesWindow
        <4>5. last \in Nat
          <5>1. last \in messages
            BY <4>1, <4>4
          <5>2. \A x \in messages : x \in Nat
            BY <4>3
          <5> QED
            BY ONLY <5>1, <5>2
        <4>6. Cardinality({m \in messages : m > last}) \in Nat
          BY FiniteMessages DEF TypeOK
        <4>7. WindowAfter(last)
          BY <4>4, <4>6, RecentCountAssumption DEF WindowAfter, TypeOK
        <4>8. WindowAfter(last)'
          BY <3>0, <4>7 DEF WindowAfter, messageVars
        <4> QED
          BY <3>0, <3>2, <4>2, <4>5, <4>8, WindowKept, WindowMoves
          DEF ReadMessages, summaryVars
      <3>3. CASE Replied(j) \/ Compressed(j)
        <4>1. /\ job'[j].last = job[j].last
              /\ job[j].stage \in {"model", "compress"}
              /\ UNCHANGED summarizedId
          BY <3>3 DEF Replied, Compressed, TypeOK, Job, summaryVars
        <4>2. PICK id \in Nat : id = job[j].last
          BY <3>0 DEF Job
        <4>3. WindowAfter(id)
          BY <4>1, <4>2, WindowOf DEF WindowInv, JobsKeepWindow
        <4>4. WindowAfter(id)'
          BY <3>0, <4>3 DEF WindowAfter, messageVars
        <4> QED
          BY <3>0, <4>1, <4>2, <4>4, WindowKept, WindowMoves
      <3>4. CASE Stored(j)
        <4>1. job'[j] = NoJob /\ job[j].stage = "store"
          BY <3>4 DEF Stored, TypeOK
        <4>2. WindowAfter(job[j].last)
          BY <4>1 DEF WindowInv, JobsKeepWindow
        <4>3. summarizedId' = summarizedId \/ summarizedId' = job[j].last
          BY <3>4 DEF Stored, summaryVars
        <4>4. RecentWindowKept'
          BY <3>0, <4>2, <4>3
          DEF WindowInv, RecentWindowKept, WindowAfter, messageVars
        <4>5. ASSUME NEW i \in Jobs,
                     job'[i].stage \in {"model", "compress", "store"}
              PROVE  WindowAfter(job[i].last)'
          <5>1. job'[i] = job[i]
            BY <3>0, <4>1, <4>5 DEF NoJob
          <5>2. PICK id : id = job[i].last
            OBVIOUS
          <5>3. WindowAfter(id)
            BY <4>5, <5>1, <5>2, WindowOf DEF WindowInv, JobsKeepWindow
          <5>4. WindowAfter(id)'
            BY <3>0, <5>3 DEF WindowAfter, messageVars
          <5> QED
            BY <5>1, <5>2, <5>4, WindowOf
        <4>6. JobsKeepWindow'
          BY <4>5 DEF JobsKeepWindow
        <4> QED
          BY <4>4, <4>6 DEF WindowInv
      <3> QED
        BY <2>7, <3>1, <3>2, <3>3, <3>4 DEF UpdateSummary
    <2> QED
      BY <2>1, <2>2, <2>4, <2>5, <2>6, <2>7 DEF Next
  <1>3. WindowInv => RecentWindowKept
    BY DEF WindowInv
  <1> QED
    BY <1>1, <1>2, <1>3, TypeCorrect, PTL DEF Spec

\* Of two updates the later never takes the conversation back: the stored
\* summary only ever changes for one that stands for more.
THEOREM SummaryAlwaysMovesForward == Spec => SummaryMovesForward
PROOF
  <1>1. ASSUME TypeOK, [Next]_vars
        PROVE  [<<summary, summarizedId>>' # <<summary, summarizedId>>
                  => summarizedId' > summarizedId]_vars
    <2>1. CASE UNCHANGED vars
      BY <2>1
    <2>2. CASE UserMessage \/ \E m \in messages : RemoveReply(m)
      BY <2>2 DEF UserMessage, NewMessage, RemoveReply, summaryVars
    <2>3. ASSUME NEW j \in Jobs,
                 AssistantMessage(j) \/ InitialSummary(j) \/ UpdateSummary(j)
          PROVE  <<summary, summarizedId>>' # <<summary, summarizedId>>
                   => summarizedId' > summarizedId
      <3>1. CASE Stored(j)
        <4>1. job[j].last \in Nat /\ summarizedId \in Nat
          BY <1>1 DEF TypeOK, Job
        <4> QED
          BY <3>1, <4>1 DEF Stored, summaryVars
      <3> QED
        BY <2>3, <3>1
        DEF AssistantMessage, NewMessage, InitialSummary, UpdateSummary,
            ReadConversation, ReadMessages, NothingToDo, Replied, Compressed,
            Fails, summaryVars
    <2> QED
      BY <1>1, <2>1, <2>2, <2>3 DEF Next
  <1> QED
    BY <1>1, TypeCorrect, PTL DEF Spec, SummaryMovesForward
=============================================================================
