---------------------------- MODULE AgentRunProofs ----------------------------
(***************************************************************************)
(* For any number of answers and any steps of an agent: the types,         *)
(* the order of a run's events, that no stream is left without a           *)
(* subscriber, that a stopped run stops, and that every step of a run is a *)
(* step of AnswerSource or leaves the feeds alone. For any tools of the    *)
(* MCP server: that the agents run beside it as without it, and that what  *)
(* is told of its tools is so.                                             *)
(***************************************************************************)
EXTENDS AgentTools, TLAPS

\* What holds of one run, by where it is: its pc, log, feed, connection, timer
\* and the context it has searched with.
RunOK(p, l, f, c, t, q) ==
  /\ t <=> c \in {"requesting", "reading"}
  /\ p = "streaming" <=> c \in {"requesting", "reading"}
  /\ p = "streaming" => f.state = "open" /\ (l.rounds > 0 => l.answered = 1)
  /\ p \in {"arriving", "staged"} => f = Source!Quiet /\ l = NoLog /\ q = None
  /\ p \in {"deciding", "tool"} =>
       /\ f.state \in {"open", "dropped"} /\ ~f.text /\ ~f.done
       /\ l.answered = 0 /\ l.rounds > 0
  /\ p = "deciding" => l.calls = l.results
  /\ p = "tool" => l.calls = l.results + 1
  /\ p = "over" => f.state # "open"
  /\ \/ l.calls = l.results
     \/ l.calls = l.results + 1 /\ (p = "tool" \/ f.state = "dropped")
  /\ l.answered <= 1
  /\ l.answered = 1 => l.steps = l.results /\ l.steps = l.calls
  /\ l.rounds > 0 /\ (f.text \/ f.done) => l.answered = 1

RunsInv ==
  /\ \A r \in Runs : RunOK(pc[r], log[r], feed[r], conn[r], timer[r], searched[r])
  /\ ContextSet

\* The other runs of a step keep all that is theirs.
LEMMA OthersKept ==
  ASSUME TypeOK, NEW r \in Runs, Step(r), NEW s \in Runs, s # r
  PROVE  /\ pc'[s] = pc[s] /\ log'[s] = log[s] /\ feed'[s] = feed[s]
         /\ conn'[s] = conn[s] /\ timer'[s] = timer[s]
         /\ searched'[s] = searched[s]
PROOF
  <1>1. CASE ToolStage(r) \/ SessionFails(r)
    BY <1>1 DEF ToolStage, SessionFails, Goes, TypeOK, streamVars
  <1>2. CASE StartDirect(r) \/ StartAgent(r)
    BY <1>2 DEF StartDirect, StartAgent, OpenStream, Goes, TypeOK, StreamTypeOK,
                streamVars
  <1>3. CASE ChatFails(r) \/ ChatConcludes(r) \/ ChatAnswers(r)
    BY <1>3 DEF ChatFails, ChatConcludes, ChatAnswers, FinalAnswer, OpenStream,
                Goes, TypeOK, StreamTypeOK, streamVars
  <1>4. CASE ChatCallsTool(r) \/ ToolReturns(r) \/ Abandons(r)
    BY <1>4 DEF ChatCallsTool, ToolReturns, FinalAnswer, OpenStream, Abandons,
                Goes, TypeOK, StreamTypeOK, streamVars
  <1>5. CASE Streams(r)
    BY <1>5 DEF Streams, StreamStep, Responds, Rejected, ReadText, ReadDone,
                ReadEnd, ReadFails, TimeOut, CloseStream, TypeOK, StreamTypeOK
  <1>6. CASE Unsubscribe(r)
    BY <1>6 DEF Unsubscribe, DropStream, CloseStream, TypeOK, StreamTypeOK,
                streamVars
  <1> QED
    BY <1>1, <1>2, <1>3, <1>4, <1>5, <1>6 DEF Step

\* What a subscriber is sent keeps its type, and, while it is open, is a step
\* of the abstract source.
LEMMA Sent ==
  ASSUME NEW f \in Source!Feed
  PROVE  /\ SendText(f) \in Source!Feed /\ Error(f) \in Source!Feed
         /\ Complete(f) \in Source!Feed /\ Complete(SendDone(f)) \in Source!Feed
         /\ f.state = "open" =>
              /\ SendText(f) = [f EXCEPT !.text = TRUE]
              /\ Error(f) = [f EXCEPT !.state = "failed"]
              /\ Complete(SendDone(f)) = [f EXCEPT !.done = TRUE, !.state = "completed"]
         /\ f.state # "open" =>
              SendText(f) = f /\ Error(f) = f /\ Complete(SendDone(f)) = f
PROOF
  BY DEF SendText, SendDone, Error, Complete, IfOpen, Source!Feed

LEMMA SentFields ==
  ASSUME NEW f \in Source!Feed
  PROVE  /\ Error(f).state # "open"
         /\ Error(f).text = f.text /\ Error(f).done = f.done
         /\ SendText(f).state = f.state
         /\ Complete(SendDone(f)).state # "open"
         /\ f.state = "open" => Complete(SendDone(f)).state = "completed"
PROOF
  BY DEF SendText, SendDone, Error, Complete, IfOpen, Source!Feed

-----------------------------------------------------------------------------
(* The types.                                                              *)

\* A change of one component of one run's log.
LEMMA LogTyped ==
  /\ NoLog \in Log
  /\ \A l \in Log, n \in Nat :
       /\ [l EXCEPT !.rounds = n] \in Log
       /\ [l EXCEPT !.calls = n] \in Log
       /\ [l EXCEPT !.results = n] \in Log
       /\ [l EXCEPT !.answered = l.answered + 1, !.steps = n] \in Log
       /\ [l EXCEPT !.results = n, !.answered = l.answered + 1, !.steps = n] \in Log
       /\ [l EXCEPT !.results = l.results + 1, !.rounds = l.rounds + 1] \in Log
PROOF
  <1>1. NoLog \in Log
    BY DEF Log, NoLog
  <1>2. ASSUME NEW l \in Log, NEW n \in Nat
        PROVE  /\ [l EXCEPT !.rounds = n] \in Log
               /\ [l EXCEPT !.calls = n] \in Log
               /\ [l EXCEPT !.results = n] \in Log
               /\ \A a \in Nat : [l EXCEPT !.answered = a, !.steps = n] \in Log
               /\ \A a \in Nat : [l EXCEPT !.results = n, !.answered = a, !.steps = n] \in Log
               /\ \A a \in Nat : [l EXCEPT !.results = n, !.rounds = a] \in Log
    BY DEF Log
  <1>3. \A l \in Log : /\ l.answered + 1 \in Nat /\ l.results + 1 \in Nat
                       /\ l.rounds + 1 \in Nat
    BY DEF Log
  <1> QED
    BY <1>1, <1>2, <1>3

\* streamFinalAnswer.
LEMMA FinalAnswerTyped ==
  ASSUME TypeOK, NEW r \in Runs, NEW n \in Nat, FinalAnswer(r, n)
  PROVE  /\ log' \in [Runs -> Log]
         /\ conn' \in [Runs -> {"none", "requesting", "reading", "closed"}]
         /\ timer' \in [Runs -> BOOLEAN]
         /\ heard' \in [Runs -> BOOLEAN]
         /\ pc' \in [Runs -> Pcs]
PROOF
  <1>1. log[r] \in Log
    BY DEF TypeOK
  <1>2. [log[r] EXCEPT !.results = n, !.answered = log[r].answered + 1, !.steps = n] \in Log
    BY <1>1, LogTyped
  <1>3. log' = [log EXCEPT ![r] = [log[r] EXCEPT !.results = n,
                              !.answered = log[r].answered + 1, !.steps = n]]
    BY DEF FinalAnswer, TypeOK
  <1>4. log' \in [Runs -> Log]
    BY <1>2, <1>3 DEF TypeOK
  <1> QED
    BY <1>4 DEF FinalAnswer, OpenStream, Goes, Pcs, TypeOK, StreamTypeOK

\* The stream's end.
LEMMA CloseTyped ==
  ASSUME StreamTypeOK, NEW r \in Runs, CloseStream(r)
  PROVE  /\ conn' \in [Runs -> {"none", "requesting", "reading", "closed"}]
         /\ timer' \in [Runs -> BOOLEAN]
         /\ heard' \in [Runs -> BOOLEAN]
PROOF
  BY DEF CloseStream, StreamTypeOK

\* A step of the stream keeps its types.
LEMMA StreamStepTyped ==
  ASSUME StreamTypeOK, NEW r \in Runs, StreamStep(r)
  PROVE  StreamTypeOK'
PROOF
  <1>1. feed[r] \in Source!Feed
    BY DEF StreamTypeOK
  <1>2. CASE Responds(r)
    BY <1>2 DEF Responds, StreamTypeOK
  <1>3. CASE ReadText(r)
    BY <1>1, <1>3, Sent DEF ReadText, StreamTypeOK
  <1>4. CASE Rejected(r) \/ TimeOut(r)
    <2>1. feed' = [feed EXCEPT ![r] = Error(feed[r])] /\ CloseStream(r)
      BY <1>4 DEF Rejected, TimeOut, StreamTypeOK
    <2> QED
      BY <1>1, <2>1, Sent, CloseTyped DEF StreamTypeOK
  <1>5. CASE ReadDone(r) \/ ReadEnd(r)
    <2>1. feed' = [feed EXCEPT ![r] = Complete(SendDone(feed[r]))] /\ CloseStream(r)
      BY <1>5 DEF ReadDone, ReadEnd, StreamTypeOK
    <2> QED
      BY <1>1, <2>1, Sent, CloseTyped DEF StreamTypeOK
  <1>6. CASE ReadFails(r)
    <2>1. \/ feed' = [feed EXCEPT ![r] = Complete(SendDone(feed[r]))]
          \/ feed' = [feed EXCEPT ![r] = Error(feed[r])]
      BY <1>6 DEF ReadFails, StreamTypeOK
    <2>2. CloseStream(r)
      BY <1>6 DEF ReadFails
    <2>3. feed' \in [Runs -> Source!Feed]
      BY <1>1, <2>1, Sent DEF StreamTypeOK
    <2> QED
      BY <2>2, <2>3, CloseTyped DEF StreamTypeOK
  <1> QED
    BY <1>2, <1>3, <1>4, <1>5, <1>6 DEF StreamStep

\* The types, of every state.
THEOREM TypeCorrect == Spec => []TypeOK
PROOF
  <1>1. Init => TypeOK
    <2> SUFFICES ASSUME Init PROVE TypeOK
      OBVIOUS
    <2>1. Source!Quiet \in Source!Feed
      BY DEF Source!Quiet, Source!Feed
    <2> QED
      BY <2>1, LogTyped
      DEF Init, TypeOK, StreamInit, StreamTypeOK, Source!Init, Pcs
  <1>2. TypeOK /\ [Next]_vars => TypeOK'
    <2> SUFFICES ASSUME TypeOK, [Next]_vars PROVE TypeOK'
      OBVIOUS
    <2>1. CASE UNCHANGED vars
      BY <2>1 DEF vars, TypeOK, StreamTypeOK
    <2>2. ASSUME NEW r \in Runs, Step(r)
          PROVE  TypeOK'
      <3>0. /\ feed[r] \in Source!Feed /\ log[r] \in Log
            /\ [feed[r] EXCEPT !.state = "open"] \in Source!Feed
            /\ [feed[r] EXCEPT !.state = "dropped"] \in Source!Feed
        BY DEF TypeOK, StreamTypeOK, Source!Feed
      <3>1. CASE ToolStage(r) \/ SessionFails(r)
        BY <3>1
        DEF ToolStage, SessionFails, SetContext, Goes, TypeOK, StreamTypeOK,
            streamVars, Pcs
      <3>2. CASE StartDirect(r)
        BY <3>0, <3>2
        DEF StartDirect, OpenStream, Goes, TypeOK, StreamTypeOK, Pcs
      <3>3. CASE StartAgent(r)
        <4>1. [log[r] EXCEPT !.rounds = 1] \in Log
          BY <3>0, LogTyped
        <4> QED
          BY <3>0, <3>3, <4>1
          DEF StartAgent, Goes, TypeOK, StreamTypeOK, streamVars, Pcs
      <3>4. CASE ChatFails(r)
        <4>1. feed' = [feed EXCEPT ![r] = Error(feed[r])]
          BY <3>4 DEF ChatFails, TypeOK, StreamTypeOK
        <4>2. feed' \in [Runs -> Source!Feed]
          BY <3>0, <4>1, Sent DEF TypeOK, StreamTypeOK
        <4> QED
          BY <3>4, <4>2
          DEF ChatFails, Goes, TypeOK, StreamTypeOK, streamVars, Pcs
      <3>5. CASE ChatConcludes(r)
        <4>1. FinalAnswer(r, log[r].results) /\ log[r].results \in Nat
          BY <3>0, <3>5 DEF ChatConcludes, Log
        <4> QED
          BY <3>5, <4>1, FinalAnswerTyped
          DEF ChatConcludes, TypeOK, StreamTypeOK
      <3>6. CASE ChatAnswers(r)
        <4>1. feed' = [feed EXCEPT ![r] = Complete(SendDone(feed[r]))]
          BY <3>6 DEF ChatAnswers, TypeOK, StreamTypeOK
        <4>2. log' = [log EXCEPT ![r] = [log[r] EXCEPT
                                !.answered = log[r].answered + 1, !.steps = 0]]
          BY <3>6 DEF ChatAnswers, TypeOK
        <4>3. feed' \in [Runs -> Source!Feed]
          BY <3>0, <4>1, Sent DEF TypeOK, StreamTypeOK
        <4>4. log' \in [Runs -> Log]
          BY <3>0, <4>2, LogTyped DEF TypeOK
        <4> QED
          BY <3>6, <4>3, <4>4
          DEF ChatAnswers, Goes, TypeOK, StreamTypeOK, streamVars, Pcs
      <3>7. CASE ChatCallsTool(r)
        <4>1. log' = [log EXCEPT ![r] = [log[r] EXCEPT !.calls = log[r].calls + 1]]
              /\ log[r].calls + 1 \in Nat
          BY <3>0, <3>7 DEF ChatCallsTool, TypeOK, Log
        <4>2. log' \in [Runs -> Log]
          BY <3>0, <4>1, LogTyped DEF TypeOK
        <4>3. searched' \in [Runs -> Runs \cup {None}]
          BY <3>7 DEF ChatCallsTool, TypeOK
        <4> QED
          BY <3>7, <4>2, <4>3
          DEF ChatCallsTool, Goes, TypeOK, StreamTypeOK, streamVars, Pcs
      <3>8. CASE ToolReturns(r)
        <4>1. CASE log[r].rounds < MaxSteps
          <5>1. log' = [log EXCEPT ![r] = [log[r] EXCEPT
                   !.results = log[r].results + 1, !.rounds = log[r].rounds + 1]]
            BY <3>8, <4>1 DEF ToolReturns, TypeOK
          <5> QED
            BY <3>0, <3>8, <4>1, <5>1, LogTyped
            DEF ToolReturns, Goes, TypeOK, StreamTypeOK, streamVars, Pcs
        <4>2. CASE ~(log[r].rounds < MaxSteps)
          <5>1. FinalAnswer(r, log[r].results + 1) /\ log[r].results + 1 \in Nat
            BY <3>0, <3>8, <4>2 DEF ToolReturns, Log
          <5> QED
            BY <3>8, <5>1, FinalAnswerTyped DEF ToolReturns, TypeOK, StreamTypeOK
        <4> QED
          BY <4>1, <4>2
      <3>9. CASE Abandons(r)
        BY <3>9 DEF Abandons, Goes, TypeOK, StreamTypeOK, streamVars, Pcs
      <3>10. CASE Streams(r)
        BY <3>10, StreamStepTyped DEF Streams, TypeOK, Pcs
      <3>11. CASE Unsubscribe(r)
        BY <3>0, <3>11, CloseTyped
        DEF Unsubscribe, DropStream, TypeOK, StreamTypeOK, streamVars, Pcs
      <3> QED
        BY <2>2, <3>1, <3>2, <3>3, <3>4, <3>5, <3>6, <3>7, <3>8, <3>9, <3>10,
           <3>11 DEF Step
    <2> QED
      BY <2>1, <2>2 DEF Next
  <1> QED
    BY <1>1, <1>2, PTL DEF Spec

-----------------------------------------------------------------------------
(* The order of events, and what is left running.                          *)

\* After StartDirect and StartAgent.
LEMMA StartKeeps ==
  ASSUME TypeOK, RunsInv, NEW r \in Runs, StartDirect(r) \/ StartAgent(r)
  PROVE  RunOK(pc[r], log[r], feed[r], conn[r], timer[r], searched[r])'
PROOF
  <1>1. pc[r] = "staged"
    BY DEF StartDirect, StartAgent
  <1>2. /\ feed[r] = Source!Quiet /\ log[r] = NoLog /\ searched[r] = None
        /\ conn[r] \notin {"requesting", "reading"} /\ ~timer[r]
    BY <1>1 DEF RunsInv, RunOK, TypeOK, StreamTypeOK
  <1>3. feed'[r] = [Source!Quiet EXCEPT !.state = "open"] /\ searched'[r] = None
    BY <1>2 DEF StartDirect, StartAgent, TypeOK, StreamTypeOK
  <1>4. CASE StartDirect(r)
    <2>1. /\ pc'[r] = "streaming" /\ log'[r] = NoLog
          /\ conn'[r] = "requesting" /\ timer'[r]
      BY <1>2, <1>4
      DEF StartDirect, OpenStream, Goes, TypeOK, StreamTypeOK
    <2> QED
      BY <1>3, <2>1 DEF RunOK, NoLog, Source!Quiet
  <1>5. CASE StartAgent(r)
    <2>1. /\ pc'[r] = "deciding" /\ log'[r] = [NoLog EXCEPT !.rounds = 1]
          /\ conn'[r] = conn[r] /\ timer'[r] = timer[r]
      BY <1>2, <1>5 DEF StartAgent, Goes, TypeOK, StreamTypeOK, streamVars
    <2> QED
      BY <1>2, <1>3, <2>1 DEF RunOK, NoLog, Source!Quiet
  <1> QED
    BY <1>4, <1>5

\* After streamFinalAnswer, on as many results as there were calls.
LEMMA FinalAnswerKeeps ==
  ASSUME TypeOK, NEW r \in Runs, NEW n \in Nat, FinalAnswer(r, n),
         log[r].calls = n, log[r].answered = 0, log[r].rounds > 0,
         ~Aborted(r), UNCHANGED feed
  PROVE  RunOK(pc[r], log[r], feed[r], conn[r], timer[r], searched[r])'
PROOF
  <1>1. /\ pc'[r] = "streaming" /\ conn'[r] = "requesting" /\ timer'[r]
        /\ feed'[r].state = "open"
    BY DEF FinalAnswer, OpenStream, Goes, TypeOK, StreamTypeOK, Aborted
  <1>2. log'[r] = [log[r] EXCEPT !.results = n,
                      !.answered = log[r].answered + 1, !.steps = n]
    BY DEF FinalAnswer, TypeOK
  <1>3. log[r] \in Log
    BY DEF TypeOK
  <1>4. /\ log'[r].results = n /\ log'[r].steps = n /\ log'[r].calls = n
        /\ log'[r].answered = 1
    BY <1>2, <1>3 DEF Log
  <1> QED
    BY <1>1, <1>4 DEF RunOK

\* After the agent's own steps.
LEMMA AgentKeeps ==
  ASSUME TypeOK, RunsInv, NEW r \in Runs,
         \/ ChatFails(r) \/ ChatConcludes(r) \/ ChatAnswers(r)
         \/ ChatCallsTool(r) \/ ToolReturns(r) \/ Abandons(r)
  PROVE  RunOK(pc[r], log[r], feed[r], conn[r], timer[r], searched[r])'
PROOF
  <1>0. /\ pc[r] \in {"deciding", "tool"}
        /\ RunOK(pc[r], log[r], feed[r], conn[r], timer[r], searched[r])
        /\ log[r] \in Log /\ feed[r] \in Source!Feed
    BY DEF ChatFails, ChatConcludes, ChatAnswers, ChatCallsTool, ToolReturns,
           Abandons, RunsInv, TypeOK, StreamTypeOK
  <1>1. /\ conn[r] \notin {"requesting", "reading"} /\ ~timer[r]
        /\ feed[r].state \in {"open", "dropped"} /\ ~feed[r].text /\ ~feed[r].done
        /\ log[r].answered = 0 /\ log[r].rounds > 0
        /\ log[r].calls = log[r].results + (IF pc[r] = "tool" THEN 1 ELSE 0)
    BY <1>0 DEF RunOK, TypeOK, StreamTypeOK, Log
  <1>2. CASE ChatFails(r)
    <2>1. /\ pc'[r] = "over" /\ log'[r] = log[r] /\ feed'[r] = Error(feed[r])
          /\ conn'[r] = conn[r] /\ timer'[r] = timer[r] /\ pc[r] = "deciding"
      BY <1>2 DEF ChatFails, Goes, TypeOK, StreamTypeOK, streamVars
    <2>2. feed'[r].state # "open" /\ ~feed'[r].text /\ ~feed'[r].done
      BY <1>0, <1>1, <2>1, SentFields
    <2> QED
      BY <1>0, <1>1, <2>1, <2>2 DEF RunOK
  <1>3. CASE ChatConcludes(r)
    <2>1. /\ FinalAnswer(r, log[r].results) /\ ~Aborted(r) /\ UNCHANGED feed
          /\ log[r].calls = log[r].results /\ log[r].results \in Nat
      BY <1>0, <1>1, <1>3 DEF ChatConcludes, Log
    <2> QED
      BY <1>1, <2>1, FinalAnswerKeeps
  <1>4. CASE ChatAnswers(r)
    <2>1. /\ pc'[r] = "over" /\ pc[r] = "deciding" /\ log[r].results = 0
          /\ log'[r] = [log[r] EXCEPT !.answered = log[r].answered + 1, !.steps = 0]
          /\ feed'[r] = Complete(SendDone(feed[r])) /\ feed[r].state = "open"
          /\ conn'[r] = conn[r] /\ timer'[r] = timer[r]
      BY <1>4 DEF ChatAnswers, Goes, Aborted, TypeOK, StreamTypeOK, streamVars
    <2>2. feed'[r].state = "completed"
      BY <1>0, <2>1, SentFields
    <2>3. /\ log'[r].results = 0 /\ log'[r].steps = 0 /\ log'[r].calls = 0
          /\ log'[r].answered = 1
      BY <1>0, <1>1, <2>1 DEF Log
    <2> QED
      BY <1>1, <2>1, <2>2, <2>3 DEF RunOK
  <1>5. CASE ChatCallsTool(r)
    <2>1. /\ pc'[r] = "tool" /\ pc[r] = "deciding" /\ feed'[r] = feed[r]
          /\ log'[r] = [log[r] EXCEPT !.calls = log[r].calls + 1]
          /\ conn'[r] = conn[r] /\ timer'[r] = timer[r]
      BY <1>5 DEF ChatCallsTool, Goes, TypeOK, StreamTypeOK, streamVars
    <2>2. /\ log'[r].results = log[r].results /\ log'[r].answered = 0
          /\ log'[r].calls = log[r].results + 1 /\ log'[r].rounds = log[r].rounds
      BY <1>0, <1>1, <2>1 DEF Log
    <2> QED
      BY <1>0, <1>1, <2>1, <2>2 DEF RunOK
  <1>6. CASE ToolReturns(r)
    <2>0. pc[r] = "tool" /\ ~Aborted(r) /\ UNCHANGED feed
      BY <1>6 DEF ToolReturns
    <2>1. CASE log[r].rounds < MaxSteps
      <3>1. /\ pc'[r] = "deciding" /\ feed'[r] = feed[r]
            /\ log'[r] = [log[r] EXCEPT !.results = log[r].results + 1,
                                        !.rounds = log[r].rounds + 1]
            /\ conn'[r] = conn[r] /\ timer'[r] = timer[r]
        BY <1>6, <2>1 DEF ToolReturns, Goes, TypeOK, StreamTypeOK, streamVars
      <3>2. /\ log'[r].results = log[r].results + 1 /\ log'[r].answered = 0
            /\ log'[r].calls = log[r].results + 1 /\ log'[r].rounds > 0
        BY <1>0, <1>1, <2>0, <3>1 DEF Log
      <3> QED
        BY <1>1, <3>1, <3>2 DEF RunOK
    <2>2. CASE ~(log[r].rounds < MaxSteps)
      <3>1. /\ FinalAnswer(r, log[r].results + 1) /\ log[r].results + 1 \in Nat
            /\ log[r].calls = log[r].results + 1
        BY <1>0, <1>1, <1>6, <2>0, <2>2 DEF ToolReturns, Log
      <3> QED
        BY <1>1, <2>0, <3>1, FinalAnswerKeeps
    <2> QED
      BY <2>1, <2>2
  <1>7. CASE Abandons(r)
    <2>1. /\ pc'[r] = "over" /\ log'[r] = log[r] /\ feed'[r] = feed[r]
          /\ conn'[r] = conn[r] /\ timer'[r] = timer[r] /\ feed[r].state # "open"
      BY <1>7 DEF Abandons, Goes, Aborted, TypeOK, StreamTypeOK, streamVars
    <2>2. feed[r].state = "dropped"
      BY <1>1, <2>1
    <2>3. log[r].calls = log[r].results \/ log[r].calls = log[r].results + 1
      BY <1>0, <1>1 DEF Log
    <2> QED
      BY <1>1, <2>1, <2>2, <2>3 DEF RunOK
  <1> QED
    BY <1>2, <1>3, <1>4, <1>5, <1>6, <1>7

\* After a step of the stream, or its loss.
LEMMA StreamKeeps ==
  ASSUME TypeOK, RunsInv, NEW r \in Runs, Streams(r) \/ Unsubscribe(r)
  PROVE  RunOK(pc[r], log[r], feed[r], conn[r], timer[r], searched[r])'
PROOF
  <1>0. /\ RunOK(pc[r], log[r], feed[r], conn[r], timer[r], searched[r])
        /\ log[r] \in Log /\ feed[r] \in Source!Feed /\ pc[r] \in Pcs
        /\ log'[r] = log[r] /\ searched'[r] = searched[r]
    BY DEF RunsInv, Streams, Unsubscribe, TypeOK, StreamTypeOK
  <1>1. feed[r].state = "open"
    BY <1>0 DEF Streams, Unsubscribe, RunOK
  <1>2. CASE Streams(r)
    <2>1. /\ pc[r] = "streaming" /\ StreamStep(r)
          /\ pc'[r] = IF Connected(r)' THEN "streaming" ELSE "over"
      BY <1>2 DEF Streams, TypeOK
    <2>2. /\ log[r].rounds > 0 => log[r].answered = 1
          /\ log[r].calls = log[r].results
          /\ timer[r] /\ conn[r] \in {"requesting", "reading"}
      BY <1>0, <1>1, <2>1 DEF RunOK
    <2>3. CASE Responds(r) \/ ReadText(r)
      <3>1. /\ conn'[r] = "reading" /\ timer'[r]
            /\ feed'[r] = feed[r] \/ feed'[r] = SendText(feed[r])
        BY <2>2, <2>3 DEF Responds, ReadText, TypeOK, StreamTypeOK
      <3>2. feed'[r].state = "open"
        BY <1>0, <1>1, <3>1, SentFields
      <3> QED
        BY <1>0, <2>1, <2>2, <3>1, <3>2 DEF RunOK, Connected
    <2>4. CASE ~(Responds(r) \/ ReadText(r))
      <3>1. /\ conn'[r] = "closed" /\ ~timer'[r]
            /\ \/ feed'[r] = Error(feed[r])
               \/ feed'[r] = Complete(SendDone(feed[r]))
        BY <2>1, <2>4
        DEF StreamStep, Rejected, ReadDone, ReadEnd, ReadFails, TimeOut,
            CloseStream, TypeOK, StreamTypeOK
      <3>2. feed'[r].state # "open"
        BY <1>0, <3>1, SentFields
      <3> QED
        BY <1>0, <2>1, <2>2, <3>1, <3>2 DEF RunOK, Connected
    <2> QED
      BY <2>3, <2>4
  <1>3. CASE Unsubscribe(r)
    <2>1. /\ feed'[r] = [feed[r] EXCEPT !.state = "dropped"]
          /\ pc'[r] = IF pc[r] = "streaming" THEN "over" ELSE pc[r]
      BY <1>3 DEF Unsubscribe, TypeOK, StreamTypeOK
    <2>2. /\ feed'[r].state = "dropped" /\ feed'[r].text = feed[r].text
          /\ feed'[r].done = feed[r].done
      BY <1>0, <2>1 DEF Source!Feed
    <2>3. conn'[r] \notin {"requesting", "reading"} /\ ~timer'[r]
      BY <1>0, <1>3
      DEF Unsubscribe, DropStream, CloseStream, Connected, streamVars, RunOK,
          TypeOK, StreamTypeOK
    <2>4. pc[r] \in {"deciding", "tool", "streaming"}
      BY <1>0, <1>1 DEF RunOK, Pcs, Source!Quiet
    <2> QED
      BY <1>0, <1>1, <2>1, <2>2, <2>3, <2>4 DEF RunOK
  <1> QED
    BY <1>2, <1>3

\* A tool finds a context, and its own request's while no other has set one.
LEMMA ContextKept ==
  ASSUME TypeOK, RunsInv, NEW r \in Runs, Step(r)
  PROVE  ContextSet'
PROOF
  <1> SUFFICES ASSUME NEW s \in Runs, pc'[s] \in {"deciding", "tool"}
               PROVE  /\ agentContext' # None
                      /\ alone'[s] => agentContext' = s /\ searched'[s] \in {None, s}
    BY DEF ContextSet
  <1>1. CASE ToolStage(r)
    <2>1. agentContext' = r /\ pc'[r] = "staged" /\ alone'[s] = (alone[s] /\ s = r)
      BY <1>1 DEF ToolStage, SetContext, Goes, TypeOK
    <2> QED
      BY <2>1, NoneAssumption
  <1>2. CASE StartAgent(r)
    <2>1. /\ agentContext' = r /\ alone'[s] = (s = r) /\ pc[r] = "staged"
          /\ searched' = searched
      BY <1>2 DEF StartAgent
    <2>2. searched[r] = None
      BY <2>1 DEF RunsInv, RunOK
    <2> QED
      BY <2>1, <2>2, NoneAssumption
  <1>3. CASE ~ToolStage(r) /\ ~StartAgent(r)
    <2>1. UNCHANGED <<agentContext, alone>>
      BY <1>3
      DEF Step, SessionFails, StartDirect, ChatFails, ChatConcludes, ChatAnswers,
          ChatCallsTool, ToolReturns, Abandons, Streams, Unsubscribe
    <2>2. pc[s] \in {"deciding", "tool"}
      <3>1. CASE s # r
        BY <3>1, OthersKept
      <3>2. CASE s = r
        <4>1. pc[r] # "arriving" /\ pc'[r] # "staged"
          BY <1>3, <3>2
          DEF Step, SessionFails, StartDirect, ChatFails, ChatConcludes,
              ChatAnswers, ChatCallsTool, ToolReturns, Abandons, Streams,
              Unsubscribe, RunsInv, RunOK, Source!Quiet
        <4>2. CASE SessionFails(r) \/ StartDirect(r) \/ Streams(r)
          BY <3>2, <4>2 DEF SessionFails, StartDirect, Streams, Goes, TypeOK
        <4>3. CASE Unsubscribe(r)
          BY <3>2, <4>3 DEF Unsubscribe, TypeOK
        <4>4. CASE \/ ChatFails(r) \/ ChatConcludes(r) \/ ChatAnswers(r)
                   \/ ChatCallsTool(r) \/ ToolReturns(r) \/ Abandons(r)
          BY <3>2, <4>4
          DEF ChatFails, ChatConcludes, ChatAnswers, ChatCallsTool, ToolReturns,
              Abandons
        <4> QED
          BY <1>3, <4>2, <4>3, <4>4 DEF Step
      <3> QED
        BY <3>1, <3>2
    <2>3. /\ agentContext # None
          /\ alone[s] => agentContext = s /\ searched[s] \in {None, s}
      BY <2>2 DEF RunsInv, ContextSet
    <2>4. searched'[s] = searched[s] \/ searched'[s] = agentContext
      BY <1>3
      DEF Step, SessionFails, StartDirect, ChatFails, ChatConcludes, ChatAnswers,
          ChatCallsTool, ToolReturns, Abandons, Streams, Unsubscribe, TypeOK
    <2> QED
      BY <2>1, <2>3, <2>4
  <1> QED
    BY <1>1, <1>2, <1>3

\* RunsInv holds of every state.
THEOREM RunsCorrect == Spec => []RunsInv
PROOF
  <1>1. Init => RunsInv
    BY DEF Init, StreamInit, Source!Init, RunsInv, RunOK, ContextSet, NoLog,
           Source!Quiet
  <1>2. TypeOK /\ RunsInv /\ [Next]_vars => RunsInv'
    <2> SUFFICES ASSUME TypeOK, RunsInv, [Next]_vars PROVE RunsInv'
      OBVIOUS
    <2>1. CASE UNCHANGED vars
      BY <2>1 DEF vars, RunsInv, RunOK, ContextSet
    <2>2. ASSUME NEW r \in Runs, Step(r)
          PROVE  RunsInv'
      <3>1. RunOK(pc[r], log[r], feed[r], conn[r], timer[r], searched[r])'
        <4>1. CASE ToolStage(r) \/ SessionFails(r)
          <5>1. /\ RunOK(pc[r], log[r], feed[r], conn[r], timer[r], searched[r])
                /\ \/ pc[r] = "arriving" /\ pc'[r] = "staged"
                   \/ pc[r] = "staged" /\ pc'[r] = "over"
                /\ log' = log /\ feed' = feed /\ conn' = conn /\ timer' = timer
                /\ searched' = searched
            BY <4>1 DEF ToolStage, SessionFails, Goes, TypeOK, streamVars, RunsInv
          <5> QED
            BY <5>1 DEF RunOK, NoLog, Source!Quiet
        <4> QED
          BY <2>2, <4>1, StartKeeps, AgentKeeps, StreamKeeps DEF Step
      <3>2. ASSUME NEW s \in Runs, s # r
            PROVE  RunOK(pc[s], log[s], feed[s], conn[s], timer[s], searched[s])'
        <4>1. RunOK(pc[s], log[s], feed[s], conn[s], timer[s], searched[s])
          BY DEF RunsInv
        <4> QED
          BY <2>2, <3>2, <4>1, OthersKept DEF RunOK
      <3>3. ContextSet'
        BY <2>2, ContextKept
      <3> QED
        BY <3>1, <3>2, <3>3 DEF RunsInv
    <2> QED
      BY <2>1, <2>2 DEF Next
  <1> QED
    BY <1>1, <1>2, TypeCorrect, PTL DEF Spec

-----------------------------------------------------------------------------
(* The properties of AgentRun.                                             *)

\* The phase events of every run are in order (PhasesInOrder).
THEOREM EventsInOrder == Spec => []PhasesInOrder
PROOF
  <1>1. RunsInv => PhasesInOrder
    BY DEF RunsInv, RunOK, PhasesInOrder
  <1> QED
    BY <1>1, RunsCorrect, PTL

\* No stream is left without a subscriber, nor a timer without a stream.
THEOREM NoStreamLeft == Spec => []StreamHasSubscriber
PROOF
  <1>1. RunsInv => StreamHasSubscriber
    BY DEF RunsInv, RunOK, StreamHasSubscriber, Connected
  <1> QED
    BY <1>1, RunsCorrect, PTL

\* A tool finds a context, its own if no other request set one since.
THEOREM ContextIsSet == Spec => []ContextSet
PROOF
  <1>1. RunsInv => ContextSet
    BY DEF RunsInv
  <1> QED
    BY <1>1, RunsCorrect, PTL

\* A stopped run asks nothing more and sends nothing more.
THEOREM StoppedRunStops == Spec => StopStops
PROOF
  <1> DEFINE Stopped ==
        \A r \in Runs :
          feed[r].state = "dropped" =>
            /\ log'[r] = log[r] /\ feed'[r] = feed[r] /\ conn'[r] = conn[r]
            /\ pc'[r] \in {pc[r], "over"}
  <1>1. TypeOK /\ RunsInv /\ [Next]_vars => [Stopped]_vars
    <2> SUFFICES ASSUME TypeOK, RunsInv, [Next]_vars,
                        NEW s \in Runs, feed[s].state = "dropped"
                 PROVE  /\ log'[s] = log[s] /\ feed'[s] = feed[s]
                        /\ conn'[s] = conn[s] /\ pc'[s] \in {pc[s], "over"}
      OBVIOUS
    <2>1. CASE UNCHANGED vars
      BY <2>1 DEF vars
    <2>2. ASSUME NEW r \in Runs, Step(r), r # s
          PROVE  /\ log'[s] = log[s] /\ feed'[s] = feed[s]
                 /\ conn'[s] = conn[s] /\ pc'[s] = pc[s]
      BY <2>2, OthersKept
    <2>3. CASE Step(s)
      <3>1. /\ feed[s] \in Source!Feed /\ pc[s] \notin {"arriving", "staged", "streaming"}
        BY DEF RunsInv, RunOK, Source!Quiet, TypeOK, StreamTypeOK
      <3>2. ChatFails(s) \/ Abandons(s)
        BY <2>3, <3>1
        DEF Step, ToolStage, SessionFails, StartDirect, StartAgent, ChatConcludes,
            ChatAnswers, ChatCallsTool, ToolReturns, Streams, Unsubscribe, Aborted
      <3>3. feed' = feed \/ feed' = [feed EXCEPT ![s] = Error(feed[s])]
        BY <3>2 DEF ChatFails, Abandons, TypeOK, StreamTypeOK
      <3>4. feed'[s] = feed[s]
        BY <3>1, <3>3, Sent DEF TypeOK, StreamTypeOK
      <3> QED
        BY <3>2, <3>4 DEF ChatFails, Abandons, Goes, TypeOK, StreamTypeOK, streamVars
    <2> QED
      BY <2>1, <2>2, <2>3 DEF Next
  <1>2. StopStops <=> [][Stopped]_vars
    BY DEF StopStops
  <1> QED
    BY <1>1, <1>2, TypeCorrect, RunsCorrect, PTL DEF Spec

\* A step of AgentRun is a step of AnswerSource on the feeds, or leaves them:
\* the safety part of IsAnswerSource.
THEOREM StepsOfAnswerSource == Spec => Source!Init /\ [][Source!Next]_feed
PROOF
  <1>1. Init => Source!Init
    BY DEF Init, StreamInit
  <1>2. TypeOK /\ RunsInv /\ [Next]_vars => [Source!Next]_feed
    <2> SUFFICES ASSUME TypeOK, RunsInv, NEW r \in Runs, Step(r)
                 PROVE  Source!Next \/ UNCHANGED feed
      BY DEF Next, vars
    <2>0. /\ feed[r] \in Source!Feed
          /\ RunOK(pc[r], log[r], feed[r], conn[r], timer[r], searched[r])
      BY DEF TypeOK, StreamTypeOK, RunsInv
    <2>1. CASE \/ ToolStage(r) \/ SessionFails(r) \/ ChatConcludes(r)
               \/ ChatCallsTool(r) \/ ToolReturns(r) \/ Abandons(r)
      BY <2>1
      DEF ToolStage, SessionFails, ChatConcludes, ChatCallsTool, ToolReturns, Abandons
    <2>2. CASE StartDirect(r) \/ StartAgent(r)
      <3>1. Source!Subscribe(r)
        BY <2>0, <2>2
        DEF StartDirect, StartAgent, RunOK, Source!Subscribe, Source!Quiet
      <3> QED
        BY <3>1 DEF Source!Next
    <2>3. CASE Unsubscribe(r)
      <3>1. Source!Drop(r)
        BY <2>3 DEF Unsubscribe, Source!Drop, Source!Open
      <3> QED
        BY <3>1 DEF Source!Next
    <2>4. ASSUME \/ feed' = [feed EXCEPT ![r] = Error(feed[r])]
                 \/ feed' = [feed EXCEPT ![r] = Complete(SendDone(feed[r]))]
                 \/ feed' = [feed EXCEPT ![r] = SendText(feed[r])]
          PROVE  Source!Next \/ UNCHANGED feed
      <3>1. CASE feed[r].state = "open"
        <4>1. \/ feed' = [feed EXCEPT ![r] = [feed[r] EXCEPT !.state = "failed"]]
              \/ feed' = [feed EXCEPT ![r] = [feed[r] EXCEPT !.done = TRUE,
                                                        !.state = "completed"]]
              \/ feed' = [feed EXCEPT ![r] = [feed[r] EXCEPT !.text = TRUE]]
          BY <2>0, <2>4, <3>1, Sent
        <4>2. Source!Fail(r) \/ Source!Finish(r) \/ Source!Text(r)
          BY <3>1, <4>1 DEF Source!Fail, Source!Finish, Source!Text, Source!Open
        <4> QED
          BY <4>2 DEF Source!Next
      <3>2. CASE feed[r].state # "open"
        <4>1. feed' = [feed EXCEPT ![r] = feed[r]]
          BY <2>0, <2>4, <3>2, Sent
        <4> QED
          BY <4>1 DEF TypeOK, StreamTypeOK
      <3> QED
        BY <3>1, <3>2
    <2>5. CASE ChatFails(r) \/ ChatAnswers(r)
      <3>1. \/ feed' = [feed EXCEPT ![r] = Error(feed[r])]
            \/ feed' = [feed EXCEPT ![r] = Complete(SendDone(feed[r]))]
        BY <2>5 DEF ChatFails, ChatAnswers, TypeOK, StreamTypeOK
      <3> QED
        BY <2>4, <3>1
    <2>6. CASE Streams(r)
      <3>1. \/ UNCHANGED feed
            \/ feed' = [feed EXCEPT ![r] = Error(feed[r])]
            \/ feed' = [feed EXCEPT ![r] = Complete(SendDone(feed[r]))]
            \/ feed' = [feed EXCEPT ![r] = SendText(feed[r])]
        BY <2>6
        DEF Streams, StreamStep, Responds, Rejected, ReadText, ReadDone, ReadEnd,
            ReadFails, TimeOut, TypeOK, StreamTypeOK
      <3> QED
        BY <2>4, <3>1
    <2> QED
      BY <2>1, <2>2, <2>3, <2>5, <2>6 DEF Step
  <1> QED
    BY <1>1, <1>2, TypeCorrect, RunsCorrect, PTL DEF Spec

-----------------------------------------------------------------------------
(* The tools of the MCP server.                                            *)

LEMMA ToolsInvInit == ToolsInit => ToolsInv
  BY DEF ToolsInit, McpInit, Unanswered, ToolsInv, HealthIsOfChecks, CalledIsListed

\* connectMcp, the bridge and the health checks.
LEMMA McpKeepsTools ==
  ASSUME ToolsInv, McpNext, UNCHANGED called
  PROVE  ToolsInv'
PROOF
  <1>1. CASE Connect \/ ListTools \/ ConnectFails
    BY <1>1 DEF Connect, ListTools, ConnectFails, ToolsInv, HealthIsOfChecks, CalledIsListed
  <1>2. CASE RegisterTools
    BY <1>2 DEF RegisterTools, Ready, ToolsInv, HealthIsOfChecks, CalledIsListed
  <1>3. ASSUME NEW c \in Checks, NEW answer, Says(c, answer), answer.status # "ok",
               UNCHANGED <<connecting, enabled, definitions, bridge, known>>
        PROVE  ToolsInv'
    BY <1>3 DEF Says, ToolsInv, HealthIsOfChecks, CalledIsListed
  <1>4. ASSUME NEW c \in Checks, AskHealth(c) PROVE ToolsInv'
    <2> DEFINE answer == IF enabled THEN Waiting ELSE [status |-> "disabled", toolCount |-> 0]
    <2>1. answer.status # "ok"
      BY DEF Waiting
    <2>2. Says(c, answer)
      BY <1>4 DEF AskHealth
    <2> HIDE DEF answer
    <2> QED
      BY <1>3, <1>4, <2>1, <2>2 DEF AskHealth
  <1>5. ASSUME NEW c \in Checks, AnswerHealth(c) PROVE ToolsInv'
    <2>1. CASE enabled
      <3> DEFINE answer == [status |-> "ok", toolCount |-> Cardinality(definitions)]
      <3>1. answer.status = "ok" /\ answer.toolCount = Cardinality(definitions)
        OBVIOUS
      <3>2. /\ Says(c, answer) /\ bridge = "over"
            /\ UNCHANGED <<connecting, enabled, definitions, bridge, known>>
        BY <1>5, <2>1 DEF AnswerHealth
      <3> HIDE DEF answer
      <3> QED
        BY <3>1, <3>2 DEF Says, ToolsInv, HealthIsOfChecks, CalledIsListed
    <2>2. CASE ~enabled
      <3> DEFINE answer == [status |-> "degraded", toolCount |-> 0]
      <3>1. answer.status # "ok"
        OBVIOUS
      <3>2. Says(c, answer)
        BY <1>5, <2>2 DEF AnswerHealth
      <3> HIDE DEF answer
      <3> QED
        BY <1>3, <1>5, <3>1, <3>2 DEF AnswerHealth
    <2> QED
      BY <2>1, <2>2
  <1> QED
    BY <1>1, <1>2, <1>4, <1>5 DEF McpNext

\* A step of a run calls tools the registry has by then.
LEMMA AgentKeepsTools ==
  ASSUME ToolsInv, AgentStep
  PROVE  ToolsInv'
PROOF
  <1>1. PICK tool \in {Builtin} \cup known :
          called' = [r \in Runs |-> IF Calls(r) THEN tool
                                    ELSE IF pc'[r] = "tool" THEN called[r]
                                    ELSE Builtin]
    BY DEF AgentStep
  <1>2. UNCHANGED mcpVars
    BY DEF AgentStep
  <1>3. tool # Builtin => enabled /\ tool \in definitions
    BY DEF ToolsInv
  <1>4. CalledIsListed'
    BY <1>1, <1>2, <1>3 DEF ToolsInv, CalledIsListed, mcpVars
  <1> QED
    BY <1>2, <1>4 DEF ToolsInv, HealthIsOfChecks, mcpVars

\* The two meet in the registry only: the runs are those of AgentRun, so that what is
\* proved of them above holds beside the MCP server, too.
THEOREM RunsBesideTools == ToolsSpec => Spec
PROOF
  <1>1. ToolsInit => Init
    BY DEF ToolsInit
  <1>2. [ToolsNext]_toolsVars => [Next]_vars
    BY DEF ToolsNext, AgentStep, McpStep, toolsVars
  <1> QED
    BY <1>1, <1>2, PTL DEF ToolsSpec, Spec

\* For any tools, checks and runs, and whatever fails while the server is connected: a
\* health check that says "ok" counts what the agent has, then and ever after, and the
\* agent calls no tool of the server that is not connected and listed (McpClientService,
\* McpToolBridgeService, McpHealthController, ToolRegistryService).
THEOREM ToolsAlwaysAsTold == ToolsSpec => []ToolsAsTold
PROOF
  <1>1. ToolsInv /\ [ToolsNext]_toolsVars => ToolsInv'
    <2> SUFFICES ASSUME ToolsInv, [ToolsNext]_toolsVars PROVE ToolsInv'
      OBVIOUS
    <2>1. CASE ToolsNext
      BY <2>1, McpKeepsTools, AgentKeepsTools DEF ToolsNext, McpStep
    <2>2. CASE UNCHANGED toolsVars
      BY <2>2 DEF toolsVars, mcpVars, ToolsInv, HealthIsOfChecks, CalledIsListed
    <2> QED
      BY <2>1, <2>2
  <1>2. ToolsInv => ToolsAsTold
    BY DEF ToolsInv, HealthIsOfChecks, CalledIsListed, ToolsAsTold, HealthTellsTruth
  <1> QED
    BY <1>1, <1>2, ToolsInvInit, PTL DEF ToolsSpec

=============================================================================
