-------------------------------- MODULE AgentRun --------------------------------
(***************************************************************************)
(* The answers of several requests being produced at once in one process:   *)
(* ToolStage and StreamStage, which prepare a request, and the observable   *)
(* of its answer - the model's stream, or streamWithAgent, which asks the   *)
(* model round by round which tool to call, runs it, and streams a final    *)
(* answer (ProviderStream).                                                *)
(*                                                                         *)
(* The runs share ToolRegistryService.agentContext: whose user, role and    *)
(* knowledge bases a tool works with.  It is set when a request passes      *)
(* ToolStage and when its run starts, and read when a tool is called.       *)
(*                                                                         *)
(* Abstracted: messages and texts; of a model's reply, whether parse finds  *)
(* a known tool in it; of the tools, the one that reads the context against *)
(* the others; of a tool, whether it has returned (executeTool makes an     *)
(* error a result).  "aborted" is the teardown having run, which rxjs does  *)
(* on unsubscription as at the end: feed[r].state is no longer "open".      *)
(***************************************************************************)
EXTENDS Naturals, ProviderStream

CONSTANTS
  MaxSteps,     \* MAX_AGENT_STEPS
  None          \* no request

ASSUME MaxStepsAssumption == MaxSteps \in Nat \ {0}
ASSUME NoneAssumption == None \notin Runs

VARIABLES
  pc,           \* of every run: where it is
  log,          \* of every run: the phase events sent (counts)
  agentContext, \* whose context the registry holds
  searched,     \* of every run: whose context its last search used
  alone         \* of every run: has no other request set the context since
                \* it subscribed? (history)

agentVars == <<pc, log, agentContext, searched, alone>>
vars == <<feed, conn, timer, heard, pc, log, agentContext, searched, alone>>

\* answered: agent_done events; steps: the steps the last of them reported.
Log == [rounds : Nat, calls : Nat, results : Nat, answered : Nat, steps : Nat]
NoLog == [rounds |-> 0, calls |-> 0, results |-> 0, answered |-> 0, steps |-> 0]

Pcs == {"arriving", "staged", "deciding", "tool", "streaming", "over"}

TypeOK ==
  /\ StreamTypeOK
  /\ pc \in [Runs -> Pcs]
  /\ log \in [Runs -> Log]
  /\ agentContext \in Runs \cup {None}
  /\ searched \in [Runs -> Runs \cup {None}]
  /\ alone \in [Runs -> BOOLEAN]

Init ==
  /\ StreamInit
  /\ pc = [r \in Runs |-> "arriving"]
  /\ log = [r \in Runs |-> NoLog]
  /\ agentContext = None
  /\ searched = [r \in Runs |-> None]
  /\ alone = [r \in Runs |-> FALSE]

-----------------------------------------------------------------------------

Goes(r, to) == pc' = [pc EXCEPT ![r] = to]

\* setAgentContext(context of r).
SetContext(r) ==
  /\ agentContext' = r
  /\ alone' = [s \in Runs |-> alone[s] /\ s = r]

\* ToolStage.execute, whatever the route.
ToolStage(r) ==
  /\ pc[r] = "arriving"
  /\ Goes(r, "staged")
  /\ SetContext(r)
  /\ UNCHANGED <<feed, streamVars, log, searched>>

\* StreamStage.execute: createSession fails, and the request with it.
SessionFails(r) ==
  /\ pc[r] = "staged"
  /\ Goes(r, "over")
  /\ UNCHANGED <<feed, streamVars, log, agentContext, searched, alone>>

\* ... or the detached generation subscribes, to the model in direct mode
StartDirect(r) ==
  /\ pc[r] = "staged"
  /\ feed' = [feed EXCEPT ![r].state = "open"]
  /\ OpenStream(r)
  /\ Goes(r, "streaming")
  /\ UNCHANGED <<log, agentContext, searched, alone>>

\* Mutant: the context that ToolStage set is taken to be still there.
StartAgentNoContext(r) ==
  /\ pc[r] = "staged"
  /\ feed' = [feed EXCEPT ![r].state = "open"]
  /\ alone' = [s \in Runs |-> s = r]
  /\ log' = [log EXCEPT ![r].rounds = 1]
  /\ Goes(r, "deciding")
  /\ UNCHANGED <<streamVars, searched, agentContext>>

\* and to the agent in agent mode: agent_start, the first agent_step and its
\* question to the model.
StartAgent(r) ==
  /\ pc[r] = "staged"
  /\ feed' = [feed EXCEPT ![r].state = "open"]
  /\ agentContext' = r
  /\ alone' = [s \in Runs |-> s = r]
  /\ log' = [log EXCEPT ![r].rounds = 1]
  /\ Goes(r, "deciding")
  /\ UNCHANGED <<streamVars, searched>>

Aborted(r) == feed[r].state # "open"

\* streamFinalAnswer, after so many tool results: agent_done, and the stream.
FinalAnswer(r, steps) ==
  /\ log' = [log EXCEPT ![r].results = steps,
                        ![r].answered = @ + 1, ![r].steps = steps]
  /\ OpenStream(r)
  /\ Goes(r, "streaming")

\* The model fails or times out (OLLAMA_CHAT_TIMEOUT_MS): the error ends all.
ChatFails(r) ==
  /\ pc[r] = "deciding"
  /\ feed' = [feed EXCEPT ![r] = Error(@)]
  /\ Goes(r, "over")
  /\ UNCHANGED <<streamVars, log, agentContext, searched, alone>>

\* Its reply calls no tool.  After tools: the final answer is streamed.
ChatConcludes(r) ==
  /\ pc[r] = "deciding"
  /\ ~Aborted(r)
  /\ log[r].results > 0
  /\ FinalAnswer(r, log[r].results)
  /\ UNCHANGED <<feed, agentContext, searched, alone>>

\* At once: the reply is the answer.
ChatAnswers(r) ==
  /\ pc[r] = "deciding"
  /\ ~Aborted(r)
  /\ log[r].results = 0
  /\ log' = [log EXCEPT ![r].answered = @ + 1, ![r].steps = 0]
  /\ feed' = [feed EXCEPT ![r] = Complete(SendDone(@))]
  /\ Goes(r, "over")
  /\ UNCHANGED <<streamVars, agentContext, searched, alone>>

\* Mutant: "aborted" is not looked at after the model's reply.
ChatCallsToolAnyway(r) ==
  /\ pc[r] = "deciding"
  /\ log' = [log EXCEPT ![r].calls = @ + 1]
  /\ \/ searched' = [searched EXCEPT ![r] = agentContext]
     \/ UNCHANGED searched
  /\ Goes(r, "tool")
  /\ UNCHANGED <<feed, streamVars, agentContext, alone>>

\* It calls a tool: the event, and the tool runs up to its first await, which
\* for searchKnowledgeBase is past getContext.
ChatCallsTool(r) ==
  /\ pc[r] = "deciding"
  /\ ~Aborted(r)
  /\ log' = [log EXCEPT ![r].calls = @ + 1]
  /\ \/ searched' = [searched EXCEPT ![r] = agentContext]
     \/ UNCHANGED searched
  /\ Goes(r, "tool")
  /\ UNCHANGED <<feed, streamVars, agentContext, alone>>

\* Mutant: the last tool's step is not counted before the final answer.
ToolReturnsUncounted(r) ==
  /\ pc[r] = "tool"
  /\ ~Aborted(r)
  /\ IF log[r].rounds < MaxSteps
       THEN /\ log' = [log EXCEPT ![r].results = @ + 1, ![r].rounds = @ + 1]
            /\ Goes(r, "deciding")
            /\ UNCHANGED streamVars
       ELSE FinalAnswer(r, log[r].results)
  /\ UNCHANGED <<feed, agentContext, searched, alone>>

\* The tool returns or fails: its result, then the next round or, after
\* MAX_AGENT_STEPS of them, the final answer.
ToolReturns(r) ==
  /\ pc[r] = "tool"
  /\ ~Aborted(r)
  /\ IF log[r].rounds < MaxSteps
       THEN /\ log' = [log EXCEPT ![r].results = @ + 1, ![r].rounds = @ + 1]
            /\ Goes(r, "deciding")
            /\ UNCHANGED streamVars
       ELSE FinalAnswer(r, log[r].results + 1)
  /\ UNCHANGED <<feed, agentContext, searched, alone>>

\* The reply or the result of a run that was unsubscribed from is let go.
Abandons(r) ==
  /\ pc[r] \in {"deciding", "tool"}
  /\ Aborted(r)
  /\ Goes(r, "over")
  /\ UNCHANGED <<feed, streamVars, log, agentContext, searched, alone>>

\* The stream of either mode; its end is the run's.
Streams(r) ==
  /\ pc[r] = "streaming"
  /\ StreamStep(r)
  /\ pc' = [pc EXCEPT ![r] = IF Connected(r)' THEN @ ELSE "over"]
  /\ UNCHANGED <<log, agentContext, searched, alone>>

\* cancelGeneration unsubscribes; a chat or a tool in flight goes on.
Unsubscribe(r) ==
  /\ feed[r].state = "open"
  /\ feed' = [feed EXCEPT ![r].state = "dropped"]
  /\ DropStream(r)
  /\ pc' = [pc EXCEPT ![r] = IF @ = "streaming" THEN "over" ELSE @]
  /\ UNCHANGED <<log, agentContext, searched, alone>>

Step(r) ==
  \/ ToolStage(r) \/ SessionFails(r) \/ StartDirect(r) \/ StartAgent(r)
  \/ ChatFails(r) \/ ChatConcludes(r) \/ ChatAnswers(r) \/ ChatCallsTool(r)
  \/ ToolReturns(r) \/ Abandons(r) \/ Streams(r) \/ Unsubscribe(r)

Next == \E r \in Runs : Step(r)

\* Model calls, tools and the stream have timeouts, so that each of them ends;
\* nothing says that the user unsubscribes.
Fairness ==
  \A r \in Runs :
    /\ WF_vars(ChatFails(r) \/ ChatConcludes(r) \/ ChatAnswers(r) \/ ChatCallsTool(r))
    /\ WF_vars(ToolReturns(r))
    /\ WF_vars(TimeOut(r) /\ Streams(r))

Spec == Init /\ [][Next]_vars /\ Fairness

-----------------------------------------------------------------------------
(* Properties.                                                             *)

\* A run is what startDetachedGeneration takes it for, in both modes and
\* however often tools are called: text, then done with completion, or an
\* error, nothing after either, and it ends unless it is unsubscribed from.
IsAnswerSource == Source!Spec

\* The phase events make sense to a client: every tool_result answers the last
\* tool_call, agent_done comes once, after them, with the number of steps there
\* were, and no text comes before it.
PhasesInOrder ==
  \A r \in Runs :
    LET l == log[r]
    IN  /\ \/ l.calls = l.results
           \/ l.calls = l.results + 1 /\ (pc[r] = "tool" \/ feed[r].state = "dropped")
        /\ l.answered <= 1
        /\ l.answered = 1 => l.steps = l.results /\ l.steps = l.calls
        /\ l.rounds > 0 /\ (feed[r].text \/ feed[r].done) => l.answered = 1

\* A request to the model or to the stream is never left running for nobody:
\* the connection, and its timer, are there only while someone is subscribed,
\* and whoever waits for a stream has one.
StreamHasSubscriber ==
  \A r \in Runs :
    /\ Connected(r) => feed[r].state = "open"
    /\ timer[r] <=> Connected(r)
    /\ pc[r] = "streaming" <=> Connected(r)

\* After the user has stopped an answer its run asks nothing more of the model
\* or of a tool, and sends no more events.
StopStops ==
  [][\A r \in Runs :
       feed[r].state = "dropped" =>
         /\ log'[r] = log[r] /\ feed'[r] = feed[r] /\ conn'[r] = conn[r]
         /\ pc'[r] \in {pc[r], "over"}]_vars

\* A tool finds the context initialised, and it is its own request's if no other
\* request passed ToolStage or started since the run did.
ContextSet ==
  \A r \in Runs :
    pc[r] \in {"deciding", "tool"} =>
      /\ agentContext # None
      /\ alone[r] => agentContext = r /\ searched[r] \in {None, r}

\* With other requests about, it need not be: TLC refutes that a search always
\* uses the knowledge bases its own user selected.
SearchesOwnContext == \A r \in Runs : searched[r] \in {None, r}
=============================================================================
