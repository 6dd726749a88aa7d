------------------------------- MODULE AgentTools -------------------------------
(***************************************************************************)
(* The agent's runs and the tools of the MCP server, which meet in          *)
(* ToolRegistryService: the tool that a model's reply calls is looked for   *)
(* among the tools registered by then (parse with getKnownToolNames, then   *)
(* execute), while the server's are still being connected and listed.       *)
(***************************************************************************)
EXTENDS AgentRun, McpTools

CONSTANT Builtin     \* weather and searchKnowledgeBase, registered at start

VARIABLE called      \* of every run: the tool it is running, Builtin if none

toolsVars == <<vars, mcpVars, called>>

ToolsInit ==
  /\ Init
  /\ McpInit
  /\ called = [r \in Runs |-> Builtin]

Calls(r) == log'[r].calls > log[r].calls

\* A step of a run; a call goes to a tool of the server or, as every search does,
\* to one of the process.
AgentStep ==
  /\ Next
  /\ \E tool \in {Builtin} \cup known :
       /\ tool # Builtin => searched' = searched /\ \E r \in Runs : Calls(r)
       /\ called' = [r \in Runs |-> IF Calls(r) THEN tool
                                    ELSE IF pc'[r] = "tool" THEN called[r]
                                    ELSE Builtin]
  /\ UNCHANGED mcpVars

McpStep ==
  /\ McpNext
  /\ UNCHANGED <<vars, called>>

ToolsNext == AgentStep \/ McpStep

ToolsSpec == ToolsInit /\ [][ToolsNext]_toolsVars /\ Fairness

-----------------------------------------------------------------------------
(* Properties.                                                             *)

\* What the process says of the server's tools and what the agent does with them
\* agree, from its first request on: a health check that answers "ok" counts the
\* tools the agent has then and ever after, and a call to the server finds the
\* client connected (callTool throws without it) and the tool listed.
ToolsAsTold ==
  /\ HealthTellsTruth
  /\ \A r \in Runs : called[r] # Builtin => enabled /\ called[r] \in definitions

\* What makes it inductive: the tools are listed once, by a server that is connected, and
\* registered after that; a check answers "ok" only when they are.
HealthIsOfChecks ==
  /\ health = [c \in Checks |-> health[c]]
  /\ \A c \in Checks : health[c].status = "ok" =>
       bridge = "over" /\ health[c].toolCount = Cardinality(definitions)
CalledIsListed == \A r \in Runs : called[r] # Builtin => enabled /\ called[r] \in definitions
ToolsInv ==
  /\ definitions # {} \/ connecting = "listTools" => enabled
  /\ connecting # "over" => definitions = {} /\ bridge = "waiting"
  /\ known = IF bridge = "over" THEN definitions ELSE {}
  /\ HealthIsOfChecks
  /\ CalledIsListed
=============================================================================
