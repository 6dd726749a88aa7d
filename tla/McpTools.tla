-------------------------------- MODULE McpTools --------------------------------
(***************************************************************************)
(* The tools of the MCP file system server: McpClientService connects to    *)
(* it in the background when the process starts and lists its tools,        *)
(* McpToolBridgeService registers them with ToolRegistryService when that   *)
(* is done, and McpHealthController says how it stands.                     *)
(*                                                                         *)
(* The bridge and the health checks wait for one promise, connectPromise.   *)
(* The bridge has waited from the start (it comes after the client in       *)
(* ai.module.ts), so that its continuation runs first.                      *)
(*                                                                         *)
(* Not modelled: onModuleDestroy, which nothing calls (main.ts enables no   *)
(* shutdown hooks); resolveRoots, whose empty result is like a feature      *)
(* switched off; a server that goes away, of which the client takes no      *)
(* note: calls to it then fail like any other call of a tool.               *)
(***************************************************************************)
EXTENDS Naturals, FiniteSets

CONSTANTS
  Tools,      \* the names of the server's tools
  Checks      \* the health checks made

VARIABLES
  connecting,    \* connectMcp: the operation it waits for, or "over"
  enabled,       \* enabled; client and transport are set with it
  definitions,   \* toolDefinitions
  bridge,        \* registerToolsWhenReady: "waiting" or "over"
  known,         \* the tools of the server that the registry has
  health         \* of every check: not made, waiting, or its answer

mcpVars == <<connecting, enabled, definitions, bridge, known, health>>

Unanswered == [status |-> "none", toolCount |-> 0]
Waiting == [status |-> "waiting", toolCount |-> 0]

McpTypeOK ==
  /\ connecting \in {"connect", "listTools", "over"}
  /\ enabled \in BOOLEAN
  /\ definitions \subseteq Tools /\ known \subseteq Tools
  /\ bridge \in {"waiting", "over"}
  /\ health \in [Checks -> [status : {"none", "waiting", "disabled", "ok", "degraded"},
                            toolCount : 0 .. Cardinality(Tools)]]

\* MCP_FILESYSTEM_ENABLED may be off, and nothing is connected then.
McpInit ==
  /\ connecting \in {"connect", "over"}
  /\ enabled = FALSE /\ definitions = {} /\ known = {}
  /\ bridge = "waiting"
  /\ health = [c \in Checks |-> Unanswered]

-----------------------------------------------------------------------------
(* connectMcp.                                                             *)

\* client.connect: from here on isEnabled, with no tools yet.
Connect ==
  /\ connecting = "connect"
  /\ connecting' = "listTools" /\ enabled' = TRUE
  /\ UNCHANGED <<definitions, bridge, known, health>>

\* loadToolDefinitions.
ListTools ==
  /\ connecting = "listTools"
  /\ connecting' = "over" /\ definitions' = Tools
  /\ UNCHANGED <<enabled, bridge, known, health>>

\* Either fails: a warning.  What was set stays, and nobody tries again.
ConnectFails ==
  /\ connecting # "over"
  /\ connecting' = "over"
  /\ UNCHANGED <<enabled, definitions, bridge, known, health>>

-----------------------------------------------------------------------------
(* waitUntilReady, and what follows it.                                    *)

\* Mutant: the connection is enough.
ReadySoon == connecting # "connect"

Ready == connecting = "over"

RegisterTools ==
  /\ bridge = "waiting" /\ Ready
  /\ bridge' = "over"
  /\ known' = IF enabled THEN known \cup definitions ELSE known
  /\ UNCHANGED <<connecting, enabled, definitions, health>>

Says(c, answer) == health' = [health EXCEPT ![c] = answer]

\* GET ai/mcp/health, up to the await.
AskHealth(c) ==
  /\ health[c] = Unanswered
  /\ Says(c, IF enabled THEN Waiting ELSE [status |-> "disabled", toolCount |-> 0])
  /\ UNCHANGED <<connecting, enabled, definitions, bridge, known>>

AnswerHealth(c) ==
  /\ health[c] = Waiting /\ Ready
  /\ bridge = "over"
  /\ Says(c, IF enabled
             THEN [status |-> "ok", toolCount |-> Cardinality(definitions)]
             ELSE [status |-> "degraded", toolCount |-> 0])
  /\ UNCHANGED <<connecting, enabled, definitions, bridge, known>>

McpNext ==
  \/ Connect \/ ListTools \/ ConnectFails \/ RegisterTools
  \/ \E c \in Checks : AskHealth(c) \/ AnswerHealth(c)

-----------------------------------------------------------------------------
(* Properties.                                                             *)

\* A health check that answers "ok" while the process starts up tells the truth:
\* the agent has the tools that it counts, no fewer because they are still being
\* listed or registered, and none will come later.
HealthTellsTruth ==
  \A c \in Checks :
    health[c].status = "ok" =>
      /\ Cardinality(known) = health[c].toolCount
      /\ known = definitions /\ connecting = "over"
=============================================================================
