----------------------------- MODULE StreamEnvelope -----------------------------
(***************************************************************************)
(* The frames an SSE client receives of one stream: wrapLegacyPayload and   *)
(* the two ways a payload comes to observeSession, live through the Subject *)
(* and as a snapshot of the Redis session.                                 *)
(*                                                                         *)
(* A payload is what wrapLegacyPayload tests of it: which fields are        *)
(* present, and not empty where the code asks for that.  An envelope is an  *)
(* object too, whose fields (but for streamId) sit one level down, under    *)
(* "payload": to code that looks for payload fields it has none of them.    *)
(*                                                                         *)
(* The session is saved by its writers (ConversationStream) in any order of *)
(* statuses, never with a lower seq, but possibly with the one before.  It  *)
(* expires, and is there again when a write read it before it did.  A read  *)
(* of it and what the observer makes of the answer are one step.           *)
(***************************************************************************)
EXTENDS Naturals

CONSTANTS
  Observers,   \* the SSE requests observing the stream
  MaxSeq       \* the highest sequence number

ASSUME MaxSeqAssumption == MaxSeq \in Nat

VARIABLES
  stored,      \* the session: whether it is there, is final, has an error; its seq
  observer,    \* of every observer: state, last frame sent, lastSeq + 1
  live         \* history: the payload emitLive was given, if that came last

vars == <<stored, observer, live>>

AgentPhases == {"agent_start", "agent_step", "agent_done"}
Phases == {"none", "rag_citations", "tool_call", "tool_result"} \cup AgentPhases
EndFrames == {"stream_done", "stream_error"}
Frames == {"none", "stream_meta", "message_delta", "tool_call", "tool_result",
           "agent_step", "rag_citations"} \cup EndFrames

\* id: streamId or requestId; text: any field that makes it a delta.
Payload == [phase : Phases, tool : BOOLEAN, args : BOOLEAN, citations : BOOLEAN,
            error : BOOLEAN, done : BOOLEAN, text : BOOLEAN, id : BOOLEAN]
Empty == [phase |-> "none", tool |-> FALSE, args |-> FALSE, citations |-> FALSE,
          error |-> FALSE, done |-> FALSE, text |-> FALSE, id |-> FALSE]

-----------------------------------------------------------------------------
(* stream-envelope.util.ts.                                                *)

\* legacyPayloadToEnvelope: the type of the envelope; "none" for no envelope.
TypeOf(p) ==
  IF p.phase = "rag_citations" /\ p.citations THEN "rag_citations"
  ELSE IF p.phase = "tool_call" /\ p.tool /\ p.args THEN "tool_call"
  ELSE IF p.phase = "tool_result" /\ p.tool THEN "tool_result"
  ELSE IF p.phase \in AgentPhases THEN "agent_step"
  ELSE IF p.error THEN "stream_error"
  ELSE IF p.done THEN "stream_done"
  ELSE IF p.text THEN "message_delta"
  ELSE IF p.id THEN "stream_meta"
  ELSE "none"

\* wrapLegacyPayload, as what the next reader finds at the top of the object.
Wrap(p) == IF TypeOf(p) = "none" THEN p ELSE [Empty EXCEPT !.id = p.id]

WithId(p) == [p EXCEPT !.id = TRUE]

-----------------------------------------------------------------------------
(* conversation-stream.service.ts.                                         *)

\* What startDetachedGeneration, cancelGeneration and finalizeGeneration emit.
Tool(phase, failed) ==
  [Empty EXCEPT !.phase = phase, !.tool = TRUE, !.args = (phase = "tool_call"),
                !.error = failed]
LivePayloads ==
  {Empty, [Empty EXCEPT !.phase = "rag_citations", !.citations = TRUE],
   Tool("tool_call", FALSE), Tool("tool_result", FALSE), Tool("tool_result", TRUE),
   [Empty EXCEPT !.text = TRUE], [Empty EXCEPT !.text = TRUE, !.done = TRUE],
   [Empty EXCEPT !.done = TRUE], [Empty EXCEPT !.error = TRUE, !.done = TRUE]}
  \cup {[Empty EXCEPT !.phase = phase] : phase \in AgentPhases}

\* toSsePayload
SnapshotPayload ==
  [Empty EXCEPT !.text = TRUE, !.error = stored.error, !.done = stored.final,
                !.id = TRUE]

\* emitDoneIfNeeded: sends what it is given, wrapped, and may end the response.
Delivered(o, p) ==
  [observer[o] EXCEPT
     !.frame = TypeOf(WithId(p)),
     !.st = IF p.done \/ p.error THEN "ended" ELSE "watching"]

Init ==
  /\ stored = [here |-> TRUE, final |-> FALSE, error |-> FALSE, seq |-> 0]
  /\ observer = [o \in Observers |-> [st |-> "idle", frame |-> "none", next |-> 0]]
  /\ live = Empty

\* The subscription to the Subject comes before the first read of the session.
Subscribe(o) ==
  /\ observer[o].st = "idle"
  /\ observer' = [observer EXCEPT ![o].st = "watching"]
  /\ live' = Empty
  /\ UNCHANGED stored

\* Mutant: the payload goes to the observers as it is.
EmitLiveUnwrapped(p) ==
  /\ observer' = [o \in Observers |->
       IF observer[o].st = "watching" THEN Delivered(o, WithId(p))
                                      ELSE observer[o]]
  /\ live' = p
  /\ UNCHANGED stored

\* emitLive
EmitLive(p) ==
  /\ observer' = [o \in Observers |->
       IF observer[o].st = "watching" THEN Delivered(o, Wrap(WithId(p)))
                                      ELSE observer[o]]
  /\ live' = p
  /\ UNCHANGED stored

\* Mutant: a session that is gone is taken for one that has ended.
EmitSnapshotOrDone(o) ==
  /\ observer[o].st = "watching"
  /\ stored.here => observer[o].next # stored.seq + 1
  /\ observer' = [observer EXCEPT ![o] =
       IF stored.here
       THEN [Delivered(o, SnapshotPayload) EXCEPT !.next = stored.seq + 1]
       ELSE Delivered(o, [Empty EXCEPT !.done = TRUE])]
  /\ live' = Empty
  /\ UNCHANGED stored

\* emitSnapshotIfNew, at the first read and at every poll.
EmitSnapshotIfNew(o) ==
  /\ observer[o].st = "watching"
  /\ stored.here
  /\ observer[o].next # stored.seq + 1
  /\ observer' = [observer EXCEPT
       ![o] = [Delivered(o, SnapshotPayload) EXCEPT !.next = stored.seq + 1]]
  /\ live' = Empty
  /\ UNCHANGED stored

\* validateSession throws, at the first read or at a poll: the session is gone,
\* or the GET has failed, which it may at any time.  subscriber.error breaks the
\* response off, whatever the session says; no frame is sent.
ReadFails(o) ==
  /\ observer[o].st = "watching"
  /\ observer' = [observer EXCEPT ![o].st = "failed"]
  /\ live' = Empty
  /\ UNCHANGED stored

\* The client goes away: teardown.
Leave(o) ==
  /\ observer[o].st = "watching"
  /\ observer' = [observer EXCEPT ![o].st = "left"]
  /\ live' = Empty
  /\ UNCHANGED stored

\* saveSession, by any of the writers.
Save ==
  /\ \E final, error \in BOOLEAN, seq \in {stored.seq, stored.seq + 1} :
       /\ seq <= MaxSeq
       /\ stored' = [here |-> TRUE, final |-> final, error |-> error, seq |-> seq]
  /\ live' = Empty
  /\ UNCHANGED observer

\* The TTL of the session ends.  Its fields are kept for the writes under way.
Expire ==
  /\ stored.here
  /\ stored' = [stored EXCEPT !.here = FALSE]
  /\ live' = Empty
  /\ UNCHANGED observer

Next ==
  \/ \E o \in Observers :
       Subscribe(o) \/ EmitSnapshotIfNew(o) \/ ReadFails(o) \/ Leave(o)
  \/ \E p \in LivePayloads : EmitLive(p)
  \/ Save
  \/ Expire

Spec == Init /\ [][Next]_vars

-----------------------------------------------------------------------------
(* Properties.                                                             *)

Observer == [st : {"idle", "watching", "ended", "failed", "left"},
             frame : Frames, next : 0 .. MaxSeq + 1]

TypeOK ==
  /\ stored \in [here : BOOLEAN, final : BOOLEAN, error : BOOLEAN, seq : 0 .. MaxSeq]
  /\ observer \in [Observers -> Observer]
  /\ live \in Payload

\* A response is completed by the frame that tells its client of the end, and by
\* no other: a failed tool, whose tool_result carries an error field like that of
\* a failed stream, ends nothing.  A response that goes on, was left or has broken
\* off with an error because its session could not be read has sent no such frame.
CompletesWithEndFrame ==
  \A o \in Observers :
    observer[o].st = "ended" <=> observer[o].frame \in EndFrames

\* A client is told of the end only while the session it would find on coming
\* back is there and final, or says what failed: never because it is gone.
EndIsStored ==
  [][\A o \in Observers :
       observer[o].st # "ended" /\ observer'[o].st = "ended"
         => stored.here /\ (stored.final \/ stored.error)]_vars

\* conversation-stream.service.ts:166: "the live token stream: the Subject pushes
\* the deltas directly".  The envelope emitLive makes is wrapped once more by
\* emitDoneIfNeeded, which finds no field it knows: an empty stream_meta.
LiveDeltaDelivered ==
  \A o \in Observers :
    live = [Empty EXCEPT !.text = TRUE] /\ observer[o].st = "watching"
      => observer[o].frame = "message_delta"

=============================================================================
