------------------------- MODULE StreamEnvelopeProofs -------------------------
(***************************************************************************)
(* For any number of observers: no live event reads as an end, and only    *)
(* the snapshot of a session that is final or failed completes a response. *)
(***************************************************************************)
EXTENDS StreamEnvelope, TLAPS

\* Of an event that emitLive has wrapped the observer's own wrapping makes an
\* empty stream_meta, and nothing in it tells the observer to end: whatever the
\* payload was.
THEOREM LiveEventsAreMeta ==
  \A p \in Payload : LET event == Wrap(WithId(p)) IN
    /\ TypeOf(WithId(event)) = "stream_meta"
    /\ ~event.done /\ ~event.error
PROOF
  <1> SUFFICES ASSUME NEW p \in Payload
               PROVE  /\ TypeOf(WithId(Wrap(WithId(p)))) = "stream_meta"
                      /\ ~Wrap(WithId(p)).done /\ ~Wrap(WithId(p)).error
    OBVIOUS
  <1>1. WithId(p).id
    BY DEF WithId, Payload
  <1>2. TypeOf(WithId(p)) # "none"
    BY <1>1 DEF TypeOf
  <1>3. Wrap(WithId(p)) = [Empty EXCEPT !.id = WithId(p).id]
    BY <1>2 DEF Wrap
  <1>4. Wrap(WithId(p)) = [Empty EXCEPT !.id = TRUE]
    BY <1>3 DEF WithId, Payload
  <1>5. WithId([Empty EXCEPT !.id = TRUE]) = [Empty EXCEPT !.id = TRUE]
    BY DEF WithId, Empty
  <1>6. TypeOf([Empty EXCEPT !.id = TRUE]) = "stream_meta"
    BY DEF TypeOf, Empty, AgentPhases
  <1>7. ~[Empty EXCEPT !.id = TRUE].done /\ ~[Empty EXCEPT !.id = TRUE].error
    BY DEF Empty
  <1> QED
    BY <1>4, <1>5, <1>6, <1>7

\* What is emitted is a payload, and so is the snapshot.
LEMMA PayloadsTyped == Empty \in Payload /\ LivePayloads \subseteq Payload
PROOF
  <1>1. Empty \in Payload
    BY DEF Empty, Payload, Phases
  <1>2. \A phase \in Phases, failed \in BOOLEAN :
          Tool(phase, failed) \in Payload /\ [Empty EXCEPT !.phase = phase] \in Payload
    BY DEF Empty, Tool, Payload
  <1>3. /\ [Empty EXCEPT !.phase = "rag_citations", !.citations = TRUE] \in Payload
        /\ [Empty EXCEPT !.text = TRUE] \in Payload
        /\ [Empty EXCEPT !.text = TRUE, !.done = TRUE] \in Payload
        /\ [Empty EXCEPT !.done = TRUE] \in Payload
        /\ [Empty EXCEPT !.error = TRUE, !.done = TRUE] \in Payload
    BY DEF Empty, Payload, Phases
  <1>4. AgentPhases \subseteq Phases /\ {"tool_call", "tool_result"} \subseteq Phases
    BY DEF Phases
  <1> QED
    BY <1>1, <1>2, <1>3, <1>4 DEF LivePayloads

\* The state an observer is left in by a delivery.
LEMMA Delivery ==
  ASSUME NEW o \in Observers, observer[o].st = "watching",
         observer[o] \in Observer
  PROVE  /\ \A p \in Payload :
              LET d == Delivered(o, Wrap(WithId(p))) IN
              d.frame = "stream_meta" /\ d.st = "watching" /\ d.next = observer[o].next
         /\ LET d == Delivered(o, SnapshotPayload) IN
            /\ d.frame = IF stored.error THEN "stream_error"
                         ELSE IF stored.final THEN "stream_done"
                         ELSE "message_delta"
            /\ d.st = IF stored.final \/ stored.error THEN "ended" ELSE "watching"
PROOF
  <1>1. ASSUME NEW p \in Payload
        PROVE  LET d == Delivered(o, Wrap(WithId(p))) IN
               d.frame = "stream_meta" /\ d.st = "watching"
                 /\ d.next = observer[o].next
    BY LiveEventsAreMeta DEF Delivered, Observer
  <1> DEFINE p == SnapshotPayload
  <1>2. /\ p.phase = "none" /\ p.text /\ p.error = stored.error
        /\ p.done = stored.final
    BY DEF SnapshotPayload, Empty
  <1>3. WithId(p) = p
    BY DEF WithId, SnapshotPayload, Empty
  <1> HIDE DEF p
  <1>4. TypeOf(p) = IF stored.error THEN "stream_error"
                    ELSE IF stored.final THEN "stream_done"
                    ELSE "message_delta"
    BY <1>2 DEF TypeOf, AgentPhases
  <1>5. LET d == Delivered(o, p) IN
        /\ d.frame = TypeOf(p)
        /\ d.st = IF stored.final \/ stored.error THEN "ended" ELSE "watching"
    BY <1>2, <1>3 DEF Delivered, Observer
  <1> QED
    BY <1>1, <1>4, <1>5 DEF p

\* Every variable stays in its type.
THEOREM TypeCorrect == Spec => []TypeOK
PROOF
  <1>0. \A p : TypeOf(p) \in Frames
    BY DEF TypeOf, Frames, EndFrames
  <1>1. Init => TypeOK
    BY PayloadsTyped, MaxSeqAssumption DEF Init, TypeOK, Observer, Frames
  <1>2. TypeOK /\ [Next]_vars => TypeOK'
    <2> SUFFICES ASSUME TypeOK, [Next]_vars
                 PROVE  TypeOK'
      OBVIOUS
    <2>1. \A o \in Observers : observer[o] \in Observer
      BY DEF TypeOK
    <2>2. ASSUME NEW o \in Observers, NEW p
          PROVE  Delivered(o, p) \in Observer
      BY <1>0, <2>1 DEF Delivered, Observer
    <2>3. CASE UNCHANGED vars
      BY <2>3 DEF TypeOK, vars
    <2>4. ASSUME NEW o \in Observers, Subscribe(o) \/ ReadFails(o) \/ Leave(o)
          PROVE  TypeOK'
      BY <2>4, PayloadsTyped DEF Subscribe, ReadFails, Leave, TypeOK, Observer
    <2>5. ASSUME NEW o \in Observers, EmitSnapshotIfNew(o)
          PROVE  TypeOK'
      <3>1. stored.seq + 1 \in 0 .. MaxSeq + 1
        BY MaxSeqAssumption DEF TypeOK
      <3>2. [Delivered(o, SnapshotPayload) EXCEPT !.next = stored.seq + 1] \in Observer
        BY <2>2, <3>1 DEF Observer
      <3> QED
        BY <2>5, <3>2, PayloadsTyped DEF EmitSnapshotIfNew, TypeOK
    <2>6. ASSUME NEW p \in LivePayloads, EmitLive(p)
          PROVE  TypeOK'
      <3>1. \A o \in Observers : Delivered(o, Wrap(WithId(p))) \in Observer
        BY <2>2
      <3> QED
        BY <2>1, <2>6, <3>1, PayloadsTyped DEF EmitLive, TypeOK
    <2>7. CASE Save
      BY <2>7, PayloadsTyped, MaxSeqAssumption DEF Save, TypeOK
    <2>8. CASE Expire
      BY <2>8, PayloadsTyped DEF Expire, TypeOK
    <2> QED
      BY <2>3, <2>4, <2>5, <2>6, <2>7, <2>8 DEF Next
  <1> QED
    BY <1>1, <1>2, PTL DEF Spec

\* A step leaves alone what an observer has been sent, or sends it a frame that
\* ends nothing, or ends the response on the word of the session.
LEMMA StepOfObserver ==
  ASSUME TypeOK, [Next]_vars, NEW o \in Observers
  PROVE  \/ observer'[o].st = observer[o].st /\ observer'[o].frame = observer[o].frame
         \/ /\ observer[o].st # "ended" /\ observer'[o].st # "ended"
            /\ observer'[o].frame = observer[o].frame
         \/ observer'[o].st = "watching" /\ observer'[o].frame \notin EndFrames
         \/ /\ observer'[o].st = "ended" /\ observer'[o].frame \in EndFrames
            /\ stored.here /\ (stored.final \/ stored.error)
PROOF
  <1>1. /\ observer[o] \in Observer
        /\ stored.final \in BOOLEAN /\ stored.error \in BOOLEAN
    BY DEF TypeOK
  <1>2. CASE UNCHANGED vars \/ Save \/ Expire
    BY <1>2 DEF vars, Save, Expire
  <1>3. ASSUME NEW b \in Observers, Subscribe(b) \/ ReadFails(b) \/ Leave(b)
        PROVE  \/ observer'[o].st = observer[o].st
                     /\ observer'[o].frame = observer[o].frame
               \/ /\ observer[o].st # "ended" /\ observer'[o].st # "ended"
                  /\ observer'[o].frame = observer[o].frame
    BY <1>1, <1>3 DEF Subscribe, ReadFails, Leave, TypeOK, Observer
  <1>4. ASSUME NEW p \in LivePayloads, EmitLive(p)
        PROVE  \/ observer'[o].st = observer[o].st
                     /\ observer'[o].frame = observer[o].frame
               \/ observer'[o].st = "watching" /\ observer'[o].frame \notin EndFrames
    <2>1. CASE observer[o].st = "watching"
      <3>1. p \in Payload
        BY PayloadsTyped
      <3>2. observer'[o] = Delivered(o, Wrap(WithId(p)))
        BY <1>4, <2>1 DEF EmitLive
      <3>3. observer'[o].frame = "stream_meta" /\ observer'[o].st = "watching"
        BY <1>1, <2>1, <3>1, <3>2, Delivery
      <3> QED
        BY <3>3 DEF EndFrames
    <2>2. CASE observer[o].st # "watching"
      BY <1>4, <2>2 DEF EmitLive
    <2> QED
      BY <2>1, <2>2
  <1>5. ASSUME NEW b \in Observers, EmitSnapshotIfNew(b), b = o
        PROVE  \/ observer'[o].st = "watching" /\ observer'[o].frame \notin EndFrames
               \/ /\ observer'[o].st = "ended" /\ observer'[o].frame \in EndFrames
                  /\ stored.here /\ (stored.final \/ stored.error)
    <2> DEFINE d == Delivered(o, SnapshotPayload)
    <2>1. observer[o].st = "watching" /\ stored.here
      BY <1>5 DEF EmitSnapshotIfNew
    <2>2. /\ d.frame = IF stored.error THEN "stream_error"
                       ELSE IF stored.final THEN "stream_done"
                       ELSE "message_delta"
          /\ d.st = IF stored.final \/ stored.error THEN "ended" ELSE "watching"
      BY <1>1, <2>1, Delivery
    <2>3. observer'[o] = [d EXCEPT !.next = stored.seq + 1]
      BY <1>5 DEF EmitSnapshotIfNew, TypeOK
    <2>4. d = [observer[o] EXCEPT !.frame = d.frame, !.st = d.st]
      BY <1>1 DEF Delivered, Observer
    <2> HIDE DEF d
    <2>5. observer'[o].st = d.st /\ observer'[o].frame = d.frame
      BY <1>1, <2>3, <2>4 DEF Observer
    <2> QED
      BY <1>1, <2>1, <2>2, <2>5 DEF EndFrames
  <1>6. ASSUME NEW b \in Observers, EmitSnapshotIfNew(b), b # o
        PROVE  observer'[o] = observer[o]
    BY <1>6 DEF EmitSnapshotIfNew, TypeOK
  <1> QED
    BY <1>2, <1>3, <1>4, <1>5, <1>6 DEF Next

\* What has completed a response is an end frame, and none was sent on one that
\* goes on, was left or has broken off, whatever is emitted live and saved
\* meanwhile and whichever reads fail.
THEOREM EndFrameCompletes == Spec => []CompletesWithEndFrame
PROOF
  <1>1. Init => CompletesWithEndFrame
    <2> SUFFICES ASSUME Init, NEW o \in Observers
                 PROVE  observer[o].st # "ended" /\ observer[o].frame \notin EndFrames
      BY DEF CompletesWithEndFrame
    <2> QED
      BY DEF Init, EndFrames
  <1>2. TypeOK /\ CompletesWithEndFrame /\ [Next]_vars => CompletesWithEndFrame'
    <2> SUFFICES ASSUME TypeOK, CompletesWithEndFrame, [Next]_vars, NEW o \in Observers
                 PROVE  observer'[o].st = "ended" <=> observer'[o].frame \in EndFrames
      BY DEF CompletesWithEndFrame
    <2>1. observer[o].st = "ended" <=> observer[o].frame \in EndFrames
      BY DEF CompletesWithEndFrame
    <2> QED
      BY <2>1, StepOfObserver
  <1> QED
    BY <1>1, <1>2, TypeCorrect, PTL DEF Spec

\* A client is told of the end on the word of a session that is there, never of
\* an event or of a session that is gone.
THEOREM EndAlwaysStored == Spec => EndIsStored
PROOF
  <1>1. ASSUME TypeOK, [Next]_vars
        PROVE  [\A o \in Observers :
                  observer[o].st # "ended" /\ observer'[o].st = "ended"
                    => stored.here /\ (stored.final \/ stored.error)]_vars
    BY <1>1, StepOfObserver
  <1> QED
    BY <1>1, TypeCorrect, PTL DEF Spec, EndIsStored
=============================================================================
