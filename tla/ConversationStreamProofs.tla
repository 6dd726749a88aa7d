----------------------- MODULE ConversationStreamProofs -----------------------
(***************************************************************************)
(* Proofs about ConversationStream, for every set of streams, requests and *)
(* observers and for every bound:                                          *)
(*   TypeInv, PointerResolves and CompletedInv;                            *)
(*   the implementation of ReplyPromise; ReplyFaithful;                    *)
(*   and, from who has which call under way (OwnersInv) and in which order *)
(*   the calls are served (WireInv), SeqNeverGoesBack, TextGrows,          *)
(*   SnapshotIsReply and OutputKept.                                       *)
(***************************************************************************)
EXTENDS ConversationStream, SequenceTheorems, TLAPS

-----------------------------------------------------------------------------
(* What the steps of the session service preserve, whoever takes them.     *)

\* The calls are calls, and well formed as they start.
LEMMA CallsTyped ==
  /\ Idle \in Call /\ WellFormed(Idle)
  /\ \A s \in Streams :
       /\ CreateCall(s) \in Call /\ WellFormed(CreateCall(s))
       /\ GetCall(s) \in Call /\ WellFormed(GetCall(s))
  /\ \A s \in Streams, text \in Text :
       ProgressCall(s, text) \in Call /\ WellFormed(ProgressCall(s, text))
  /\ \A s \in Streams, status \in Statuses, error \in BOOLEAN :
       /\ MarkCall(s, status, error) \in Call
       /\ WellFormed(MarkCall(s, status, error))
PROOF
  <1>1. Idle \in Call
    BY DEF Idle, Call, Ops, Text, Marks, EmptyText, Statuses, Stages
  <1>2. /\ EmptyText \in Text /\ "generating" \in Statuses
        /\ Null \in Session \cup {Null}
    BY DEF EmptyText, Text, Marks, Statuses
  <1>3. WellFormed(Idle)
    BY DEF WellFormed, Idle
  <1>4. ASSUME NEW s \in Streams
        PROVE  /\ CreateCall(s) \in Call /\ WellFormed(CreateCall(s))
               /\ GetCall(s) \in Call /\ WellFormed(GetCall(s))
    BY <1>2 DEF CreateCall, GetCall, Call, Ops, Stages, WellFormed, Idle
  <1>5. ASSUME NEW s \in Streams, NEW text \in Text
        PROVE  ProgressCall(s, text) \in Call /\ WellFormed(ProgressCall(s, text))
    BY <1>2 DEF ProgressCall, Call, Ops, Stages, WellFormed, Idle
  <1>6. ASSUME NEW s \in Streams, NEW status \in Statuses, NEW error \in BOOLEAN
        PROVE  /\ MarkCall(s, status, error) \in Call
               /\ WellFormed(MarkCall(s, status, error))
    BY <1>2 DEF MarkCall, Call, Ops, Stages, WellFormed, Idle
  <1> QED
    BY <1>1, <1>3, <1>4, <1>5, <1>6

\* Starting, continuing with and returning from a call keep the table typed.
LEMMA InvokeTyped ==
  ASSUME call \in [Callers -> Call], wire \in Seq(Callers), CallsWellFormed,
         NEW t \in Callers, NEW c \in Call, WellFormed(c), Invoke(t, c)
  PROVE  /\ call' \in [Callers -> Call]
         /\ wire' \in Seq(Callers)
         /\ CallsWellFormed'
PROOF
  BY DEF Invoke, CallsWellFormed, WellFormed

\* Taking the result of a call keeps the calls typed.
LEMMA ReturnTyped ==
  ASSUME call \in [Callers -> Call], wire \in Seq(Callers), CallsWellFormed,
         NEW t \in Callers, Return(t)
  PROVE  /\ call' \in [Callers -> Call]
         /\ wire' \in Seq(Callers)
         /\ CallsWellFormed'
PROOF
  BY CallsTyped DEF Return, CallsWellFormed, WellFormed

\* What a call saves is a record.
LEMMA WrittenTyped ==
  ASSUME NEW c \in Call, c.op # "create" => c.snap # Null
  PROVE  Written(c) \in Session
PROOF
  <1>1. CASE c.op = "create"
    BY <1>1 DEF Written, NewSession, Session, Statuses, Text, EmptyText, Marks
  <1>2. CASE c.op # "create"
    <2>1. /\ c.snap \in Session
          /\ c.text \in Text /\ c.status \in Statuses /\ c.error \in BOOLEAN
      BY <1>2 DEF Call
    <2>2. c.snap.seq + 1 \in Nat
      BY <2>1 DEF Session
    <2>3. CASE c.op = "progress"
      <3>1. Written(c) = [c.snap EXCEPT !.text = c.text, !.seq = @ + 1]
        BY <1>2, <2>3 DEF Written
      <3> QED
        BY <3>1, <2>1, <2>2, Zenon DEF Session
    <2>4. CASE c.op # "progress"
      <3>1. Written(c) = [c.snap EXCEPT !.status = c.status,
                                        !.error = c.error, !.seq = @ + 1]
        BY <1>2, <2>4 DEF Written
      <3> QED
        BY <3>1, <2>1, <2>2, Zenon DEF Session
    <2> QED
      BY <2>3, <2>4
  <1> QED
    BY <1>1, <1>2

\* The steps of Redis keep the stores, the calls and the queue typed.
LEMMA ServeTyped ==
  ASSUME SessionTypeOK, CallsWellFormed, Serve
  PROVE  SessionTypeOK' /\ CallsWellFormed'
PROOF
  <1> DEFINE t == Head(wire)
             c == call[t]
  <1>1. /\ wire # <<>> /\ wire \in Seq(Callers)
        /\ t \in Callers /\ Tail(wire) \in Seq(Callers)
        /\ c \in Call /\ WellFormed(c)
    BY DEF Serve, SessionTypeOK, CallsWellFormed
  <1>2. ServeLookup(t) \/ ServeRead(t) \/ ServeSave(t) \/ ServeDel(t) \/ ServeFault(t)
    BY DEF Serve
  <1> HIDE DEF t
  <1>3. ASSUME NEW snap \in Session \cup {Null}, NEW ok \in BOOLEAN,
               Answer(t, snap, ok)
        PROVE  /\ call' \in [Callers -> Call] /\ wire' \in Seq(Callers)
               /\ CallsWellFormed'
    <2>1. [c EXCEPT !.stage = "back", !.snap = snap, !.ok = ok] \in Call
      BY <1>1, <1>3 DEF Call, Stages
    <2>2. call' = [call EXCEPT ![t] =
                     [c EXCEPT !.stage = "back", !.snap = snap, !.ok = ok]]
      BY <1>3 DEF Answer
    <2>3. WellFormed(call'[t])
      BY <2>1, <2>2, <1>1 DEF WellFormed, SessionTypeOK, Call
    <2> QED
      BY <1>1, <1>3, <2>1, <2>2, <2>3
      DEF Answer, CallsWellFormed, SessionTypeOK
  <1>4. ASSUME NEW snap \in Session \cup {Null}, NEW stage \in {"save", "del"},
               Continue(t, stage, snap), c.stream \in Streams,
               stage = "save" => snap # Null
        PROVE  /\ call' \in [Callers -> Call] /\ wire' \in Seq(Callers)
               /\ CallsWellFormed'
    <2>1. [c EXCEPT !.stage = stage, !.snap = snap] \in Call
      BY <1>1, <1>4 DEF Call, Stages
    <2>2. call' = [call EXCEPT ![t] = [c EXCEPT !.stage = stage, !.snap = snap]]
      BY <1>4 DEF Continue
    <2>3. WellFormed(call'[t])
      BY <2>1, <2>2, <1>1, <1>4 DEF WellFormed, SessionTypeOK, Call
    <2> QED
      BY <1>1, <1>4, <2>1, <2>2, <2>3
      DEF Continue, CallsWellFormed, SessionTypeOK
  <1>5. CASE ServeLookup(t)
    <2>1. session[c.stream] \in Session \cup {Null}
      BY <1>1, <1>5 DEF ServeLookup, WellFormed, SessionTypeOK
    <2> QED
      BY <2>1, <1>3, <1>5 DEF ServeLookup, SessionTypeOK
  <1>6. CASE ServeRead(t)
    <2>1. c.stream \in Streams /\ session[c.stream] \in Session \cup {Null}
      BY <1>1, <1>6 DEF ServeRead, WellFormed, SessionTypeOK
    <2> QED
      BY <2>1, <1>4, <1>6 DEF ServeRead, SessionTypeOK
  <1>7. ASSUME c.stage = "save", Save(c.stream, Written(c))
        PROVE  /\ session' \in [Streams -> Session \cup {Null}]
               /\ active' \in [Keys -> Streams \cup {Null}]
    <2>1. c.stream \in Streams /\ Written(c) \in Session
      BY <1>1, <1>7, WrittenTyped DEF WellFormed
    <2> QED
      BY <2>1, <1>7 DEF Save, SessionTypeOK
  <1>8. CASE ServeSave(t)
    <2>1. c.stream \in Streams
      BY <1>1, <1>8 DEF ServeSave, WellFormed
    <2>2. /\ call' \in [Callers -> Call] /\ wire' \in Seq(Callers)
          /\ CallsWellFormed'
      BY <2>1, <1>3, <1>4, <1>8 DEF ServeSave
    <2> QED
      BY <2>2, <1>7, <1>8 DEF ServeSave, SessionTypeOK
  <1>9. CASE ServeDel(t)
    <2>1. /\ call' \in [Callers -> Call] /\ wire' \in Seq(Callers)
          /\ CallsWellFormed'
      BY <1>3, <1>9 DEF ServeDel
    <2> QED
      BY <2>1, <1>9 DEF ServeDel, SessionTypeOK
  <1>10. CASE ServeFault(t)
    <2>1. /\ call' \in [Callers -> Call] /\ wire' \in Seq(Callers)
          /\ CallsWellFormed'
      BY <1>3, <1>10 DEF ServeFault
    <2>2. /\ session' \in [Streams -> Session \cup {Null}]
          /\ active' \in [Keys -> Streams \cup {Null}]
      BY <1>7, <1>10 DEF ServeFault, SessionTypeOK
    <2>3. faults' \in 0 .. MaxFaults
      BY <1>10, MaxFaultsAssumption DEF ServeFault, SessionTypeOK
    <2> QED
      BY <2>1, <2>2, <2>3, <1>10 DEF ServeFault, SessionTypeOK
  <1> QED
    BY <1>2, <1>5, <1>6, <1>8, <1>9, <1>10

\* The end of a TTL keeps the stores typed.
LEMMA ExpireTyped ==
  ASSUME SessionTypeOK, CallsWellFormed, NEW s \in Streams, Expire(s)
  PROVE  SessionTypeOK' /\ CallsWellFormed'
PROOF
  BY DEF Expire, SessionTypeOK, CallsWellFormed, WellFormed

\* The service starts typed.
LEMMA SessionInitTyped ==
  ASSUME SessionInit
  PROVE  SessionTypeOK /\ CallsWellFormed
PROOF
  BY CallsTyped, MaxFaultsAssumption
  DEF SessionInit, SessionTypeOK, CallsWellFormed

\* Pointers keep resolving: a record and its pointer are saved together, and
\* the pointer goes with the record.
LEMMA ServePointer ==
  ASSUME SessionTypeOK, CallsWellFormed, PointerResolves, Serve
  PROVE  PointerResolves'
PROOF
  <1> DEFINE t == Head(wire)
  <1>1. t \in Callers /\ call[t] \in Call /\ WellFormed(call[t])
    BY DEF Serve, SessionTypeOK, CallsWellFormed
  <1>2. ServeLookup(t) \/ ServeRead(t) \/ ServeSave(t) \/ ServeDel(t) \/ ServeFault(t)
    BY DEF Serve
  <1> HIDE DEF t
  <1>3. CASE UNCHANGED <<session, active>>
    BY <1>3 DEF PointerResolves
  <1>4. ASSUME call[t].stage = "save", Save(call[t].stream, Written(call[t]))
        PROVE  PointerResolves'
    <2>1. /\ call[t].stream \in Streams
          /\ Written(call[t]) \in Session /\ Written(call[t]) # Null
      BY <1>1, <1>4, WrittenTyped, NullAssumption DEF WellFormed
    <2> QED
      BY <2>1, <1>4, KeyOfAssumption DEF Save, PointerResolves, SessionTypeOK
  <1>5. CASE ServeDel(t)
    BY <1>5 DEF ServeDel, PointerResolves, SessionTypeOK
  <1> QED
    BY <1>2, <1>3, <1>4, <1>5
    DEF ServeLookup, ServeRead, ServeSave, ServeFault

\* The end of a TTL removes the pointer with the record.
LEMMA ExpirePointer ==
  ASSUME SessionTypeOK, PointerResolves, NEW s \in Streams, Expire(s)
  PROVE  PointerResolves'
PROOF
  BY DEF Expire, PointerResolves, SessionTypeOK

-----------------------------------------------------------------------------
(* Lemmas about the helpers.                                               *)

\* Whoever makes a call has an identity of its own.
LEMMA TaskIds ==
  /\ \A s \in Streams :
       /\ CreateOf(s) \in Callers
       /\ FailOf(s) \in Callers
       /\ FinalOf(s) \in Callers
       /\ \A n \in 1 .. MaxWrites : WriteOf(s, n) \in Callers
  /\ \A c \in Cancels : CancelOf(c) \in Callers
  /\ \A o \in Observers : PollOf(o) \in Callers
PROOF
  <1>1. ASSUME NEW s \in Streams
        PROVE  CreateOf(s) \in Tasks /\ FailOf(s) \in Tasks /\ FinalOf(s) \in Tasks
    BY <1>1 DEF Tasks
  <1>2. ASSUME NEW s \in Streams, NEW n \in 1 .. MaxWrites
        PROVE  WriteOf(s, n) \in Tasks
    BY <1>2 DEF Tasks
  <1>3. ASSUME NEW c \in Cancels PROVE CancelOf(c) \in Tasks
    BY <1>3 DEF Tasks
  <1>4. ASSUME NEW o \in Observers PROVE PollOf(o) \in Tasks
    BY <1>4 DEF Tasks
  <1> QED
    BY <1>1, <1>2, <1>3, <1>4, CallersAssumption

\* The text of a progress write or of a message is a text.
LEMMA TxtTyped ==
  ASSUME NEW n \in Nat, NEW mark \in Marks
  PROVE  Txt(n, mark) \in Text
PROOF
  BY DEF Txt, Text

\* A patch is put at the end of the queue, which grows by one.
LEMMA QueueTyped ==
  ASSUME StreamTypeOK, NEW s \in Streams, NEW n \in Nat,
         QueueProgressUpdate(s, n)
  PROVE  /\ writes' \in [Streams -> Seq(Write)]
         /\ tail' \in [Streams -> Nat]
         /\ Len(writes'[s]) = Len(writes[s]) + 1
         /\ \A x \in Streams : x # s => writes'[x] = writes[x]
PROOF
  <1> DEFINE w == [len |-> n, after |-> tail[s], left |-> 2, st |-> "queued"]
  <1>1. w \in Write /\ writes[s] \in Seq(Write)
    BY DEF StreamTypeOK, Write
  <1>2. /\ Append(writes[s], w) \in Seq(Write)
        /\ Len(Append(writes[s], w)) = Len(writes[s]) + 1
        /\ Len(writes[s]) + 1 \in Nat
    BY <1>1
  <1>3. /\ writes' = [writes EXCEPT ![s] = Append(writes[s], w)]
        /\ tail' = [tail EXCEPT ![s] = Len(writes[s]) + 1]
    BY DEF QueueProgressUpdate
  <1> QED
    BY <1>2, <1>3 DEF StreamTypeOK

\* The first turn of the finalizer.
LEMMA FinalizerStartsTyped ==
  ASSUME StreamTypeOK, NEW s \in Streams, NEW n \in Nat \cup {Null},
         NEW b \in BOOLEAN, FinalizerStarts(s, n, b)
  PROVE  /\ writes' \in [Streams -> Seq(Write)]
         /\ tail' \in [Streams -> Nat]
         /\ fin' \in [Streams -> Finalizer]
         /\ cancelled' \subseteq Streams
         /\ timer' \subseteq Streams
         /\ Len(writes'[s]) <= Len(writes[s]) + 1
         /\ s \notin timer'
         /\ \A x \in Streams : x # s =>
              /\ writes'[x] = writes[x]
              /\ x \in timer' <=> x \in timer
PROOF
  <1>1. writes[s] \in Seq(Write) /\ Len(writes[s]) \in Nat
    BY DEF StreamTypeOK
  <1>2. fin' \in [Streams -> Finalizer]
    BY <1>1 DEF FinalizerStarts, StreamTypeOK, Finalizer, FinStates
  <1>3. cancelled' \subseteq Streams /\ timer' \subseteq Streams
    BY DEF FinalizerStarts, StreamTypeOK
  <1>4. /\ writes' \in [Streams -> Seq(Write)]
        /\ tail' \in [Streams -> Nat]
        /\ Len(writes'[s]) <= Len(writes[s]) + 1
        /\ \A x \in Streams : x # s => writes'[x] = writes[x]
    <2>1. CASE n = Null
      BY <2>1, <1>1 DEF FinalizerStarts, StreamTypeOK
    <2>2. CASE n # Null
      BY <2>2, <1>1, QueueTyped DEF FinalizerStarts
    <2> QED
      BY <2>1, <2>2
  <1>5. s \notin timer' /\ \A x \in Streams : x # s => (x \in timer' <=> x \in timer)
    BY DEF FinalizerStarts
  <1> QED
    BY <1>2, <1>3, <1>4, <1>5

\* Releasing a stream's memory.
LEMMA CompleteSubjectTyped ==
  ASSUME StreamTypeOK, NEW s \in Streams, CompleteSubject(s)
  PROVE  /\ timer' \subseteq timer
         /\ pending' \in [Streams -> Nat \cup {Null}]
         /\ writes' = writes
         /\ tail' \in [Streams -> Nat]
PROOF
  BY DEF CompleteSubject, StreamTypeOK

\* A turn that only starts a call, or only takes the result of one.
LEMMA InvokeStep ==
  ASSUME SessionTypeOK, CallsWellFormed, NEW t \in Callers, NEW c \in Call,
         WellFormed(c), Invoke(t, c), UNCHANGED stores
  PROVE  SessionTypeOK' /\ CallsWellFormed'
PROOF
  BY InvokeTyped DEF SessionTypeOK, stores

\* A call that is over is taken back: the session module stays typed.
LEMMA ReturnStep ==
  ASSUME SessionTypeOK, CallsWellFormed, NEW t \in Callers, Return(t),
         UNCHANGED stores
  PROVE  SessionTypeOK' /\ CallsWellFormed'
PROOF
  BY ReturnTyped DEF SessionTypeOK, stores

\* A turn that leaves the calls alone.
LEMMA NoCallStep ==
  ASSUME SessionTypeOK, CallsWellFormed, UNCHANGED stores, UNCHANGED <<call, wire>>
  PROVE  SessionTypeOK' /\ CallsWellFormed'
PROOF
  BY DEF SessionTypeOK, CallsWellFormed, stores

\* The budget holds as long as a stream does not begin again and its queue,
\* its timer and its text do not change, or the timer is cleared.
LEMMA BudgetKept ==
  ASSUME WriteBudget, StreamTypeOK, UNCHANGED <<len, writes>>, timer' \subseteq timer,
         \A s \in Streams : gen'[s] \in {"absent", "creating", "running"}
                              => gen[s] \in {"absent", "creating", "running"}
  PROVE  WriteBudget'
PROOF
  BY DEF WriteBudget, StreamTypeOK

\* A step that touches neither requests nor observers keeps them about streams.
LEMMA RequestsKept ==
  ASSUME Requests, UNCHANGED <<cancel, observer>>
  PROVE  Requests'
PROOF
  BY DEF Requests

\* The process ends and starts again.
LEMMA ProcessEndsTyped ==
  ASSUME TypeInv, ProcessEnds, crashes' \in 0 .. MaxCrashes
  PROVE  TypeInv'
PROOF
  <1>1. SessionTypeOK' /\ CallsWellFormed'
    BY CallsTyped
    DEF ProcessEnds, stores, TypeInv, TypeOK, SessionTypeOK, CallsWellFormed
  <1>2. StreamTypeOK'
    <2>1. /\ gen' \in [Streams -> GenStates] /\ len' \in [Streams -> 0 .. MaxDeltas]
          /\ cancelled' \subseteq Streams /\ timer' \subseteq Streams
          /\ pending' \in [Streams -> Nat \cup {Null}]
          /\ tail' \in [Streams -> Nat]
          /\ reply' \in [Streams -> Text \cup {Null}]
      BY DEF ProcessEnds, TypeInv, TypeOK, StreamTypeOK, GenStates
    <2>2. writes' \in [Streams -> Seq(Write)]
      BY DEF ProcessEnds
    <2>3. fin' \in [Streams -> Finalizer]
      <3>1. ASSUME NEW s \in Streams
            PROVE  [fin[s] EXCEPT !.pc = "lost"] \in Finalizer
        BY DEF TypeInv, TypeOK, StreamTypeOK, Finalizer, FinStates
      <3> QED
        BY <3>1 DEF ProcessEnds, TypeInv, TypeOK, StreamTypeOK
    <2>4. cancel' \in [Cancels -> CancelRequest]
      BY DEF ProcessEnds, TypeInv, TypeOK, StreamTypeOK, CancelRequest, CancelStates
    <2>5. observer' \in [Observers -> Observer]
      <3>1. ASSUME NEW o \in Observers
            PROVE  [observer[o] EXCEPT !.st = "failed"] \in Observer
        BY DEF TypeInv, TypeOK, StreamTypeOK, Observer
      <3> QED
        BY <3>1 DEF ProcessEnds, TypeInv, TypeOK, StreamTypeOK
    <2> QED
      BY <2>1, <2>2, <2>3, <2>4, <2>5 DEF StreamTypeOK
  <1>3. Requests'
    BY DEF ProcessEnds, TypeInv, TypeOK, StreamTypeOK, Requests, CancelRequest,
           CancelStates, Observer
  <1>4. WriteBudget'
    BY DEF ProcessEnds, TypeInv, TypeOK, StreamTypeOK, WriteBudget
  <1> QED
    BY <1>1, <1>2, <1>3, <1>4 DEF TypeInv, TypeOK

\* No queue of progress writes is longer than MaxWrites.
LEMMA WritesBounded ==
  ASSUME TypeInv, NEW s \in Streams
  PROVE  /\ Len(writes[s]) \in 0 .. MaxWrites
         /\ DOMAIN writes[s] \subseteq 1 .. MaxWrites
PROOF
  <1>1. /\ writes[s] \in Seq(Write) /\ len[s] \in 0 .. MaxDeltas
        /\ Len(writes[s]) \in Nat /\ DOMAIN writes[s] = 1 .. Len(writes[s])
    BY DEF TypeInv, TypeOK, StreamTypeOK
  <1>2. Len(writes[s]) <= len[s] + 1
    BY DEF TypeInv, WriteBudget
  <1>3. Len(writes[s]) \in 0 .. MaxWrites
    BY <1>1, <1>2, MaxDeltasAssumption DEF MaxWrites
  <1>4. \A n \in DOMAIN writes[s] : n \in 1 .. MaxWrites
    BY <1>1, <1>3, MaxDeltasAssumption DEF MaxWrites
  <1> QED
    BY <1>3, <1>4

-----------------------------------------------------------------------------
(* Every step keeps TypeInv: one lemma for each part of the service.       *)

\* Creating a session, starting, feeding and ending a generation.
LEMMA GenerationTyped ==
  ASSUME TypeInv, NEW s \in Streams,
         Create(s) \/ StartDetachedGeneration(s) \/ Generation(s)
  PROVE  TypeInv'
PROOF
  <1> USE DEF TypeInv, TypeOK
  <1>0. /\ len[s] \in 0 .. MaxDeltas /\ len[s] \in Nat /\ len[s] + 1 \in Nat
        /\ writes[s] \in Seq(Write) /\ Len(writes[s]) \in Nat
    BY MaxDeltasAssumption DEF StreamTypeOK
  <1>1. CASE Create(s)
    <2>1. SessionTypeOK' /\ CallsWellFormed'
      BY <1>1, InvokeStep, TaskIds, CallsTyped DEF Create
    <2>2. StreamTypeOK'
      BY <1>1 DEF Create, StreamTypeOK, GenStates, progressVars
    <2>3. Requests' /\ WriteBudget'
      BY <1>1, RequestsKept, BudgetKept DEF Create, StreamTypeOK, progressVars
    <2> QED
      BY <2>1, <2>2, <2>3
  <1>2. CASE StartDetachedGeneration(s)
    <2>1. SessionTypeOK' /\ CallsWellFormed'
      BY <1>2, ReturnStep, TaskIds DEF StartDetachedGeneration
    <2>2. StreamTypeOK'
      BY <1>2 DEF StartDetachedGeneration, StreamTypeOK, GenStates, progressVars
    <2>3. Requests' /\ WriteBudget'
      BY <1>2, RequestsKept, BudgetKept
      DEF StartDetachedGeneration, StreamTypeOK, progressVars
    <2> QED
      BY <2>1, <2>2, <2>3
  <1>3. CASE GenDelta(s)
    <2>1. SessionTypeOK' /\ CallsWellFormed'
      BY <1>3, NoCallStep DEF GenDelta
    <2>2. len[s] + 1 \in 0 .. MaxDeltas
      BY <1>0, <1>3, MaxDeltasAssumption DEF GenDelta
    <2>3. StreamTypeOK'
      BY <1>3, <1>0, <2>2 DEF GenDelta, StreamTypeOK
    <2>4. WriteBudget'
      BY <1>3, <1>0 DEF GenDelta, Subscribed, StreamTypeOK, WriteBudget
    <2>5. Requests'
      BY <1>3, RequestsKept DEF GenDelta
    <2> QED
      BY <2>1, <2>3, <2>4, <2>5
  <1>4. CASE GenDone(s)
    <2>1. SessionTypeOK' /\ CallsWellFormed'
      BY <1>4, NoCallStep DEF GenDone
    <2>2. /\ gen[s] = "running" /\ gen' = [gen EXCEPT ![s] = "done"]
          /\ pending' = [pending EXCEPT ![s] = len[s]]
          /\ FinalizerStarts(s, len[s], s \in cancelled)
          /\ UNCHANGED <<len, reply, cancel, observer, crashes>>
      BY <1>4 DEF GenDone, Subscribed
    <2>3. /\ writes' \in [Streams -> Seq(Write)]
          /\ tail' \in [Streams -> Nat]
          /\ fin' \in [Streams -> Finalizer]
          /\ cancelled' \subseteq Streams
          /\ timer' \subseteq Streams
          /\ Len(writes'[s]) <= Len(writes[s]) + 1
          /\ s \notin timer'
          /\ \A x \in Streams : x # s =>
               /\ writes'[x] = writes[x]
               /\ x \in timer' <=> x \in timer
      <3>1. /\ len[s] \in Nat \cup {Null} /\ (s \in cancelled) \in BOOLEAN
            /\ StreamTypeOK
        BY <1>0
      <3> HIDE DEF TypeInv, TypeOK
      <3> QED
        BY <3>1, <2>2, FinalizerStartsTyped, Zenon
    <2>4. StreamTypeOK'
      BY <1>0, <2>2, <2>3 DEF StreamTypeOK, GenStates
    <2>5. WriteBudget'
      <3>1. Len(writes'[s]) \in Nat /\ Len(writes[s]) <= len[s]
        BY <2>2, <2>3 DEF WriteBudget
      <3> QED
        BY <1>0, <2>2, <2>3, <3>1 DEF StreamTypeOK, WriteBudget
    <2>6. Requests'
      BY <2>2, RequestsKept
    <2> QED
      BY <2>1, <2>4, <2>5, <2>6
  <1>5. CASE GenError(s)
    <2>1. SessionTypeOK' /\ CallsWellFormed'
      <3>1. /\ FailOf(s) \in Callers /\ FinalOf(s) \in Callers
            /\ MarkCall(s, "failed", TRUE) \in Call
            /\ WellFormed(MarkCall(s, "failed", TRUE))
            /\ GetCall(s) \in Call /\ WellFormed(GetCall(s))
        BY TaskIds, CallsTyped DEF Statuses
      <3>2. /\ call' = [call EXCEPT ![FailOf(s)] = MarkCall(s, "failed", TRUE),
                                   ![FinalOf(s)] = GetCall(s)]
            /\ wire' = wire \o <<FailOf(s), FinalOf(s)>>
            /\ UNCHANGED <<session, active, expired, faults>>
        BY <1>5 DEF GenError, stores
      <3>3. wire' \in Seq(Callers)
        BY <3>1, <3>2 DEF SessionTypeOK
      <3>4. call' \in [Callers -> Call] /\ CallsWellFormed'
        BY <3>1, <3>2 DEF SessionTypeOK, CallsWellFormed, WellFormed
      <3> QED
        BY <3>2, <3>3, <3>4 DEF SessionTypeOK
    <2>2. /\ timer' \subseteq timer
          /\ pending' \in [Streams -> Nat \cup {Null}]
          /\ writes' = writes
          /\ tail' \in [Streams -> Nat]
      BY <1>5, CompleteSubjectTyped DEF GenError
    <2>3. fin' \in [Streams -> Finalizer]
      BY <1>5 DEF GenError, StreamTypeOK, Finalizer, FinStates
    <2>4. StreamTypeOK'
      BY <1>5, <2>2, <2>3 DEF GenError, StreamTypeOK, GenStates
    <2>5. WriteBudget'
      BY <1>5, <2>2, BudgetKept DEF GenError, StreamTypeOK
    <2>6. Requests'
      BY <1>5, RequestsKept DEF GenError
    <2> QED
      BY <2>1, <2>4, <2>5, <2>6
  <1> QED
    BY <1>1, <1>2, <1>3, <1>4, <1>5 DEF Generation

\* Changing the state of one queued write.
LEMMA WriteChanged ==
  ASSUME StreamTypeOK, NEW s \in Streams, NEW n \in DOMAIN writes[s],
         NEW w \in Write, writes' = [writes EXCEPT ![s] = [@ EXCEPT ![n] = w]]
  PROVE  /\ writes' \in [Streams -> Seq(Write)]
         /\ \A x \in Streams : Len(writes'[x]) = Len(writes[x])
PROOF
  <1>1. writes[s] \in Seq(Write) /\ writes \in [Streams -> Seq(Write)]
    BY DEF StreamTypeOK
  <1>2. /\ [writes[s] EXCEPT ![n] = w] \in Seq(Write)
        /\ Len([writes[s] EXCEPT ![n] = w]) = Len(writes[s])
    BY <1>1
  <1> QED
    BY <1>1, <1>2

\* Timers, progress writes and their retries, within the budget.
LEMMA WritesTyped ==
  ASSUME TypeInv, NEW s \in Streams,
         \/ TimerFires(s)
         \/ \E n \in DOMAIN writes[s] : WriteStarts(s, n) \/ WriteEnds(s, n)
  PROVE  TypeInv'
PROOF
  <1> USE DEF TypeInv, TypeOK
  <1>0. /\ writes \in [Streams -> Seq(Write)]
        /\ writes[s] \in Seq(Write) /\ Len(writes[s]) \in Nat
        /\ len[s] \in Nat
    BY MaxDeltasAssumption DEF StreamTypeOK
  <1>1. CASE TimerFires(s)
    <2>1. SessionTypeOK' /\ CallsWellFormed'
      BY <1>1, NoCallStep DEF TimerFires
    <2>2. /\ timer' = timer \ {s} /\ s \in timer
          /\ UNCHANGED <<gen, len, cancelled, pending, fin, reply, cancel,
                         observer, crashes>>
      BY <1>1 DEF TimerFires
    <2>3. /\ writes' \in [Streams -> Seq(Write)]
          /\ tail' \in [Streams -> Nat]
          /\ Len(writes'[s]) <= Len(writes[s]) + 1
          /\ \A x \in Streams : x # s => writes'[x] = writes[x]
      <3>1. CASE pending[s] = Null
        BY <1>0, <1>1, <3>1 DEF TimerFires, StreamTypeOK
      <3>2. CASE pending[s] # Null
        <4>1. QueueProgressUpdate(s, pending[s]) /\ pending[s] \in Nat
          BY <1>1, <3>2 DEF TimerFires, StreamTypeOK
        <4> QED
          BY <4>1, <1>0, QueueTyped
      <3> QED
        BY <3>1, <3>2
    <2>4. StreamTypeOK'
      BY <2>2, <2>3 DEF StreamTypeOK
    <2>5. WriteBudget'
      <3>1. Len(writes'[s]) \in Nat
        BY <2>3
      <3> QED
        BY <1>0, <2>2, <2>3, <3>1 DEF WriteBudget
    <2>6. Requests'
      BY <2>2, RequestsKept
    <2> QED
      BY <2>1, <2>4, <2>5, <2>6
  <1>2. ASSUME NEW n \in DOMAIN writes[s], WriteStarts(s, n)
        PROVE  TypeInv'
    <2> DEFINE w == [writes[s][n] EXCEPT !.st = "calling"]
    <2>1. writes[s][n] \in Write /\ writes[s][n].len \in Nat /\ w \in Write
      <3>1. writes[s][n] \in Write
        BY <1>0
      <3> QED
        BY <3>1 DEF Write
    <2>2. /\ writes' = [writes EXCEPT ![s] = [@ EXCEPT ![n] = w]]
          /\ Invoke(WriteOf(s, n), ProgressCall(s, Txt(writes[s][n].len, "none")))
          /\ UNCHANGED <<stores, gen, len, cancelled, timer, pending, tail, fin,
                         reply, cancel, observer, crashes>>
      BY <1>2, <1>0 DEF WriteStarts
    <2> HIDE DEF w
    <2>3. SessionTypeOK' /\ CallsWellFormed'
      <3>1. Txt(writes[s][n].len, "none") \in Text
        BY <2>1, TxtTyped DEF Marks
      <3>2. WriteOf(s, n) \in Callers
        BY WritesBounded, TaskIds
      <3> QED
        BY <2>2, <3>1, <3>2, InvokeStep, CallsTyped
    <2>4. /\ writes' \in [Streams -> Seq(Write)]
          /\ \A x \in Streams : Len(writes'[x]) = Len(writes[x])
      BY <2>1, <2>2, WriteChanged
    <2>5. StreamTypeOK'
      BY <2>2, <2>4 DEF StreamTypeOK
    <2>6. Requests' /\ WriteBudget'
      BY <2>2, <2>4, RequestsKept DEF WriteBudget
    <2> QED
      BY <2>3, <2>5, <2>6
  <1>3. ASSUME NEW n \in DOMAIN writes[s], WriteEnds(s, n)
        PROVE  TypeInv'
    <2>1. PICK w \in Write : writes' = [writes EXCEPT ![s] = [@ EXCEPT ![n] = w]]
      <3> DEFINE old == writes[s][n]
                 new == IF call[WriteOf(s, n)].ok \/ old.left = 1
                        THEN [old EXCEPT !.st = "done"]
                        ELSE [old EXCEPT !.st = "queued", !.left = 1]
      <3>1. old \in Write
        BY <1>0
      <3>2. /\ [old EXCEPT !.st = "done"] \in Write
            /\ [old EXCEPT !.st = "queued", !.left = 1] \in Write
        <4>1. ASSUME NEW v \in Write
              PROVE  [v EXCEPT !.st = "done"] \in Write
          BY DEF Write
        <4>2. ASSUME NEW v \in Write
              PROVE  [v EXCEPT !.st = "queued", !.left = 1] \in Write
          <5>1. 1 \in 1 .. 2
            OBVIOUS
          <5> QED
            BY <5>1, Zenon DEF Write
        <4> QED
          BY <3>1, <4>1, <4>2
      <3>3. writes' = [writes EXCEPT ![s] = [@ EXCEPT ![n] = new]]
        BY <1>3, <1>0 DEF WriteEnds
      <3> QED
        BY <3>2, <3>3, Zenon
    <2>2. /\ Return(WriteOf(s, n))
          /\ UNCHANGED <<stores, gen, len, cancelled, timer, pending, tail, fin,
                         reply, cancel, observer, crashes>>
      BY <1>3 DEF WriteEnds
    <2>3. SessionTypeOK' /\ CallsWellFormed'
      BY <2>2, WritesBounded, TaskIds, ReturnStep
    <2>4. /\ writes' \in [Streams -> Seq(Write)]
          /\ \A x \in Streams : Len(writes'[x]) = Len(writes[x])
      BY <2>1, WriteChanged
    <2>5. StreamTypeOK'
      BY <2>2, <2>4 DEF StreamTypeOK
    <2>6. Requests' /\ WriteBudget'
      BY <2>2, <2>4, RequestsKept DEF WriteBudget
    <2> QED
      BY <2>3, <2>5, <2>6
  <1> QED
    BY <1>1, <1>2, <1>3

\* The finalizer goes to its next await.
LEMMA FinGoesTyped ==
  ASSUME StreamTypeOK, NEW s \in Streams, NEW pc \in FinStates, FinGoes(s, pc),
         pc \in {"store", "touch", "progress"} => fin[s].text # Null
  PROVE  fin' \in [Streams -> Finalizer]
PROOF
  <1>1. [fin[s] EXCEPT !.pc = pc] \in Finalizer
    BY DEF StreamTypeOK, Finalizer
  <1> QED
    BY <1>1 DEF FinGoes, StreamTypeOK

\* Every step of finalizeGeneration.
LEMMA FinalizerTyped ==
  ASSUME TypeInv, NEW s \in Streams,
         \/ FinFlushed(s) \/ FinAbandons(s) \/ FinFails(s) \/ FinResolves(s)
         \/ FinProgressed(s) \/ FinMarked(s) \/ FinDatabase(s)
  PROVE  TypeInv'
PROOF
  <1> USE DEF TypeInv, TypeOK
  <1>0. fin[s] \in Finalizer /\ len[s] \in Nat
    BY MaxDeltasAssumption DEF StreamTypeOK
  \* What the steps have in common.
  <1>1. ASSUME SessionTypeOK' /\ CallsWellFormed',
               fin' \in [Streams -> Finalizer], reply' \in [Streams -> Text \cup {Null}],
               UNCHANGED progressVars \/ CompleteSubject(s), UNCHANGED finOthers
        PROVE  TypeInv'
    <2>1. /\ timer' \subseteq timer
          /\ pending' \in [Streams -> Nat \cup {Null}]
          /\ writes' = writes
          /\ tail' \in [Streams -> Nat]
      BY <1>1, CompleteSubjectTyped DEF progressVars, StreamTypeOK
    <2>2. StreamTypeOK'
      BY <1>1, <2>1 DEF finOthers, StreamTypeOK
    <2>3. Requests' /\ WriteBudget'
      BY <1>1, <2>1, RequestsKept, BudgetKept DEF finOthers, StreamTypeOK
    <2> QED
      BY <1>1, <2>2, <2>3
  <1>2. ASSUME UNCHANGED stores, NEW c \in Call, WellFormed(c),
               Invoke(FinalOf(s), c) \/ Return(FinalOf(s))
        PROVE  SessionTypeOK' /\ CallsWellFormed'
    BY <1>2, InvokeStep, ReturnStep, TaskIds
  <1>3. UNCHANGED reply => reply' \in [Streams -> Text \cup {Null}]
    BY DEF StreamTypeOK
  <1>4. ASSUME NEW pc \in FinStates, FinGoes(s, pc),
               pc \in {"store", "touch", "progress"} => fin[s].text # Null
        PROVE  fin' \in [Streams -> Finalizer]
    BY <1>4, FinGoesTyped
  <1>5. /\ \A st \in Statuses, b \in BOOLEAN :
             MarkCall(s, st, b) \in Call /\ WellFormed(MarkCall(s, st, b))
        /\ GetCall(s) \in Call /\ WellFormed(GetCall(s))
        /\ {"check", "touch", "progress", "mark", "done"} \subseteq FinStates
        /\ {"failed", "interrupted", "completed"} \subseteq Statuses
    BY CallsTyped DEF FinStates, Statuses
  <1>6. CASE FinFlushed(s)
    BY <1>1, <1>2, <1>3, <1>4, <1>5, <1>6 DEF FinFlushed
  <1>7. CASE FinAbandons(s)
    BY <1>1, <1>2, <1>3, <1>4, <1>5, <1>7 DEF FinAbandons
  <1>8. CASE FinFails(s)
    BY <1>1, <1>2, <1>3, <1>4, <1>5, <1>8 DEF FinFails
  <1>9. CASE FinMarked(s)
    BY <1>1, <1>2, <1>3, <1>4, <1>5, <1>9 DEF FinMarked
  <1>10. CASE FinProgressed(s)
    <2>1. PICK st \in Statuses : Invoke(FinalOf(s), MarkCall(s, st, FALSE))
      BY <1>5, <1>10 DEF FinProgressed
    <2> QED
      BY <2>1, <1>1, <1>2, <1>3, <1>4, <1>5, <1>10 DEF FinProgressed
  <1>11. CASE FinResolves(s)
    <2>1. PICK text \in FinalTexts(s) :
            fin' = [fin EXCEPT ![s].pc = "store", ![s].text = text]
      BY <1>11 DEF FinResolves
    <2>2. text \in Text
      <3>1. FinalMark(s) \in Marks /\ "withheld" \in Marks /\ 0 \in Nat
        BY DEF FinalMark, Marks
      <3> QED
        BY <3>1, <1>0, TxtTyped DEF FinalTexts
    <2>3. [fin[s] EXCEPT !.pc = "store", !.text = text] \in Finalizer
      BY <1>0, <2>2, NullAssumption DEF Finalizer, FinStates
    <2>4. fin' \in [Streams -> Finalizer]
      BY <2>1, <2>3 DEF StreamTypeOK
    <2> QED
      BY <2>4, <1>1, <1>2, <1>3, <1>5, <1>11 DEF FinResolves
  <1>12. CASE FinStores(s)
    <2>1. fin[s].text \in Text
      BY <1>0, <1>12 DEF Finalizer, FinStores
    <2>2. reply' \in [Streams -> Text \cup {Null}]
      BY <1>12, <2>1 DEF FinStores, StreamTypeOK
    <2>3. SessionTypeOK' /\ CallsWellFormed'
      BY <1>12, NoCallStep DEF FinStores
    <2> QED
      BY <2>1, <2>2, <2>3, <1>1, <1>4, <1>5, <1>12, NullAssumption DEF FinStores
  <1>13. CASE FinTouches(s)
    <2>1. fin[s].text \in Text
      BY <1>0, <1>13 DEF Finalizer, FinTouches
    <2> QED
      BY <2>1, <1>1, <1>2, <1>3, <1>4, <1>5, <1>13, CallsTyped, NullAssumption
      DEF FinTouches
  <1>14. CASE FinStoreFails(s)
    <2>1. /\ call' \in [Callers -> Call] /\ wire' \in Seq(Callers)
          /\ CallsWellFormed'
      BY <1>5, <1>14, TaskIds, InvokeTyped DEF FinStoreFails, SessionTypeOK
    <2>2. faults' \in 0 .. MaxFaults
      BY <1>14, MaxFaultsAssumption DEF FinStoreFails, SessionTypeOK
    <2>3. SessionTypeOK' /\ CallsWellFormed'
      BY <2>1, <2>2, <1>14 DEF FinStoreFails, SessionTypeOK
    <2> QED
      BY <2>3, <1>1, <1>3, <1>4, <1>5, <1>14 DEF FinStoreFails
  <1> QED
    BY <1>6, <1>7, <1>8, <1>9, <1>10, <1>11, <1>12, <1>13, <1>14 DEF FinDatabase

\* Every step of cancelGeneration.
LEMMA CancelTyped ==
  ASSUME TypeInv, NEW c \in Cancels,
         \/ HandleCancel(c)
         \/ \E s \in Streams, mine \in BOOLEAN : CancelAsks(c, s, mine)
  PROVE  TypeInv'
PROOF
  <1> USE DEF TypeInv, TypeOK
  <1>0. /\ cancel[c] \in CancelRequest
        /\ cancel[c].st # "idle" => cancel[c].stream \in Streams
    BY DEF StreamTypeOK, Requests
  <1>1. ASSUME NEW st \in CancelStates, NEW how \in {"nothing", "stop", "mark"}
        PROVE  [cancel[c] EXCEPT !.st = st, !.how = how] \in CancelRequest
    BY <1>0 DEF CancelRequest
  \* Only the state of the request and what it did change once it is made.
  <1>2. ASSUME NEW st \in CancelStates, NEW how \in {"nothing", "stop", "mark"},
               cancel[c].st # "idle", UNCHANGED observer,
               cancel' = [cancel EXCEPT ![c] =
                            [cancel[c] EXCEPT !.st = st, !.how = how]]
        PROVE  cancel' \in [Cancels -> CancelRequest] /\ Requests'
    <2>1. [cancel[c] EXCEPT !.st = st, !.how = how].stream \in Streams
      BY <1>0, <1>2 DEF CancelRequest
    <2> QED
      BY <1>1, <1>2, <2>1 DEF StreamTypeOK, Requests
  <1>3. ASSUME NEW st \in CancelStates, cancel[c].st # "idle", UNCHANGED observer,
               cancel' = [cancel EXCEPT ![c].st = st]
        PROVE  cancel' \in [Cancels -> CancelRequest] /\ Requests'
    <2>1. /\ cancel[c].how \in {"nothing", "stop", "mark"}
          /\ cancel' = [cancel EXCEPT ![c] =
                          [cancel[c] EXCEPT !.st = st, !.how = cancel[c].how]]
      BY <1>0, <1>3 DEF CancelRequest, StreamTypeOK
    <2> QED
      BY <2>1, <1>2, <1>3
  <1>4. {"reading", "marking", "done"} \subseteq CancelStates
    BY DEF CancelStates
  <1>5. ASSUME NEW s \in Streams, NEW mine \in BOOLEAN, CancelAsks(c, s, mine)
        PROVE  TypeInv'
    <2>1. SessionTypeOK' /\ CallsWellFormed'
      BY <1>5, InvokeStep, TaskIds, CallsTyped DEF CancelAsks
    <2>2. cancel' \in [Cancels -> CancelRequest] /\ Requests'
      <3>1. [st |-> "reading", stream |-> s, mine |-> mine, how |-> "nothing"]
              \in CancelRequest
        BY DEF CancelRequest, CancelStates
      <3> QED
        BY <1>5, <3>1 DEF CancelAsks, StreamTypeOK, Requests, cancelOthers
    <2>3. StreamTypeOK' /\ WriteBudget'
      BY <1>5, <2>2, BudgetKept
      DEF CancelAsks, StreamTypeOK, cancelOthers, progressVars
    <2> QED
      BY <2>1, <2>2, <2>3
  <1>6. CASE CancelRefused(c)
    <2>1. SessionTypeOK' /\ CallsWellFormed'
      BY <1>6, ReturnStep, TaskIds DEF CancelRefused
    <2>2. cancel' \in [Cancels -> CancelRequest] /\ Requests'
      BY <1>6, <1>3, <1>4 DEF CancelRefused, cancelOthers
    <2>3. StreamTypeOK' /\ WriteBudget'
      BY <1>6, <2>2, BudgetKept
      DEF CancelRefused, StreamTypeOK, cancelOthers, progressVars
    <2> QED
      BY <2>1, <2>2, <2>3
  <1>7. CASE CancelStops(c)
    <2> DEFINE s == cancel[c].stream
    <2>1. s \in Streams /\ cancel[c].st = "reading"
      BY <1>7, <1>0 DEF CancelStops, Accepted
    <2>2. /\ gen[s] = "running" /\ gen' = [gen EXCEPT ![s] = "stopped"]
          /\ FinalizerStarts(s, pending[s], TRUE)
          /\ Return(CancelOf(c))
          /\ cancel' = [cancel EXCEPT ![c] =
                          [cancel[c] EXCEPT !.st = "done", !.how = "stop"]]
          /\ UNCHANGED <<stores, pending, len, reply, observer, crashes>>
      BY <1>7 DEF CancelStops, Subscribed, cancelOthers, StreamTypeOK
    <2> HIDE DEF s
    <2>3. SessionTypeOK' /\ CallsWellFormed'
      BY <2>2, ReturnStep, TaskIds
    <2>4. cancel' \in [Cancels -> CancelRequest] /\ Requests'
      BY <2>1, <2>2, <1>2, <1>4
    <2>5. /\ writes' \in [Streams -> Seq(Write)]
          /\ tail' \in [Streams -> Nat]
          /\ fin' \in [Streams -> Finalizer]
          /\ cancelled' \subseteq Streams
          /\ timer' \subseteq Streams
          /\ Len(writes'[s]) <= Len(writes[s]) + 1
          /\ s \notin timer'
          /\ \A x \in Streams : x # s =>
               /\ writes'[x] = writes[x]
               /\ x \in timer' <=> x \in timer
      <3>1. pending[s] \in Nat \cup {Null} /\ TRUE \in BOOLEAN /\ StreamTypeOK
        BY <2>1 DEF StreamTypeOK
      <3> HIDE DEF TypeInv, TypeOK
      <3> QED
        BY <3>1, <2>1, <2>2, FinalizerStartsTyped, Zenon
    <2>6. StreamTypeOK'
      BY <2>1, <2>2, <2>4, <2>5 DEF StreamTypeOK, GenStates
    <2>7. WriteBudget'
      <3>1. /\ Len(writes'[s]) \in Nat /\ Len(writes[s]) <= len[s]
            /\ Len(writes[s]) \in Nat /\ len[s] \in Nat
        BY <2>1, <2>2, <2>5, MaxDeltasAssumption DEF WriteBudget, StreamTypeOK
      <3> QED
        BY <2>1, <2>2, <2>5, <3>1 DEF StreamTypeOK, WriteBudget
    <2> QED
      BY <2>3, <2>4, <2>6, <2>7
  <1>8. CASE CancelMarks(c)
    <2>1. cancel[c].stream \in Streams /\ cancel[c].st = "reading"
      BY <1>8, <1>0 DEF CancelMarks, Accepted
    <2>2. SessionTypeOK' /\ CallsWellFormed'
      BY <1>8, <2>1, InvokeStep, TaskIds, CallsTyped DEF CancelMarks, Statuses
    <2>3. cancel' \in [Cancels -> CancelRequest] /\ Requests'
      <3>1. cancel' = [cancel EXCEPT ![c] =
                         [cancel[c] EXCEPT !.st = "marking", !.how = "mark"]]
        BY <1>8 DEF CancelMarks, StreamTypeOK
      <3> QED
        BY <1>8, <2>1, <3>1, <1>2, <1>4 DEF CancelMarks, cancelOthers
    <2>4. StreamTypeOK' /\ WriteBudget'
      BY <1>8, <2>1, <2>3, BudgetKept
      DEF CancelMarks, StreamTypeOK, cancelOthers, progressVars
    <2> QED
      BY <2>2, <2>3, <2>4
  <1>9. CASE CancelMarked(c)
    <2>1. cancel[c].stream \in Streams /\ cancel[c].st = "marking"
      BY <1>9, <1>0 DEF CancelMarked
    <2>2. SessionTypeOK' /\ CallsWellFormed'
      BY <1>9, ReturnStep, TaskIds DEF CancelMarked
    <2>3. cancel' \in [Cancels -> CancelRequest] /\ Requests'
      BY <1>9, <2>1, <1>3, <1>4 DEF CancelMarked, cancelOthers
    <2>4. /\ timer' \subseteq timer
          /\ pending' \in [Streams -> Nat \cup {Null}]
          /\ writes' = writes
          /\ tail' \in [Streams -> Nat]
      BY <1>9, <2>1, CompleteSubjectTyped DEF CancelMarked, StreamTypeOK, progressVars
    <2>5. StreamTypeOK' /\ WriteBudget'
      BY <1>9, <2>3, <2>4, BudgetKept DEF CancelMarked, StreamTypeOK, cancelOthers
    <2> QED
      BY <2>2, <2>3, <2>5
  <1> QED
    BY <1>5, <1>6, <1>7, <1>8, <1>9 DEF HandleCancel

\* Every step of observeSession.
LEMMA ObserverTyped ==
  ASSUME TypeInv, NEW o \in Observers,
         \/ PollEnds(o) \/ PollTick(o) \/ Leave(o)
         \/ \E s \in Streams, mine \in BOOLEAN : Attach(o, s, mine)
  PROVE  TypeInv'
PROOF
  <1> USE DEF TypeInv, TypeOK
  <1>0. /\ observer[o] \in Observer
        /\ observer[o].st # "idle" => observer[o].stream \in Streams
    BY DEF StreamTypeOK, Requests
  \* What the steps have in common.
  <1>1. ASSUME SessionTypeOK' /\ CallsWellFormed', NEW ob \in Observer,
               ob.st # "idle" => ob.stream \in Streams,
               observer' = [observer EXCEPT ![o] = ob],
               timer' \subseteq timer, pending' \in [Streams -> Nat \cup {Null}],
               writes' = writes, tail' \in [Streams -> Nat],
               UNCHANGED observerOthers
        PROVE  TypeInv'
    <2>1. StreamTypeOK'
      BY <1>1 DEF observerOthers, StreamTypeOK
    <2>2. Requests'
      BY <1>1 DEF observerOthers, StreamTypeOK, Requests
    <2>3. WriteBudget'
      BY <1>1, BudgetKept DEF observerOthers
    <2> QED
      BY <1>1, <2>1, <2>2, <2>3
  <1>2. UNCHANGED progressVars =>
          /\ timer' \subseteq timer /\ pending' \in [Streams -> Nat \cup {Null}]
          /\ writes' = writes /\ tail' \in [Streams -> Nat]
    BY DEF progressVars, StreamTypeOK
  <1>3. ASSUME NEW st \in {"idle", "watching", "ended", "failed", "left"}
        PROVE  /\ [observer[o] EXCEPT !.st = st] \in Observer
               /\ [observer[o] EXCEPT !.st = st].st = st
               /\ [observer[o] EXCEPT !.st = st].stream = observer[o].stream
    BY <1>0 DEF Observer
  <1>4. ASSUME NEW s \in Streams, NEW mine \in BOOLEAN, Attach(o, s, mine)
        PROVE  TypeInv'
    <2> DEFINE ob == [NoObserver EXCEPT !.st = "watching", !.stream = s,
                                        !.mine = mine]
    <2>1. ob \in Observer /\ ob.stream \in Streams
      BY DEF NoObserver, Observer
    <2>2. SessionTypeOK' /\ CallsWellFormed'
      BY <1>4, InvokeStep, TaskIds, CallsTyped DEF Attach
    <2>3. /\ observer' = [observer EXCEPT ![o] = ob]
          /\ UNCHANGED progressVars /\ UNCHANGED observerOthers
      BY <1>4 DEF Attach
    <2> HIDE DEF ob
    <2> QED
      BY <2>1, <2>2, <2>3, <1>1, <1>2
  <1>5. CASE PollTick(o)
    <2>1. SessionTypeOK' /\ CallsWellFormed'
      BY <1>5, <1>0, InvokeStep, TaskIds, CallsTyped DEF PollTick
    <2>2. /\ observer' = [observer EXCEPT ![o] = observer[o]]
          /\ UNCHANGED progressVars /\ UNCHANGED observerOthers
      BY <1>5 DEF PollTick, StreamTypeOK
    <2> QED
      BY <1>0, <2>1, <2>2, <1>1, <1>2
  <1>6. CASE PollRejected(o)
    <2>1. SessionTypeOK' /\ CallsWellFormed'
      BY <1>6, ReturnStep, TaskIds DEF PollRejected
    <2>2. PICK st \in {"idle", "watching", "ended", "failed", "left"} :
            /\ observer' = [observer EXCEPT ![o] = [observer[o] EXCEPT !.st = st]]
            /\ observer[o].st = "idle" => st = "idle"
      <3>1. /\ observer[o].st \in {"idle", "watching", "ended", "failed", "left"}
            /\ observer' = [observer EXCEPT ![o] = [observer[o] EXCEPT !.st =
                 IF observer[o].st = "watching" THEN "failed" ELSE observer[o].st]]
        BY <1>0, <1>6 DEF PollRejected, Observer, StreamTypeOK
      <3> QED
        BY <3>1
    <2>3. UNCHANGED progressVars /\ UNCHANGED observerOthers
      BY <1>6 DEF PollRejected
    <2> DEFINE ob == [observer[o] EXCEPT !.st = st]
    <2>4. /\ ob \in Observer
          /\ ob.st # "idle" => ob.stream \in Streams
          /\ observer' = [observer EXCEPT ![o] = ob]
      BY <2>2, <1>0, <1>3
    <2> HIDE DEF ob
    <2> QED
      BY <2>1, <2>3, <2>4, <1>1, <1>2
  <1>7. CASE PollAnswered(o)
    <2> DEFINE snap == call[PollOf(o)].snap
    <2>1. SessionTypeOK' /\ CallsWellFormed'
      BY <1>7, ReturnStep, TaskIds DEF PollAnswered
    <2>2. snap \in Session
      BY <1>7, TaskIds DEF PollAnswered, Valid, SessionTypeOK, Call
    <2>3. /\ observer' = [observer EXCEPT ![o] = Seen(observer[o], snap)]
          /\ UNCHANGED observerOthers
          /\ \/ UNCHANGED progressVars
             \/ CompleteSubject(observer[o].stream)
      BY <1>7 DEF PollAnswered, StreamTypeOK
    <2> HIDE DEF snap
    <2>4. /\ Seen(observer[o], snap) \in Observer
          /\ Seen(observer[o], snap).stream = observer[o].stream
          /\ observer[o].st = "idle" => Seen(observer[o], snap).st = "idle"
      <3>1. snap.seq \in Nat /\ (snap.status # "generating") \in BOOLEAN
        BY <2>2 DEF Session
      <3>2. CASE observer[o].st # "watching"
        BY <3>2, <1>0 DEF Seen
      <3>3. CASE observer[o].st = "watching"
        BY <3>1, <3>3, <1>0 DEF Seen, Observer
      <3> QED
        BY <3>2, <3>3
    <2>5. /\ timer' \subseteq timer
          /\ pending' \in [Streams -> Nat \cup {Null}]
          /\ writes' = writes
          /\ tail' \in [Streams -> Nat]
      <3>1. CASE UNCHANGED progressVars
        BY <3>1, <1>2
      <3>2. CASE CompleteSubject(observer[o].stream)
        BY <3>2 DEF CompleteSubject, StreamTypeOK
      <3> QED
        BY <2>3, <3>1, <3>2
    <2> DEFINE ob == Seen(observer[o], snap)
    <2>6. /\ ob \in Observer
          /\ ob.st # "idle" => ob.stream \in Streams
          /\ observer' = [observer EXCEPT ![o] = ob]
      BY <2>3, <2>4, <1>0
    <2> HIDE DEF ob
    <2> QED
      BY <2>1, <2>3, <2>5, <2>6, <1>1
  <1>8. CASE Leave(o)
    <2>1. SessionTypeOK' /\ CallsWellFormed'
      BY <1>8, NoCallStep DEF Leave, sessionVars, stores
    <2>2. /\ observer' = [observer EXCEPT ![o] = [observer[o] EXCEPT !.st = "left"]]
          /\ observer[o].st = "watching"
          /\ UNCHANGED progressVars /\ UNCHANGED observerOthers
      BY <1>8 DEF Leave, StreamTypeOK
    <2> QED
      BY <2>1, <2>2, <1>0, <1>1, <1>2, <1>3
  <1> QED
    BY <1>4, <1>5, <1>6, <1>7, <1>8 DEF PollEnds

\* Every step keeps every variable typed and every queue within its budget.
LEMMA TypeStep ==
  ASSUME TypeInv, [Next]_vars
  PROVE  TypeInv'
PROOF
  <1>1. CASE Redis
    <2>1. SessionTypeOK' /\ CallsWellFormed'
      BY <1>1, ServeTyped DEF Redis, TypeInv, TypeOK
    <2> QED
      BY <1>1, <2>1
      DEF Redis, streamVars, TypeInv, TypeOK, StreamTypeOK, Requests, WriteBudget
  <1>2. CASE Expiry
    <2>1. SessionTypeOK' /\ CallsWellFormed'
      BY <1>2, ExpireTyped DEF Expiry, TypeInv, TypeOK
    <2> QED
      BY <1>2, <2>1
      DEF Expiry, streamVars, TypeInv, TypeOK, StreamTypeOK, Requests, WriteBudget
  <1>3. CASE Continuation
    <2>1. ASSUME NEW s \in Streams, FailMarked(s)
          PROVE  TypeInv'
      <3>1. CASE Return(FailOf(s)) /\ UNCHANGED <<stores, streamVars>>
        <4>1. SessionTypeOK' /\ CallsWellFormed'
          BY <3>1, ReturnStep, TaskIds DEF TypeInv, TypeOK
        <4> QED
          BY <3>1, <4>1
          DEF streamVars, TypeInv, TypeOK, StreamTypeOK, Requests, WriteBudget
      <3>2. CASE ProcessEnds /\ UNCHANGED crashes
        BY <3>2, ProcessEndsTyped DEF TypeInv, TypeOK, StreamTypeOK
      <3> QED
        BY <2>1, <3>1, <3>2 DEF FailMarked
    <2>2. ASSUME NEW s \in Streams, FinDies(s)
          PROVE  TypeInv'
      BY <2>2, ProcessEndsTyped DEF FinDies, TypeInv, TypeOK, StreamTypeOK
    <2> QED
      BY <1>3, <2>1, <2>2, GenerationTyped, FinalizerTyped, WritesTyped,
         CancelTyped, ObserverTyped
      DEF Continuation, FinGoesOn
  <1>4. CASE Event
    BY <1>4, GenerationTyped, FinalizerTyped, WritesTyped, CancelTyped,
       ObserverTyped
    DEF Event
  <1>5. CASE Crash
    <2>1. crashes' \in 0 .. MaxCrashes
      BY <1>5, MaxCrashesAssumption DEF Crash, TypeInv, TypeOK, StreamTypeOK
    <2> QED
      BY <1>5, <2>1, ProcessEndsTyped DEF Crash
  <1>6. CASE UNCHANGED vars
    BY <1>6
    DEF vars, sessionVars, streamVars, TypeInv, TypeOK, SessionTypeOK,
        CallsWellFormed, StreamTypeOK, Requests, WriteBudget
  <1> QED
    BY <1>1, <1>2, <1>3, <1>4, <1>5, <1>6 DEF Next

\* The initial state is typed.
LEMMA TypeStart ==
  ASSUME Init
  PROVE  TypeInv
PROOF
  <1>1. SessionTypeOK /\ CallsWellFormed
    BY SessionInitTyped DEF Init
  <1>2. StreamTypeOK
    BY MaxDeltasAssumption, MaxCrashesAssumption
    DEF Init, StreamTypeOK, GenStates, Finalizer, NoFinalizer, FinStates,
        CancelRequest, CancelStates, NoCancel, Observer, NoObserver
  <1>3. Requests /\ WriteBudget
    BY DEF Init, Requests, WriteBudget, NoCancel, NoObserver
  <1> QED
    BY <1>1, <1>2, <1>3 DEF TypeInv, TypeOK

\* In every reachable state every variable has its type, and nothing is queued
\* that no delta asked for: the progress writes of a stream never outnumber
\* its deltas by more than one, a failed write is tried at most twice.
THEOREM TypeCorrect == Spec => []TypeOK
PROOF
  <1>1. Init => TypeInv
    BY TypeStart
  <1>2. TypeInv /\ [Next]_vars => TypeInv'
    BY TypeStep
  <1>3. TypeInv => TypeOK
    BY DEF TypeInv
  <1> QED
    BY <1>1, <1>2, <1>3, PTL DEF Spec

\* TypeInv is inductive.
THEOREM TypeInvariant == Spec => []TypeInv
PROOF
  <1>1. Init => TypeInv
    BY TypeStart
  <1>2. TypeInv /\ [Next]_vars => TypeInv'
    BY TypeStep
  <1> QED
    BY <1>1, <1>2, PTL DEF Spec

\* The pointer to the stream to resume never dangles (ActiveSession finds the
\* record it names), whoever saves and deletes it, in whichever order, with
\* faults, crashes and the end of the TTL.
THEOREM PointersResolve == Spec => []PointerResolves
PROOF
  <1>1. Init => PointerResolves
    BY DEF Init, SessionInit, PointerResolves
  <1>2. TypeInv /\ PointerResolves /\ [Next]_vars => PointerResolves'
    <2> SUFFICES ASSUME TypeInv, PointerResolves, [Next]_vars
                 PROVE  PointerResolves'
      OBVIOUS
    <2>1. CASE UNCHANGED <<session, active>>
      BY <2>1 DEF PointerResolves
    <2>2. CASE Redis
      BY <2>2, ServePointer DEF Redis, TypeInv, TypeOK
    <2>3. CASE Expiry
      BY <2>3, ExpirePointer DEF Expiry, TypeInv, TypeOK
    <2>4. CASE Continuation
      <3>1. UNCHANGED <<session, active>>
        BY <2>4
        DEF Continuation, stores, ProcessEnds, StartDetachedGeneration,
            FailMarked, FinGoesOn, FinFlushed, FinAbandons, FinFails,
            FinResolves, FinProgressed, FinMarked, FinDies, WriteStarts,
            WriteEnds, HandleCancel, CancelRefused, CancelStops, CancelMarks,
            CancelMarked, PollEnds, PollRejected, PollAnswered
      <3> QED
        BY <3>1, <2>1
    <2>5. CASE Event
      <3>1. UNCHANGED <<session, active>>
        BY <2>5
        DEF Event, stores, sessionVars, Create, Generation, GenDelta, GenDone,
            GenError, TimerFires, FinDatabase, FinStores, FinTouches,
            FinStoreFails, CancelAsks, Attach, PollTick, Leave
      <3> QED
        BY <3>1, <2>1
    <2>6. CASE Crash
      BY <2>6, <2>1 DEF Crash, ProcessEnds, stores
    <2>7. CASE UNCHANGED vars
      BY <2>7, <2>1 DEF vars, sessionVars
    <2> QED
      BY <2>2, <2>3, <2>4, <2>5, <2>6, <2>7 DEF Next
  <1> QED
    BY <1>1, <1>2, TypeInvariant, PTL DEF Spec

-----------------------------------------------------------------------------
(* A completed session has its message: CompletedInv is inductive.         *)

\* A call starts without a snapshot, and only a mark carries a final status.
LEMMA FreshCalls ==
  /\ Idle.snap = Null /\ Idle.status = "generating"
  /\ \A s \in Streams :
       /\ CreateCall(s).snap = Null /\ CreateCall(s).status = "generating"
       /\ GetCall(s).snap = Null /\ GetCall(s).status = "generating"
       /\ \A text \in Text :
            /\ ProgressCall(s, text).snap = Null
            /\ ProgressCall(s, text).status = "generating"
       /\ \A status \in Statuses, error \in BOOLEAN :
            /\ MarkCall(s, status, error).snap = Null
            /\ MarkCall(s, status, error).status = status
            /\ MarkCall(s, status, error).stream = s
PROOF
  BY DEF Idle, CreateCall, GetCall, ProgressCall, MarkCall

\* Starting a call, or dropping the result of one, gives nobody a snapshot.
LEMMA CallsAnswered ==
  ASSUME SessionTypeOK, SnapshotsAnswered, MarksAnswered, UNCHANGED reply,
         NEW t \in Callers, NEW c \in Call, c.snap = Null,
         c.status = "completed" => Answered(c.stream),
         Invoke(t, c) \/ (c = Idle /\ Return(t))
  PROVE  SnapshotsAnswered' /\ MarksAnswered'
PROOF
  <1>1. call' = [call EXCEPT ![t] = c] /\ call \in [Callers -> Call]
    BY DEF Invoke, Return, SessionTypeOK
  <1>2. ASSUME NEW x \in Callers
        PROVE  call'[x] = call[x] \/ call'[x] = c
    BY <1>1
  <1>3. ASSUME NEW x PROVE Answered(x) => reply'[x] # Null /\ reply'[x].mark # "stopped"
    BY DEF Answered
  <1> QED
    BY <1>2, <1>3 DEF SnapshotsAnswered, MarksAnswered, Answered

\* The same for a turn that does not touch the sessions.
LEMMA CallTurn ==
  ASSUME SessionTypeOK, CompletedInv, UNCHANGED <<session, reply>>,
         NEW t \in Callers, NEW c \in Call, c.snap = Null,
         c.status = "completed" => Answered(c.stream),
         Invoke(t, c) \/ (c = Idle /\ Return(t))
  PROVE  CompletedHasReply' /\ SnapshotsAnswered' /\ MarksAnswered'
PROOF
  <1>1. SnapshotsAnswered' /\ MarksAnswered'
    BY CallsAnswered DEF CompletedInv
  <1> QED
    BY <1>1 DEF CompletedInv, CompletedHasReply

\* Taking a result changes neither what was stored nor what others hold.
LEMMA ReturnTurn ==
  ASSUME SessionTypeOK, CompletedInv, UNCHANGED <<session, reply>>,
         NEW t \in Callers, Return(t)
  PROVE  CompletedHasReply' /\ SnapshotsAnswered' /\ MarksAnswered'
PROOF
  BY CallTurn, CallsTyped, FreshCalls

\* Nor does a step that makes no call.
LEMMA NoCallTurn ==
  ASSUME CompletedInv, UNCHANGED <<session, reply, call>>
  PROVE  CompletedHasReply' /\ SnapshotsAnswered' /\ MarksAnswered'
PROOF
  BY DEF CompletedInv, CompletedHasReply, SnapshotsAnswered, MarksAnswered, Answered

\* A turn that leaves the finalizers alone and starts no generation again.
LEMMA FinalizerKept ==
  ASSUME StreamTypeOK, FinalizerStored, StoredOnce, UNCHANGED <<fin, reply>>,
         \A s \in Streams : gen'[s] \in {"absent", "creating", "running"}
                              => gen[s] \in {"absent", "creating", "running"}
  PROVE  FinalizerStored' /\ StoredOnce'
PROOF
  BY DEF FinalizerStored, StoredOnce

\* A generation ends and its finalizer begins: nothing has been stored.
LEMMA FinalizerBegins ==
  ASSUME StreamTypeOK, FinalizerStored, StoredOnce, NEW s \in Streams,
         gen[s] = "running", NEW g \in {"done", "error", "stopped"},
         gen' = [gen EXCEPT ![s] = g],
         NEW f \in Finalizer, f.pc \in {"flush", "check"},
         fin' = [fin EXCEPT ![s] = f], UNCHANGED reply
  PROVE  FinalizerStored' /\ StoredOnce'
PROOF
  <1>1. reply[s] = Null
    BY DEF StoredOnce
  <1> QED
    BY <1>1 DEF FinalizerStored, StoredOnce, StreamTypeOK

\* After the end of the process nobody holds a snapshot any more.
LEMMA CompletedProcessEnds ==
  ASSUME TypeInv, CompletedInv, ProcessEnds
  PROVE  CompletedInv'
PROOF
  <1>1. CompletedHasReply' /\ SnapshotsAnswered' /\ MarksAnswered'
    BY FreshCalls
    DEF CompletedInv, CompletedHasReply, SnapshotsAnswered, MarksAnswered,
        ProcessEnds, stores
  <1>2. FinalizerStored' /\ StoredOnce'
    <2>1. ASSUME NEW s \in Streams
          PROVE  /\ gen'[s] \in {"absent", "creating", "running"}
                      => gen[s] \in {"absent", "creating", "running"} /\ gen'[s] = gen[s]
                 /\ fin'[s] = fin[s] \/ fin'[s].pc = "lost"
                 /\ fin[s].pc = "idle" => fin'[s] = fin[s]
                 /\ reply'[s] = reply[s]
      BY DEF ProcessEnds, TypeInv, TypeOK, StreamTypeOK, Finalizer
    <2> QED
      BY <2>1 DEF CompletedInv, FinalizerStored, StoredOnce
  <1> QED
    BY <1>1, <1>2 DEF CompletedInv

\* What Redis serves and saves was true when it was read and still is.
LEMMA CompletedServe ==
  ASSUME TypeInv, CompletedInv, Serve, UNCHANGED streamVars
  PROVE  CompletedInv'
PROOF
  <1> DEFINE t == Head(wire)
             c == call[t]
  <1>1. /\ t \in Callers /\ c \in Call /\ WellFormed(c)
        /\ call \in [Callers -> Call] /\ session \in [Streams -> Session \cup {Null}]
    BY DEF Serve, TypeInv, TypeOK, SessionTypeOK, CallsWellFormed
  <1>2. ServeLookup(t) \/ ServeRead(t) \/ ServeSave(t) \/ ServeDel(t) \/ ServeFault(t)
    BY DEF Serve
  <1>3. UNCHANGED <<gen, fin, reply>>
    BY DEF streamVars
  <1> HIDE DEF t
  <1>4. FinalizerStored' /\ StoredOnce'
    BY <1>3, FinalizerKept DEF CompletedInv, TypeInv, TypeOK
  <1>5. ASSUME NEW x PROVE Answered(x)' <=> Answered(x)
    BY <1>3 DEF Answered
  \* The call goes on, with a snapshot of the session at most.
  <1>6. ASSUME NEW snap \in Session \cup {Null},
               snap # Null => snap = session[c.stream] /\ c.stream \in Streams,
               \/ \E ok \in BOOLEAN : Answer(t, snap, ok)
               \/ \E stage \in Stages : Continue(t, stage, snap)
        PROVE  SnapshotsAnswered' /\ MarksAnswered'
    <2>1. \A x \in Callers :
            \/ call'[x] = call[x]
            \/ /\ call'[x].snap = snap /\ call'[x].status = c.status
               /\ call'[x].stream = c.stream
      <3>1. ASSUME NEW ok \in BOOLEAN, Answer(t, snap, ok)
            PROVE  call' = [call EXCEPT ![t] =
                     [c EXCEPT !.stage = "back", !.snap = snap, !.ok = ok]]
        BY <3>1 DEF Answer
      <3>2. ASSUME NEW stage \in Stages, Continue(t, stage, snap)
            PROVE  call' = [call EXCEPT ![t] =
                     [c EXCEPT !.stage = stage, !.snap = snap]]
        BY <3>2 DEF Continue
      <3>3. PICK d \in Call :
              /\ d.snap = snap /\ d.status = c.status /\ d.stream = c.stream
              /\ call' = [call EXCEPT ![t] = d]
        <4>1. CASE \E ok \in BOOLEAN : Answer(t, snap, ok)
          <5>1. PICK ok \in BOOLEAN : Answer(t, snap, ok)
            BY <4>1
          <5>2. [c EXCEPT !.stage = "back", !.snap = snap, !.ok = ok] \in Call
            BY <1>1 DEF Call, Stages
          <5> QED
            BY <5>1, <5>2, <3>1, <1>1 DEF Call
        <4>2. CASE \E stage \in Stages : Continue(t, stage, snap)
          <5>1. PICK stage \in Stages : Continue(t, stage, snap)
            BY <4>2
          <5>2. [c EXCEPT !.stage = stage, !.snap = snap] \in Call
            BY <1>1 DEF Call
          <5> QED
            BY <5>1, <5>2, <3>2, <1>1 DEF Call
        <4> QED
          BY <1>6, <4>1, <4>2
      <3> QED
        BY <3>3, <1>1
    <2>2. snap # Null /\ snap.status = "completed" => Answered(c.stream)
      BY <1>6 DEF CompletedInv, CompletedHasReply, Answered
    <2>3. c.status = "completed" => Answered(c.stream)
      BY <1>1 DEF CompletedInv, MarksAnswered
    <2> QED
      BY <2>1, <2>2, <2>3, <1>3 DEF CompletedInv, SnapshotsAnswered, MarksAnswered, Answered
  <1>7. ASSUME c.stage = "save", Save(c.stream, Written(c))
        PROVE  CompletedHasReply'
    <2>1. c.stream \in Streams /\ (c.op # "create" => c.snap # Null)
      BY <1>1, <1>7 DEF WellFormed
    <2>2. Written(c).status = "completed" => Answered(c.stream)
      <3>1. CASE c.op = "create"
        BY <3>1 DEF Written, NewSession
      <3>2. CASE c.op = "progress"
        <4>1. Written(c).status = c.snap.status
          BY <3>2, <2>1, <1>1 DEF Written, Call, Session
        <4> QED
          BY <4>1, <3>2, <2>1, <1>1 DEF CompletedInv, SnapshotsAnswered
      <3>3. CASE c.op \notin {"create", "progress"}
        <4>1. Written(c).status = c.status
          BY <3>3, <2>1, <1>1 DEF Written, Call, Session
        <4> QED
          BY <4>1, <1>1 DEF CompletedInv, MarksAnswered
      <3> QED
        BY <3>1, <3>2, <3>3
    <2>3. \A s \in Streams :
            \/ session'[s] = session[s]
            \/ s = c.stream /\ session'[s] = Written(c)
      BY <1>7, <1>1 DEF Save
    <2> QED
      BY <2>2, <2>3, <1>3 DEF CompletedInv, CompletedHasReply, Answered
  <1>8. UNCHANGED session => CompletedHasReply'
    BY <1>3 DEF CompletedInv, CompletedHasReply
  <1>9. CompletedHasReply'
    BY <1>2, <1>7, <1>8
    DEF ServeLookup, ServeRead, ServeSave, ServeDel, ServeFault
  <1>10. SnapshotsAnswered' /\ MarksAnswered'
    <2>1. Null \in Session \cup {Null} /\ {"save", "del"} \subseteq Stages
      BY DEF Stages
    <2>2. CASE ServeLookup(t)
      <3>1. c.stream \in Streams /\ session[c.stream] \in Session \cup {Null}
        BY <1>1, <2>2 DEF ServeLookup, WellFormed
      <3> QED
        BY <3>1, <2>2, <1>6 DEF ServeLookup
    <2>3. CASE ServeRead(t)
      <3>1. c.stream \in Streams /\ session[c.stream] \in Session \cup {Null}
        BY <1>1, <2>3 DEF ServeRead, WellFormed
      <3> QED
        BY <3>1, <2>1, <2>3, <1>6 DEF ServeRead
    <2>4. CASE ServeSave(t)
      BY <2>1, <2>4, <1>6 DEF ServeSave
    <2>5. CASE ServeDel(t)
      BY <2>1, <2>5, <1>6 DEF ServeDel
    <2>6. CASE ServeFault(t)
      BY <2>1, <2>6, <1>6 DEF ServeFault
    <2> QED
      BY <1>2, <2>2, <2>3, <2>4, <2>5, <2>6
  <1> QED
    BY <1>4, <1>9, <1>10 DEF CompletedInv

\* A generation: its finalizer starts with no message stored.
LEMMA CompletedGeneration ==
  ASSUME TypeInv, CompletedInv, NEW s \in Streams,
         \/ Create(s) \/ StartDetachedGeneration(s) \/ Generation(s)
         \/ TimerFires(s)
         \/ \E n \in DOMAIN writes[s] : WriteStarts(s, n) \/ WriteEnds(s, n)
  PROVE  CompletedInv'
PROOF
  <1> USE DEF TypeInv, TypeOK, stores
  <1>0. /\ StreamTypeOK /\ SessionTypeOK
        /\ FinalizerStored /\ StoredOnce
    BY DEF CompletedInv
  <1>1. CASE Create(s)
    <2>1. CompletedHasReply' /\ SnapshotsAnswered' /\ MarksAnswered'
      BY <1>1, CallTurn, CallsTyped, FreshCalls, TaskIds DEF Create
    <2>2. FinalizerStored' /\ StoredOnce'
      BY <1>0, <1>1, FinalizerKept DEF Create, StreamTypeOK
    <2> QED
      BY <2>1, <2>2 DEF CompletedInv
  <1>2. CASE StartDetachedGeneration(s)
    <2>1. CompletedHasReply' /\ SnapshotsAnswered' /\ MarksAnswered'
      BY <1>2, ReturnTurn, TaskIds DEF StartDetachedGeneration
    <2>2. FinalizerStored' /\ StoredOnce'
      BY <1>0, <1>2, FinalizerKept DEF StartDetachedGeneration, StreamTypeOK
    <2> QED
      BY <2>1, <2>2 DEF CompletedInv
  <1>3. CASE GenDelta(s) \/ TimerFires(s)
    <2>1. CompletedHasReply' /\ SnapshotsAnswered' /\ MarksAnswered'
      BY <1>3, NoCallTurn DEF GenDelta, TimerFires
    <2>2. FinalizerStored' /\ StoredOnce'
      BY <1>0, <1>3, FinalizerKept DEF GenDelta, TimerFires
    <2> QED
      BY <2>1, <2>2 DEF CompletedInv
  <1>4. CASE GenDone(s)
    <2>1. CompletedHasReply' /\ SnapshotsAnswered' /\ MarksAnswered'
      BY <1>4, NoCallTurn DEF GenDone
    <2>2. PICK f \in Finalizer : f.pc = "flush" /\ fin' = [fin EXCEPT ![s] = f]
      <3>1. Len(writes[s]) + 1 \in Nat /\ (s \in cancelled) \in BOOLEAN
        BY <1>0 DEF StreamTypeOK
      <3> QED
        BY <1>4, <3>1 DEF GenDone, FinalizerStarts, Finalizer, FinStates
    <2>3. FinalizerStored' /\ StoredOnce'
      BY <1>0, <1>4, <2>2, FinalizerBegins DEF GenDone, Subscribed
    <2> QED
      BY <2>1, <2>3 DEF CompletedInv
  <1>5. CASE GenError(s)
    <2>1. CompletedHasReply' /\ SnapshotsAnswered' /\ MarksAnswered'
      <3>1. /\ MarkCall(s, "failed", TRUE) \in Call /\ GetCall(s) \in Call
            /\ MarkCall(s, "failed", TRUE).snap = Null /\ GetCall(s).snap = Null
            /\ MarkCall(s, "failed", TRUE).status = "failed"
            /\ GetCall(s).status = "generating"
        BY CallsTyped, FreshCalls DEF Statuses
      <3>2. /\ call' = [call EXCEPT ![FailOf(s)] = MarkCall(s, "failed", TRUE),
                                   ![FinalOf(s)] = GetCall(s)]
            /\ UNCHANGED <<session, reply>>
        BY <1>5 DEF GenError
      <3>3. \A x \in Callers : \/ call'[x] = call[x]
                              \/ call'[x] = MarkCall(s, "failed", TRUE)
                              \/ call'[x] = GetCall(s)
        BY <1>0, <3>2 DEF SessionTypeOK
      <3> QED
        BY <3>1, <3>2, <3>3
        DEF CompletedInv, CompletedHasReply, SnapshotsAnswered, MarksAnswered,
            Answered
    <2>2. PICK f \in Finalizer : f.pc = "check" /\ fin' = [fin EXCEPT ![s] = f]
      <3>1. (s \in cancelled) \in BOOLEAN
        OBVIOUS
      <3> QED
        BY <1>5, <3>1 DEF GenError, Finalizer, FinStates
    <2>3. FinalizerStored' /\ StoredOnce'
      BY <1>0, <1>5, <2>2, FinalizerBegins DEF GenError, Subscribed
    <2> QED
      BY <2>1, <2>3 DEF CompletedInv
  <1>6. ASSUME NEW n \in DOMAIN writes[s], WriteStarts(s, n)
        PROVE  CompletedInv'
    <2>1. Txt(writes[s][n].len, "none") \in Text /\ WriteOf(s, n) \in Callers
      <3>1. writes[s][n] \in Write
        BY <1>0 DEF StreamTypeOK
      <3> QED
        BY <3>1, TxtTyped, WritesBounded, TaskIds DEF Write, Marks
    <2>2. CompletedHasReply' /\ SnapshotsAnswered' /\ MarksAnswered'
      BY <1>6, <2>1, CallTurn, CallsTyped, FreshCalls DEF WriteStarts
    <2>3. FinalizerStored' /\ StoredOnce'
      BY <1>0, <1>6, FinalizerKept DEF WriteStarts
    <2> QED
      BY <2>2, <2>3 DEF CompletedInv
  <1>7. ASSUME NEW n \in DOMAIN writes[s], WriteEnds(s, n)
        PROVE  CompletedInv'
    <2>1. CompletedHasReply' /\ SnapshotsAnswered' /\ MarksAnswered'
      BY <1>7, ReturnTurn, WritesBounded, TaskIds DEF WriteEnds
    <2>2. FinalizerStored' /\ StoredOnce'
      BY <1>0, <1>7, FinalizerKept DEF WriteEnds
    <2> QED
      BY <2>1, <2>2 DEF CompletedInv
  <1> QED
    BY <1>1, <1>2, <1>3, <1>4, <1>5, <1>6, <1>7 DEF Generation

\* The finalizer: it marks the session completed after it has stored.
LEMMA CompletedFinalizer ==
  ASSUME TypeInv, CompletedInv, NEW s \in Streams,
         \/ FinFlushed(s) \/ FinAbandons(s) \/ FinFails(s) \/ FinResolves(s)
         \/ FinProgressed(s) \/ FinMarked(s) \/ FinDatabase(s)
  PROVE  CompletedInv'
PROOF
  <1> USE DEF TypeInv, TypeOK, stores
  <1>0. /\ StreamTypeOK /\ SessionTypeOK
        /\ FinalizerStored /\ StoredOnce
        /\ fin[s] \in Finalizer /\ FinalOf(s) \in Callers
    BY TaskIds DEF CompletedInv, StreamTypeOK
  \* Moves to a state about which FinalizerStored says nothing new.
  <1>1. ASSUME UNCHANGED <<gen, reply>>, NEW pc \in FinStates, FinGoes(s, pc),
               gen[s] \notin {"absent", "creating", "running"},
               \/ pc \in {"mark", "done"}
               \/ pc = "check" /\ fin[s].pc = "flush"
               \/ pc = "progress" /\ fin[s].pc = "touch"
        PROVE  FinalizerStored' /\ StoredOnce'
    <2>1. /\ fin'[s].pc = pc /\ fin'[s].text = fin[s].text
          /\ fin'[s].stopped = fin[s].stopped
          /\ \A x \in Streams : x # s => fin'[x] = fin[x]
      BY <1>0, <1>1 DEF FinGoes, StreamTypeOK, Finalizer
    <2> QED
      BY <2>1, <1>0, <1>1 DEF FinalizerStored, StoredOnce
  <1>2. fin[s].pc # "idle" => gen[s] \notin {"absent", "creating", "running"}
    BY <1>0 DEF StoredOnce
  <1>3. {"check", "touch", "progress", "mark", "done"} \subseteq FinStates
    BY DEF FinStates
  <1>4. CASE FinFlushed(s)
    <2>1. CompletedHasReply' /\ SnapshotsAnswered' /\ MarksAnswered'
      BY <1>0, <1>4, CallTurn, CallsTyped, FreshCalls DEF FinFlushed
    <2>2. FinalizerStored' /\ StoredOnce'
      BY <1>4, <1>1, <1>2, <1>3 DEF FinFlushed, finOthers
    <2> QED
      BY <2>1, <2>2 DEF CompletedInv
  <1>5. CASE FinAbandons(s) \/ FinMarked(s)
    <2>1. CompletedHasReply' /\ SnapshotsAnswered' /\ MarksAnswered'
      BY <1>0, <1>5, ReturnTurn DEF FinAbandons, FinMarked
    <2>2. FinalizerStored' /\ StoredOnce'
      BY <1>5, <1>1, <1>2, <1>3 DEF FinAbandons, FinMarked, FinBack, finOthers
    <2> QED
      BY <2>1, <2>2 DEF CompletedInv
  <1>6. CASE FinFails(s) \/ FinStoreFails(s)
    <2>1. PICK status \in {"failed", "interrupted"} :
            Invoke(FinalOf(s), MarkCall(s, status, FALSE))
      BY <1>6 DEF FinFails, FinStoreFails
    <2>2. CompletedHasReply' /\ SnapshotsAnswered' /\ MarksAnswered'
      <3>1. /\ MarkCall(s, status, FALSE) \in Call
            /\ MarkCall(s, status, FALSE).snap = Null
            /\ MarkCall(s, status, FALSE).status # "completed"
        <4>1. status \in Statuses /\ FALSE \in BOOLEAN
          BY DEF Statuses
        <4> QED
          BY <4>1, CallsTyped, FreshCalls
      <3> QED
        BY <1>0, <1>6, <2>1, <3>1, CallTurn DEF FinFails, FinStoreFails
    <2>3. FinalizerStored' /\ StoredOnce'
      BY <1>6, <1>1, <1>2, <1>3 DEF FinFails, FinStoreFails, FinBack, finOthers
    <2> QED
      BY <2>2, <2>3 DEF CompletedInv
  <1>7. CASE FinProgressed(s)
    <2> DEFINE status == IF fin[s].stopped THEN "interrupted" ELSE "completed"
    <2>1. /\ MarkCall(s, status, FALSE) \in Call
          /\ MarkCall(s, status, FALSE).snap = Null
          /\ MarkCall(s, status, FALSE).status = status
          /\ MarkCall(s, status, FALSE).stream = s
      <3>1. status \in Statuses /\ FALSE \in BOOLEAN
        BY DEF Statuses
      <3> HIDE DEF status
      <3> QED
        BY <3>1, CallsTyped, FreshCalls
    <2>2. status = "completed" => Answered(s)
      BY <1>0, <1>7, NullAssumption
      DEF FinProgressed, FinBack, FinalizerStored, Answered, Finalizer
    <2>3. Invoke(FinalOf(s), MarkCall(s, status, FALSE))
      BY <1>7 DEF FinProgressed
    <2> HIDE DEF status
    <2>4. CompletedHasReply' /\ SnapshotsAnswered' /\ MarksAnswered'
      BY <1>0, <1>7, <2>1, <2>2, <2>3, CallTurn DEF FinProgressed
    <2>5. FinalizerStored' /\ StoredOnce'
      BY <1>7, <1>1, <1>2, <1>3 DEF FinProgressed, FinBack, finOthers
    <2> QED
      BY <2>4, <2>5 DEF CompletedInv
  <1>8. CASE FinResolves(s)
    <2>1. CompletedHasReply' /\ SnapshotsAnswered' /\ MarksAnswered'
      BY <1>0, <1>8, ReturnTurn DEF FinResolves
    <2>2. PICK text \in FinalTexts(s) :
            fin' = [fin EXCEPT ![s].pc = "store", ![s].text = text]
      BY <1>8 DEF FinResolves
    <2>3. ~fin[s].stopped => text.mark # "stopped"
      BY DEF FinalTexts, FinalMark, Txt
    <2>4. /\ fin'[s].pc = "store" /\ fin'[s].text = text
          /\ fin'[s].stopped = fin[s].stopped
          /\ \A x \in Streams : x # s => fin'[x] = fin[x]
      BY <1>0, <2>2 DEF StreamTypeOK, Finalizer
    <2>5. FinalizerStored' /\ StoredOnce'
      BY <1>0, <1>2, <1>8, <2>3, <2>4
      DEF FinResolves, FinBack, finOthers, FinalizerStored, StoredOnce
    <2> QED
      BY <2>1, <2>5 DEF CompletedInv
  <1>9. CASE FinStores(s)
    <2>1. /\ fin[s].pc = "store" /\ reply[s] = Null /\ fin[s].text # Null
          /\ reply' = [reply EXCEPT ![s] = fin[s].text]
          /\ UNCHANGED <<session, call, gen>>
      BY <1>0, <1>9 DEF FinStores, finOthers, StoredOnce, Finalizer
    <2>2. \A x : Answered(x) => Answered(x)'
      BY <1>0, <2>1 DEF Answered, StreamTypeOK
    <2>3. CompletedHasReply' /\ SnapshotsAnswered' /\ MarksAnswered'
      <3>1. CompletedHasReply'
        BY <2>1, <2>2 DEF CompletedInv, CompletedHasReply, Answered
      <3>2. SnapshotsAnswered' /\ MarksAnswered'
        BY <2>1, <2>2 DEF CompletedInv, SnapshotsAnswered, MarksAnswered, Answered
      <3> QED
        BY <3>1, <3>2
    <2>4. /\ fin'[s].pc = "touch" /\ fin'[s].text = fin[s].text
          /\ fin'[s].stopped = fin[s].stopped
          /\ \A x \in Streams : x # s => fin'[x] = fin[x] /\ reply'[x] = reply[x]
          /\ reply'[s] = fin[s].text
      BY <1>0, <1>9, <2>1 DEF FinStores, FinGoes, StreamTypeOK, Finalizer
    <2>5. FinalizerStored' /\ StoredOnce'
      BY <1>0, <1>2, <2>1, <2>4 DEF FinalizerStored, StoredOnce
    <2> QED
      BY <2>3, <2>5 DEF CompletedInv
  <1>10. CASE FinTouches(s)
    <2>1. fin[s].text \in Text
      BY <1>0, <1>10 DEF FinTouches, Finalizer
    <2>2. CompletedHasReply' /\ SnapshotsAnswered' /\ MarksAnswered'
      BY <1>0, <1>10, <2>1, CallTurn, CallsTyped, FreshCalls DEF FinTouches
    <2>3. FinalizerStored' /\ StoredOnce'
      BY <1>10, <1>1, <1>2, <1>3 DEF FinTouches, finOthers
    <2> QED
      BY <2>2, <2>3 DEF CompletedInv
  <1> QED
    BY <1>4, <1>5, <1>6, <1>7, <1>8, <1>9, <1>10 DEF FinDatabase

\* Stops, observers and progress writes: none of them marks completed.
LEMMA CompletedRequests ==
  ASSUME TypeInv, CompletedInv,
         \/ \E c \in Cancels : HandleCancel(c)
         \/ \E o \in Observers : PollEnds(o) \/ PollTick(o) \/ Leave(o)
         \/ \E s \in Streams, mine \in BOOLEAN :
              \/ \E c \in Cancels : CancelAsks(c, s, mine)
              \/ \E o \in Observers : Attach(o, s, mine)
  PROVE  CompletedInv'
PROOF
  <1> USE DEF TypeInv, TypeOK, stores
  <1>0. /\ StreamTypeOK /\ SessionTypeOK
        /\ FinalizerStored /\ StoredOnce
    BY DEF CompletedInv
  \* All but CancelStops leave the generations and the finalizers alone.
  <1>1. ASSUME UNCHANGED <<session, reply, fin, gen>>, NEW t \in Callers,
               \/ Return(t)
               \/ \E c \in Call : c.snap = Null /\ c.status # "completed" /\ Invoke(t, c)
        PROVE  CompletedInv'
    <2>1. CompletedHasReply' /\ SnapshotsAnswered' /\ MarksAnswered'
      BY <1>0, <1>1, CallTurn, ReturnTurn
    <2>2. FinalizerStored' /\ StoredOnce'
      BY <1>0, <1>1, FinalizerKept
    <2> QED
      BY <2>1, <2>2 DEF CompletedInv
  <1>2. \A s \in Streams :
          /\ GetCall(s) \in Call /\ GetCall(s).snap = Null
          /\ GetCall(s).status # "completed"
          /\ MarkCall(s, "interrupted", FALSE) \in Call
          /\ MarkCall(s, "interrupted", FALSE).snap = Null
          /\ MarkCall(s, "interrupted", FALSE).status # "completed"
    BY CallsTyped, FreshCalls DEF Statuses
  <1>3. ASSUME NEW c \in Cancels, CancelRefused(c) \/ CancelMarked(c)
        PROVE  CompletedInv'
    BY <1>3, <1>1, TaskIds DEF CancelRefused, CancelMarked, cancelOthers
  <1>4. ASSUME NEW c \in Cancels, CancelMarks(c)
        PROVE  CompletedInv'
    <2>1. cancel[c].stream \in Streams
      BY <1>4 DEF CancelMarks, Accepted, Requests
    <2> QED
      BY <1>4, <2>1, <1>1, <1>2, TaskIds DEF CancelMarks, cancelOthers
  <1>5. ASSUME NEW c \in Cancels, CancelStops(c)
        PROVE  CompletedInv'
    <2> DEFINE s == cancel[c].stream
    <2>1. s \in Streams
      BY <1>5 DEF CancelStops, Accepted, Requests
    <2>2. /\ gen[s] = "running" /\ gen' = [gen EXCEPT ![s] = "stopped"]
          /\ FinalizerStarts(s, pending[s], TRUE)
          /\ Return(CancelOf(c)) /\ UNCHANGED <<session, reply>>
      BY <1>5 DEF CancelStops, Subscribed, cancelOthers
    <2> HIDE DEF s
    <2>3. CompletedHasReply' /\ SnapshotsAnswered' /\ MarksAnswered'
      BY <1>0, <2>2, ReturnTurn, TaskIds
    <2>4. PICK f \in Finalizer : f.pc = "flush" /\ fin' = [fin EXCEPT ![s] = f]
      <3>1. Len(writes[s]) + 1 \in Nat
        BY <1>0, <2>1 DEF StreamTypeOK
      <3> QED
        BY <2>2, <3>1 DEF FinalizerStarts, Finalizer, FinStates
    <2>5. FinalizerStored' /\ StoredOnce'
      BY <1>0, <2>1, <2>2, <2>4, FinalizerBegins
    <2> QED
      BY <2>3, <2>5 DEF CompletedInv
  <1>6. ASSUME NEW c \in Cancels, NEW s \in Streams, NEW mine \in BOOLEAN,
               CancelAsks(c, s, mine)
        PROVE  CompletedInv'
    BY <1>6, <1>1, <1>2, TaskIds DEF CancelAsks, cancelOthers
  <1>7. ASSUME NEW o \in Observers, PollEnds(o)
        PROVE  CompletedInv'
    BY <1>7, <1>1, TaskIds DEF PollEnds, PollRejected, PollAnswered, observerOthers
  <1>8. ASSUME NEW o \in Observers, PollTick(o)
        PROVE  CompletedInv'
    <2>1. observer[o].stream \in Streams
      BY <1>8 DEF PollTick, Requests
    <2> QED
      BY <1>8, <2>1, <1>1, <1>2, TaskIds DEF PollTick, observerOthers
  <1>9. ASSUME NEW o \in Observers, NEW s \in Streams, NEW mine \in BOOLEAN,
               Attach(o, s, mine)
        PROVE  CompletedInv'
    BY <1>9, <1>1, <1>2, TaskIds DEF Attach, observerOthers
  <1>10. ASSUME NEW o \in Observers, Leave(o)
         PROVE  CompletedInv'
    <2>1. CompletedHasReply' /\ SnapshotsAnswered' /\ MarksAnswered'
      BY <1>10, NoCallTurn DEF Leave, sessionVars, observerOthers
    <2>2. FinalizerStored' /\ StoredOnce'
      BY <1>0, <1>10, FinalizerKept DEF Leave, observerOthers
    <2> QED
      BY <2>1, <2>2 DEF CompletedInv
  <1> QED
    BY <1>3, <1>4, <1>5, <1>6, <1>7, <1>8, <1>9, <1>10 DEF HandleCancel

\* Every step keeps completed sessions, and all that may make one, answered.
LEMMA CompletedStep ==
  ASSUME TypeInv, CompletedInv, [Next]_vars
  PROVE  CompletedInv'
PROOF
  <1>1. CASE Redis
    BY <1>1, CompletedServe DEF Redis
  <1>2. CASE Expiry
    <2>1. CompletedHasReply'
      BY <1>2
      DEF Expiry, Expire, streamVars, CompletedInv, CompletedHasReply,
          TypeInv, TypeOK, SessionTypeOK
    <2> QED
      BY <1>2, <2>1
      DEF Expiry, Expire, streamVars, CompletedInv, SnapshotsAnswered,
          MarksAnswered, FinalizerStored, StoredOnce, Answered
  <1>3. CASE Continuation
    <2>1. ASSUME NEW s \in Streams, FailMarked(s)
          PROVE  CompletedInv'
      <3>1. CASE Return(FailOf(s)) /\ UNCHANGED <<stores, streamVars>>
        <4>1. CompletedHasReply' /\ SnapshotsAnswered' /\ MarksAnswered'
          BY <3>1, ReturnTurn, TaskIds DEF stores, streamVars, TypeInv, TypeOK
        <4>2. FinalizerStored' /\ StoredOnce'
          BY <3>1, FinalizerKept DEF streamVars, CompletedInv, TypeInv, TypeOK
        <4> QED
          BY <4>1, <4>2 DEF CompletedInv
      <3>2. CASE ProcessEnds
        BY <3>2, CompletedProcessEnds
      <3> QED
        BY <2>1, <3>1, <3>2 DEF FailMarked
    <2>2. ASSUME NEW s \in Streams, FinDies(s)
          PROVE  CompletedInv'
      BY <2>2, CompletedProcessEnds DEF FinDies
    <2> QED
      BY <1>3, <2>1, <2>2, CompletedGeneration, CompletedFinalizer,
         CompletedRequests
      DEF Continuation, FinGoesOn
  <1>4. CASE Event
    BY <1>4, CompletedGeneration, CompletedFinalizer, CompletedRequests DEF Event
  <1>5. CASE Crash
    BY <1>5, CompletedProcessEnds DEF Crash
  <1>6. CASE UNCHANGED vars
    BY <1>6
    DEF vars, sessionVars, streamVars, CompletedInv, CompletedHasReply,
        SnapshotsAnswered, MarksAnswered, FinalizerStored, StoredOnce, Answered
  <1> QED
    BY <1>1, <1>2, <1>3, <1>4, <1>5, <1>6 DEF Next

\* The inductive form of the next theorem: also a snapshot that a call holds, and a
\* final mark that is on its way, are of a stream whose message is stored.
THEOREM CompletedInvariant == Spec => []CompletedInv
PROOF
  <1>1. Init => CompletedInv
    BY FreshCalls
    DEF Init, SessionInit, CompletedInv, CompletedHasReply, SnapshotsAnswered,
        MarksAnswered, FinalizerStored, StoredOnce, NoFinalizer
  <1>2. TypeInv /\ CompletedInv /\ [Next]_vars => CompletedInv'
    BY CompletedStep
  <1> QED
    BY <1>1, <1>2, TypeInvariant, PTL DEF Spec

\* A session that says completed has its assistant message in the database,
\* whatever the order in which the finalizer, the failure mark, the progress
\* writes and the cancel requests save what they made of older snapshots.
THEOREM CompletedAlwaysHasReply == Spec => []CompletedHasReply
PROOF
  <1>1. CompletedInv => CompletedHasReply
    BY DEF CompletedInv
  <1> QED
    BY <1>1, CompletedInvariant, PTL
-----------------------------------------------------------------------------
(* ConversationStream implements ReplyPromise.                             *)

\* A step that neither moves a stream nor stores a message is a stutter.
LEMMA PromiseStutters ==
  ASSUME UNCHANGED <<len, reply>>,
         \A s \in Streams : PromisePhase(s)' = PromisePhase(s)
  PROVE  UNCHANGED Promise!vars
PROOF
  BY DEF Promise!vars

\* A step that moves one stream.
LEMMA PhaseMoves ==
  ASSUME NEW s \in Streams, NEW from, NEW to,
         PromisePhase(s) \in from, PromisePhase(s)' = to,
         \A x \in Streams : x # s => PromisePhase(x)' = PromisePhase(x)
  PROVE  Promise!Moves(s, from, to)
PROOF
  BY DEF Promise!Moves

\* A step that is about one stream keeps what the invariant says of the others, and
\* their phases.
LEMMA OthersUntouched ==
  ASSUME TypeInv, PromiseInv, NEW s \in Streams, FinalizedAsEnded(s)',
         \A x \in Streams : x # s =>
           /\ gen'[x] = gen[x] /\ len'[x] = len[x]
           /\ fin'[x] = fin[x] /\ reply'[x] = reply[x],
         cancelled' \subseteq cancelled \cup {s},
         Known(s) => Known(s)',
         \A c \in Cancels : cancel'[c].st # "idle" =>
           \/ cancel[c].st # "idle" /\ cancel'[c].stream = cancel[c].stream
           \/ cancel'[c].stream = s /\ Known(s)
  PROVE  /\ PromiseInv'
         /\ \A x \in Streams : x # s => PromisePhase(x)' = PromisePhase(x)
PROOF
  <1>1. ASSUME NEW x \in Streams, x # s
        PROVE  FinalizedAsEnded(x)' /\ PromisePhase(x)' = PromisePhase(x)
    <2>1. /\ FinalizedAsEnded(x)
          /\ SetUp(x)' = SetUp(x) /\ FinalTexts(x)' = FinalTexts(x)
      BY <1>1 DEF PromiseInv, SetUp, FinalTexts, FinalMark
    <2>2. FinalizedAsEnded(x)'
      BY <1>1, <2>1 DEF FinalizedAsEnded
    <2>3. PromisePhase(x)' = PromisePhase(x)
      BY <1>1 DEF PromisePhase, Lost
    <2> QED
      BY <2>2, <2>3
  <1>2. ASSUME NEW c \in Cancels, cancel'[c].st # "idle"
        PROVE  Known(cancel[c].stream)'
    BY <1>2 DEF Known, PromiseInv, TypeInv, Requests
  <1> QED
    BY <1>1, <1>2 DEF PromiseInv

\* A step of the session service, of a progress write or of an observer, which leaves
\* the generations, the finalizers and the messages alone.
LEMMA PromiseUntouched ==
  ASSUME TypeInv, PromiseInv, UNCHANGED <<gen, len, fin, reply, cancelled>>,
         \A c \in Cancels : cancel'[c].st # "idle" =>
           \/ cancel[c].st # "idle" /\ cancel'[c].stream = cancel[c].stream
           \/ cancel'[c].stream \in Streams /\ Known(cancel'[c].stream)
  PROVE  PromiseInv' /\ UNCHANGED Promise!vars
PROOF
  <1>1. ASSUME NEW s \in Streams
        PROVE  FinalizedAsEnded(s)' /\ PromisePhase(s)' = PromisePhase(s)
    <2>1. FinalizedAsEnded(s)'
      BY DEF PromiseInv, FinalizedAsEnded, SetUp, FinalTexts, FinalMark
    <2>2. PromisePhase(s)' = PromisePhase(s)
      BY DEF PromisePhase, Lost
    <2> QED
      BY <2>1, <2>2
  <1>2. ASSUME NEW c \in Cancels, cancel'[c].st # "idle"
        PROVE  Known(cancel[c].stream)'
    BY <1>2 DEF Known, PromiseInv
  <1> QED
    BY <1>1, <1>2, PromiseStutters DEF PromiseInv

\* The end of the process loses what is being generated or settled.
LEMMA PromiseProcessEnds ==
  ASSUME TypeInv, CompletedInv, PromiseInv, ProcessEnds
  PROVE  PromiseInv' /\ Promise!Next
PROOF
  <1> DEFINE idle == {s \in Streams : gen[s] = "creating"}
  <1>1. ASSUME NEW s \in Streams
        PROVE  /\ FinalizedAsEnded(s)'
               /\ s \in idle => PromisePhase(s) = "idle"
               /\ PromisePhase(s)'
                    = IF PromisePhase(s) = "idle" /\ s \notin idle
                      THEN "idle" ELSE "settled"
    <2>1. /\ gen[s] \in GenStates /\ fin[s] \in Finalizer
          /\ FinalizedAsEnded(s)
          /\ fin[s].pc = "idle" => reply[s] = Null
      BY DEF TypeInv, TypeOK, StreamTypeOK, PromiseInv, CompletedInv, StoredOnce
    <2>2. /\ gen'[s] = IF gen[s] \in {"creating", "running"} THEN "lost" ELSE gen[s]
          /\ fin'[s] = IF fin[s].pc \in {"idle", "done"} THEN fin[s]
                       ELSE [fin[s] EXCEPT !.pc = "lost"]
          /\ reply'[s] = reply[s] /\ len'[s] = len[s] /\ cancelled' = {}
      BY DEF ProcessEnds
    <2>3. /\ fin'[s].pc = IF fin[s].pc \in {"idle", "done"} THEN fin[s].pc ELSE "lost"
          /\ fin'[s].stopped = fin[s].stopped
      BY <2>1, <2>2 DEF Finalizer
    <2>4. FinalizedAsEnded(s)'
      BY <2>1, <2>2, <2>3 DEF FinalizedAsEnded
    <2>5. s \in idle => PromisePhase(s) = "idle"
      BY <2>1 DEF PromisePhase, Lost, FinalizedAsEnded
    <2>6. PromisePhase(s)' = IF PromisePhase(s) = "idle" /\ s \notin idle
                             THEN "idle" ELSE "settled"
      BY <2>1, <2>2, <2>3 DEF PromisePhase, Lost, FinalizedAsEnded, GenStates
    <2> QED
      BY <2>4, <2>5, <2>6
  <1>2. ASSUME NEW c \in Cancels, cancel'[c].st # "idle"
        PROVE  Known(cancel[c].stream)'
    <2>1. cancel[c].st # "idle" /\ cancel'[c].stream = cancel[c].stream
      BY <1>2 DEF ProcessEnds, TypeInv, TypeOK, StreamTypeOK, CancelRequest
    <2> QED
      BY <2>1 DEF ProcessEnds, Known, PromiseInv, TypeInv, Requests
  <1>3. Promise!Lose
    <2>1. idle \in SUBSET {s \in Streams : PromisePhase(s) = "idle"}
      BY <1>1
    <2>2. UNCHANGED <<len, reply>>
      BY DEF ProcessEnds
    <2> QED
      BY <1>1, <2>1, <2>2 DEF Promise!Lose
  <1> QED
    BY <1>1, <1>2, <1>3 DEF PromiseInv, Promise!Next

\* A running generation ends, and its finalizer is started knowing how.
LEMMA PromiseEnds ==
  ASSUME TypeInv, CompletedInv, PromiseInv, NEW s \in Streams, gen[s] = "running",
         NEW how \in {"done", "error", "stopped"}, gen' = [gen EXCEPT ![s] = how],
         fin'[s].pc \in {"flush", "check"}, fin'[s].stopped <=> how = "stopped",
         \A x \in Streams : x # s => fin'[x] = fin[x],
         cancelled' = cancelled \ {s}, UNCHANGED <<len, reply>>,
         \A c \in Cancels : cancel'[c].st # "idle" =>
           cancel[c].st # "idle" /\ cancel'[c].stream = cancel[c].stream
  PROVE  PromiseInv' /\ Promise!Next
PROOF
  <1>1. /\ gen \in [Streams -> GenStates]
        /\ FinalizedAsEnded(s) /\ fin[s].pc = "idle" /\ reply[s] = Null
    BY DEF TypeInv, TypeOK, StreamTypeOK, PromiseInv, CompletedInv, StoredOnce
  <1>2. FinalizedAsEnded(s)'
    BY <1>1 DEF FinalizedAsEnded, SetUp
  <1>3. /\ PromiseInv'
        /\ \A x \in Streams : x # s => PromisePhase(x)' = PromisePhase(x)
    <2>1. /\ \A x \in Streams : x # s => gen'[x] = gen[x]
          /\ Known(s) => Known(s)' /\ cancelled' \subseteq cancelled \cup {s}
      BY <1>1 DEF Known
    <2> QED
      BY <1>2, <2>1, OthersUntouched
  <1>4. PromisePhase(s) \in {"open"} /\ PromisePhase(s)' = how
    BY <1>1 DEF PromisePhase, Lost
  <1>5. Promise!Moves(s, {"open"}, how) /\ how \in Promise!Endings
    BY <1>3, <1>4, PhaseMoves DEF Promise!Endings
  <1>6. Promise!End(s)
    BY <1>5 DEF Promise!End
  <1> QED
    BY <1>3, <1>6 DEF Promise!Next

\* Setting up, the first delta to the last, and the two ends the model has.
LEMMA PromiseGeneration ==
  ASSUME TypeInv, CompletedInv, PromiseInv, NEW s \in Streams,
         Create(s) \/ StartDetachedGeneration(s) \/ Generation(s)
  PROVE  PromiseInv' /\ [Promise!Next]_Promise!vars
PROOF
  <1>0. /\ gen \in [Streams -> GenStates] /\ gen[s] \in GenStates
        /\ fin \in [Streams -> Finalizer] /\ fin[s] \in Finalizer
        /\ len \in [Streams -> 0 .. MaxDeltas] /\ writes \in [Streams -> Seq(Write)]
        /\ FinalizedAsEnded(s)
        /\ SetUp(s) => fin[s].pc = "idle" /\ reply[s] = Null /\ s \notin cancelled
        /\ UNCHANGED <<reply, cancel>>
    BY DEF TypeInv, TypeOK, StreamTypeOK, PromiseInv, FinalizedAsEnded, SetUp,
           CompletedInv, StoredOnce, Create, StartDetachedGeneration, Generation,
           GenDelta, GenDone, GenError
  <1>1. CASE Create(s) \/ StartDetachedGeneration(s)
    <2>1. /\ gen[s] \in {"absent", "creating"} /\ ~Known(s)
          /\ gen' = [gen EXCEPT ![s] = gen'[s]]
          /\ gen'[s] \in {"creating", "running", "rejected"}
          /\ UNCHANGED <<len, fin, cancelled>>
      BY <1>0, <1>1 DEF Create, StartDetachedGeneration, Known
    <2>2. FinalizedAsEnded(s)'
      BY <1>0, <2>1 DEF FinalizedAsEnded, SetUp
    <2>3. /\ PromiseInv'
          /\ \A x \in Streams : x # s => PromisePhase(x)' = PromisePhase(x)
      BY <1>0, <2>1, <2>2, OthersUntouched
    <2>4. /\ PromisePhase(s) \in {"idle"}
          /\ PromisePhase(s)' = IF gen'[s] = "running" THEN "open" ELSE "idle"
      BY <1>0, <2>1 DEF PromisePhase, Lost, SetUp
    <2>5. CASE gen'[s] = "running"
      <3>1. Promise!Open(s)
        BY <1>0, <2>1, <2>3, <2>4, <2>5, PhaseMoves DEF Promise!Open
      <3> QED
        BY <2>3, <3>1 DEF Promise!Next
    <2>6. CASE gen'[s] # "running"
      BY <1>0, <2>1, <2>3, <2>4, <2>6, PromiseStutters
    <2> QED
      BY <2>5, <2>6
  <1>2. CASE GenDelta(s)
    <2>1. /\ gen[s] = "running" /\ len' = [len EXCEPT ![s] = @ + 1]
          /\ UNCHANGED <<gen, fin, cancelled>>
      BY <1>2 DEF GenDelta, Subscribed
    <2>2. FinalizedAsEnded(s)'
      BY <1>0, <2>1 DEF FinalizedAsEnded, SetUp
    <2>3. /\ PromiseInv'
          /\ \A x \in Streams : x # s => PromisePhase(x)' = PromisePhase(x)
      BY <1>0, <2>1, <2>2, OthersUntouched DEF Known
    <2>4. PromisePhase(s) = "open" /\ PromisePhase(s)' = "open"
      BY <1>0, <2>1 DEF PromisePhase, Lost, SetUp
    <2>5. Promise!Send(s)
      BY <1>0, <2>1, <2>3, <2>4 DEF Promise!Send
    <2> QED
      BY <2>3, <2>5 DEF Promise!Next
  <1>3. CASE GenDone(s) \/ GenError(s)
    <2>1. /\ gen[s] = "running" /\ s \notin cancelled
          /\ cancelled' = cancelled \ {s} /\ UNCHANGED len
      BY <1>0, <1>3 DEF GenDone, GenError, Subscribed, FinalizerStarts, SetUp
    <2>2. PICK how \in {"done", "error"} : gen' = [gen EXCEPT ![s] = how]
      BY <1>3 DEF GenDone, GenError
    <2>3. /\ fin'[s].pc \in {"flush", "check"} /\ fin'[s].stopped = FALSE
          /\ \A x \in Streams : x # s => fin'[x] = fin[x]
      <3>1. (s \in cancelled) = FALSE
        BY <2>1
      <3>2. CASE GenDone(s)
        BY <1>0, <3>1, <3>2 DEF GenDone, FinalizerStarts
      <3>3. CASE GenError(s)
        BY <1>0, <3>1, <3>3 DEF GenError
      <3> QED
        BY <1>3, <3>2, <3>3
    <2> QED
      BY <1>0, <2>1, <2>2, <2>3, PromiseEnds
  <1> QED
    BY <1>1, <1>2, <1>3 DEF Generation

\* The finalizer settles the stream with the message of its end, or without one.
LEMMA PromiseFinalizer ==
  ASSUME TypeInv, CompletedInv, PromiseInv, NEW s \in Streams,
         \/ FinFlushed(s) \/ FinAbandons(s) \/ FinFails(s) \/ FinResolves(s)
         \/ FinProgressed(s) \/ FinMarked(s) \/ FinDatabase(s)
  PROVE  PromiseInv' /\ [Promise!Next]_Promise!vars
PROOF
  <1>0. /\ gen \in [Streams -> GenStates] /\ gen[s] \in GenStates
        /\ fin \in [Streams -> Finalizer] /\ fin[s] \in Finalizer
        /\ reply \in [Streams -> Text \cup {Null}]
        /\ FinalizedAsEnded(s)
        /\ fin[s].pc \in {"flush", "check", "store"} => reply[s] = Null
        /\ fin[s].pc \in {"touch", "progress"} => reply[s] = fin[s].text
    BY DEF TypeInv, TypeOK, StreamTypeOK, PromiseInv, CompletedInv, StoredOnce,
           FinalizerStored
  <1>1. UNCHANGED <<gen, len, cancelled, cancel>>
    BY DEF FinFlushed, FinAbandons, FinFails, FinResolves, FinProgressed, FinMarked,
           FinDatabase, FinStores, FinTouches, FinStoreFails, finOthers
  <1>2. /\ fin[s].pc \in {"flush", "check", "store", "touch", "progress", "mark"}
        /\ gen[s] \in Promise!Endings
    BY <1>0
    DEF FinFlushed, FinAbandons, FinFails, FinResolves, FinProgressed, FinMarked,
        FinDatabase, FinStores, FinTouches, FinStoreFails, FinBack,
        FinalizedAsEnded, Promise!Endings
  \* The finalizer goes on, and the others are as they were.
  <1>3. ASSUME fin'[s].pc \in {"check", "store", "touch", "progress", "mark", "done"},
               fin'[s].stopped = fin[s].stopped,
               fin'[s].pc \in {"store", "touch", "progress"}
                 => fin'[s].text \in FinalTexts(s),
               \A x \in Streams : x # s => fin'[x] = fin[x] /\ reply'[x] = reply[x]
        PROVE  /\ PromiseInv'
               /\ \A x \in Streams : x # s => PromisePhase(x)' = PromisePhase(x)
               /\ PromisePhase(s) = IF reply[s] # Null THEN "settled" ELSE gen[s]
               /\ PromisePhase(s)' = IF fin'[s].pc = "done" \/ reply'[s] # Null
                                     THEN "settled" ELSE gen[s]
    <2>1. FinalTexts(s)' = FinalTexts(s)
      BY <1>1, <1>3 DEF FinalTexts, FinalMark
    <2>2. FinalizedAsEnded(s)'
      BY <1>0, <1>1, <1>2, <1>3, <2>1 DEF FinalizedAsEnded, SetUp
    <2>3. /\ PromiseInv'
          /\ \A x \in Streams : x # s => PromisePhase(x)' = PromisePhase(x)
      BY <1>1, <1>3, <2>2, OthersUntouched DEF Known
    <2>4. gen[s] \notin {"lost", "absent", "creating", "rejected", "running"}
      BY <1>2 DEF Promise!Endings
    <2>5. PromisePhase(s) = IF reply[s] # Null THEN "settled" ELSE gen[s]
      BY <1>2, <2>4 DEF PromisePhase, Lost
    <2>6. PromisePhase(s)' = IF fin'[s].pc = "done" \/ reply'[s] # Null
                             THEN "settled" ELSE gen[s]
      BY <1>1, <1>3, <2>4 DEF PromisePhase, Lost
    <2> QED
      BY <2>3, <2>5, <2>6
  <1>4. ASSUME NEW pc, FinGoes(s, pc)
        PROVE  /\ fin'[s].pc = pc /\ fin'[s].text = fin[s].text
               /\ fin'[s].stopped = fin[s].stopped
               /\ \A x \in Streams : x # s => fin'[x] = fin[x]
    BY <1>0, <1>4 DEF FinGoes, Finalizer
  <1>5. fin[s].pc \in {"store", "touch", "progress"} => fin[s].text \in FinalTexts(s)
    BY <1>0 DEF FinalizedAsEnded
  <1>6. CASE FinFlushed(s) \/ FinFails(s) \/ FinTouches(s) \/ FinStoreFails(s)
               \/ FinProgressed(s)
    <2>1. PICK pc \in {"check", "mark", "progress"} :
            /\ FinGoes(s, pc) /\ UNCHANGED reply
            /\ pc = "progress" => fin[s].pc = "touch"
      BY <1>6
      DEF FinFlushed, FinFails, FinTouches, FinStoreFails, FinProgressed
    <2>2. PromiseInv' /\ \A x \in Streams : PromisePhase(x)' = PromisePhase(x)
      BY <2>1, <1>3, <1>4, <1>5
    <2> QED
      BY <1>1, <2>1, <2>2, PromiseStutters
  <1>7. CASE FinResolves(s)
    <2>1. PICK text \in FinalTexts(s) :
            fin' = [fin EXCEPT ![s].pc = "store", ![s].text = text]
      BY <1>7 DEF FinResolves
    <2>2. /\ fin'[s].pc = "store" /\ fin'[s].text = text
          /\ fin'[s].stopped = fin[s].stopped
          /\ \A x \in Streams : x # s => fin'[x] = fin[x]
      BY <1>0, <2>1 DEF Finalizer
    <2>3. UNCHANGED reply
      BY <1>7 DEF FinResolves
    <2>4. PromiseInv' /\ \A x \in Streams : PromisePhase(x)' = PromisePhase(x)
      BY <2>2, <2>3, <1>3
    <2> QED
      BY <1>1, <2>3, <2>4, PromiseStutters
  <1>8. CASE FinAbandons(s) \/ FinMarked(s)
    <2>1. FinGoes(s, "done") /\ UNCHANGED reply
      BY <1>8 DEF FinAbandons, FinMarked
    <2>2. /\ PromiseInv' /\ PromisePhase(s)' = "settled"
          /\ \A x \in Streams : x # s => PromisePhase(x)' = PromisePhase(x)
          /\ PromisePhase(s) = IF reply[s] # Null THEN "settled" ELSE gen[s]
      BY <2>1, <1>3, <1>4
    <2>3. CASE reply[s] = Null
      <3>1. Promise!GiveUp(s)
        BY <1>1, <1>2, <2>1, <2>2, <2>3, PhaseMoves DEF Promise!GiveUp
      <3> QED
        BY <2>2, <3>1 DEF Promise!Next
    <2>4. CASE reply[s] # Null
      BY <1>1, <2>1, <2>2, <2>4, PromiseStutters
    <2> QED
      BY <2>3, <2>4
  <1>9. CASE FinStores(s)
    <2>1. /\ fin[s].pc = "store" /\ reply[s] = Null /\ FinGoes(s, "touch")
          /\ reply' = [reply EXCEPT ![s] = fin[s].text]
          /\ fin[s].text # Null /\ fin[s].text \in FinalTexts(s)
      BY <1>0, <1>5, <1>9 DEF FinStores, Finalizer
    <2>2. /\ PromiseInv' /\ PromisePhase(s) = gen[s] /\ PromisePhase(s)' = "settled"
          /\ \A x \in Streams : x # s => PromisePhase(x)' = PromisePhase(x)
      BY <1>0, <2>1, <1>3, <1>4
    <2>3. FinalMark(s) = Promise!MarkOf(gen[s])
      BY <1>0, <1>2, <2>1
      DEF FinalMark, Promise!MarkOf, FinalizedAsEnded, Promise!Endings
    <2>4. fin[s].text \in Promise!Messages(PromisePhase(s), len[s])
      BY <2>1, <2>2, <2>3 DEF FinalTexts, Txt, Promise!Messages
    <2>5. Promise!Answer(s)
      BY <1>1, <1>2, <2>1, <2>2, <2>4, PhaseMoves DEF Promise!Answer
    <2> QED
      BY <2>2, <2>5 DEF Promise!Next
  <1> QED
    BY <1>6, <1>7, <1>8, <1>9 DEF FinDatabase
\* A stop ends a running generation; a stop that comes too late to end it and an
\* observer are none of the promise's business.
LEMMA PromiseRequests ==
  ASSUME TypeInv, CompletedInv, PromiseInv,
         \/ \E c \in Cancels : HandleCancel(c)
         \/ \E o \in Observers : PollEnds(o) \/ PollTick(o) \/ Leave(o)
         \/ \E s \in Streams, mine \in BOOLEAN :
              \/ \E c \in Cancels : CancelAsks(c, s, mine)
              \/ \E o \in Observers : Attach(o, s, mine)
  PROVE  PromiseInv' /\ [Promise!Next]_Promise!vars
PROOF
  <1>0. /\ gen \in [Streams -> GenStates] /\ fin \in [Streams -> Finalizer]
        /\ writes \in [Streams -> Seq(Write)]
        /\ cancel \in [Cancels -> CancelRequest] /\ Requests
    BY DEF TypeInv, TypeOK, StreamTypeOK
  <1>1. ASSUME NEW c \in Cancels, CancelRefused(c) \/ CancelMarked(c)
        PROVE  PromiseInv' /\ [Promise!Next]_Promise!vars
    <2>1. /\ UNCHANGED <<gen, len, fin, reply, cancelled>>
          /\ cancel[c].st # "idle" /\ cancel' = [cancel EXCEPT ![c].st = "done"]
      BY <1>1 DEF CancelRefused, CancelMarked, cancelOthers
    <2>2. \A x \in Cancels : cancel'[x].st # "idle" =>
            cancel[x].st # "idle" /\ cancel'[x].stream = cancel[x].stream
      BY <1>0, <2>1 DEF CancelRequest
    <2> QED
      BY <2>1, <2>2, PromiseUntouched
  <1>2. ASSUME NEW c \in Cancels, CancelStops(c)
        PROVE  PromiseInv' /\ [Promise!Next]_Promise!vars
    <2> DEFINE s == cancel[c].stream
    <2>1. /\ s \in Streams /\ gen[s] = "running" /\ cancel[c].st # "idle"
          /\ gen' = [gen EXCEPT ![s] = "stopped"]
          /\ FinalizerStarts(s, pending[s], TRUE)
          /\ cancel' = [cancel EXCEPT ![c].st = "done", ![c].how = "stop"]
          /\ UNCHANGED <<len, reply>>
      BY <1>0, <1>2 DEF CancelStops, Accepted, Requests, Subscribed, cancelOthers
    <2>2. \A x \in Cancels : cancel'[x].st # "idle" =>
            cancel[x].st # "idle" /\ cancel'[x].stream = cancel[x].stream
      BY <1>0, <2>1 DEF CancelRequest
    <2> HIDE DEF s
    <2>3. /\ fin'[s].pc = "flush" /\ fin'[s].stopped = TRUE
          /\ \A x \in Streams : x # s => fin'[x] = fin[x]
          /\ cancelled' = cancelled \ {s}
      BY <1>0, <2>1 DEF FinalizerStarts
    <2> QED
      BY <2>1, <2>2, <2>3, PromiseEnds
  <1>3. ASSUME NEW c \in Cancels, CancelMarks(c)
        PROVE  PromiseInv' /\ [Promise!Next]_Promise!vars
    <2>1. PICK s \in Streams :
          /\ s = cancel[c].stream /\ gen[s] # "running" /\ cancel[c].st # "idle"
          /\ cancelled' = cancelled \cup {s}
          /\ cancel' = [cancel EXCEPT ![c].st = "marking", ![c].how = "mark"]
          /\ UNCHANGED <<gen, len, fin, reply>>
      BY <1>0, <1>3 DEF CancelMarks, Accepted, Requests, Subscribed, cancelOthers
    <2>2. \A x \in Cancels : cancel'[x].st # "idle" =>
            cancel[x].st # "idle" /\ cancel'[x].stream = cancel[x].stream
      BY <1>0, <2>1 DEF CancelRequest
    <2>3. Known(s) /\ ~SetUp(s)
      BY <2>1 DEF PromiseInv, Known, SetUp
    <2>4. FinalizedAsEnded(s)'
      BY <2>1, <2>3
      DEF PromiseInv, FinalizedAsEnded, SetUp, FinalTexts, FinalMark
    <2>5. /\ PromiseInv'
          /\ \A x \in Streams : x # s => PromisePhase(x)' = PromisePhase(x)
      BY <2>1, <2>2, <2>4, OthersUntouched DEF Known
    <2>6. PromisePhase(s)' = PromisePhase(s)
      BY <2>1 DEF PromisePhase, Lost
    <2> QED
      BY <2>1, <2>5, <2>6, PromiseStutters
  <1>4. ASSUME NEW c \in Cancels, NEW s \in Streams, NEW mine \in BOOLEAN,
               CancelAsks(c, s, mine)
        PROVE  PromiseInv' /\ [Promise!Next]_Promise!vars
    <2>1. /\ UNCHANGED <<gen, len, fin, reply, cancelled>> /\ Known(s)
          /\ \A x \in Cancels : x # c => cancel'[x] = cancel[x]
          /\ cancel'[c].stream = s
      BY <1>0, <1>4 DEF CancelAsks, cancelOthers
    <2> QED
      BY <2>1, PromiseUntouched
  <1>5. ASSUME NEW o \in Observers,
               \/ PollEnds(o) \/ PollTick(o) \/ Leave(o)
               \/ \E s \in Streams, mine \in BOOLEAN : Attach(o, s, mine)
        PROVE  PromiseInv' /\ [Promise!Next]_Promise!vars
    <2>1. PollEnds(o) => UNCHANGED observerOthers
      BY DEF PollEnds, PollRejected, PollAnswered
    <2>2. PollTick(o) \/ Leave(o) => UNCHANGED observerOthers
      BY DEF PollTick, Leave
    <2>3. ASSUME NEW s \in Streams, NEW mine \in BOOLEAN, Attach(o, s, mine)
          PROVE  UNCHANGED <<gen, len, fin, reply, cancelled, cancel>>
      BY <2>3, Zenon DEF Attach, observerOthers
    <2>4. UNCHANGED <<gen, len, fin, reply, cancelled, cancel>>
      BY <1>5, <2>1, <2>2, <2>3 DEF observerOthers
    <2> QED
      BY <2>4, PromiseUntouched
  <1> QED
    BY <1>1, <1>2, <1>3, <1>4, <1>5 DEF HandleCancel

\* Every step of the service is one of the promise, or none.
LEMMA PromiseStep ==
  ASSUME TypeInv, CompletedInv, PromiseInv, [Next]_vars
  PROVE  PromiseInv' /\ [Promise!Next]_Promise!vars
PROOF
  <1>1. ASSUME UNCHANGED <<gen, len, fin, reply, cancelled, cancel>>
        PROVE  PromiseInv' /\ [Promise!Next]_Promise!vars
    BY <1>1, PromiseUntouched
  <1>2. CASE Redis \/ Expiry \/ UNCHANGED vars
    BY <1>1, <1>2 DEF Redis, Expiry, vars, streamVars
  <1>3. CASE Crash
    BY <1>3, PromiseProcessEnds DEF Crash
  <1>4. ASSUME NEW s \in Streams,
               \/ TimerFires(s)
               \/ \E n \in DOMAIN writes[s] : WriteStarts(s, n) \/ WriteEnds(s, n)
        PROVE  PromiseInv' /\ [Promise!Next]_Promise!vars
    <2>1. CASE TimerFires(s)
      BY <1>1, <2>1 DEF TimerFires
    <2>2. ASSUME NEW n \in DOMAIN writes[s], WriteStarts(s, n) \/ WriteEnds(s, n)
          PROVE  UNCHANGED <<gen, len, fin, reply, cancelled, cancel>>
      BY <2>2 DEF WriteStarts, WriteEnds
    <2> QED
      BY <1>1, <1>4, <2>1, <2>2
  <1>5. ASSUME NEW s \in Streams, FailMarked(s) \/ FinDies(s)
        PROVE  PromiseInv' /\ [Promise!Next]_Promise!vars
    <2>1. ProcessEnds \/ UNCHANGED streamVars
      BY <1>5 DEF FailMarked, FinDies
    <2> QED
      BY <1>1, <2>1, PromiseProcessEnds DEF streamVars
  <1>6. CASE Continuation
    BY <1>4, <1>5, <1>6, PromiseGeneration, PromiseFinalizer, PromiseRequests
    DEF Continuation, FinGoesOn
  <1>7. CASE Event
    BY <1>4, <1>7, PromiseGeneration, PromiseFinalizer, PromiseRequests DEF Event
  <1> QED
    BY <1>2, <1>3, <1>6, <1>7 DEF Next

\* Whatever stops, faults, stale snapshots and crashes happen, each stream is settled
\* at most once, with a message that holds all the model had sent and says how it
\* ended (or was withheld), or with none: the service implements ReplyPromise.
THEOREM StreamKeepsPromise == Spec => KeepsPromise
PROOF
  <1>1. Init => PromiseInv /\ Promise!Init
    BY DEF Init, PromiseInv, FinalizedAsEnded, NoFinalizer, NoCancel, SetUp,
           PromisePhase, Lost, Promise!Init
  <1>2. TypeInv /\ CompletedInv /\ PromiseInv /\ [Next]_vars
          => PromiseInv' /\ [Promise!Next]_Promise!vars
    BY PromiseStep
  <1> QED
    BY <1>1, <1>2, TypeInvariant, CompletedInvariant, PTL
    DEF Spec, KeepsPromise, Promise!Spec
-----------------------------------------------------------------------------
(* The stored message is faithful.                                         *)

\* A step that touches a stream only while it is set up or running, or not at all,
\* leaves its message what the finalizer resolved.
LEMMA ReplyKept ==
  ASSUME TypeInv, CompletedInv, ReplyInv, NEW s \in Streams, reply'[s] = reply[s],
         \/ SetUp(s)
         \/ gen'[s] = gen[s] /\ len'[s] = len[s] /\ fin'[s].stopped = fin[s].stopped
  PROVE  reply'[s] # Null => reply'[s] \in FinalTexts(s)'
PROOF
  <1>1. SetUp(s) => reply[s] = Null
    BY DEF CompletedInv, StoredOnce, SetUp
  <1> QED
    BY <1>1 DEF ReplyInv, FinalTexts, FinalMark

\* Of a request, in a step: one that has stopped a stream stays what it is, and one that
\* has done nothing yet says so.
StopRemembered(c) ==
  \/ /\ cancel'[c].stream = cancel[c].stream /\ cancel'[c].how = cancel[c].how
     /\ cancel'[c].st \in {"idle", "reading"} => cancel'[c].st = cancel[c].st
  \/ /\ cancel[c].how # "stop"
     /\ cancel'[c].st \in {"idle", "reading"} => cancel'[c].how = "nothing"

\* A stopped stream keeps the request that stopped it.
LEMMA StopsKept ==
  ASSUME TypeInv, ReplyInv,
         \A s \in Streams : gen'[s] = "stopped" => gen[s] = "stopped",
         \A c \in Cancels : StopRemembered(c)
  PROVE  /\ \A s \in Streams : gen'[s] = "stopped" => CancelledBy(s, {"stop"})'
         /\ \A c \in Cancels :
              cancel'[c].st \in {"idle", "reading"} => cancel'[c].how = "nothing"
PROOF
  <1>1. ASSUME NEW s \in Streams, gen'[s] = "stopped"
        PROVE  CancelledBy(s, {"stop"})'
    <2>1. PICK c \in Cancels : cancel[c].stream = s /\ cancel[c].how = "stop"
      BY <1>1 DEF ReplyInv, CancelledBy
    <2>2. cancel'[c].stream = s /\ cancel'[c].how = "stop"
      BY <2>1 DEF StopRemembered
    <2> QED
      BY <2>2 DEF CancelledBy
  <1>2. ASSUME NEW c \in Cancels, cancel'[c].st \in {"idle", "reading"}
        PROVE  cancel'[c].how = "nothing"
    BY <1>2 DEF ReplyInv, StopRemembered
  <1> QED
    BY <1>1, <1>2

\* A step that is not about the generations, the finalizers and the messages.
LEMMA ReplyUntouched ==
  ASSUME TypeInv, CompletedInv, ReplyInv, UNCHANGED <<gen, len, fin, reply>>,
         \A c \in Cancels : StopRemembered(c)
  PROVE  ReplyInv'
PROOF
  <1>1. \A s \in Streams : reply'[s] # Null => reply'[s] \in FinalTexts(s)'
    BY ReplyKept
  <1> QED
    BY <1>1, StopsKept DEF ReplyInv

\* The end of the process.
LEMMA ReplyProcessEnds ==
  ASSUME TypeInv, CompletedInv, ReplyInv, ProcessEnds
  PROVE  ReplyInv'
PROOF
  <1>0. /\ gen \in [Streams -> GenStates] /\ fin \in [Streams -> Finalizer]
        /\ cancel \in [Cancels -> CancelRequest]
    BY DEF TypeInv, TypeOK, StreamTypeOK
  <1>1. ASSUME NEW s \in Streams
        PROVE  reply'[s] # Null => reply'[s] \in FinalTexts(s)'
    <2>1. /\ gen'[s] = gen[s] \/ SetUp(s)
          /\ fin'[s].stopped = fin[s].stopped
          /\ UNCHANGED <<len, reply>>
      BY <1>0 DEF ProcessEnds, SetUp, Finalizer
    <2> QED
      BY <2>1, ReplyKept
  <1>2. \A s \in Streams : gen'[s] = "stopped" => gen[s] = "stopped"
    BY DEF ProcessEnds
  <1>3. ASSUME NEW c \in Cancels
        PROVE  StopRemembered(c)
    BY <1>0 DEF ProcessEnds, CancelRequest, StopRemembered
  <1> QED
    BY <1>1, <1>2, <1>3, StopsKept DEF ReplyInv

\* What the model sends, and its two ends.
LEMMA ReplyGeneration ==
  ASSUME TypeInv, CompletedInv, ReplyInv, NEW s \in Streams,
         Create(s) \/ StartDetachedGeneration(s) \/ Generation(s)
  PROVE  ReplyInv'
PROOF
  <1>0. /\ gen \in [Streams -> GenStates] /\ fin \in [Streams -> Finalizer]
        /\ len \in [Streams -> 0 .. MaxDeltas]
    BY DEF TypeInv, TypeOK, StreamTypeOK
  <1>1. /\ SetUp(s) /\ UNCHANGED <<reply, cancel>> /\ gen'[s] # "stopped"
        /\ \A x \in Streams : x # s => gen'[x] = gen[x] /\ len'[x] = len[x]
    BY <1>0
    DEF Create, StartDetachedGeneration, Generation, GenDelta, GenDone, GenError,
        Subscribed, SetUp
  <1>2. \A x \in Streams : x # s => fin'[x] = fin[x]
    BY <1>0
    DEF Create, StartDetachedGeneration, Generation, GenDelta, GenDone, GenError,
        FinalizerStarts
  <1>3. \A x \in Streams : reply'[x] # Null => reply'[x] \in FinalTexts(x)'
    BY <1>1, <1>2, ReplyKept
  <1> QED
    BY <1>1, <1>3, StopsKept DEF ReplyInv, StopRemembered

\* The finalizer stores the message it has resolved.
LEMMA ReplyFinalizer ==
  ASSUME TypeInv, CompletedInv, PromiseInv, ReplyInv, NEW s \in Streams,
         \/ FinFlushed(s) \/ FinAbandons(s) \/ FinFails(s) \/ FinResolves(s)
         \/ FinProgressed(s) \/ FinMarked(s) \/ FinDatabase(s)
  PROVE  ReplyInv'
PROOF
  <1>0. /\ fin \in [Streams -> Finalizer] /\ reply \in [Streams -> Text \cup {Null}]
        /\ FinalizedAsEnded(s)
    BY DEF TypeInv, TypeOK, StreamTypeOK, PromiseInv
  <1>1. UNCHANGED <<gen, len, cancel>>
    BY DEF FinFlushed, FinAbandons, FinFails, FinResolves, FinProgressed, FinMarked,
           FinDatabase, FinStores, FinTouches, FinStoreFails, finOthers
  <1>2. ASSUME NEW x \in Streams
        PROVE  fin'[x].stopped = fin[x].stopped
    <2>1. CASE FinResolves(s)
      <3>1. PICK text \in FinalTexts(s) :
              fin' = [fin EXCEPT ![s].pc = "store", ![s].text = text]
        BY <2>1 DEF FinResolves
      <3> QED
        BY <1>0, <3>1 DEF Finalizer
    <2>2. CASE ~FinResolves(s)
      <3>1. PICK pc : FinGoes(s, pc)
        BY <2>2
        DEF FinFlushed, FinAbandons, FinFails, FinProgressed, FinMarked,
            FinDatabase, FinStores, FinTouches, FinStoreFails
      <3> QED
        BY <1>0, <3>1 DEF FinGoes, Finalizer
    <2> QED
      BY <2>1, <2>2
  <1>3. ASSUME NEW x \in Streams
        PROVE  reply'[x] # Null => reply'[x] \in FinalTexts(x)'
    <2>1. CASE reply'[x] = reply[x]
      BY <1>1, <1>2, <2>1, ReplyKept
    <2>2. CASE reply'[x] # reply[x]
      <3>1. x = s /\ reply'[s] = fin[s].text /\ fin[s].pc = "store"
        BY <1>0, <2>2
        DEF FinFlushed, FinAbandons, FinFails, FinResolves, FinProgressed,
            FinMarked, FinDatabase, FinStores, FinTouches, FinStoreFails
      <3>2. FinalTexts(s)' = FinalTexts(s)
        BY <1>1, <1>2 DEF FinalTexts, FinalMark
      <3> QED
        BY <1>0, <3>1, <3>2 DEF FinalizedAsEnded
    <2> QED
      BY <2>1, <2>2
  <1> QED
    BY <1>1, <1>3, StopsKept DEF ReplyInv, StopRemembered

\* Requests: a stop is the only one that reaches a generation.
LEMMA ReplyRequests ==
  ASSUME TypeInv, CompletedInv, ReplyInv,
         \/ \E c \in Cancels : HandleCancel(c)
         \/ \E o \in Observers : PollEnds(o) \/ PollTick(o) \/ Leave(o)
         \/ \E s \in Streams, mine \in BOOLEAN :
              \/ \E c \in Cancels : CancelAsks(c, s, mine)
              \/ \E o \in Observers : Attach(o, s, mine)
  PROVE  ReplyInv'
PROOF
  <1>0. /\ gen \in [Streams -> GenStates] /\ fin \in [Streams -> Finalizer]
        /\ cancel \in [Cancels -> CancelRequest] /\ Requests
    BY DEF TypeInv, TypeOK, StreamTypeOK
  <1>1. ASSUME NEW c \in Cancels, CancelRefused(c) \/ CancelMarked(c)
        PROVE  ReplyInv'
    <2>1. /\ UNCHANGED <<gen, len, fin, reply>>
          /\ cancel' = [cancel EXCEPT ![c].st = "done"]
      BY <1>1 DEF CancelRefused, CancelMarked, cancelOthers
    <2>2. \A x \in Cancels : StopRemembered(x)
      BY <1>0, <2>1 DEF CancelRequest, StopRemembered
    <2> QED
      BY <2>1, <2>2, ReplyUntouched
  <1>2. ASSUME NEW c \in Cancels, CancelStops(c)
        PROVE  ReplyInv'
    <2>1. PICK s \in Streams :
            /\ s = cancel[c].stream /\ gen[s] = "running"
            /\ gen' = [gen EXCEPT ![s] = "stopped"]
            /\ FinalizerStarts(s, pending[s], TRUE)
            /\ cancel' = [cancel EXCEPT ![c].st = "done", ![c].how = "stop"]
            /\ UNCHANGED <<len, reply>>
      BY <1>0, <1>2 DEF CancelStops, Accepted, Requests, Subscribed, cancelOthers
    <2>2. \A x \in Streams : x # s => fin'[x] = fin[x] /\ gen'[x] = gen[x]
      BY <1>0, <2>1 DEF FinalizerStarts
    <2>3. /\ cancel'[c].stream = s /\ cancel'[c].how = "stop"
          /\ cancel'[c].st = "done"
          /\ \A x \in Cancels : x # c => cancel'[x] = cancel[x]
      BY <1>0, <2>1 DEF CancelRequest
    <2>4. \A x \in Streams : reply'[x] # Null => reply'[x] \in FinalTexts(x)'
      BY <2>1, <2>2, ReplyKept DEF SetUp
    <2>5. ASSUME NEW x \in Streams, gen'[x] = "stopped"
          PROVE  CancelledBy(x, {"stop"})'
      <3>1. CASE x = s
        BY <2>3, <3>1 DEF CancelledBy
      <3>2. CASE x # s
        <4>1. PICK d \in Cancels : cancel[d].stream = x /\ cancel[d].how \in {"stop"}
          BY <2>2, <2>5, <3>2 DEF ReplyInv, CancelledBy
        <4>2. d # c
          BY <2>1, <3>2, <4>1
        <4> QED
          BY <2>3, <4>1, <4>2 DEF CancelledBy
      <3> QED
        BY <3>1, <3>2
    <2> QED
      BY <2>3, <2>4, <2>5 DEF ReplyInv
  <1>3. ASSUME NEW c \in Cancels, CancelMarks(c)
        PROVE  ReplyInv'
    <2>1. /\ UNCHANGED <<gen, len, fin, reply>> /\ cancel[c].st = "reading"
          /\ cancel' = [cancel EXCEPT ![c].st = "marking", ![c].how = "mark"]
      BY <1>3 DEF CancelMarks, Accepted, cancelOthers
    <2>2. \A x \in Cancels : StopRemembered(x)
      BY <1>0, <2>1 DEF CancelRequest, StopRemembered, ReplyInv
    <2> QED
      BY <2>1, <2>2, ReplyUntouched
  <1>4. ASSUME NEW c \in Cancels, NEW s \in Streams, NEW mine \in BOOLEAN,
               CancelAsks(c, s, mine)
        PROVE  ReplyInv'
    <2>1. /\ UNCHANGED <<gen, len, fin, reply>> /\ cancel[c].st = "idle"
          /\ \A x \in Cancels : x # c => cancel'[x] = cancel[x]
          /\ cancel'[c].how = "nothing"
      BY <1>0, <1>4 DEF CancelAsks, cancelOthers
    <2>2. \A x \in Cancels : StopRemembered(x)
      BY <2>1 DEF ReplyInv, StopRemembered
    <2> QED
      BY <2>1, <2>2, ReplyUntouched
  <1>5. ASSUME NEW o \in Observers,
               \/ PollEnds(o) \/ PollTick(o) \/ Leave(o)
               \/ \E s \in Streams, mine \in BOOLEAN : Attach(o, s, mine)
        PROVE  ReplyInv'
    <2>1. PollEnds(o) => UNCHANGED observerOthers
      BY DEF PollEnds, PollRejected, PollAnswered
    <2>2. PollTick(o) \/ Leave(o) => UNCHANGED observerOthers
      BY DEF PollTick, Leave
    <2>3. ASSUME NEW s \in Streams, NEW mine \in BOOLEAN, Attach(o, s, mine)
          PROVE  UNCHANGED <<gen, len, fin, reply, cancel>>
      BY <2>3, Zenon DEF Attach, observerOthers
    <2>4. UNCHANGED <<gen, len, fin, reply, cancel>>
      BY <1>5, <2>1, <2>2, <2>3 DEF observerOthers
    <2> QED
      BY <2>4, ReplyUntouched DEF StopRemembered
  <1> QED
    BY <1>1, <1>2, <1>3, <1>4, <1>5 DEF HandleCancel
\* Every step leaves the stored messages faithful.
LEMMA ReplyStep ==
  ASSUME TypeInv, CompletedInv, PromiseInv, ReplyInv, [Next]_vars
  PROVE  ReplyInv'
PROOF
  <1>1. ASSUME UNCHANGED <<gen, len, fin, reply, cancel>>
        PROVE  ReplyInv'
    BY <1>1, ReplyUntouched DEF StopRemembered
  <1>2. CASE Redis \/ Expiry \/ UNCHANGED vars
    BY <1>1, <1>2 DEF Redis, Expiry, vars, streamVars
  <1>3. CASE Crash
    BY <1>3, ReplyProcessEnds DEF Crash
  <1>4. ASSUME NEW s \in Streams,
               \/ TimerFires(s)
               \/ \E n \in DOMAIN writes[s] : WriteStarts(s, n) \/ WriteEnds(s, n)
        PROVE  ReplyInv'
    <2>1. CASE TimerFires(s)
      BY <1>1, <2>1 DEF TimerFires
    <2>2. ASSUME NEW n \in DOMAIN writes[s], WriteStarts(s, n) \/ WriteEnds(s, n)
          PROVE  UNCHANGED <<gen, len, fin, reply, cancel>>
      BY <2>2 DEF WriteStarts, WriteEnds
    <2> QED
      BY <1>1, <1>4, <2>1, <2>2
  <1>5. ASSUME NEW s \in Streams, FailMarked(s) \/ FinDies(s)
        PROVE  ReplyInv'
    <2>1. ProcessEnds \/ UNCHANGED streamVars
      BY <1>5 DEF FailMarked, FinDies
    <2> QED
      BY <1>1, <2>1, ReplyProcessEnds DEF streamVars
  <1>6. CASE Continuation
    BY <1>4, <1>5, <1>6, ReplyGeneration, ReplyFinalizer, ReplyRequests
    DEF Continuation, FinGoesOn
  <1>7. CASE Event
    BY <1>4, <1>7, ReplyGeneration, ReplyFinalizer, ReplyRequests DEF Event
  <1> QED
    BY <1>2, <1>3, <1>6, <1>7 DEF Next

\* The stored message is all the model had sent when the generation ended, unless
\* moderation withheld it, its marker says how it ended, and a message marked
\* stopped has a user's request that stopped it.
THEOREM StoredReplyFaithful == Spec => []ReplyFaithful
PROOF
  <1>1. Init => PromiseInv /\ ReplyInv
    BY DEF Init, PromiseInv, FinalizedAsEnded, NoFinalizer, NoCancel, SetUp, ReplyInv
  <1>2. TypeInv /\ CompletedInv /\ PromiseInv /\ ReplyInv /\ [Next]_vars
          => PromiseInv' /\ ReplyInv'
    BY PromiseStep, ReplyStep
  <1>3. TypeInv /\ CompletedInv /\ PromiseInv /\ ReplyInv => ReplyFaithful
    <2> SUFFICES ASSUME TypeInv, CompletedInv, PromiseInv, ReplyInv,
                        NEW s \in Streams, reply[s] # Null
                 PROVE  /\ reply[s].mark # "withheld" => reply[s].len = len[s]
                        /\ reply[s].mark = "none" => gen[s] = "done"
                        /\ reply[s].mark = "broken" => gen[s] = "error"
                        /\ gen[s] = "stopped" => reply[s].mark \in {"stopped", "withheld"}
                        /\ reply[s].mark = "stopped" => CancelledBy(s, {"stop", "mark"})
      BY DEF ReplyFaithful
    <2>1. reply[s] \in FinalTexts(s)
      BY DEF ReplyInv
    <2>2. /\ \/ reply[s].mark = "withheld"
             \/ reply[s].mark = FinalMark(s) /\ reply[s].len = len[s]
          /\ FinalMark(s) \in {"stopped", "none", "broken"}
      <3>1. \/ reply[s] = Txt(0, "withheld")
            \/ reply[s] = Txt(len[s], FinalMark(s))
        BY <2>1, Zenon DEF FinalTexts
      <3>2. FinalMark(s) \in {"stopped", "none", "broken"}
        BY DEF FinalMark
      <3> QED
        BY <3>1, <3>2 DEF Txt
    <2>3. /\ gen[s] \in {"done", "error", "stopped"}
          /\ fin[s].stopped <=> gen[s] = "stopped"
      BY DEF PromiseInv, FinalizedAsEnded, CompletedInv, StoredOnce
    <2>4. FinalMark(s) = CASE gen[s] = "stopped" -> "stopped"
                           [] gen[s] = "done"    -> "none"
                           [] OTHER              -> "broken"
      BY <2>3 DEF FinalMark
    <2>5. gen[s] = "stopped" => CancelledBy(s, {"stop", "mark"})
      BY DEF ReplyInv, CancelledBy
    <2> QED
      BY <2>2, <2>3, <2>4, <2>5
  <1> QED
    BY <1>1, <1>2, <1>3, TypeInvariant, CompletedInvariant, PTL DEF Spec

-----------------------------------------------------------------------------
(* Whose call is under way: OwnersInv.                                     *)

\* A call of the kind op about stream s.
Is(c, op, s) == c.op = op /\ c.stream = s

\* Where the owner of a call is tells which call it has under way, if any.
CreateOwned(s) ==
  IF gen[s] = "creating" THEN Is(call[CreateOf(s)], "create", s)
                         ELSE call[CreateOf(s)] = Idle
FailOwned(s) ==
  call[FailOf(s)] # Idle =>
    gen[s] = "error" /\ Is(call[FailOf(s)], "mark", s) /\ call[FailOf(s)].status = "failed"
FinalOwned(s) ==
  CASE fin[s].pc = "check"    -> Is(call[FinalOf(s)], "get", s)
    [] fin[s].pc = "progress" -> /\ Is(call[FinalOf(s)], "progress", s)
                                 /\ call[FinalOf(s)].text = fin[s].text
    [] fin[s].pc = "mark"     -> Is(call[FinalOf(s)], "mark", s)
    [] OTHER                  -> call[FinalOf(s)] = Idle
Calling(s, n) == n \in DOMAIN writes[s] /\ writes[s][n].st = "calling"
WriteOwned(s, n) ==
  IF Calling(s, n)
  THEN /\ Is(call[WriteOf(s, n)], "progress", s)
       /\ call[WriteOf(s, n)].text = Txt(writes[s][n].len, "none")
  ELSE call[WriteOf(s, n)] = Idle
CancelOwned(c) ==
  CASE cancel[c].st = "reading" -> Is(call[CancelOf(c)], "get", cancel[c].stream)
    [] cancel[c].st = "marking" -> /\ Is(call[CancelOf(c)], "mark", cancel[c].stream)
                                   /\ cancel[c].how = "mark"
    [] OTHER                    -> call[CancelOf(c)] = Idle
PollOwned(o) ==
  call[PollOf(o)] # Idle =>
    observer[o].st # "idle" /\ Is(call[PollOf(o)], "get", observer[o].stream)

OwnersInv ==
  /\ \A s \in Streams :
       /\ CreateOwned(s) /\ FailOwned(s) /\ FinalOwned(s)
       /\ \A n \in 1 .. MaxWrites : WriteOwned(s, n)
  /\ \A c \in Cancels : CancelOwned(c)
  /\ \A o \in Observers : PollOwned(o)

\* The identities of calls tell who made them.
LEMMA TaskNames ==
  /\ \A s \in Streams :
       /\ CreateOf(s)[1] = "create" /\ CreateOf(s)[2] = s
       /\ FailOf(s)[1] = "fail" /\ FailOf(s)[2] = s
       /\ FinalOf(s)[1] = "final" /\ FinalOf(s)[2] = s
       /\ \A n \in 1 .. MaxWrites :
            WriteOf(s, n)[1] = "write" /\ WriteOf(s, n)[2] = s /\ WriteOf(s, n)[3] = n
  /\ \A c \in Cancels : CancelOf(c)[1] = "cancel" /\ CancelOf(c)[2] = c
  /\ \A o \in Observers : PollOf(o)[1] = "poll" /\ PollOf(o)[2] = o
PROOF
  BY DEF CreateOf, FailOf, FinalOf, WriteOf, CancelOf, PollOf

\* Every call is one of theirs.
LEMMA TaskKinds ==
  ASSUME NEW t \in Callers
  PROVE  \/ \E s \in Streams : t \in {CreateOf(s), FailOf(s), FinalOf(s)}
         \/ \E s \in Streams, n \in 1 .. MaxWrites : t = WriteOf(s, n)
         \/ \E c \in Cancels : t = CancelOf(c)
         \/ \E o \in Observers : t = PollOf(o)
PROOF
  BY CallersAssumption DEF Tasks

\* A step keeps a call with its owner that it does not change, when it leaves the owner
\* where it was.
LEMMA OwnersMoved ==
  ASSUME TypeInv, OwnersInv,
         \A s \in Streams :
           /\ \/ CreateOwned(s)'
              \/ /\ call'[CreateOf(s)] = call[CreateOf(s)]
                 /\ gen'[s] = "creating" <=> gen[s] = "creating"
           /\ \/ FailOwned(s)'
              \/ /\ call'[FailOf(s)] = call[FailOf(s)]
                 /\ gen[s] = "error" => gen'[s] = "error"
           /\ \/ FinalOwned(s)'
              \/ /\ call'[FinalOf(s)] = call[FinalOf(s)]
                 /\ \/ fin'[s].pc = fin[s].pc /\ fin'[s].text = fin[s].text
                    \/ /\ fin[s].pc \notin {"check", "progress", "mark"}
                       /\ fin'[s].pc \notin {"check", "progress", "mark"},
         \A s \in Streams, n \in 1 .. MaxWrites :
           \/ WriteOwned(s, n)'
           \/ /\ call'[WriteOf(s, n)] = call[WriteOf(s, n)]
              /\ Calling(s, n)' <=> Calling(s, n)
              /\ Calling(s, n) => writes'[s][n].len = writes[s][n].len,
         \A c \in Cancels :
           \/ CancelOwned(c)'
           \/ call'[CancelOf(c)] = call[CancelOf(c)] /\ cancel'[c] = cancel[c],
         \A o \in Observers :
           \/ PollOwned(o)'
           \/ /\ call'[PollOf(o)] = call[PollOf(o)]
              /\ observer'[o].stream = observer[o].stream
              /\ observer[o].st # "idle" => observer'[o].st # "idle"
  PROVE  OwnersInv'
PROOF
  <1>1. ASSUME NEW s \in Streams
        PROVE  CreateOwned(s)'
    BY DEF OwnersInv, CreateOwned
  <1>2. ASSUME NEW s \in Streams
        PROVE  FailOwned(s)'
    BY DEF OwnersInv, FailOwned
  <1>3. ASSUME NEW s \in Streams
        PROVE  FinalOwned(s)'
    BY DEF OwnersInv, FinalOwned
  <1>4. ASSUME NEW s \in Streams, NEW n \in 1 .. MaxWrites
        PROVE  WriteOwned(s, n)'
    <2>1. CASE /\ call'[WriteOf(s, n)] = call[WriteOf(s, n)]
               /\ Calling(s, n)' <=> Calling(s, n)
               /\ Calling(s, n) => writes'[s][n].len = writes[s][n].len
      <3>1. Calling(s, n) => Txt(writes[s][n].len, "none")' = Txt(writes[s][n].len, "none")
        BY <2>1 DEF Txt
      <3>2. WriteOwned(s, n)
        BY DEF OwnersInv
      <3> QED
        BY <2>1, <3>1, <3>2 DEF WriteOwned, Is
    <2> QED
      BY <2>1
  <1>5. ASSUME NEW c \in Cancels
        PROVE  CancelOwned(c)'
    BY DEF OwnersInv, CancelOwned
  <1>6. ASSUME NEW o \in Observers
        PROVE  PollOwned(o)'
    BY DEF OwnersInv, PollOwned
  <1> QED
    BY <1>1, <1>2, <1>3, <1>4, <1>5, <1>6 DEF OwnersInv

\* What Redis does to a call leaves it whose it is.
Goes(t) ==
  \/ call'[t] = call[t]
  \/ /\ call[t].stage \in {"get", "save", "del"}
     /\ call'[t].op = call[t].op /\ call'[t].stream = call[t].stream
     /\ call'[t].text = call[t].text /\ call'[t].status = call[t].status
LEMMA OwnersServed ==
  ASSUME TypeInv, OwnersInv, UNCHANGED streamVars, \A t \in Callers : Goes(t)
  PROVE  OwnersInv'
PROOF
  <1>0. Idle.stage = "idle"
    BY DEF Idle
  <1>1. ASSUME NEW s \in Streams
        PROVE  CreateOwned(s)' /\ FailOwned(s)' /\ FinalOwned(s)'
    BY <1>0, TaskIds DEF OwnersInv, CreateOwned, FailOwned, FinalOwned, Goes, Is, streamVars
  <1>2. ASSUME NEW s \in Streams, NEW n \in 1 .. MaxWrites
        PROVE  WriteOwned(s, n)'
    BY <1>0, TaskIds DEF OwnersInv, WriteOwned, Calling, Goes, Is, Txt, streamVars
  <1>3. ASSUME NEW c \in Cancels
        PROVE  CancelOwned(c)'
    BY <1>0, TaskIds DEF OwnersInv, CancelOwned, Goes, Is, streamVars
  <1>4. ASSUME NEW o \in Observers
        PROVE  PollOwned(o)'
    BY <1>0, TaskIds DEF OwnersInv, PollOwned, Goes, Is, streamVars
  <1> QED
    BY <1>1, <1>2, <1>3, <1>4 DEF OwnersInv

\* A command that is answered belongs to the call it belonged to.
LEMMA ServeGoes ==
  ASSUME TypeInv, Serve
  PROVE  \A t \in Callers : Goes(t)
PROOF
  <1> DEFINE h == Head(wire)
  <1>1. h \in Callers /\ call \in [Callers -> Call]
    BY DEF Serve, TypeInv, TypeOK, SessionTypeOK
  <1>2. ServeLookup(h) \/ ServeRead(h) \/ ServeSave(h) \/ ServeDel(h) \/ ServeFault(h)
    BY DEF Serve
  <1> HIDE DEF h
  <1>3. call[h].stage \in {"get", "save", "del"}
    BY <1>2 DEF ServeLookup, ServeRead, ServeSave, ServeDel, ServeFault, InFlight
  <1>4. ASSUME NEW c \in Call, call' = [call EXCEPT ![h] = c], c.op = call[h].op,
               c.stream = call[h].stream, c.text = call[h].text, c.status = call[h].status
        PROVE  \A t \in Callers : Goes(t)
    BY <1>1, <1>3, <1>4 DEF Goes
  <1>5. ASSUME NEW snap \in Session \cup {Null}, NEW ok \in BOOLEAN, Answer(h, snap, ok)
        PROVE  \A t \in Callers : Goes(t)
    <2>1. PICK c \in Call : c = [call[h] EXCEPT !.stage = "back", !.snap = snap, !.ok = ok]
      BY <1>1 DEF Call, Stages
    <2>2. call' = [call EXCEPT ![h] = c]
      BY <1>5, <2>1 DEF Answer
    <2> QED
      BY <1>1, <2>1, <2>2, <1>4 DEF Call
  <1>6. ASSUME NEW snap \in Session \cup {Null}, NEW stage \in Stages,
               Continue(h, stage, snap)
        PROVE  \A t \in Callers : Goes(t)
    <2>1. PICK c \in Call : c = [call[h] EXCEPT !.stage = stage, !.snap = snap]
      BY <1>1 DEF Call
    <2>2. call' = [call EXCEPT ![h] = c]
      BY <1>6, <2>1 DEF Continue
    <2> QED
      BY <1>1, <2>1, <2>2, <1>4 DEF Call
  <1>7. /\ call[h].stage = "get" => session[call[h].stream] \in Session \cup {Null}
        /\ {"save", "del"} \subseteq Stages /\ Null \in Session \cup {Null}
    BY <1>1 DEF TypeInv, TypeOK, SessionTypeOK, CallsWellFormed, WellFormed, Stages
  <1>8. CASE ServeLookup(h) \/ ServeRead(h)
    BY <1>5, <1>6, <1>7, <1>8 DEF ServeLookup, ServeRead
  <1>9. CASE ServeSave(h) \/ ServeDel(h) \/ ServeFault(h)
    BY <1>5, <1>6, <1>7, <1>9 DEF ServeSave, ServeDel, ServeFault
  <1> QED
    BY <1>2, <1>8, <1>9

\* A turn that calls, or takes a result, changes one call.
LEMMA OneCall ==
  ASSUME TypeInv, NEW t \in Callers, NEW c, Invoke(t, c) \/ (c = Idle /\ Return(t))
  PROVE  call'[t] = c /\ \A x \in Callers \ {t} : call'[x] = call[x]
PROOF
  BY DEF Invoke, Return, TypeInv, TypeOK, SessionTypeOK

\* Whose the calls are, and about what.
LEMMA CallNames ==
  /\ \A s \in Streams :
       /\ Is(CreateCall(s), "create", s) /\ Is(GetCall(s), "get", s)
       /\ \A text : Is(ProgressCall(s, text), "progress", s)
                    /\ ProgressCall(s, text).text = text
       /\ \A status, error : Is(MarkCall(s, status, error), "mark", s)
                    /\ MarkCall(s, status, error).status = status
  /\ Idle.stage = "idle"
PROOF
  BY DEF CreateCall, GetCall, ProgressCall, MarkCall, Idle, Is

\* A patch that is put into the queue calls nothing yet.
LEMMA QueueCalls ==
  ASSUME TypeInv, NEW s \in Streams, NEW m, QueueProgressUpdate(s, m)
  PROVE  \A x \in Streams, n \in 1 .. MaxWrites :
           /\ Calling(x, n)' <=> Calling(x, n)
           /\ Calling(x, n) => writes'[x][n].len = writes[x][n].len
PROOF
  <1>1. writes[s] \in Seq(Write) /\ writes \in [Streams -> Seq(Write)]
    BY DEF TypeInv, TypeOK, StreamTypeOK
  <1> DEFINE w == [len |-> m, after |-> tail[s], left |-> 2, st |-> "queued"]
  <1>2. writes' = [writes EXCEPT ![s] = Append(writes[s], w)] /\ w.st = "queued"
    BY DEF QueueProgressUpdate
  <1> HIDE DEF w
  <1>3. /\ DOMAIN Append(writes[s], w) = 1 .. Len(writes[s]) + 1
        /\ DOMAIN writes[s] = 1 .. Len(writes[s])
        /\ Len(writes[s]) \in Nat
        /\ Append(writes[s], w)[Len(writes[s]) + 1] = w
        /\ \A n \in DOMAIN writes[s] : Append(writes[s], w)[n] = writes[s][n]
    BY <1>1
  <1>4. /\ writes'[s] = Append(writes[s], w)
        /\ \A x \in Streams : x # s => writes'[x] = writes[x]
    BY <1>1, <1>2
  <1>5. ASSUME NEW n \in 1 .. MaxWrites
        PROVE  /\ Calling(s, n)' <=> Calling(s, n)
               /\ Calling(s, n) => writes'[s][n].len = writes[s][n].len
    <2>1. CASE n \in DOMAIN writes[s]
      BY <2>1, <1>3, <1>4 DEF Calling
    <2>2. CASE n \notin DOMAIN writes[s]
      <3>1. n \in DOMAIN writes'[s] => writes'[s][n] = w
        BY <2>2, <1>3, <1>4
      <3> QED
        BY <2>2, <3>1, <1>2 DEF Calling
    <2> QED
      BY <2>1, <2>2
  <1> QED
    BY <1>4, <1>5 DEF Calling

\* The finalizer's first turn.
LEMMA StartCalls ==
  ASSUME TypeInv, NEW s \in Streams, NEW m, NEW b, FinalizerStarts(s, m, b)
  PROVE  /\ fin'[s].pc = "flush" /\ \A x \in Streams : x # s => fin'[x] = fin[x]
         /\ \A x \in Streams, n \in 1 .. MaxWrites :
              /\ Calling(x, n)' <=> Calling(x, n)
              /\ Calling(x, n) => writes'[x][n].len = writes[x][n].len
PROOF
  <1>1. fin'[s].pc = "flush" /\ \A x \in Streams : x # s => fin'[x] = fin[x]
    BY DEF FinalizerStarts, TypeInv, TypeOK, StreamTypeOK
  <1>2. CASE m = Null
    BY <1>1, <1>2 DEF FinalizerStarts, Calling
  <1>3. CASE m # Null
    BY <1>1, <1>3, QueueCalls DEF FinalizerStarts
  <1> QED
    BY <1>2, <1>3

\* After the end of the process there are no calls.
LEMMA OwnersProcessEnds ==
  ASSUME TypeInv, OwnersInv, ProcessEnds
  PROVE  OwnersInv'
PROOF
  <1>1. /\ \A t \in Callers : call'[t] = Idle
        /\ \A s \in Streams :
             /\ gen'[s] # "creating" /\ writes'[s] = <<>>
             /\ fin'[s].pc \notin {"check", "progress", "mark"}
        /\ \A c \in Cancels : cancel'[c].st \notin {"reading", "marking"}
    BY DEF ProcessEnds, TypeInv, TypeOK, StreamTypeOK, Finalizer, CancelRequest
  <1>2. ASSUME NEW s \in Streams
        PROVE  CreateOwned(s)' /\ FailOwned(s)' /\ FinalOwned(s)'
    BY <1>1, TaskIds DEF CreateOwned, FailOwned, FinalOwned
  <1>3. ASSUME NEW s \in Streams, NEW n \in 1 .. MaxWrites
        PROVE  WriteOwned(s, n)'
    <2>1. ~Calling(s, n)'
      BY <1>1 DEF Calling
    <2> QED
      BY <1>1, <2>1, TaskIds DEF WriteOwned
  <1>4. ASSUME NEW c \in Cancels
        PROVE  CancelOwned(c)'
    BY <1>1, TaskIds DEF CancelOwned
  <1>5. ASSUME NEW o \in Observers
        PROVE  PollOwned(o)'
    BY <1>1, TaskIds DEF PollOwned
  <1> QED
    BY <1>2, <1>3, <1>4, <1>5 DEF OwnersInv

\* A generation and its progress writes.
LEMMA OwnersGeneration ==
  ASSUME TypeInv, CompletedInv, OwnersInv, NEW s \in Streams,
         \/ Create(s) \/ StartDetachedGeneration(s) \/ Generation(s)
         \/ TimerFires(s)
         \/ \E n \in DOMAIN writes[s] : WriteStarts(s, n) \/ WriteEnds(s, n)
  PROVE  OwnersInv'
PROOF
  <1>0. /\ gen \in [Streams -> GenStates] /\ fin \in [Streams -> Finalizer]
        /\ writes \in [Streams -> Seq(Write)]
    BY DEF TypeInv, TypeOK, StreamTypeOK
  <1>1. CASE Create(s)
    <2>1. /\ call'[CreateOf(s)] = CreateCall(s)
          /\ \A t \in Callers \ {CreateOf(s)} : call'[t] = call[t]
      BY <1>1, OneCall, TaskIds DEF Create
    <2>2. /\ gen'[s] = "creating" /\ gen[s] = "absent"
          /\ \A x \in Streams : x # s => gen'[x] = gen[x]
          /\ UNCHANGED <<writes, fin, cancel, observer>>
      BY <1>0, <1>1 DEF Create, progressVars
    <2>3. CreateOwned(s)'
      BY <2>1, <2>2, CallNames DEF CreateOwned
    <2> QED
      BY <2>1, <2>2, <2>3, OwnersMoved, TaskIds, TaskNames DEF Calling
  <1>2. CASE StartDetachedGeneration(s)
    <2>1. /\ call'[CreateOf(s)] = Idle
          /\ \A t \in Callers \ {CreateOf(s)} : call'[t] = call[t]
      BY <1>2, OneCall, TaskIds DEF StartDetachedGeneration
    <2>2. /\ gen'[s] \in {"running", "rejected"} /\ gen[s] = "creating"
          /\ \A x \in Streams : x # s => gen'[x] = gen[x]
          /\ UNCHANGED <<writes, fin, cancel, observer>>
      BY <1>0, <1>2 DEF StartDetachedGeneration, progressVars
    <2>3. CreateOwned(s)'
      BY <2>1, <2>2 DEF CreateOwned
    <2> QED
      BY <2>1, <2>2, <2>3, OwnersMoved, TaskIds, TaskNames DEF Calling
  <1>3. CASE GenDelta(s)
    <2>1. UNCHANGED <<call, gen, writes, fin, cancel, observer>>
      BY <1>3 DEF GenDelta
    <2> QED
      BY <2>1, OwnersMoved DEF Calling
  <1>4. CASE GenDone(s)
    <2>1. /\ gen'[s] = "done" /\ gen[s] = "running" /\ fin[s].pc = "idle"
          /\ \A x \in Streams : x # s => gen'[x] = gen[x]
          /\ UNCHANGED <<call, cancel, observer>>
      BY <1>0, <1>4 DEF GenDone, Subscribed, CompletedInv, StoredOnce
    <2>2. /\ fin'[s].pc = "flush" /\ \A x \in Streams : x # s => fin'[x] = fin[x]
          /\ \A x \in Streams, n \in 1 .. MaxWrites :
               /\ Calling(x, n)' <=> Calling(x, n)
               /\ Calling(x, n) => writes'[x][n].len = writes[x][n].len
      BY <1>4, StartCalls DEF GenDone
    <2> QED
      BY <2>1, <2>2, OwnersMoved
  <1>5. CASE GenError(s)
    <2>1. /\ call'[FailOf(s)] = MarkCall(s, "failed", TRUE)
          /\ call'[FinalOf(s)] = GetCall(s)
          /\ \A t \in Callers \ {FailOf(s), FinalOf(s)} : call'[t] = call[t]
      <3>1. FailOf(s) # FinalOf(s) /\ FailOf(s) \in Callers /\ FinalOf(s) \in Callers
        BY TaskIds, TaskNames
      <3> QED
        BY <1>5, <3>1 DEF GenError, TypeInv, TypeOK, SessionTypeOK
    <2>2. /\ gen'[s] = "error" /\ gen[s] = "running"
          /\ fin'[s].pc = "check"
          /\ \A x \in Streams : x # s => gen'[x] = gen[x] /\ fin'[x] = fin[x]
          /\ UNCHANGED <<writes, cancel, observer>>
      BY <1>0, <1>5 DEF GenError, Subscribed, CompleteSubject
    <2>3. FailOwned(s)' /\ FinalOwned(s)'
      <3>1. /\ Is(MarkCall(s, "failed", TRUE), "mark", s) /\ Is(GetCall(s), "get", s)
            /\ MarkCall(s, "failed", TRUE).status = "failed"
        BY CallNames
      <3> QED
        BY <2>1, <2>2, <3>1 DEF FailOwned, FinalOwned
    <2> QED
      BY <2>1, <2>2, <2>3, OwnersMoved, TaskIds, TaskNames DEF Calling
  <1>6. CASE TimerFires(s)
    <2>1. UNCHANGED <<call, gen, fin, cancel, observer>>
      BY <1>6 DEF TimerFires
    <2>2. \A x \in Streams, n \in 1 .. MaxWrites :
               /\ Calling(x, n)' <=> Calling(x, n)
               /\ Calling(x, n) => writes'[x][n].len = writes[x][n].len
      <3>1. CASE pending[s] = Null
        BY <1>6, <3>1 DEF TimerFires, Calling
      <3>2. CASE pending[s] # Null
        BY <1>6, <3>2, QueueCalls DEF TimerFires
      <3> QED
        BY <3>1, <3>2
    <2> QED
      BY <2>1, <2>2, OwnersMoved
  <1>7. ASSUME NEW n \in DOMAIN writes[s], WriteStarts(s, n)
        PROVE  OwnersInv'
    <2>0. n \in 1 .. MaxWrites /\ WriteOf(s, n) \in Callers
      BY WritesBounded, TaskIds
    <2>1. /\ call'[WriteOf(s, n)] = ProgressCall(s, Txt(writes[s][n].len, "none"))
          /\ \A t \in Callers \ {WriteOf(s, n)} : call'[t] = call[t]
      BY <1>7, <2>0, OneCall DEF WriteStarts
    <2>2. writes[s] \in Seq(Write) /\ writes[s][n] \in Write
      BY <1>0
    <2>3. PICK w \in Write : w = [writes[s][n] EXCEPT !.st = "calling"]
      BY <2>2 DEF Write
    <2>4. /\ DOMAIN writes'[s] = DOMAIN writes[s] /\ writes'[s][n] = w
          /\ \A m \in DOMAIN writes[s] : m # n => writes'[s][m] = writes[s][m]
          /\ \A x \in Streams : x # s => writes'[x] = writes[x]
      <3>1. writes' = [writes EXCEPT ![s] = [writes[s] EXCEPT ![n] = w]]
        BY <1>7, <2>3 DEF WriteStarts
      <3> QED
        BY <3>1, <1>0, <2>2
    <2>5. w.st = "calling" /\ w.len = writes[s][n].len
      BY <2>2, <2>3 DEF Write
    <2>6. WriteOwned(s, n)'
      BY <2>1, <2>4, <2>5, CallNames DEF WriteOwned, Calling
    <2>7. \A x \in Streams, m \in 1 .. MaxWrites : <<x, m>> # <<s, n>> =>
            /\ Calling(x, m)' <=> Calling(x, m)
            /\ Calling(x, m) => writes'[x][m].len = writes[x][m].len
      BY <2>4 DEF Calling
    <2>8. UNCHANGED <<gen, fin, cancel, observer>>
      BY <1>7 DEF WriteStarts
    <2> QED
      BY <2>0, <2>1, <2>6, <2>7, <2>8, OwnersMoved, TaskIds, TaskNames
  <1>8. ASSUME NEW n \in DOMAIN writes[s], WriteEnds(s, n)
        PROVE  OwnersInv'
    <2>0. n \in 1 .. MaxWrites /\ WriteOf(s, n) \in Callers
      BY WritesBounded, TaskIds
    <2>1. /\ call'[WriteOf(s, n)] = Idle
          /\ \A t \in Callers \ {WriteOf(s, n)} : call'[t] = call[t]
      BY <1>8, <2>0, OneCall DEF WriteEnds
    <2>2. writes[s] \in Seq(Write) /\ writes[s][n] \in Write
      BY <1>0
    <2>3. PICK w \in Write : /\ w.st # "calling"
                             /\ writes' = [writes EXCEPT ![s] = [writes[s] EXCEPT ![n] = w]]
      <3>1. CASE call[WriteOf(s, n)].ok \/ writes[s][n].left = 1
        <4>1. PICK w \in Write : w = [writes[s][n] EXCEPT !.st = "done"]
          BY <2>2 DEF Write
        <4>2. writes' = [writes EXCEPT ![s] = [writes[s] EXCEPT ![n] = w]]
          BY <1>8, <3>1, <4>1 DEF WriteEnds
        <4> QED
          BY <2>2, <4>1, <4>2 DEF Write
      <3>2. CASE ~(call[WriteOf(s, n)].ok \/ writes[s][n].left = 1)
        <4>1. PICK w \in Write : w = [writes[s][n] EXCEPT !.st = "queued", !.left = 1]
          <5>1. 1 \in 1 .. 2
            OBVIOUS
          <5> QED
            BY <2>2, <5>1 DEF Write
        <4>2. writes' = [writes EXCEPT ![s] = [writes[s] EXCEPT ![n] = w]]
          BY <1>8, <3>2, <4>1 DEF WriteEnds
        <4> QED
          BY <2>2, <4>1, <4>2 DEF Write
      <3> QED
        BY <3>1, <3>2
    <2>4. /\ DOMAIN writes'[s] = DOMAIN writes[s] /\ writes'[s][n] = w
          /\ \A m \in DOMAIN writes[s] : m # n => writes'[s][m] = writes[s][m]
          /\ \A x \in Streams : x # s => writes'[x] = writes[x]
      BY <2>3, <1>0, <2>2
    <2>5. WriteOwned(s, n)'
      BY <2>1, <2>3, <2>4 DEF WriteOwned, Calling
    <2>6. \A x \in Streams, m \in 1 .. MaxWrites : <<x, m>> # <<s, n>> =>
            /\ Calling(x, m)' <=> Calling(x, m)
            /\ Calling(x, m) => writes'[x][m].len = writes[x][m].len
      BY <2>4 DEF Calling
    <2>7. UNCHANGED <<gen, fin, cancel, observer>>
      BY <1>8 DEF WriteEnds
    <2> QED
      BY <2>0, <2>1, <2>5, <2>6, <2>7, OwnersMoved, TaskIds, TaskNames
  <1> QED
    BY <1>1, <1>2, <1>3, <1>4, <1>5, <1>6, <1>7, <1>8 DEF Generation

\* The finalizer, from its first await to its end.
LEMMA OwnersFinalizer ==
  ASSUME TypeInv, OwnersInv, NEW s \in Streams,
         \/ FinFlushed(s) \/ FinAbandons(s) \/ FinFails(s) \/ FinResolves(s)
         \/ FinProgressed(s) \/ FinMarked(s) \/ FinDatabase(s)
  PROVE  OwnersInv'
PROOF
  <1>0. /\ fin \in [Streams -> Finalizer] /\ call \in [Callers -> Call]
        /\ FinalOf(s) \in Callers
    BY TaskIds DEF TypeInv, TypeOK, StreamTypeOK, SessionTypeOK
  <1>1. UNCHANGED <<gen, writes, cancel, observer>>
    BY DEF FinFlushed, FinAbandons, FinFails, FinResolves, FinProgressed, FinMarked,
           FinDatabase, FinStores, FinTouches, FinStoreFails, finOthers, progressVars,
           CompleteSubject
  <1>2. \A x \in Streams : x # s => fin'[x] = fin[x]
    BY <1>0
    DEF FinFlushed, FinAbandons, FinFails, FinResolves, FinProgressed, FinMarked,
        FinDatabase, FinStores, FinTouches, FinStoreFails, FinGoes
  <1>3. ASSUME \A t \in Callers \ {FinalOf(s)} : call'[t] = call[t], FinalOwned(s)'
        PROVE  OwnersInv'
    BY <1>1, <1>2, <1>3, OwnersMoved, TaskIds, TaskNames DEF Calling
  <1>4. CASE FinFlushed(s)
    <2>1. fin'[s].pc = "check"
      BY <1>0, <1>4 DEF FinFlushed, FinGoes, Finalizer
    <2>2. /\ call'[FinalOf(s)] = GetCall(s)
          /\ \A t \in Callers \ {FinalOf(s)} : call'[t] = call[t]
      BY <1>0, <1>4, OneCall DEF FinFlushed
    <2> QED
      BY <1>3, <2>1, <2>2, CallNames DEF FinalOwned
  <1>5. CASE FinAbandons(s) \/ FinMarked(s)
    <2>1. fin'[s].pc = "done"
      BY <1>0, <1>5 DEF FinAbandons, FinMarked, FinGoes, Finalizer
    <2>2. /\ call'[FinalOf(s)] = Idle
          /\ \A t \in Callers \ {FinalOf(s)} : call'[t] = call[t]
      BY <1>0, <1>5, OneCall DEF FinAbandons, FinMarked
    <2> QED
      BY <1>3, <2>1, <2>2 DEF FinalOwned
  <1>6. CASE FinResolves(s)
    <2>1. fin'[s].pc = "store"
      BY <1>0, <1>6 DEF FinResolves, Finalizer
    <2>2. /\ call'[FinalOf(s)] = Idle
          /\ \A t \in Callers \ {FinalOf(s)} : call'[t] = call[t]
      BY <1>0, <1>6, OneCall DEF FinResolves
    <2> QED
      BY <1>3, <2>1, <2>2 DEF FinalOwned
  <1>7. CASE FinStores(s)
    <2>1. fin'[s].pc = "touch" /\ fin[s].pc = "store" /\ UNCHANGED call
      BY <1>0, <1>7 DEF FinStores, FinGoes, Finalizer
    <2>2. call[FinalOf(s)] = Idle
      BY <2>1 DEF OwnersInv, FinalOwned
    <2> QED
      BY <1>3, <2>1, <2>2 DEF FinalOwned
  <1>8. CASE FinTouches(s)
    <2>1. fin'[s].pc = "progress" /\ fin'[s].text = fin[s].text
      BY <1>0, <1>8 DEF FinTouches, FinGoes, Finalizer
    <2>2. PICK text : text = fin[s].text
      OBVIOUS
    <2>3. /\ call'[FinalOf(s)] = ProgressCall(s, text)
          /\ \A t \in Callers \ {FinalOf(s)} : call'[t] = call[t]
      BY <1>0, <1>8, <2>2, OneCall DEF FinTouches
    <2> QED
      BY <1>3, <2>1, <2>2, <2>3, CallNames DEF FinalOwned
  <1>9. ASSUME NEW status \in Statuses, Invoke(FinalOf(s), MarkCall(s, status, FALSE)),
               FinGoes(s, "mark")
        PROVE  OwnersInv'
    <2>1. fin'[s].pc = "mark"
      BY <1>0, <1>9 DEF FinGoes, Finalizer
    <2>2. /\ call'[FinalOf(s)] = MarkCall(s, status, FALSE)
          /\ \A t \in Callers \ {FinalOf(s)} : call'[t] = call[t]
      BY <1>0, <1>9, OneCall
    <2>3. Is(MarkCall(s, status, FALSE), "mark", s)
      BY CallNames
    <2> QED
      BY <1>3, <2>1, <2>2, <2>3 DEF FinalOwned
  <1>10. CASE FinFails(s) \/ FinStoreFails(s)
    BY <1>9, <1>10 DEF FinFails, FinStoreFails, Statuses
  <1>11. CASE FinProgressed(s)
    BY <1>9, <1>11 DEF FinProgressed, Statuses
  <1> QED
    BY <1>4, <1>5, <1>6, <1>7, <1>8, <1>10, <1>11 DEF FinDatabase

\* Stops and observers.
LEMMA OwnersRequests ==
  ASSUME TypeInv, CompletedInv, OwnersInv,
         \/ \E c \in Cancels, s \in Streams, mine \in BOOLEAN : CancelAsks(c, s, mine)
         \/ \E c \in Cancels : HandleCancel(c)
         \/ \E o \in Observers, s \in Streams, mine \in BOOLEAN : Attach(o, s, mine)
         \/ \E o \in Observers : PollTick(o) \/ PollEnds(o) \/ Leave(o)
  PROVE  OwnersInv'
PROOF
  <1>0. /\ cancel \in [Cancels -> CancelRequest] /\ observer \in [Observers -> Observer]
        /\ gen \in [Streams -> GenStates] /\ fin \in [Streams -> Finalizer]
        /\ \A c \in Cancels : cancel[c].st # "idle" => cancel[c].stream \in Streams
        /\ \A o \in Observers : observer[o].st # "idle" => observer[o].stream \in Streams
    BY DEF TypeInv, TypeOK, StreamTypeOK, Requests
  <1>1. ASSUME NEW c \in Cancels, CancelOwned(c)',
               \A t \in Callers \ {CancelOf(c)} : call'[t] = call[t],
               \A x \in Cancels : x # c => cancel'[x] = cancel[x],
               UNCHANGED <<gen, fin, writes, observer>>
        PROVE  OwnersInv'
    BY <1>1, OwnersMoved, TaskIds, TaskNames DEF Calling
  <1>2. ASSUME NEW o \in Observers, PollOwned(o)',
               \A t \in Callers \ {PollOf(o)} : call'[t] = call[t],
               \A x \in Observers : x # o => observer'[x] = observer[x],
               UNCHANGED <<gen, fin, writes, cancel>>
        PROVE  OwnersInv'
    BY <1>2, OwnersMoved, TaskIds, TaskNames DEF Calling
  <1>3. ASSUME NEW c \in Cancels, NEW s \in Streams, NEW mine \in BOOLEAN,
               CancelAsks(c, s, mine)
        PROVE  OwnersInv'
    <2>1. /\ cancel'[c].st = "reading" /\ cancel'[c].stream = s
          /\ \A x \in Cancels : x # c => cancel'[x] = cancel[x]
          /\ UNCHANGED <<gen, fin, writes, observer>>
      BY <1>0, <1>3 DEF CancelAsks, cancelOthers, progressVars
    <2>2. /\ call'[CancelOf(c)] = GetCall(s)
          /\ \A t \in Callers \ {CancelOf(c)} : call'[t] = call[t]
      BY <1>3, OneCall, TaskIds DEF CancelAsks
    <2> QED
      BY <1>1, <2>1, <2>2, CallNames DEF CancelOwned
  <1>4. ASSUME NEW c \in Cancels, CancelRefused(c) \/ CancelMarked(c)
        PROVE  OwnersInv'
    <2>1. /\ cancel'[c].st = "done"
          /\ \A x \in Cancels : x # c => cancel'[x] = cancel[x]
          /\ UNCHANGED <<gen, fin, writes, observer>>
      BY <1>0, <1>4
      DEF CancelRefused, CancelMarked, cancelOthers, progressVars, CompleteSubject,
          CancelRequest
    <2>2. /\ call'[CancelOf(c)] = Idle
          /\ \A t \in Callers \ {CancelOf(c)} : call'[t] = call[t]
      BY <1>4, OneCall, TaskIds DEF CancelRefused, CancelMarked
    <2> QED
      BY <1>1, <2>1, <2>2 DEF CancelOwned
  <1>5. ASSUME NEW c \in Cancels, CancelStops(c)
        PROVE  OwnersInv'
    <2>1. PICK x \in Streams : x = cancel[c].stream
      BY <1>0, <1>5 DEF CancelStops, Accepted
    <2>2. /\ cancel'[c].st = "done" /\ fin[x].pc = "idle"
          /\ \A d \in Cancels : d # c => cancel'[d] = cancel[d]
          /\ gen[x] = "running" /\ gen'[x] = "stopped"
          /\ \A y \in Streams : y # x => gen'[y] = gen[y]
          /\ UNCHANGED observer
      BY <1>0, <1>5, <2>1
      DEF CancelStops, Subscribed, cancelOthers, CancelRequest, CompletedInv, StoredOnce
    <2>3. /\ call'[CancelOf(c)] = Idle
          /\ \A t \in Callers \ {CancelOf(c)} : call'[t] = call[t]
      BY <1>5, OneCall, TaskIds DEF CancelStops
    <2>4. /\ fin'[x].pc = "flush" /\ \A y \in Streams : y # x => fin'[y] = fin[y]
          /\ \A y \in Streams, n \in 1 .. MaxWrites :
               /\ Calling(y, n)' <=> Calling(y, n)
               /\ Calling(y, n) => writes'[y][n].len = writes[y][n].len
      <3>1. PICK m : m = pending[x]
        OBVIOUS
      <3>2. FinalizerStarts(x, m, TRUE)
        BY <1>5, <2>1, <3>1 DEF CancelStops
      <3> QED
        BY <3>2, StartCalls
    <2>5. CancelOwned(c)'
      BY <2>2, <2>3 DEF CancelOwned
    <2> QED
      BY <2>2, <2>3, <2>4, <2>5, OwnersMoved, TaskIds, TaskNames
  <1>6. ASSUME NEW c \in Cancels, CancelMarks(c)
        PROVE  OwnersInv'
    <2>1. PICK s \in Streams : s = cancel[c].stream
      BY <1>0, <1>6 DEF CancelMarks, Accepted
    <2>2. /\ cancel'[c].st = "marking" /\ cancel'[c].stream = s /\ cancel'[c].how = "mark"
          /\ \A x \in Cancels : x # c => cancel'[x] = cancel[x]
          /\ UNCHANGED <<gen, fin, writes, observer>>
      BY <1>0, <1>6, <2>1 DEF CancelMarks, cancelOthers, progressVars, CancelRequest
    <2>3. /\ call'[CancelOf(c)] = MarkCall(s, "interrupted", FALSE)
          /\ \A t \in Callers \ {CancelOf(c)} : call'[t] = call[t]
      BY <1>6, <2>1, OneCall, TaskIds DEF CancelMarks
    <2>4. Is(MarkCall(s, "interrupted", FALSE), "mark", s)
      BY CallNames
    <2> QED
      BY <1>1, <2>2, <2>3, <2>4 DEF CancelOwned
  <1>7. ASSUME NEW o \in Observers, NEW s \in Streams, NEW mine \in BOOLEAN,
               Attach(o, s, mine)
        PROVE  OwnersInv'
    <2>1. /\ observer'[o].st = "watching" /\ observer'[o].stream = s
          /\ \A x \in Observers : x # o => observer'[x] = observer[x]
          /\ UNCHANGED <<gen, fin, writes, cancel>>
      BY <1>0, <1>7 DEF Attach, observerOthers, progressVars, NoObserver
    <2>2. /\ call'[PollOf(o)] = GetCall(s)
          /\ \A t \in Callers \ {PollOf(o)} : call'[t] = call[t]
      BY <1>7, OneCall, TaskIds DEF Attach
    <2> QED
      BY <1>2, <2>1, <2>2, CallNames DEF PollOwned
  <1>8. ASSUME NEW o \in Observers, PollTick(o)
        PROVE  OwnersInv'
    <2>1. PICK s \in Streams : s = observer[o].stream
      BY <1>0, <1>8 DEF PollTick
    <2>2. observer[o].st = "watching" /\ UNCHANGED <<gen, fin, writes, cancel, observer>>
      BY <1>8 DEF PollTick, observerOthers, progressVars
    <2>3. /\ call'[PollOf(o)] = GetCall(s)
          /\ \A t \in Callers \ {PollOf(o)} : call'[t] = call[t]
      BY <1>8, <2>1, OneCall, TaskIds DEF PollTick
    <2> QED
      BY <1>2, <2>1, <2>2, <2>3, CallNames DEF PollOwned
  <1>9. ASSUME NEW o \in Observers, PollEnds(o)
        PROVE  OwnersInv'
    <2>1. /\ \A x \in Observers : x # o => observer'[x] = observer[x]
          /\ UNCHANGED <<gen, fin, writes, cancel>>
      BY <1>0, <1>9
      DEF PollEnds, PollRejected, PollAnswered, observerOthers, progressVars, CompleteSubject
    <2>2. /\ call'[PollOf(o)] = Idle
          /\ \A t \in Callers \ {PollOf(o)} : call'[t] = call[t]
      BY <1>9, OneCall, TaskIds DEF PollEnds, PollRejected, PollAnswered
    <2> QED
      BY <1>2, <2>1, <2>2 DEF PollOwned
  <1>10. ASSUME NEW o \in Observers, Leave(o)
         PROVE  OwnersInv'
    <2>1. /\ \A x \in Observers : x # o => observer'[x] = observer[x]
          /\ observer'[o].stream = observer[o].stream /\ observer'[o].st = "left"
          /\ UNCHANGED <<call, gen, fin, writes, cancel>>
      BY <1>0, <1>10 DEF Leave, observerOthers, progressVars, sessionVars, Observer
    <2> QED
      BY <2>1, OwnersMoved DEF Calling
  <1> QED
    BY <1>3, <1>4, <1>5, <1>6, <1>7, <1>8, <1>9, <1>10 DEF HandleCancel

LEMMA OwnersStep ==
  ASSUME TypeInv, CompletedInv, OwnersInv, [Next]_vars
  PROVE  OwnersInv'
PROOF
  <1>1. CASE Redis
    BY <1>1, ServeGoes, OwnersServed DEF Redis
  <1>2. CASE Expiry
    BY <1>2, OwnersServed DEF Expiry, Expire, Goes
  <1>3. CASE Continuation
    <2>1. ASSUME NEW s \in Streams, FailMarked(s)
          PROVE  OwnersInv'
      <3>1. CASE Return(FailOf(s)) /\ UNCHANGED <<stores, streamVars>>
        <4>1. /\ call'[FailOf(s)] = Idle
              /\ \A t \in Callers \ {FailOf(s)} : call'[t] = call[t]
          BY <3>1, OneCall, TaskIds
        <4>2. FailOwned(s)'
          BY <4>1 DEF FailOwned
        <4> QED
          BY <3>1, <4>1, <4>2, OwnersMoved, TaskIds, TaskNames DEF streamVars, Calling
      <3>2. CASE ProcessEnds
        BY <3>2, OwnersProcessEnds
      <3> QED
        BY <2>1, <3>1, <3>2 DEF FailMarked
    <2>2. ASSUME NEW s \in Streams, FinDies(s)
          PROVE  OwnersInv'
      BY <2>2, OwnersProcessEnds DEF FinDies
    <2> QED
      BY <1>3, <2>1, <2>2, OwnersGeneration, OwnersFinalizer, OwnersRequests
      DEF Continuation, FinGoesOn
  <1>4. CASE Event
    BY <1>4, OwnersGeneration, OwnersFinalizer, OwnersRequests DEF Event
  <1>5. CASE Crash
    BY <1>5, OwnersProcessEnds DEF Crash
  <1>6. CASE UNCHANGED vars
    BY <1>6, OwnersServed DEF vars, sessionVars, Goes
  <1> QED
    BY <1>1, <1>2, <1>3, <1>4, <1>5, <1>6 DEF Next

LEMMA OwnersStart == Init => OwnersInv
PROOF
  <1> SUFFICES ASSUME Init PROVE OwnersInv
    OBVIOUS
  <1>1. /\ \A t \in Callers : call[t] = Idle
        /\ \A s \in Streams : gen[s] # "creating" /\ fin[s].pc = "idle" /\ writes[s] = <<>>
        /\ \A c \in Cancels : cancel[c].st = "idle"
    BY FreshCalls DEF Init, SessionInit, NoFinalizer, NoCancel
  <1>2. \A s \in Streams, n \in 1 .. MaxWrites : ~Calling(s, n)
    BY <1>1 DEF Calling
  <1> QED
    BY <1>1, <1>2, TaskIds
    DEF OwnersInv, CreateOwned, FailOwned, FinalOwned, WriteOwned, CancelOwned, PollOwned

-----------------------------------------------------------------------------
(* The queue of commands, and what a turn of JavaScript does to it.        *)

\* The commands on the wire are those of the calls in flight, one each.
OnWire(t) == \E i \in DOMAIN wire : wire[i] = t
WireInv ==
  /\ \A i, j \in DOMAIN wire : wire[i] = wire[j] => i = j
  /\ \A t \in Callers : InFlight(t) <=> OnWire(t)

\* The command of x is served before that of y.
Before(x, y) == \E i, j \in DOMAIN wire : i < j /\ wire[i] = x /\ wire[j] = y

\* Serving a command takes it from the head; if its call goes on, it goes to the end.
LEMMA ServeMoves ==
  ASSUME TypeInv, Serve, NEW h, h = Head(wire)
  PROVE  /\ h \in Callers /\ InFlight(h)
         /\ \A t \in Callers : t # h => call'[t] = call[t]
         /\ \/ wire' = Tail(wire) /\ ~InFlight(h)'
            \/ wire' = Append(Tail(wire), h) /\ InFlight(h)'
PROOF
  <1>1. h \in Callers /\ call \in [Callers -> Call]
    BY DEF Serve, TypeInv, TypeOK, SessionTypeOK
  <1>2. ServeLookup(h) \/ ServeRead(h) \/ ServeSave(h) \/ ServeDel(h) \/ ServeFault(h)
    BY DEF Serve
  <1>3. InFlight(h)
    BY <1>2 DEF ServeLookup, ServeRead, ServeSave, ServeDel, ServeFault, InFlight
  <1>4. ASSUME NEW snap, NEW ok, Answer(h, snap, ok)
        PROVE  /\ \A t \in Callers : t # h => call'[t] = call[t]
               /\ wire' = Tail(wire) /\ ~InFlight(h)'
    <2>1. PICK c : c = [call[h] EXCEPT !.stage = "back", !.snap = snap, !.ok = ok]
      OBVIOUS
    <2>2. c.stage = "back"
      BY <1>1, <2>1 DEF Call
    <2>3. call' = [call EXCEPT ![h] = c]
      BY <1>4, <2>1 DEF Answer
    <2>4. call'[h] = c /\ \A t \in Callers : t # h => call'[t] = call[t]
      BY <1>1, <2>3
    <2> QED
      BY <1>4, <2>2, <2>4 DEF Answer, InFlight
  <1>5. ASSUME NEW snap, NEW stage \in {"save", "del"}, Continue(h, stage, snap)
        PROVE  /\ \A t \in Callers : t # h => call'[t] = call[t]
               /\ wire' = Append(Tail(wire), h) /\ InFlight(h)'
    <2>1. PICK c : c = [call[h] EXCEPT !.stage = stage, !.snap = snap]
      OBVIOUS
    <2>2. c.stage = stage
      BY <1>1, <2>1 DEF Call
    <2>3. call' = [call EXCEPT ![h] = c]
      BY <1>5, <2>1 DEF Continue
    <2>4. call'[h] = c /\ \A t \in Callers : t # h => call'[t] = call[t]
      BY <1>1, <2>3
    <2> QED
      BY <1>5, <2>2, <2>4 DEF Continue, InFlight
  <1>6. CASE ServeLookup(h) \/ ServeRead(h)
    BY <1>1, <1>3, <1>4, <1>5, <1>6 DEF ServeLookup, ServeRead
  <1>7. CASE ServeSave(h) \/ ServeDel(h) \/ ServeFault(h)
    BY <1>1, <1>3, <1>4, <1>5, <1>7 DEF ServeSave, ServeDel, ServeFault
  <1> QED
    BY <1>2, <1>6, <1>7

\* So the commands keep their order, and one that is sent again comes last.
LEMMA WireServed ==
  ASSUME TypeInv, WireInv, Serve, NEW h, h = Head(wire)
  PROVE  /\ WireInv'
         /\ h \in Callers /\ InFlight(h)
         /\ \A t \in Callers : t # h => call'[t] = call[t]
         /\ \A t \in Callers : InFlight(t) /\ t # h => Before(h, t)
         /\ \A x, y \in Callers : Before(x, y)' =>
              x # h /\ (Before(x, y) \/ (y = h /\ InFlight(x)))
PROOF
  <1>1. PICK w \in Seq(Callers) : w = wire
    BY DEF TypeInv, TypeOK, SessionTypeOK
  <1>2. /\ h \in Callers /\ InFlight(h)
        /\ \A t \in Callers : t # h => call'[t] = call[t]
        /\ \/ wire' = Tail(wire) /\ ~InFlight(h)'
           \/ wire' = Append(Tail(wire), h) /\ InFlight(h)'
    BY ServeMoves
  <1>3. /\ Len(w) \in Nat /\ Len(w) > 0 /\ DOMAIN w = 1 .. Len(w) /\ h = w[1]
        /\ Tail(w) \in Seq(Callers) /\ DOMAIN Tail(w) = 1 .. Len(w) - 1
        /\ \A i \in 1 .. Len(w) - 1 : Tail(w)[i] = w[i + 1]
    BY <1>1 DEF Serve
  <1>4. /\ DOMAIN Append(Tail(w), h) = 1 .. Len(w)
        /\ \A i \in 1 .. Len(w) - 1 : Append(Tail(w), h)[i] = w[i + 1]
        /\ Append(Tail(w), h)[Len(w)] = h
    BY <1>3
  <1>5. /\ \A i, j \in 1 .. Len(w) : w[i] = w[j] => i = j
        /\ \A t \in Callers : InFlight(t) <=> \E i \in 1 .. Len(w) : w[i] = t
    BY <1>1, <1>3 DEF WireInv, OnWire
  <1>6. \A t \in Callers : t # h => (InFlight(t)' <=> InFlight(t))
    BY <1>2 DEF InFlight
  <1>7. \A t \in Callers : InFlight(t) /\ t # h => Before(h, t)
    BY <1>1, <1>3, <1>5 DEF Before
  <1>8. CASE wire' = Tail(wire) /\ ~InFlight(h)'
    <2>1. DOMAIN wire' = 1 .. Len(w) - 1 /\ \A i \in DOMAIN wire' : wire'[i] = w[i + 1]
      BY <1>1, <1>3, <1>8
    <2>2. \A i, j \in DOMAIN wire' : wire'[i] = wire'[j] => i = j
      BY <1>3, <1>5, <2>1
    <2>3. ASSUME NEW t \in Callers
          PROVE  InFlight(t)' <=> OnWire(t)'
      <3>1. CASE t = h
        BY <1>3, <1>5, <1>8, <2>1, <3>1 DEF OnWire
      <3>2. CASE t # h
        <4>1. ASSUME NEW i \in 1 .. Len(w), w[i] = t
              PROVE  \E k \in DOMAIN wire' : wire'[k] = t
          <5>1. i - 1 \in DOMAIN wire' /\ wire'[i - 1] = w[i]
            BY <1>3, <2>1, <3>2, <4>1
          <5> QED
            BY <4>1, <5>1
        <4>2. ASSUME NEW k \in DOMAIN wire', wire'[k] = t
              PROVE  \E i \in 1 .. Len(w) : w[i] = t
          <5>1. k + 1 \in 1 .. Len(w) /\ w[k + 1] = t
            BY <1>3, <2>1, <4>2
          <5> QED
            BY <5>1
        <4>3. OnWire(t)' <=> \E i \in 1 .. Len(w) : w[i] = t
          BY <4>1, <4>2 DEF OnWire
        <4> QED
          BY <1>5, <1>6, <3>2, <4>3 DEF InFlight
      <3> QED
        BY <3>1, <3>2
    <2>4. ASSUME NEW x \in Callers, NEW y \in Callers, Before(x, y)'
          PROVE  x # h /\ Before(x, y)
      <3>1. PICK i \in DOMAIN wire', j \in DOMAIN wire' :
              i < j /\ wire'[i] = x /\ wire'[j] = y
        BY <2>4 DEF Before
      <3>2. /\ i + 1 \in 1 .. Len(w) /\ j + 1 \in 1 .. Len(w) /\ i + 1 < j + 1
            /\ w[i + 1] = x /\ w[j + 1] = y /\ i + 1 # 1
        BY <1>3, <2>1, <3>1
      <3> QED
        BY <1>1, <1>3, <1>5, <3>2 DEF Before
    <2> QED
      BY <1>2, <1>7, <2>2, <2>3, <2>4 DEF WireInv
  <1>9. CASE wire' = Append(Tail(wire), h) /\ InFlight(h)'
    <2>1. /\ DOMAIN wire' = 1 .. Len(w) /\ wire'[Len(w)] = h
          /\ \A i \in 1 .. Len(w) - 1 : wire'[i] = w[i + 1]
      BY <1>1, <1>4, <1>9
    <2>2. \A i, j \in DOMAIN wire' : wire'[i] = wire'[j] => i = j
      <3>1. \A i \in DOMAIN wire' : i = Len(w) \/ (i \in 1 .. Len(w) - 1 /\ i + 1 \in 1 .. Len(w)
                                                   /\ i + 1 # 1)
        BY <1>3, <2>1
      <3> QED
        BY <1>3, <1>5, <2>1, <3>1
    <2>3. ASSUME NEW t \in Callers
          PROVE  InFlight(t)' <=> OnWire(t)'
      <3>1. CASE t = h
        BY <1>3, <1>9, <2>1, <3>1 DEF OnWire
      <3>2. CASE t # h
        <4>1. ASSUME NEW i \in 1 .. Len(w), w[i] = t
              PROVE  \E k \in DOMAIN wire' : wire'[k] = t
          <5>1. i - 1 \in DOMAIN wire' /\ wire'[i - 1] = w[i]
            BY <1>3, <2>1, <3>2, <4>1
          <5> QED
            BY <4>1, <5>1
        <4>2. ASSUME NEW k \in DOMAIN wire', wire'[k] = t
              PROVE  \E i \in 1 .. Len(w) : w[i] = t
          <5>1. k + 1 \in 1 .. Len(w) /\ w[k + 1] = t
            BY <1>3, <2>1, <3>2, <4>2
          <5> QED
            BY <5>1
        <4>3. OnWire(t)' <=> \E i \in 1 .. Len(w) : w[i] = t
          BY <4>1, <4>2 DEF OnWire
        <4> QED
          BY <1>5, <1>6, <3>2, <4>3 DEF InFlight
      <3> QED
        BY <3>1, <3>2
    <2>4. ASSUME NEW x \in Callers, NEW y \in Callers, Before(x, y)'
          PROVE  x # h /\ (Before(x, y) \/ (y = h /\ InFlight(x)))
      <3>1. PICK i \in DOMAIN wire', j \in DOMAIN wire' :
              i < j /\ wire'[i] = x /\ wire'[j] = y
        BY <2>4 DEF Before
      <3>2. i + 1 \in 1 .. Len(w) /\ i + 1 # 1 /\ w[i + 1] = x
        BY <1>3, <2>1, <3>1
      <3>3. x # h /\ InFlight(x)
        BY <1>3, <1>5, <3>2
      <3>4. CASE j = Len(w)
        BY <2>1, <3>1, <3>3, <3>4
      <3>5. CASE j # Len(w)
        <4>1. j + 1 \in 1 .. Len(w) /\ w[j + 1] = y /\ i + 1 < j + 1
          BY <1>3, <2>1, <3>1, <3>5
        <4> QED
          BY <1>1, <1>3, <3>2, <3>3, <4>1 DEF Before
      <3> QED
        BY <3>4, <3>5
    <2> QED
      BY <1>2, <1>7, <2>2, <2>3, <2>4 DEF WireInv
  <1> QED
    BY <1>2, <1>8, <1>9

\* A turn makes no call, or takes the result of one that is over, or starts one in
\* place of one that is not in flight; the turn of an error starts two.
Calls(t, c) ==
  /\ t \in Callers /\ ~InFlight(t)
  /\ c \in Call /\ c.stream \in Streams /\ c.snap = Null
  /\ Invoke(t, c)
CreateTurn(s) ==
  /\ gen[s] = "absent" /\ gen' = [gen EXCEPT ![s] = "creating"]
  /\ Calls(CreateOf(s), CreateCall(s))
ErrorTurn(s) ==
  /\ gen[s] = "running" /\ ~InFlight(FailOf(s)) /\ ~InFlight(FinalOf(s))
  /\ call' = [call EXCEPT ![FailOf(s)] = MarkCall(s, "failed", TRUE),
                          ![FinalOf(s)] = GetCall(s)]
  /\ wire' = wire \o <<FailOf(s), FinalOf(s)>>
QueryTurn(t, c) ==
  /\ Calls(t, c)
  /\ Known(c.stream) /\ c.op # "create" /\ c.stage = "get"
ResultTurn(t) == t \in Callers /\ Back(t) /\ Return(t)
Turn ==
  /\ UNCHANGED <<session, expired>>
  /\ \/ UNCHANGED <<call, wire>>
     \/ \E t \in Callers : ResultTurn(t)
     \/ \E t \in Callers, c \in Call : QueryTurn(t, c)
     \/ \E s \in Streams : CreateTurn(s) \/ ErrorTurn(s)

\* What is known of the calls after a turn.
LEMMA TurnMoves ==
  ASSUME TypeInv, WireInv, Turn
  PROVE  /\ WireInv'
         /\ \A x, y \in Callers : Before(x, y)' =>
              Before(x, y) \/ (~InFlight(y) /\ call'[y].snap = Null)
         /\ \A t \in Callers :
              \/ call'[t] = call[t]
              \/ ~InFlight(t) /\ call'[t].snap = Null /\ call'[t].stage \in {"idle", "get"}
              \/ \E s \in Streams : CreateTurn(s) /\ t = CreateOf(s)
PROOF
  <1>0. /\ call \in [Callers -> Call] /\ wire \in Seq(Callers)
        /\ Idle \in Call /\ Idle.snap = Null /\ Idle.stage = "idle"
    BY CallsTyped DEF TypeInv, TypeOK, SessionTypeOK, Idle
  <1>1. CASE UNCHANGED <<call, wire>>
    BY <1>1 DEF WireInv, InFlight, OnWire, Before
  <1>2. ASSUME NEW t \in Callers, ResultTurn(t)
        PROVE  /\ WireInv'
               /\ \A x, y \in Callers : Before(x, y)' => Before(x, y)
               /\ call'[t] = Idle /\ \A x \in Callers : x # t => call'[x] = call[x]
    BY <1>0, <1>2 DEF ResultTurn, Return, Back, WireInv, InFlight, OnWire, Before
  <1>3. ASSUME NEW t \in Callers, NEW c \in Call, Calls(t, c), c.stage \in {"get", "save"}
        PROVE  /\ WireInv'
               /\ \A x, y \in Callers : Before(x, y)' => Before(x, y) \/ y = t
               /\ call'[t] = c /\ \A x \in Callers : x # t => call'[x] = call[x]
    <2>1. call'[t] = c /\ \A x \in Callers : x # t => call'[x] = call[x]
      BY <1>0, <1>3 DEF Calls, Invoke
    <2>2. /\ Len(wire) \in Nat /\ DOMAIN wire = 1 .. Len(wire)
          /\ DOMAIN wire' = 1 .. Len(wire) + 1 /\ wire'[Len(wire) + 1] = t
          /\ \A i \in 1 .. Len(wire) : wire'[i] = wire[i]
      BY <1>0, <1>3 DEF Calls, Invoke
    <2>3. \A i \in 1 .. Len(wire) : wire[i] # t
      BY <1>3, <2>2 DEF WireInv, OnWire, Calls
    <2>4. \A i, j \in DOMAIN wire' : wire'[i] = wire'[j] => i = j
      BY <2>2, <2>3 DEF WireInv
    <2>5. ASSUME NEW x \in Callers
          PROVE  InFlight(x)' <=> OnWire(x)'
      <3>1. CASE x = t
        BY <1>3, <2>1, <2>2, <3>1 DEF InFlight, OnWire
      <3>2. CASE x # t
        <4>1. OnWire(x)' <=> OnWire(x)
          BY <2>2, <3>2 DEF OnWire
        <4>2. InFlight(x)' <=> InFlight(x)
          BY <2>1, <3>2 DEF InFlight
        <4> QED
          BY <4>1, <4>2 DEF WireInv
      <3> QED
        BY <3>1, <3>2
    <2>6. \A x, y \in Callers : Before(x, y)' => Before(x, y) \/ y = t
      BY <2>2 DEF Before
    <2> QED
      BY <2>1, <2>4, <2>5, <2>6 DEF WireInv
  <1>4. ASSUME NEW s \in Streams, ErrorTurn(s)
        PROVE  /\ WireInv'
               /\ \A x, y \in Callers :
                    Before(x, y)' => Before(x, y) \/ y \in {FailOf(s), FinalOf(s)}
               /\ call'[FailOf(s)] = MarkCall(s, "failed", TRUE)
               /\ call'[FinalOf(s)] = GetCall(s)
               /\ \A x \in Callers : x \notin {FailOf(s), FinalOf(s)} => call'[x] = call[x]
    <2>0. FailOf(s) \in Callers /\ FinalOf(s) \in Callers /\ FailOf(s) # FinalOf(s)
      BY TaskIds, TaskNames
    <2>1. /\ call'[FailOf(s)] = MarkCall(s, "failed", TRUE)
          /\ call'[FinalOf(s)] = GetCall(s)
          /\ \A x \in Callers : x \notin {FailOf(s), FinalOf(s)} => call'[x] = call[x]
      BY <1>0, <1>4, <2>0 DEF ErrorTurn
    <2>2. /\ Len(wire) \in Nat /\ DOMAIN wire = 1 .. Len(wire)
          /\ DOMAIN wire' = 1 .. Len(wire) + 2 /\ wire'[Len(wire) + 1] = FailOf(s)
          /\ wire'[Len(wire) + 2] = FinalOf(s)
          /\ \A i \in 1 .. Len(wire) : wire'[i] = wire[i]
      BY <1>0, <1>4, <2>0 DEF ErrorTurn
    <2>3. \A i \in 1 .. Len(wire) : wire[i] # FailOf(s) /\ wire[i] # FinalOf(s)
      BY <1>4, <2>0, <2>2 DEF WireInv, OnWire, ErrorTurn
    <2>4. \A i, j \in DOMAIN wire' : wire'[i] = wire'[j] => i = j
      <3>1. \A i \in DOMAIN wire' :
              i \in 1 .. Len(wire) \/ i = Len(wire) + 1 \/ i = Len(wire) + 2
        BY <2>2
      <3> QED
        BY <2>0, <2>2, <2>3, <3>1 DEF WireInv
    <2>5. ASSUME NEW x \in Callers
          PROVE  InFlight(x)' <=> OnWire(x)'
      <3>1. CASE x \in {FailOf(s), FinalOf(s)}
        <4>1. MarkCall(s, "failed", TRUE).stage = "get" /\ GetCall(s).stage = "get"
          BY DEF MarkCall, GetCall, Idle
        <4>2. InFlight(x)'
          BY <2>1, <3>1, <4>1 DEF InFlight
        <4>3. OnWire(x)'
          <5>1. Len(wire) + 1 \in DOMAIN wire' /\ Len(wire) + 2 \in DOMAIN wire'
            BY <2>2
          <5> QED
            BY <2>2, <3>1, <5>1 DEF OnWire
        <4> QED
          BY <4>2, <4>3
      <3>2. CASE x \notin {FailOf(s), FinalOf(s)}
        <4>1. OnWire(x)' <=> OnWire(x)
          BY <2>2, <3>2 DEF OnWire
        <4>2. InFlight(x)' <=> InFlight(x)
          BY <2>1, <3>2 DEF InFlight
        <4> QED
          BY <4>1, <4>2 DEF WireInv
      <3> QED
        BY <3>1, <3>2
    <2>6. \A x, y \in Callers : Before(x, y)' => Before(x, y) \/ y \in {FailOf(s), FinalOf(s)}
      BY <2>2 DEF Before
    <2> QED
      BY <2>1, <2>4, <2>5, <2>6 DEF WireInv
  <1>5. ASSUME NEW t \in Callers, NEW c \in Call, QueryTurn(t, c)
        PROVE  /\ WireInv'
               /\ \A x, y \in Callers : Before(x, y)' => Before(x, y) \/ y = t
               /\ call'[t] = c /\ \A x \in Callers : x # t => call'[x] = call[x]
    BY <1>3, <1>5 DEF QueryTurn
  <1>6. ASSUME NEW s \in Streams, CreateTurn(s)
        PROVE  /\ WireInv'
               /\ \A x, y \in Callers : Before(x, y)' => Before(x, y) \/ y = CreateOf(s)
               /\ call'[CreateOf(s)] = CreateCall(s)
               /\ \A x \in Callers : x # CreateOf(s) => call'[x] = call[x]
    <2>1. CreateCall(s) \in Call /\ CreateCall(s).stage = "save" /\ CreateOf(s) \in Callers
      BY CallsTyped, TaskIds DEF CreateCall, Idle
    <2> QED
      BY <1>3, <1>6, <2>1 DEF CreateTurn
  <1>7. ASSUME NEW t \in Callers, NEW c \in Call, QueryTurn(t, c)
        PROVE  c.snap = Null /\ c.stage = "get" /\ ~InFlight(t)
    BY <1>7 DEF QueryTurn, Calls
  <1>8. ASSUME NEW s \in Streams, CreateTurn(s)
        PROVE  CreateCall(s).snap = Null /\ ~InFlight(CreateOf(s))
    BY <1>8 DEF CreateTurn, Calls
  <1>9. ASSUME NEW s \in Streams, ErrorTurn(s)
        PROVE  /\ ~InFlight(FailOf(s)) /\ ~InFlight(FinalOf(s))
               /\ MarkCall(s, "failed", TRUE).snap = Null /\ GetCall(s).snap = Null
               /\ MarkCall(s, "failed", TRUE).stage = "get" /\ GetCall(s).stage = "get"
    BY <1>9 DEF ErrorTurn, MarkCall, GetCall, Idle
  <1>10. CASE \E t \in Callers : ResultTurn(t)
    <2>1. PICK t \in Callers : ResultTurn(t)
      BY <1>10
    <2>2. ~InFlight(t)
      BY <2>1 DEF ResultTurn, Back, InFlight
    <2> QED
      BY <1>0, <1>2, <2>1, <2>2
  <1>11. CASE \E t \in Callers, c \in Call : QueryTurn(t, c)
    <2>1. PICK t \in Callers, c \in Call : QueryTurn(t, c)
      BY <1>11
    <2> QED
      BY <1>5, <1>7, <2>1
  <1>12. CASE \E s \in Streams : CreateTurn(s)
    <2>1. PICK s \in Streams : CreateTurn(s)
      BY <1>12
    <2> QED
      BY <1>6, <1>8, <2>1
  <1>13. CASE \E s \in Streams : ErrorTurn(s)
    <2>1. PICK s \in Streams : ErrorTurn(s)
      BY <1>13
    <2> QED
      BY <1>4, <1>9, <2>1
  <1> QED
    BY <1>1, <1>10, <1>11, <1>12, <1>13 DEF Turn

\* Nothing is about a stream before it exists, and only its creation while it is created.
Unborn(s) ==
  /\ gen[s] = "absent" => session[s] = Null /\ \A t \in Callers : call[t].stream # s
  /\ gen[s] = "creating" =>
       /\ \A t \in Callers : call[t].stream = s => t = CreateOf(s)
       /\ call[CreateOf(s)].stage \in {"save", "back"}
       /\ call[CreateOf(s)].stage = "save" => session[s] = Null
  /\ ~Known(s) =>
       writes[s] = <<>> /\ s \notin timer /\ \A o \in Observers : observer[o].stream # s
UnbornInv == \A s \in Streams : Unborn(s)

\* What every turn leaves of a stream that is not known yet, unless it is the turn that
\* creates it or the one that learns that it is created.
Distant ==
  \A s \in Streams :
    IF Known(s) THEN Known(s)'
    ELSE /\ \/ gen'[s] = gen[s]
            \/ gen[s] = "absent" /\ CreateTurn(s)
            \/ gen[s] = "creating" /\ ResultTurn(CreateOf(s)) /\ Known(s)'
         /\ writes'[s] = writes[s] /\ (s \in timer' => s \in timer)
         /\ \A o \in Observers : observer'[o].stream = s => observer[o].stream = s
Acts == Turn /\ Distant

\* A turn about a stream that is known.
LEMMA NearTurn ==
  ASSUME Turn, NEW s \in Streams, Known(s), Known(s)',
         \A x \in Streams : x # s => gen'[x] = gen[x] /\ writes'[x] = writes[x],
         timer' \subseteq timer \cup {s},
         \A o \in Observers :
           observer'[o].stream = observer[o].stream \/ observer'[o].stream = s
  PROVE  Acts
PROOF
  <1>1. ASSUME NEW x \in Streams, x # s
        PROVE  Known(x)' <=> Known(x)
    BY <1>1 DEF Known
  <1> QED
    BY <1>1 DEF Acts, Distant

\* An idle call, or one that is over, is not in flight; what starts is a query.
LEMMA QueryCalls ==
  ASSUME TypeInv, NEW t \in Callers, NEW s \in Streams, Known(s), call[t] = Idle \/ Back(t)
  PROVE  /\ Invoke(t, GetCall(s)) => QueryTurn(t, GetCall(s))
         /\ \A text \in Text :
              Invoke(t, ProgressCall(s, text)) => QueryTurn(t, ProgressCall(s, text))
         /\ \A status \in Statuses, error \in BOOLEAN :
              Invoke(t, MarkCall(s, status, error)) => QueryTurn(t, MarkCall(s, status, error))
PROOF
  <1>1. ~InFlight(t)
    BY DEF InFlight, Idle, Back
  <1>2. ASSUME NEW c \in Call, c.stream = s, c.snap = Null, c.op # "create", c.stage = "get",
               Invoke(t, c)
        PROVE  QueryTurn(t, c)
    BY <1>1, <1>2 DEF QueryTurn, Calls
  <1>3. /\ GetCall(s).stream = s /\ GetCall(s).snap = Null
        /\ GetCall(s).op # "create" /\ GetCall(s).stage = "get"
    BY DEF GetCall, Idle
  <1>4. ASSUME NEW text \in Text
        PROVE  /\ ProgressCall(s, text).stream = s /\ ProgressCall(s, text).snap = Null
               /\ ProgressCall(s, text).op # "create" /\ ProgressCall(s, text).stage = "get"
    BY DEF ProgressCall, Idle
  <1>5. ASSUME NEW status \in Statuses, NEW error \in BOOLEAN
        PROVE  /\ MarkCall(s, status, error).stream = s
               /\ MarkCall(s, status, error).snap = Null
               /\ MarkCall(s, status, error).op # "create"
               /\ MarkCall(s, status, error).stage = "get"
    BY DEF MarkCall, Idle
  <1>6. Invoke(t, GetCall(s)) => QueryTurn(t, GetCall(s))
    BY <1>2, <1>3, CallsTyped
  <1>7. ASSUME NEW text \in Text, Invoke(t, ProgressCall(s, text))
        PROVE  QueryTurn(t, ProgressCall(s, text))
    BY <1>2, <1>4, <1>7, CallsTyped
  <1>8. ASSUME NEW status \in Statuses, NEW error \in BOOLEAN,
               Invoke(t, MarkCall(s, status, error))
        PROVE  QueryTurn(t, MarkCall(s, status, error))
    <2>1. MarkCall(s, status, error) \in Call
      BY CallsTyped
    <2> QED
      BY <1>2, <1>5, <1>8, <2>1
  <1> QED
    BY <1>6, <1>7, <1>8

\* A query, the result of a call, or no call: a turn.
LEMMA TurnOf ==
  ASSUME UNCHANGED <<session, expired>>
  PROVE  /\ UNCHANGED <<call, wire>> => Turn
         /\ \A t \in Callers : Back(t) /\ Return(t) => Turn
         /\ \A t \in Callers : \A c : QueryTurn(t, c) => Turn
         /\ \A s \in Streams : CreateTurn(s) \/ ErrorTurn(s) => Turn
PROOF
  BY DEF Turn, ResultTurn, QueryTurn, Calls

\* A generation and its progress writes.
LEMMA TurnGeneration ==
  ASSUME TypeInv, CompletedInv, OwnersInv, UnbornInv, NEW s \in Streams,
         \/ Create(s) \/ StartDetachedGeneration(s) \/ Generation(s)
         \/ TimerFires(s)
         \/ \E n \in DOMAIN writes[s] : WriteStarts(s, n) \/ WriteEnds(s, n)
  PROVE  Acts
PROOF
  <1>0. /\ gen \in [Streams -> GenStates] /\ writes \in [Streams -> Seq(Write)]
        /\ timer \subseteq Streams /\ fin \in [Streams -> Finalizer]
        /\ UNCHANGED <<session, expired, observer>>
    BY DEF TypeInv, TypeOK, StreamTypeOK, Create, StartDetachedGeneration, Generation, GenDelta,
           GenDone, GenError, TimerFires, WriteStarts, WriteEnds, stores
  <1>1. CASE Create(s)
    <2>1. CreateCall(s) \in Call /\ CreateCall(s).stream = s /\ CreateCall(s).snap = Null
      BY CallsTyped DEF CreateCall, Idle
    <2>2. ~InFlight(CreateOf(s)) /\ CreateOf(s) \in Callers
      BY <1>1, TaskIds DEF Create, OwnersInv, CreateOwned, InFlight, Idle
    <2>3. CreateTurn(s)
      BY <1>1, <2>1, <2>2 DEF Create, CreateTurn, Calls
    <2>4. Turn
      BY <1>0, <2>3, TurnOf
    <2> QED
      BY <1>0, <1>1, <2>3, <2>4 DEF Create, Known, Acts, Distant, progressVars
  <1>2. CASE StartDetachedGeneration(s)
    <2>1. ResultTurn(CreateOf(s))
      BY <1>2, TaskIds DEF StartDetachedGeneration, ResultTurn
    <2>2. Turn
      BY <1>0, <2>1 DEF Turn, ResultTurn
    <2>3. gen[s] = "creating" /\ Known(s)' /\ \A x \in Streams : x # s => gen'[x] = gen[x]
      BY <1>0, <1>2 DEF StartDetachedGeneration, Known
    <2>4. UNCHANGED <<writes, timer>>
      BY <1>2 DEF StartDetachedGeneration, progressVars
    <2> QED
      BY <1>0, <2>1, <2>2, <2>3, <2>4 DEF Known, Acts, Distant
  <1>3. ASSUME Known(s), Known(s)', Turn,
               \A x \in Streams : x # s => gen'[x] = gen[x] /\ writes'[x] = writes[x],
               timer' \subseteq timer \cup {s}
        PROVE  Acts
    BY <1>0, <1>3, NearTurn
  <1>4. CASE GenDelta(s) \/ GenDone(s)
    <2>1. Known(s) /\ Known(s)' /\ UNCHANGED <<call, wire>>
      BY <1>0, <1>4 DEF GenDelta, GenDone, Subscribed, Known
    <2>2. \A x \in Streams : x # s => gen'[x] = gen[x] /\ writes'[x] = writes[x]
      BY <1>0, <1>4 DEF GenDelta, GenDone, FinalizerStarts, QueueProgressUpdate
    <2>3. timer' \subseteq timer \cup {s}
      BY <1>0, <1>4 DEF GenDelta, GenDone, FinalizerStarts
    <2> QED
      BY <1>0, <1>3, <2>1, <2>2, <2>3, TurnOf
  <1>5. CASE GenError(s)
    <2>1. ~InFlight(FailOf(s)) /\ ~InFlight(FinalOf(s))
      BY <1>5 DEF GenError, Subscribed, OwnersInv, FailOwned, FinalOwned, InFlight, Idle,
                  CompletedInv, StoredOnce
    <2>2. ErrorTurn(s)
      BY <1>5, <2>1 DEF GenError, Subscribed, ErrorTurn
    <2>3. Known(s) /\ Known(s)'
      BY <1>0, <1>5 DEF GenError, Subscribed, Known
    <2>4. \A x \in Streams : x # s => gen'[x] = gen[x] /\ writes'[x] = writes[x]
      BY <1>0, <1>5 DEF GenError, CompleteSubject
    <2>5. timer' \subseteq timer \cup {s}
      BY <1>5 DEF GenError, CompleteSubject
    <2> QED
      BY <1>0, <1>3, <2>2, <2>3, <2>4, <2>5, TurnOf
  <1>6. CASE TimerFires(s)
    <2>1. Known(s) /\ Known(s)' /\ UNCHANGED <<call, wire>>
      BY <1>0, <1>6 DEF TimerFires, UnbornInv, Unborn, Known
    <2>2. \A x \in Streams : x # s => gen'[x] = gen[x] /\ writes'[x] = writes[x]
      BY <1>0, <1>6 DEF TimerFires, QueueProgressUpdate
    <2>3. timer' \subseteq timer \cup {s}
      BY <1>0, <1>6 DEF TimerFires
    <2> QED
      BY <1>0, <1>3, <2>1, <2>2, <2>3, TurnOf
  <1>7. ASSUME NEW n \in DOMAIN writes[s], WriteStarts(s, n) \/ WriteEnds(s, n)
        PROVE  Acts
    <2>1. Known(s)
      BY <1>0, <1>7 DEF UnbornInv, Unborn
    <2>2. Known(s)' /\ UNCHANGED timer
      BY <1>7, <2>1 DEF WriteStarts, WriteEnds, Known
    <2>3. \A x \in Streams : x # s => gen'[x] = gen[x] /\ writes'[x] = writes[x]
      BY <1>0, <1>7 DEF WriteStarts, WriteEnds
    <2>4. n \in 1 .. MaxWrites /\ WriteOf(s, n) \in Callers
      BY <1>7, TaskIds, WritesBounded
    <2>5. CASE WriteStarts(s, n)
      <3>1. call[WriteOf(s, n)] = Idle
        BY <1>7, <2>4, <2>5 DEF WriteStarts, OwnersInv, WriteOwned, Calling
      <3>2. Txt(writes[s][n].len, "none") \in Text
        <4>1. writes[s][n] \in Write
          BY <1>0, <1>7
        <4> QED
          BY <4>1, TxtTyped DEF Write, Marks
      <3>3. PICK text \in Text : text = Txt(writes[s][n].len, "none")
        BY <3>2
      <3>4. Invoke(WriteOf(s, n), ProgressCall(s, text))
        BY <2>5, <3>3 DEF WriteStarts
      <3>5. QueryTurn(WriteOf(s, n), ProgressCall(s, text))
        BY <2>1, <2>4, <3>1, <3>4, QueryCalls
      <3>6. Turn
        BY <1>0, <2>4, <3>5, TurnOf
      <3> QED
        BY <1>3, <2>1, <2>2, <2>3, <3>6
    <2>6. CASE WriteEnds(s, n)
      <3>1. Turn
        BY <1>0, <2>4, <2>6, TurnOf DEF WriteEnds
      <3> QED
        BY <1>3, <2>1, <2>2, <2>3, <3>1
    <2> QED
      BY <1>7, <2>5, <2>6
  <1> QED
    BY <1>1, <1>2, <1>4, <1>5, <1>6, <1>7 DEF Generation

\* The finalizer, from its first await to its end.
LEMMA TurnFinalizer ==
  ASSUME TypeInv, CompletedInv, PromiseInv, OwnersInv, NEW s \in Streams,
         \/ FinFlushed(s) \/ FinAbandons(s) \/ FinFails(s) \/ FinResolves(s)
         \/ FinProgressed(s) \/ FinMarked(s) \/ FinDatabase(s)
  PROVE  Acts
PROOF
  <1>0. /\ fin \in [Streams -> Finalizer] /\ timer \subseteq Streams
        /\ FinalOf(s) \in Callers
        /\ UNCHANGED <<session, expired, gen, writes, observer>>
    BY TaskIds
    DEF TypeInv, TypeOK, StreamTypeOK, FinFlushed, FinAbandons, FinFails, FinResolves,
        FinProgressed, FinMarked, FinDatabase, FinStores, FinTouches, FinStoreFails,
        finOthers, progressVars, CompleteSubject, stores
  <1>1. fin[s].pc # "idle"
    BY DEF FinFlushed, FinAbandons, FinFails, FinResolves, FinProgressed, FinMarked,
           FinDatabase, FinStores, FinTouches, FinStoreFails, FinBack
  <1>2. Known(s) /\ Known(s)'
    BY <1>0, <1>1 DEF CompletedInv, StoredOnce, PromiseInv, FinalizedAsEnded, Known
  <1>3. timer' \subseteq timer
    BY DEF FinFlushed, FinAbandons, FinFails, FinResolves, FinProgressed, FinMarked,
           FinDatabase, FinStores, FinTouches, FinStoreFails, progressVars, CompleteSubject
  <1>4. ASSUME Turn PROVE Acts
    BY <1>0, <1>2, <1>3, <1>4, NearTurn
  <1>5. CASE FinFlushed(s)
    <2>1. call[FinalOf(s)] = Idle
      BY <1>5 DEF FinFlushed, OwnersInv, FinalOwned
    <2>2. QueryTurn(FinalOf(s), GetCall(s))
      BY <1>0, <1>2, <1>5, <2>1, QueryCalls DEF FinFlushed
    <2> QED
      BY <1>0, <1>4, <2>2, TurnOf
  <1>6. CASE FinAbandons(s) \/ FinMarked(s) \/ FinResolves(s)
    <2>1. Back(FinalOf(s)) /\ Return(FinalOf(s))
      BY <1>6 DEF FinAbandons, FinMarked, FinResolves, FinBack
    <2> QED
      BY <1>0, <1>4, <2>1, TurnOf
  <1>7. CASE FinStores(s)
    BY <1>0, <1>4, <1>7, TurnOf DEF FinStores
  <1>8. CASE FinTouches(s)
    <2>1. call[FinalOf(s)] = Idle
      BY <1>8 DEF FinTouches, OwnersInv, FinalOwned
    <2>2. PICK text \in Text : text = fin[s].text
      BY <1>0, <1>8, NullAssumption DEF FinTouches, Finalizer
    <2>3. QueryTurn(FinalOf(s), ProgressCall(s, text))
      BY <1>0, <1>2, <1>8, <2>1, <2>2, QueryCalls DEF FinTouches
    <2> QED
      BY <1>0, <1>4, <2>3, TurnOf
  <1>9. ASSUME NEW status \in Statuses, Invoke(FinalOf(s), MarkCall(s, status, FALSE)),
               call[FinalOf(s)] = Idle \/ Back(FinalOf(s))
        PROVE  Acts
    <2>1. QueryTurn(FinalOf(s), MarkCall(s, status, FALSE))
      BY <1>0, <1>2, <1>9, QueryCalls
    <2> QED
      BY <1>0, <1>4, <2>1, TurnOf
  <1>10. {"failed", "interrupted", "completed"} \subseteq Statuses
    BY DEF Statuses
  <1>11. CASE FinStoreFails(s)
    <2>1. call[FinalOf(s)] = Idle
      BY <1>11 DEF FinStoreFails, OwnersInv, FinalOwned
    <2> QED
      BY <1>9, <1>10, <1>11, <2>1 DEF FinStoreFails
  <1>12. CASE FinFails(s) \/ FinProgressed(s)
    BY <1>9, <1>10, <1>12 DEF FinFails, FinProgressed, FinBack
  <1> QED
    BY <1>5, <1>6, <1>7, <1>8, <1>11, <1>12 DEF FinDatabase

\* Stops and observers.
LEMMA TurnRequests ==
  ASSUME TypeInv, CompletedInv, PromiseInv, OwnersInv, UnbornInv,
         \/ \E c \in Cancels, s \in Streams, mine \in BOOLEAN : CancelAsks(c, s, mine)
         \/ \E c \in Cancels : HandleCancel(c)
         \/ \E o \in Observers, s \in Streams, mine \in BOOLEAN : Attach(o, s, mine)
         \/ \E o \in Observers : PollTick(o) \/ PollEnds(o) \/ Leave(o)
  PROVE  Acts
PROOF
  <1>0. /\ cancel \in [Cancels -> CancelRequest] /\ observer \in [Observers -> Observer]
        /\ gen \in [Streams -> GenStates] /\ fin \in [Streams -> Finalizer]
        /\ writes \in [Streams -> Seq(Write)] /\ timer \subseteq Streams
        /\ \A c \in Cancels : cancel[c].st # "idle" =>
             cancel[c].stream \in Streams /\ Known(cancel[c].stream)
        /\ \A o \in Observers : observer[o].st # "idle" => observer[o].stream \in Streams
    BY DEF TypeInv, TypeOK, StreamTypeOK, Requests, PromiseInv
  <1>1. \A o \in Observers : observer[o].st # "idle" => Known(observer[o].stream)
    BY <1>0 DEF UnbornInv, Unborn
  <1>2. /\ \A c \in Cancels : CancelOf(c) \in Callers
        /\ \A o \in Observers : PollOf(o) \in Callers
    BY TaskIds
  <1>3. ASSUME NEW s \in Streams, Known(s), Turn, UNCHANGED <<gen, writes>>,
               timer' \subseteq timer,
               \A o \in Observers :
                 observer'[o].stream = observer[o].stream \/ observer'[o].stream = s
        PROVE  Acts
    <2>1. Known(s)'
      BY <1>3 DEF Known
    <2> QED
      BY <1>3, <2>1, NearTurn
  <1>4. ASSUME NEW c \in Cancels, NEW s \in Streams, NEW mine \in BOOLEAN,
               CancelAsks(c, s, mine)
        PROVE  Acts
    <2>1. call[CancelOf(c)] = Idle /\ Known(s)
      BY <1>4 DEF CancelAsks, OwnersInv, CancelOwned
    <2>2. QueryTurn(CancelOf(c), GetCall(s))
      BY <1>2, <1>4, <2>1, QueryCalls DEF CancelAsks
    <2>3. UNCHANGED <<session, expired, gen, writes, timer, observer>>
      BY <1>4 DEF CancelAsks, stores, cancelOthers, progressVars
    <2> QED
      BY <1>2, <1>3, <2>1, <2>2, <2>3, TurnOf
  <1>5. ASSUME NEW c \in Cancels, CancelRefused(c) \/ CancelMarked(c)
        PROVE  Acts
    <2>1. cancel[c].st # "idle" /\ Back(CancelOf(c)) /\ Return(CancelOf(c))
      BY <1>5 DEF CancelRefused, CancelMarked
    <2>2. UNCHANGED <<session, expired, gen, writes, observer>> /\ timer' \subseteq timer
      BY <1>5 DEF CancelRefused, CancelMarked, stores, cancelOthers, progressVars,
                  CompleteSubject
    <2> QED
      BY <1>0, <1>2, <1>3, <2>1, <2>2, TurnOf
  <1>6. ASSUME NEW c \in Cancels, CancelStops(c)
        PROVE  Acts
    <2>1. PICK s \in Streams : s = cancel[c].stream
      BY <1>0, <1>6 DEF CancelStops, Accepted
    <2>2. /\ Back(CancelOf(c)) /\ Return(CancelOf(c))
          /\ UNCHANGED <<session, expired, observer>>
          /\ gen[s] = "running" /\ gen' = [gen EXCEPT ![s] = "stopped"]
      BY <1>6, <2>1 DEF CancelStops, Accepted, Subscribed, stores, cancelOthers
    <2>3. PICK m : m = pending[s]
      OBVIOUS
    <2>4. FinalizerStarts(s, m, TRUE)
      BY <1>6, <2>1, <2>3 DEF CancelStops
    <2>5. /\ \A x \in Streams : x # s => writes'[x] = writes[x]
          /\ timer' \subseteq timer
      BY <1>0, <2>4 DEF FinalizerStarts, QueueProgressUpdate
    <2>6. Known(s) /\ Known(s)' /\ \A x \in Streams : x # s => gen'[x] = gen[x]
      BY <1>0, <2>2 DEF Known
    <2> QED
      BY <1>2, <2>2, <2>5, <2>6, TurnOf, NearTurn
  <1>7. ASSUME NEW c \in Cancels, CancelMarks(c)
        PROVE  Acts
    <2>1. PICK s \in Streams : s = cancel[c].stream
      BY <1>0, <1>7 DEF CancelMarks, Accepted
    <2>2. Known(s) /\ Back(CancelOf(c))
      BY <1>0, <1>7, <2>1 DEF CancelMarks, Accepted
    <2>3. Invoke(CancelOf(c), MarkCall(s, "interrupted", FALSE))
      BY <1>7, <2>1 DEF CancelMarks
    <2>4. QueryTurn(CancelOf(c), MarkCall(s, "interrupted", FALSE))
      BY <1>2, <2>2, <2>3, QueryCalls DEF Statuses
    <2>5. UNCHANGED <<session, expired, gen, writes, timer, observer>>
      BY <1>7 DEF CancelMarks, stores, cancelOthers, progressVars
    <2> QED
      BY <1>2, <1>3, <2>2, <2>4, <2>5, TurnOf
  <1>8. ASSUME NEW o \in Observers, NEW s \in Streams, NEW mine \in BOOLEAN,
               Attach(o, s, mine)
        PROVE  Acts
    <2>1. Known(s)
      BY <1>8 DEF Attach
    <2>2. call[PollOf(o)] = Idle
      BY <1>8 DEF Attach, OwnersInv, PollOwned
    <2>3. QueryTurn(PollOf(o), GetCall(s))
      BY <1>2, <1>8, <2>1, <2>2, QueryCalls DEF Attach
    <2>4. UNCHANGED <<session, expired, gen, writes, timer>>
      BY <1>8 DEF Attach, stores, observerOthers, progressVars
    <2>5. \A x \in Observers :
            observer'[x].stream = observer[x].stream \/ observer'[x].stream = s
      BY <1>0, <1>8 DEF Attach, NoObserver
    <2> QED
      BY <1>2, <1>3, <2>1, <2>3, <2>4, <2>5, TurnOf
  <1>9. ASSUME NEW o \in Observers, PollTick(o)
        PROVE  Acts
    <2>1. PICK s \in Streams : s = observer[o].stream /\ Known(s)
      BY <1>0, <1>1, <1>9 DEF PollTick
    <2>2. Invoke(PollOf(o), GetCall(s)) /\ call[PollOf(o)] = Idle
      BY <1>9, <2>1 DEF PollTick
    <2>3. QueryTurn(PollOf(o), GetCall(s))
      BY <1>2, <2>1, <2>2, QueryCalls
    <2>4. UNCHANGED <<session, expired, gen, writes, timer, observer>>
      BY <1>9 DEF PollTick, stores, observerOthers, progressVars
    <2> QED
      BY <1>2, <1>3, <2>1, <2>3, <2>4, TurnOf
  <1>10. ASSUME NEW o \in Observers, PollEnds(o)
         PROVE  Acts
    <2>1. Back(PollOf(o)) /\ Return(PollOf(o))
      BY <1>10 DEF PollEnds, PollRejected, PollAnswered
    <2>2. call[PollOf(o)] # Idle
      BY <2>1 DEF Back, Idle
    <2>3. observer[o].st # "idle"
      BY <2>2 DEF OwnersInv, PollOwned
    <2>4. UNCHANGED <<session, expired, gen, writes>> /\ timer' \subseteq timer
      BY <1>10 DEF PollEnds, PollRejected, PollAnswered, stores, observerOthers, progressVars,
                   CompleteSubject
    <2>5. \A x \in Observers : observer'[x].stream = observer[x].stream
      <3>1. CASE PollRejected(o)
        BY <1>0, <3>1 DEF PollRejected, Observer
      <3>2. CASE PollAnswered(o)
        <4>1. PICK snap : snap = call[PollOf(o)].snap
          OBVIOUS
        <4>2. observer' = [observer EXCEPT ![o] = Seen(observer[o], snap)]
          BY <3>2, <4>1 DEF PollAnswered
        <4>3. Seen(observer[o], snap).stream = observer[o].stream
          BY <1>0 DEF Seen, Observer
        <4> QED
          BY <1>0, <4>2, <4>3
      <3> QED
        BY <1>10, <3>1, <3>2 DEF PollEnds
    <2> QED
      BY <1>0, <1>1, <1>2, <1>3, <2>1, <2>3, <2>4, <2>5, TurnOf
  <1>11. ASSUME NEW o \in Observers, Leave(o)
         PROVE  Acts
    <2>1. UNCHANGED <<session, expired, call, wire, gen, writes, timer>>
      BY <1>11 DEF Leave, sessionVars, observerOthers, progressVars
    <2>2. \A x \in Observers : observer'[x].stream = observer[x].stream
      BY <1>0, <1>11 DEF Leave, Observer
    <2>3. observer[o].st # "idle"
      BY <1>11 DEF Leave
    <2> QED
      BY <1>0, <1>1, <1>3, <2>1, <2>2, <2>3, TurnOf
  <1> QED
    BY <1>4, <1>5, <1>6, <1>7, <1>8, <1>9, <1>10, <1>11 DEF HandleCancel

\* Every step is a command of Redis, the end of a TTL, the end of the process, or a turn.
LEMMA StepKinds ==
  ASSUME TypeInv, CompletedInv, PromiseInv, OwnersInv, UnbornInv, [Next]_vars
  PROVE  \/ Serve /\ UNCHANGED streamVars
         \/ Expiry
         \/ ProcessEnds
         \/ Acts
PROOF
  <1>1. CASE Redis
    BY <1>1 DEF Redis
  <1>2. CASE Continuation
    <2>1. ASSUME NEW s \in Streams, FailMarked(s)
          PROVE  ProcessEnds \/ Acts
      <3>1. CASE Return(FailOf(s)) /\ UNCHANGED <<stores, streamVars>>
        <4>1. Turn
          BY <2>1, <3>1, TurnOf, TaskIds DEF FailMarked, stores
        <4>2. \A x \in Streams : Known(x)' <=> Known(x)
          BY <3>1 DEF streamVars, Known
        <4> QED
          BY <3>1, <4>1, <4>2 DEF streamVars, Acts, Distant
      <3> QED
        BY <2>1, <3>1 DEF FailMarked
    <2>2. ASSUME NEW s \in Streams, FinDies(s)
          PROVE  ProcessEnds
      BY <2>2 DEF FinDies
    <2> QED
      BY <1>2, <2>1, <2>2, TurnGeneration, TurnFinalizer, TurnRequests
      DEF Continuation, FinGoesOn
  <1>3. CASE Event
    BY <1>3, TurnGeneration, TurnFinalizer, TurnRequests DEF Event
  <1>4. CASE Crash
    BY <1>4 DEF Crash
  <1>5. CASE UNCHANGED vars
    <2>1. Turn
      BY <1>5, TurnOf DEF vars, sessionVars
    <2>2. \A x \in Streams : Known(x)' <=> Known(x)
      BY <1>5 DEF vars, streamVars, Known
    <2> QED
      BY <1>5, <2>1, <2>2 DEF vars, streamVars, Acts, Distant
  <1> QED
    BY <1>1, <1>2, <1>3, <1>4, <1>5 DEF Next

\* The wire, whoever acts.
LEMMA WireStep ==
  ASSUME TypeInv, CompletedInv, PromiseInv, OwnersInv, UnbornInv, WireInv, [Next]_vars
  PROVE  WireInv'
PROOF
  <1>1. CASE Serve
    <2>1. PICK h : h = Head(wire)
      OBVIOUS
    <2> QED
      BY <1>1, <2>1, WireServed
  <1>2. CASE Expiry
    BY <1>2 DEF Expiry, Expire, WireInv, InFlight, OnWire
  <1>3. CASE ProcessEnds
    BY <1>3 DEF ProcessEnds, WireInv, InFlight, OnWire, Idle
  <1>4. CASE Acts
    BY <1>4, TurnMoves DEF Acts
  <1> QED
    BY <1>1, <1>2, <1>3, <1>4, StepKinds

\* What Redis does to a session: the call at the head of the wire may save what it has
\* made of its snapshot, and then holds none; or it takes what is there for its snapshot.
Saves(h) ==
  /\ call[h].stage = "save" /\ call'[h].stage \in {"del", "back"} /\ call'[h].snap = Null
  /\ session' = [session EXCEPT ![call[h].stream] = Written(call[h])]
LEMMA ServeSessions ==
  ASSUME TypeInv, Serve, NEW h, h = Head(wire)
  PROVE  /\ h \in Callers /\ call[h].stream \in Streams
         /\ call'[h].op = call[h].op /\ call'[h].stream = call[h].stream
         /\ call'[h].text = call[h].text /\ call'[h].status = call[h].status
         /\ \A t \in Callers : t # h => call'[t] = call[t]
         /\ \/ Saves(h)
            \/ /\ UNCHANGED session
               /\ \/ call'[h].stage = "back" /\ call'[h].snap = Null
                  \/ /\ call[h].stage = "get" /\ call'[h].snap = session[call[h].stream]
                     /\ call'[h].stage \in {"save", "back"}
                     /\ call'[h].stage = "save" =>
                          call[h].op # "get" /\ session[call[h].stream] # Null
PROOF
  <1>1. h \in Callers /\ call \in [Callers -> Call] /\ call[h] \in Call
    BY DEF Serve, TypeInv, TypeOK, SessionTypeOK
  <1>2. ServeLookup(h) \/ ServeRead(h) \/ ServeSave(h) \/ ServeDel(h) \/ ServeFault(h)
    BY DEF Serve
  <1>3. call[h].stage \in {"get", "save", "del"}
    BY <1>2 DEF ServeLookup, ServeRead, ServeSave, ServeDel, ServeFault, InFlight
  <1>4. call[h].stream \in Streams
    BY <1>1, <1>3 DEF TypeInv, CallsWellFormed, WellFormed
  <1>5. ASSUME NEW snap, NEW ok, Answer(h, snap, ok)
        PROVE  /\ call'[h].op = call[h].op /\ call'[h].stream = call[h].stream
               /\ call'[h].text = call[h].text /\ call'[h].status = call[h].status
               /\ call'[h].stage = "back" /\ call'[h].snap = snap
               /\ \A t \in Callers : t # h => call'[t] = call[t]
    <2>1. PICK c : c = [call[h] EXCEPT !.stage = "back", !.snap = snap, !.ok = ok]
      OBVIOUS
    <2>2. call' = [call EXCEPT ![h] = c]
      BY <1>5, <2>1 DEF Answer
    <2>3. call'[h] = c /\ \A t \in Callers : t # h => call'[t] = call[t]
      BY <1>1, <2>2
    <2>4. /\ c.op = call[h].op /\ c.stream = call[h].stream
          /\ c.text = call[h].text /\ c.status = call[h].status
          /\ c.stage = "back" /\ c.snap = snap
      BY <1>1, <2>1 DEF Call
    <2> QED
      BY <2>3, <2>4
  <1>6. ASSUME NEW snap, NEW stage, Continue(h, stage, snap)
        PROVE  /\ call'[h].op = call[h].op /\ call'[h].stream = call[h].stream
               /\ call'[h].text = call[h].text /\ call'[h].status = call[h].status
               /\ call'[h].stage = stage /\ call'[h].snap = snap
               /\ \A t \in Callers : t # h => call'[t] = call[t]
    <2>1. PICK c : c = [call[h] EXCEPT !.stage = stage, !.snap = snap]
      OBVIOUS
    <2>2. call' = [call EXCEPT ![h] = c]
      BY <1>6, <2>1 DEF Continue
    <2>3. call'[h] = c /\ \A t \in Callers : t # h => call'[t] = call[t]
      BY <1>1, <2>2
    <2>4. /\ c.op = call[h].op /\ c.stream = call[h].stream
          /\ c.text = call[h].text /\ c.status = call[h].status
          /\ c.stage = stage /\ c.snap = snap
      BY <1>1, <2>1 DEF Call
    <2> QED
      BY <2>3, <2>4
  <1>7. CASE ServeLookup(h) \/ ServeRead(h)
    BY <1>1, <1>4, <1>5, <1>6, <1>7 DEF ServeLookup, ServeRead
  <1>8. CASE ServeSave(h) \/ ServeDel(h) \/ ServeFault(h)
    BY <1>1, <1>4, <1>5, <1>6, <1>8 DEF ServeSave, ServeDel, ServeFault, Save, Saves
  <1> QED
    BY <1>2, <1>7, <1>8

LEMMA UnbornStep ==
  ASSUME TypeInv, CompletedInv, PromiseInv, OwnersInv, UnbornInv, OwnersInv', [Next]_vars
  PROVE  UnbornInv'
PROOF
  <1>0. /\ gen \in [Streams -> GenStates] /\ observer \in [Observers -> Observer]
        /\ call \in [Callers -> Call] /\ session \in [Streams -> Session \cup {Null}]
        /\ \A s \in Streams : CreateOf(s) \in Callers
        /\ Idle.stream = Null /\ Null \notin Streams
        /\ \A s \in Streams : ~Known(s) <=> gen[s] \in {"absent", "creating"}
    BY TaskIds, NullAssumption
    DEF TypeInv, TypeOK, StreamTypeOK, SessionTypeOK, Idle, Known
  <1>1. CASE Serve /\ UNCHANGED streamVars
    <2>1. PICK h : h = Head(wire)
      OBVIOUS
    <2> DEFINE g == call[h].stream
    <2>2. /\ h \in Callers /\ g \in Streams /\ call'[h].stream = g
          /\ \A t \in Callers : t # h => call'[t] = call[t]
          /\ Saves(h) \/ UNCHANGED session
      BY <1>1, <2>1, ServeSessions
    <2>3. call[h].stage = "save" => call'[h].stage = "back" \/ call[h].op # "create"
      BY <1>1, <2>1 DEF Serve, ServeLookup, ServeRead, ServeSave, ServeDel, ServeFault, Answer,
                       Continue, TypeInv, TypeOK, SessionTypeOK, Call
    <2>4. \A s \in Streams : s # g => session'[s] = session[s]
      BY <1>0, <2>2 DEF Saves
    <2>5. ASSUME NEW s \in Streams
          PROVE  Unborn(s)'
      <3>1. gen'[s] = gen[s] /\ Unborn(s)
        BY <1>1 DEF streamVars, UnbornInv
      <3>2. CASE gen[s] = "absent"
        BY <1>0, <1>1, <2>2, <2>4, <3>1, <3>2 DEF Unborn, streamVars, Known
      <3>3. CASE gen[s] = "creating"
        <4>1. \A t \in Callers : call'[t].stream = s => t = CreateOf(s)
          BY <2>2, <3>1, <3>3 DEF Unborn
        <4>2. CASE h = CreateOf(s)
          <5>1. call[h].op = "create" /\ call[h].stage = "save"
            <6>1. call[h].op = "create" /\ InFlight(h)
              BY <1>1, <2>1, <3>3, <4>2, ServeMoves DEF OwnersInv, CreateOwned, Is
            <6> QED
              BY <3>1, <3>3, <4>2, <6>1 DEF Unborn, InFlight
          <5>2. call'[h].stage = "back"
            BY <2>3, <5>1
          <5> QED
            BY <1>0, <1>1, <3>1, <3>3, <4>1, <4>2, <5>2 DEF Unborn, streamVars, Known
        <4>3. CASE h # CreateOf(s)
          <5>1. g # s
            BY <2>2, <3>1, <3>3, <4>3 DEF Unborn
          <5> QED
            BY <1>0, <1>1, <2>2, <2>4, <3>1, <3>3, <4>1, <4>3, <5>1
            DEF Unborn, streamVars, Known
        <4> QED
          BY <4>2, <4>3
      <3>4. CASE Known(s)
        BY <3>1, <3>4 DEF Unborn, Known
      <3> QED
        BY <1>0, <3>2, <3>3, <3>4
    <2> QED
      BY <2>5 DEF UnbornInv
  <1>2. CASE Expiry
    <2>1. UNCHANGED <<call, streamVars>> /\ \A s \in Streams : session[s] = Null => session'[s] = Null
      BY <1>0, <1>2 DEF Expiry, Expire
    <2> QED
      BY <2>1 DEF streamVars, UnbornInv, Unborn, Known
  <1>3. CASE ProcessEnds
    <2>1. /\ \A t \in Callers : call'[t].stream = Null
          /\ \A s \in Streams :
               /\ gen'[s] # "creating"
               /\ gen'[s] = "absent" => gen[s] = "absent"
               /\ writes'[s] = <<>>
          /\ timer' = {} /\ UNCHANGED session
          /\ \A o \in Observers : observer'[o].stream = observer[o].stream
      BY <1>0, <1>3 DEF ProcessEnds, stores, Observer
    <2> QED
      BY <1>0, <2>1 DEF UnbornInv, Unborn, Known
  <1>4. CASE Acts
    <2>0. UNCHANGED session
      BY <1>4 DEF Acts, Turn
    <2>1. ASSUME NEW s \in Streams, Known(s)
          PROVE  Unborn(s)'
      BY <1>4, <2>1 DEF Acts, Distant, Unborn, Known
    <2>2. ASSUME NEW s \in Streams, ~Known(s), NEW t \in Callers, call'[t] # call[t],
                 call'[t].stream = s
          PROVE  CreateTurn(s) /\ t = CreateOf(s)
      <3>1. CASE \E x \in Callers : ResultTurn(x)
        BY <1>0, <2>2, <3>1 DEF ResultTurn, Return
      <3>2. CASE \E x \in Callers, c \in Call : QueryTurn(x, c)
        BY <1>0, <2>2, <3>2 DEF QueryTurn, Calls, Invoke
      <3>3. ASSUME NEW x \in Streams, CreateTurn(x)
            PROVE  CreateTurn(s) /\ t = CreateOf(s)
        <4>1. call'[CreateOf(x)] = CreateCall(x) /\ \A y \in Callers : y # CreateOf(x) => call'[y] = call[y]
          BY <1>0, <3>3 DEF CreateTurn, Calls, Invoke
        <4>2. CreateCall(x).stream = x
          BY DEF CreateCall, Idle
        <4> QED
          BY <2>2, <3>3, <4>1, <4>2
      <3>4. ASSUME NEW x \in Streams, ErrorTurn(x)
            PROVE  FALSE
        <4>1. /\ call'[FailOf(x)] = MarkCall(x, "failed", TRUE)
              /\ call'[FinalOf(x)] = GetCall(x)
              /\ \A y \in Callers : y \notin {FailOf(x), FinalOf(x)} => call'[y] = call[y]
          <5>1. FailOf(x) \in Callers /\ FinalOf(x) \in Callers /\ FailOf(x) # FinalOf(x)
            BY TaskIds, TaskNames
          <5> QED
            BY <1>0, <3>4, <5>1 DEF ErrorTurn
        <4>2. MarkCall(x, "failed", TRUE).stream = x /\ GetCall(x).stream = x /\ gen[x] = "running"
          BY <3>4 DEF MarkCall, GetCall, Idle, ErrorTurn
        <4> QED
          BY <2>2, <4>1, <4>2 DEF Known
      <3> QED
        BY <1>4, <2>2, <3>1, <3>2, <3>3, <3>4 DEF Acts, Turn
    <2>3. ASSUME NEW s \in Streams, gen[s] = "absent"
          PROVE  Unborn(s)'
      <3>1. /\ ~Known(s) /\ session[s] = Null /\ \A t \in Callers : call[t].stream # s
            /\ writes'[s] = <<>> /\ s \notin timer' /\ \A o \in Observers : observer'[o].stream # s
        BY <1>0, <1>4, <2>3 DEF UnbornInv, Unborn, Acts, Distant
      <3>2. \A t \in Callers : call'[t].stream = s => CreateTurn(s) /\ t = CreateOf(s)
        BY <2>2, <3>1
      <3>3. CASE CreateTurn(s)
        <4>1. gen'[s] = "creating" /\ call'[CreateOf(s)].stage = "save"
          BY <1>0, <3>3 DEF CreateTurn, Calls, Invoke, CreateCall, Idle
        <4> QED
          BY <2>0, <3>1, <3>2, <4>1 DEF Unborn
      <3>4. CASE ~CreateTurn(s)
        <4>1. gen'[s] = "absent"
          BY <1>4, <2>3, <3>1, <3>4 DEF Acts, Distant
        <4> QED
          BY <2>0, <3>1, <3>2, <3>4, <4>1 DEF Unborn
      <3> QED
        BY <3>3, <3>4
    <2>4. ASSUME NEW s \in Streams, gen[s] = "creating"
          PROVE  Unborn(s)'
      <3>1. /\ ~Known(s) /\ \A t \in Callers : call[t].stream = s => t = CreateOf(s)
            /\ call[CreateOf(s)].stage \in {"save", "back"}
            /\ call[CreateOf(s)].stage = "save" => session[s] = Null
            /\ writes'[s] = <<>> /\ s \notin timer' /\ \A o \in Observers : observer'[o].stream # s
        BY <1>0, <1>4, <2>4 DEF UnbornInv, Unborn, Acts, Distant
      <3>2. ~CreateTurn(s)
        BY <2>4 DEF CreateTurn
      <3>3. CASE Known(s)'
        BY <3>3 DEF Unborn, Known
      <3>4. CASE gen'[s] = "creating"
        <4>1. Is(call'[CreateOf(s)], "create", s)
          BY <3>4 DEF OwnersInv, CreateOwned
        <4>2. call'[CreateOf(s)] = call[CreateOf(s)]
          BY <1>0, <2>2, <3>1, <3>2, <4>1 DEF Is
        <4>3. \A t \in Callers : call'[t].stream = s => t = CreateOf(s)
          BY <2>2, <3>1, <3>2
        <4> QED
          BY <2>0, <3>1, <3>4, <4>2, <4>3 DEF Unborn
      <3> QED
        BY <1>4, <2>4, <3>1, <3>2, <3>3, <3>4 DEF Acts, Distant
    <2> QED
      BY <1>0, <2>1, <2>3, <2>4 DEF UnbornInv
  <1> QED
    BY <1>1, <1>2, <1>3, <1>4, StepKinds

-----------------------------------------------------------------------------
(* The sequence numbers of a session never go back.                        *)

\* A call about to save what it has made of the session it has read.
Saving(t, s) == call[t].stage = "save" /\ call[t].op # "create" /\ call[t].stream = s

\* What makes it inductive: of two calls about to save, the one served first has read the
\* same session as the other, or the one before it, and both have read the last one or the
\* one before it.
NextTo(m, n) == m <= n /\ n <= m + 1
SeqInv ==
  \A s \in Streams, x \in Callers : Saving(x, s) =>
    /\ session[s] # Null => NextTo(call[x].snap.seq, session[s].seq)
    /\ \A y \in Callers : Saving(y, s) /\ Before(x, y) =>
         NextTo(call[x].snap.seq, call[y].snap.seq)

\* Only its creation is a call that creates a stream.
LEMMA OnlyCreates ==
  ASSUME TypeInv, OwnersInv, NEW t \in Callers, call[t].op = "create"
  PROVE  gen[call[t].stream] = "creating" /\ t = CreateOf(call[t].stream)
PROOF
  <1>1. Idle.op = "none"
    BY DEF Idle
  <1>2. ASSUME NEW s \in Streams, t \in {CreateOf(s), FailOf(s), FinalOf(s)}
        PROVE  gen[call[t].stream] = "creating" /\ t = CreateOf(call[t].stream)
    BY <1>1, <1>2 DEF OwnersInv, CreateOwned, FailOwned, FinalOwned, Is
  <1>3. \A s \in Streams, n \in 1 .. MaxWrites : t # WriteOf(s, n)
    BY <1>1 DEF OwnersInv, WriteOwned, Is
  <1>4. \A c \in Cancels : t # CancelOf(c)
    BY <1>1 DEF OwnersInv, CancelOwned, Is
  <1>5. \A o \in Observers : t # PollOf(o)
    BY <1>1 DEF OwnersInv, PollOwned, Is
  <1> QED
    BY <1>2, <1>3, <1>4, <1>5, TaskKinds

\* What a call that saves makes of its snapshot.
LEMMA SavesNext ==
  ASSUME TypeInv, OwnersInv, UnbornInv, NEW h \in Callers, Saves(h)
  PROVE  LET g == call[h].stream IN
         /\ g \in Streams
         /\ session' = [session EXCEPT ![g] = Written(call[h])]
         /\ \/ /\ call[h].op = "create" /\ session[g] = Null
               /\ \A x \in Callers : x # h => call[x].stream # g
            \/ /\ Saving(h, g) /\ call[h].op # "create"
               /\ call[h].snap \in Session /\ call[h].snap # Null
               /\ Written(call[h]).seq = call[h].snap.seq + 1
               /\ Written(call[h]).status =
                    IF call[h].op = "progress" THEN call[h].snap.status ELSE call[h].status
               /\ Written(call[h]).text =
                    IF call[h].op = "progress" THEN call[h].text ELSE call[h].snap.text
PROOF
  <1> DEFINE g == call[h].stream
  <1>1. call[h] \in Call /\ call[h].stage = "save"
    BY DEF Saves, TypeInv, TypeOK, SessionTypeOK
  <1>2. g \in Streams /\ (call[h].op # "create" => call[h].snap # Null)
    BY <1>1 DEF TypeInv, CallsWellFormed, WellFormed
  <1>3. CASE call[h].op = "create"
    <2>1. gen[g] = "creating" /\ h = CreateOf(g)
      BY <1>3, OnlyCreates
    <2>2. session[g] = Null /\ \A x \in Callers : x # h => call[x].stream # g
      BY <1>1, <1>2, <2>1 DEF UnbornInv, Unborn
    <2> QED
      BY <1>2, <1>3, <2>2 DEF Saves
  <1>4. CASE call[h].op # "create"
    <2>1. call[h].snap \in Session
      BY <1>1, <1>2, <1>4 DEF Call
    <2>2. PICK m \in Session : m = call[h].snap
      BY <2>1
    <2>3. /\ Written(call[h]).seq = m.seq + 1
          /\ Written(call[h]).status = IF call[h].op = "progress" THEN m.status ELSE call[h].status
          /\ Written(call[h]).text = IF call[h].op = "progress" THEN call[h].text ELSE m.text
      <3>1. CASE call[h].op = "progress"
        <4>1. Written(call[h]) = [m EXCEPT !.text = call[h].text, !.seq = m.seq + 1]
          BY <2>2, <3>1 DEF Written
        <4> QED
          BY <2>2, <3>1, <4>1 DEF Session
      <3>2. CASE call[h].op # "progress"
        <4>1. Written(call[h]) = [m EXCEPT !.status = call[h].status,
                                           !.error = call[h].error, !.seq = m.seq + 1]
          BY <1>4, <2>2, <3>2 DEF Written
        <4> QED
          BY <2>2, <3>2, <4>1 DEF Session
      <3> QED
        BY <3>1, <3>2
    <2> QED
      BY <1>1, <1>2, <1>4, <2>1, <2>2, <2>3 DEF Saves, Saving
  <1> QED
    BY <1>3, <1>4

\* A turn neither starts a call about to save nor moves one.
LEMMA SavingKept ==
  ASSUME TypeInv, WireInv, Turn, NEW s \in Streams, NEW x \in Callers, Saving(x, s)'
  PROVE  /\ call'[x] = call[x] /\ Saving(x, s)
         /\ \A y \in Callers : Before(y, x)' => Before(y, x)
PROOF
  <1>1. ASSUME NEW u \in Streams, CreateTurn(u), x = CreateOf(u)
        PROVE  FALSE
    <2>1. call'[x] = CreateCall(u)
      BY <1>1 DEF CreateTurn, Calls, Invoke, TypeInv, TypeOK, SessionTypeOK
    <2> QED
      BY <2>1 DEF Saving, CreateCall, Idle
  <1>2. call'[x] = call[x]
    BY <1>1, TurnMoves DEF Saving
  <1>3. Saving(x, s) /\ InFlight(x)
    BY <1>2 DEF Saving, InFlight
  <1> QED
    BY <1>2, <1>3, TurnMoves

\* One step, and what it does to the numbers.
LEMMA SeqStep ==
  ASSUME TypeInv, CompletedInv, PromiseInv, OwnersInv, UnbornInv, WireInv, SeqInv, [Next]_vars
  PROVE  /\ SeqInv'
         /\ \A s \in Streams : session[s] # Null /\ session'[s] # Null =>
              session'[s].seq >= session[s].seq
PROOF
  <1>0. /\ session \in [Streams -> Session \cup {Null}] /\ call \in [Callers -> Call]
        /\ \A s \in Streams : session[s] # Null => session[s].seq \in Nat
        /\ \A x \in Callers : call[x].snap # Null => call[x].snap.seq \in Nat
        /\ \A s \in Streams, x \in Callers : Saving(x, s) => call[x].snap # Null
    BY DEF TypeInv, TypeOK, SessionTypeOK, Call, Session, CallsWellFormed, WellFormed, Saving
  <1>1. CASE Serve /\ UNCHANGED streamVars
    <2>1. PICK h : h = Head(wire)
      OBVIOUS
    <2>2. /\ h \in Callers /\ call[h].stream \in Streams
          /\ call'[h].op = call[h].op /\ call'[h].stream = call[h].stream
          /\ \A t \in Callers : t # h => call'[t] = call[t]
          /\ \/ Saves(h)
             \/ /\ UNCHANGED session
                /\ call'[h].stage = "save" =>
                     /\ call'[h].snap = session[call[h].stream]
                     /\ session[call[h].stream] # Null
      BY <1>1, <2>1, ServeSessions
    <2>3. /\ \A t \in Callers : InFlight(t) /\ t # h => Before(h, t)
          /\ \A x, y \in Callers : Before(x, y)' => x # h /\ (Before(x, y) \/ y = h)
      BY <1>1, <2>1, WireServed
    <2>4. PICK g \in Streams : g = call[h].stream
      BY <2>2
    <2>5. ASSUME NEW s \in Streams, NEW x \in Callers, Saving(x, s), x # h, session'[s] # Null
          PROVE  NextTo(call[x].snap.seq, session'[s].seq)
      <3>1. CASE Saves(h) /\ s = g
        <4>1. /\ Saving(h, g) /\ Written(call[h]).seq = call[h].snap.seq + 1
              /\ session'[g] = Written(call[h])
          BY <1>0, <2>2, <2>4, <2>5, <3>1, SavesNext DEF Saving
        <4>2. Before(h, x)
          BY <2>3, <2>5 DEF Saving, InFlight
        <4>3. NextTo(call[h].snap.seq, call[x].snap.seq)
          BY <2>2, <2>5, <3>1, <4>1, <4>2 DEF SeqInv
        <4> QED
          BY <1>0, <2>2, <2>5, <4>1, <4>3, <3>1 DEF NextTo
      <3>2. CASE ~(Saves(h) /\ s = g)
        <4>1. session'[s] = session[s]
          BY <1>0, <2>2, <2>4, <3>2 DEF Saves
        <4> QED
          BY <2>5, <4>1 DEF SeqInv
      <3> QED
        BY <3>1, <3>2
    <2>6. ASSUME NEW s \in Streams, NEW x \in Callers, Saving(x, s)'
          PROVE  /\ session'[s] # Null => NextTo(call'[x].snap.seq, session'[s].seq)
                 /\ \A y \in Callers : Saving(y, s)' /\ Before(x, y)' =>
                      NextTo(call'[x].snap.seq, call'[y].snap.seq)
      <3>1. CASE x = h
        <4>1. /\ ~Saves(h) /\ UNCHANGED session /\ s = g
              /\ call'[h].snap = session[s] /\ session[s] # Null
          BY <2>2, <2>4, <2>6, <3>1 DEF Saving, Saves
        <4> QED
          BY <1>0, <2>3, <3>1, <4>1 DEF NextTo
      <3>2. CASE x # h
        <4>1. call'[x] = call[x] /\ Saving(x, s)
          BY <2>2, <2>6, <3>2 DEF Saving
        <4>2. session'[s] # Null => NextTo(call'[x].snap.seq, session'[s].seq)
          BY <2>5, <3>2, <4>1
        <4>3. ASSUME NEW y \in Callers, Saving(y, s)', Before(x, y)', y = h
              PROVE  NextTo(call'[x].snap.seq, call'[y].snap.seq)
          <5>1. call'[y].snap = session[s] /\ session[s] # Null
            BY <2>2, <4>3 DEF Saving, Saves
          <5> QED
            BY <4>1, <5>1 DEF SeqInv
        <4>4. ASSUME NEW y \in Callers, Saving(y, s)', Before(x, y)', y # h
              PROVE  NextTo(call'[x].snap.seq, call'[y].snap.seq)
          <5>1. call'[y] = call[y] /\ Saving(y, s) /\ Before(x, y)
            BY <2>2, <2>3, <4>4 DEF Saving
          <5> QED
            BY <4>1, <5>1 DEF SeqInv
        <4> QED
          BY <4>2, <4>3, <4>4
      <3> QED
        BY <3>1, <3>2
    <2>7. ASSUME NEW s \in Streams, session[s] # Null, session'[s] # Null
          PROVE  session'[s].seq >= session[s].seq
      <3>1. CASE Saves(h) /\ s = g
        <4>1. /\ Saving(h, g) /\ Written(call[h]).seq = call[h].snap.seq + 1
              /\ session'[g] = Written(call[h])
          BY <1>0, <2>2, <2>4, <2>7, <3>1, SavesNext
        <4>2. NextTo(call[h].snap.seq, session[g].seq)
          BY <2>2, <2>7, <3>1, <4>1 DEF SeqInv
        <4> QED
          BY <1>0, <2>2, <2>7, <3>1, <4>1, <4>2 DEF NextTo
      <3>2. CASE ~(Saves(h) /\ s = g)
        <4>1. session'[s] = session[s]
          BY <1>0, <2>2, <2>4, <3>2 DEF Saves
        <4> QED
          BY <1>0, <2>7, <4>1
      <3> QED
        BY <3>1, <3>2
    <2> QED
      BY <2>6, <2>7 DEF SeqInv
  <1>2. CASE Expiry
    <2>1. /\ UNCHANGED <<call, wire>>
          /\ \A s \in Streams : session'[s] # Null => session'[s] = session[s]
      BY <1>0, <1>2 DEF Expiry, Expire
    <2> QED
      BY <1>0, <2>1 DEF SeqInv, Saving, Before
  <1>3. CASE ProcessEnds
    <2>1. /\ UNCHANGED session
          /\ \A s \in Streams, x \in Callers : ~Saving(x, s)'
      BY <1>3 DEF ProcessEnds, stores, Saving, Idle
    <2> QED
      BY <1>0, <2>1 DEF SeqInv
  <1>4. CASE Acts
    <2>1. Turn /\ UNCHANGED session
      BY <1>4 DEF Acts, Turn
    <2>2. ASSUME NEW s \in Streams, NEW x \in Callers, Saving(x, s)'
          PROVE  /\ session'[s] # Null => NextTo(call'[x].snap.seq, session'[s].seq)
                 /\ \A y \in Callers : Saving(y, s)' /\ Before(x, y)' =>
                      NextTo(call'[x].snap.seq, call'[y].snap.seq)
      <3>1. call'[x] = call[x] /\ Saving(x, s)
        BY <2>1, <2>2, SavingKept
      <3>2. ASSUME NEW y \in Callers, Saving(y, s)', Before(x, y)'
            PROVE  NextTo(call'[x].snap.seq, call'[y].snap.seq)
        <4>1. call'[y] = call[y] /\ Saving(y, s) /\ Before(x, y)
          BY <2>1, <3>2, SavingKept
        <4> QED
          BY <3>1, <4>1 DEF SeqInv
      <3> QED
        BY <2>1, <3>1, <3>2 DEF SeqInv
    <2> QED
      BY <1>0, <2>1, <2>2 DEF SeqInv
  <1> QED
    BY <1>1, <1>2, <1>3, <1>4, StepKinds

\* What all the proofs about the order of the calls need.
OrderInv == TypeInv /\ CompletedInv /\ PromiseInv /\ ReplyInv
              /\ OwnersInv /\ UnbornInv /\ WireInv /\ SeqInv
LEMMA OrderStep ==
  ASSUME OrderInv, [Next]_vars
  PROVE  OrderInv'
PROOF
  <1>1. TypeInv' /\ CompletedInv' /\ PromiseInv' /\ ReplyInv'
    BY TypeStep, CompletedStep, PromiseStep, ReplyStep DEF OrderInv
  <1>2. OwnersInv'
    BY OwnersStep DEF OrderInv
  <1> QED
    BY <1>1, <1>2, UnbornStep, WireStep, SeqStep DEF OrderInv

LEMMA OrderStart == Init => OrderInv
PROOF
  <1> SUFFICES ASSUME Init PROVE OrderInv
    OBVIOUS
  <1>1. TypeInv
    BY TypeStart
  <1>2. CompletedInv
    BY FreshCalls
    DEF Init, SessionInit, CompletedInv, CompletedHasReply, SnapshotsAnswered,
        MarksAnswered, FinalizerStored, StoredOnce, NoFinalizer
  <1>3. PromiseInv /\ ReplyInv
    BY DEF Init, PromiseInv, FinalizedAsEnded, NoFinalizer, NoCancel, SetUp, ReplyInv
  <1>4. OwnersInv
    BY OwnersStart
  <1>5. UnbornInv
    BY NullAssumption
    DEF Init, SessionInit, UnbornInv, Unborn, Known, Idle, NoObserver
  <1>6. WireInv
    BY DEF Init, SessionInit, WireInv, InFlight, OnWire, Idle
  <1>7. SeqInv
    BY DEF Init, SessionInit, SeqInv, Saving, Idle
  <1> QED
    BY <1>1, <1>2, <1>3, <1>4, <1>5, <1>6, <1>7 DEF OrderInv

\* The sequence number that observers compare never goes back, whatever updates of
\* createSession, updateProgress and markStatus are between their GET and their MULTI:
\* the connection answers in the order in which the commands were sent.
THEOREM SeqAlwaysGoesOn == Spec => SeqNeverGoesBack
PROOF
  <1>1. Init => OrderInv
    BY OrderStart
  <1>2. OrderInv /\ [Next]_vars => OrderInv'
    BY OrderStep
  <1>3. OrderInv /\ [Next]_vars =>
          [\A s \in Streams :
             (session[s] # Null /\ session'[s] # Null)
               => session'[s].seq >= session[s].seq]_session
    BY SeqStep DEF OrderInv
  <1> QED
    BY <1>1, <1>2, <1>3, PTL DEF Spec, SeqNeverGoesBack

-----------------------------------------------------------------------------
(* What a turn does to one stream.                                         *)

\* It may leave the stream where it is, but forget its chain, timer and pending patch.
Rests(s) ==
  /\ gen'[s] = gen[s] /\ len'[s] = len[s] /\ writes'[s] = writes[s]
  /\ fin'[s] = fin[s] /\ reply'[s] = reply[s]
  /\ call'[FinalOf(s)] = call[FinalOf(s)]
  /\ \/ call'[FailOf(s)] = call[FailOf(s)]
     \/ Back(FailOf(s)) /\ call'[FailOf(s)] = Idle
  /\ \/ /\ s \in timer' <=> s \in timer
        /\ pending'[s] = pending[s] /\ tail'[s] = tail[s]
     \/ /\ s \notin timer' /\ pending'[s] = Null /\ tail'[s] = 0
        /\ \/ CancelledBy(s, {"mark"})
           \/ \E t \in Callers : /\ call[t].stream = s /\ call[t].snap # Null
                                 /\ call[t].snap.status # "generating"
Moves(s) ==
  \/ Rests(s) \/ Create(s) \/ StartDetachedGeneration(s) \/ Generation(s) \/ TimerFires(s)
  \/ \E n \in DOMAIN writes[s] : WriteStarts(s, n) \/ WriteEnds(s, n)
  \/ FinFlushed(s) \/ FinAbandons(s) \/ FinFails(s) \/ FinResolves(s)
  \/ FinProgressed(s) \/ FinMarked(s) \/ FinDatabase(s)
  \/ \E c \in Cancels : cancel[c].stream = s /\ CancelStops(c)

\* A turn of one stream is not one of another.
LEMMA RestsBeside ==
  ASSUME TypeInv, NEW s \in Streams,
         \/ Create(s) \/ StartDetachedGeneration(s) \/ Generation(s)
         \/ TimerFires(s)
         \/ \E n \in DOMAIN writes[s] : WriteStarts(s, n) \/ WriteEnds(s, n)
         \/ FinFlushed(s) \/ FinAbandons(s) \/ FinFails(s) \/ FinResolves(s)
         \/ FinProgressed(s) \/ FinMarked(s) \/ FinDatabase(s)
  PROVE  \A x \in Streams : x # s => Rests(x)
PROOF
  <1>0. /\ gen \in [Streams -> GenStates] /\ len \in [Streams -> 0 .. MaxDeltas]
        /\ timer \subseteq Streams /\ pending \in [Streams -> Nat \cup {Null}]
        /\ writes \in [Streams -> Seq(Write)] /\ tail \in [Streams -> Nat]
        /\ fin \in [Streams -> Finalizer] /\ reply \in [Streams -> Text \cup {Null}]
        /\ call \in [Callers -> Call]
    BY DEF TypeInv, TypeOK, StreamTypeOK, SessionTypeOK
  <1> DEFINE Same(x) ==
        /\ gen'[x] = gen[x] /\ len'[x] = len[x] /\ writes'[x] = writes[x]
        /\ fin'[x] = fin[x] /\ reply'[x] = reply[x]
        /\ x \in timer' <=> x \in timer
        /\ pending'[x] = pending[x] /\ tail'[x] = tail[x]
  <1>1. ASSUME NEW x \in Streams, x # s, Create(s) \/ StartDetachedGeneration(s)
        PROVE  Same(x)
    BY <1>0, <1>1 DEF Create, StartDetachedGeneration, progressVars
  <1>2. ASSUME NEW x \in Streams, x # s, GenDelta(s) \/ GenError(s)
        PROVE  Same(x)
    BY <1>0, <1>2 DEF GenDelta, GenError, CompleteSubject
  <1>3. ASSUME NEW x \in Streams, x # s, GenDone(s) \/ TimerFires(s)
        PROVE  Same(x)
    BY <1>0, <1>3 DEF GenDone, TimerFires, FinalizerStarts, QueueProgressUpdate
  <1>4. ASSUME NEW x \in Streams, x # s, NEW n \in DOMAIN writes[s],
               WriteStarts(s, n) \/ WriteEnds(s, n)
        PROVE  Same(x)
    BY <1>0, <1>4 DEF WriteStarts, WriteEnds
  <1>5. ASSUME NEW x \in Streams, x # s,
               FinFlushed(s) \/ FinFails(s) \/ FinResolves(s) \/ FinProgressed(s)
        PROVE  Same(x)
    BY <1>0, <1>5
    DEF FinFlushed, FinFails, FinResolves, FinProgressed, FinGoes, finOthers, progressVars
  <1>6. ASSUME NEW x \in Streams, x # s, FinAbandons(s) \/ FinMarked(s) \/ FinDatabase(s)
        PROVE  Same(x)
    BY <1>0, <1>6
    DEF FinAbandons, FinMarked, FinDatabase, FinStores, FinTouches, FinStoreFails, FinGoes,
        finOthers, progressVars, CompleteSubject
  <1>7. \A x \in Streams : x # s => Same(x)
    BY <1>1, <1>2, <1>3, <1>4, <1>5, <1>6 DEF Generation
  <1> HIDE DEF Same
  <1>8. PICK own : own = {CreateOf(s), FailOf(s), FinalOf(s)}
                           \cup {WriteOf(s, n) : n \in 1 .. MaxWrites}
    OBVIOUS
  <1>9. \A x \in Streams : x # s => FinalOf(x) \notin own /\ FailOf(x) \notin own
    BY <1>8, TaskNames
  <1>10. CreateOf(s) \in own /\ FailOf(s) \in own /\ FinalOf(s) \in own
         /\ \A n \in 1 .. MaxWrites : WriteOf(s, n) \in own
    BY <1>8
  <1>11. \A n \in DOMAIN writes[s] : n \in 1 .. MaxWrites
    BY WritesBounded
  <1>12. ASSUME NEW t \in own, t \in Callers, NEW c, Invoke(t, c) \/ (c = Idle /\ Return(t))
         PROVE  \A y \in Callers : y \notin own => call'[y] = call[y]
    BY <1>12, OneCall
  <1>13. \A y \in Callers : y \notin own => call'[y] = call[y]
    <2>1. CASE Create(s) \/ StartDetachedGeneration(s)
      BY <1>10, <1>12, <2>1, TaskIds DEF Create, StartDetachedGeneration
    <2>2. CASE GenDelta(s) \/ GenDone(s) \/ TimerFires(s) \/ FinStores(s)
      BY <2>2 DEF GenDelta, GenDone, TimerFires, FinStores
    <2>3. CASE GenError(s)
      BY <1>0, <1>10, <2>3 DEF GenError
    <2>4. ASSUME NEW n \in DOMAIN writes[s], WriteStarts(s, n) \/ WriteEnds(s, n)
          PROVE  \A y \in Callers : y \notin own => call'[y] = call[y]
      <3>1. WriteOf(s, n) \in own /\ WriteOf(s, n) \in Callers
        BY <1>10, <1>11, TaskIds
      <3> QED
        BY <1>12, <2>4, <3>1 DEF WriteStarts, WriteEnds
    <2>5. FinalOf(s) \in Callers
      BY TaskIds
    <2>6. CASE FinFlushed(s) \/ FinFails(s) \/ FinProgressed(s)
      BY <1>10, <1>12, <2>5, <2>6 DEF FinFlushed, FinFails, FinProgressed
    <2>7. CASE FinAbandons(s) \/ FinMarked(s) \/ FinResolves(s)
      BY <1>10, <1>12, <2>5, <2>7 DEF FinAbandons, FinMarked, FinResolves
    <2>8. CASE FinTouches(s) \/ FinStoreFails(s)
      BY <1>10, <1>12, <2>5, <2>8 DEF FinTouches, FinStoreFails
    <2> QED
      BY <2>1, <2>2, <2>3, <2>4, <2>6, <2>7, <2>8 DEF Generation, FinDatabase
  <1> QED
    BY <1>7, <1>9, <1>13, TaskIds DEF Same, Rests

\* The turns of stops and observers, except a stop that ends a generation, leave every
\* stream where it is.
LEMMA RestsMeanwhile ==
  ASSUME TypeInv, OwnersInv, NEW s \in Streams,
         \/ \E c \in Cancels, x \in Streams, mine \in BOOLEAN : CancelAsks(c, x, mine)
         \/ \E c \in Cancels : CancelRefused(c) \/ CancelMarks(c) \/ CancelMarked(c)
         \/ \E c \in Cancels : cancel[c].stream # s /\ CancelStops(c)
         \/ \E o \in Observers, x \in Streams, mine \in BOOLEAN : Attach(o, x, mine)
         \/ \E o \in Observers : PollTick(o) \/ PollEnds(o) \/ Leave(o)
  PROVE  Rests(s)
PROOF
  <1>0. /\ gen \in [Streams -> GenStates] /\ timer \subseteq Streams
        /\ pending \in [Streams -> Nat \cup {Null}] /\ writes \in [Streams -> Seq(Write)]
        /\ tail \in [Streams -> Nat] /\ fin \in [Streams -> Finalizer]
        /\ call \in [Callers -> Call]
    BY DEF TypeInv, TypeOK, StreamTypeOK, SessionTypeOK
  <1>1. ASSUME NEW t \in Callers, t[1] \in {"cancel", "poll"}, NEW c,
               Invoke(t, c) \/ (c = Idle /\ Return(t))
        PROVE  call'[FinalOf(s)] = call[FinalOf(s)] /\ call'[FailOf(s)] = call[FailOf(s)]
    BY <1>1, OneCall, TaskIds, TaskNames
  <1>2. ASSUME NEW c \in Cancels, NEW x \in Streams, NEW mine \in BOOLEAN, CancelAsks(c, x, mine)
        PROVE  Rests(s)
    <2>1. call'[FinalOf(s)] = call[FinalOf(s)] /\ call'[FailOf(s)] = call[FailOf(s)]
      BY <1>1, <1>2, TaskIds, TaskNames DEF CancelAsks
    <2> QED
      BY <1>2, <2>1 DEF CancelAsks, cancelOthers, progressVars, Rests
  <1>3. ASSUME NEW c \in Cancels,
               CancelRefused(c) \/ CancelMarks(c) \/ CancelMarked(c) \/ CancelStops(c)
        PROVE  call'[FinalOf(s)] = call[FinalOf(s)] /\ call'[FailOf(s)] = call[FailOf(s)]
    <2>1. CancelOf(c) \in Callers /\ CancelOf(c)[1] = "cancel"
      BY TaskIds, TaskNames
    <2> QED
      BY <1>1, <1>3, <2>1 DEF CancelRefused, CancelMarks, CancelMarked, CancelStops
  <1>4. ASSUME NEW c \in Cancels, CancelRefused(c) \/ CancelMarks(c)
        PROVE  Rests(s)
    BY <1>3, <1>4 DEF CancelRefused, CancelMarks, cancelOthers, progressVars, Rests
  <1>5. ASSUME NEW c \in Cancels, CancelMarked(c)
        PROVE  Rests(s)
    <2>1. cancel[c].how = "mark"
      BY <1>5 DEF CancelMarked, OwnersInv, CancelOwned
    <2>2. UNCHANGED <<gen, len, writes, fin, reply>>
      BY <1>5 DEF CancelMarked, cancelOthers, CompleteSubject, progressVars
    <2>3. \/ UNCHANGED progressVars
          \/ CompleteSubject(cancel[c].stream)
      BY <1>5 DEF CancelMarked
    <2>4. cancel[c].stream = s => CancelledBy(s, {"mark"})
      BY <2>1 DEF CancelledBy
    <2> QED
      BY <1>0, <1>3, <1>5, <2>2, <2>3, <2>4 DEF CompleteSubject, progressVars, Rests
  <1>6. ASSUME NEW c \in Cancels, cancel[c].stream # s, CancelStops(c)
        PROVE  Rests(s)
    <2>1. PICK x : x = cancel[c].stream
      OBVIOUS
    <2>2. PICK m : m = pending[x]
      OBVIOUS
    <2>3. /\ gen' = [gen EXCEPT ![x] = "stopped"] /\ FinalizerStarts(x, m, TRUE)
          /\ UNCHANGED <<pending, len, reply>>
      BY <1>6, <2>1, <2>2 DEF CancelStops, cancelOthers
    <2> QED
      BY <1>0, <1>3, <1>6, <2>1, <2>3 DEF FinalizerStarts, QueueProgressUpdate, Rests
  <1>7. ASSUME NEW o \in Observers, NEW x \in Streams, NEW mine \in BOOLEAN, Attach(o, x, mine)
        PROVE  Rests(s)
    <2>1. call'[FinalOf(s)] = call[FinalOf(s)] /\ call'[FailOf(s)] = call[FailOf(s)]
      BY <1>1, <1>7, TaskIds, TaskNames DEF Attach
    <2> QED
      BY <1>7, <2>1 DEF Attach, observerOthers, progressVars, Rests
  <1>8. ASSUME NEW o \in Observers, PollTick(o) \/ PollEnds(o)
        PROVE  call'[FinalOf(s)] = call[FinalOf(s)] /\ call'[FailOf(s)] = call[FailOf(s)]
    <2>1. PollOf(o) \in Callers /\ PollOf(o)[1] = "poll"
      BY TaskIds, TaskNames
    <2> QED
      BY <1>1, <1>8, <2>1 DEF PollTick, PollEnds, PollRejected, PollAnswered
  <1>9. ASSUME NEW o \in Observers, PollTick(o) \/ PollRejected(o)
        PROVE  Rests(s)
    BY <1>8, <1>9 DEF PollTick, PollEnds, PollRejected, observerOthers, progressVars, Rests
  <1>10. ASSUME NEW o \in Observers, PollAnswered(o)
         PROVE  Rests(s)
    <2>1. UNCHANGED <<gen, len, writes, fin, reply>>
      BY <1>10 DEF PollAnswered, observerOthers, progressVars, CompleteSubject
    <2>2. \/ UNCHANGED progressVars
          \/ /\ CompleteSubject(observer[o].stream)
             /\ call[PollOf(o)].snap # Null /\ call[PollOf(o)].snap.status # "generating"
      BY <1>10 DEF PollAnswered, Valid
    <2>3. call[PollOf(o)].stream = observer[o].stream /\ PollOf(o) \in Callers
      BY <1>10, TaskIds DEF PollAnswered, Back, Idle, OwnersInv, PollOwned, Is
    <2> QED
      BY <1>0, <1>8, <1>10, <2>1, <2>2, <2>3 DEF PollEnds, CompleteSubject, progressVars, Rests
  <1>11. ASSUME NEW o \in Observers, Leave(o)
         PROVE  Rests(s)
    BY <1>11 DEF Leave, sessionVars, observerOthers, progressVars, Rests
  <1> QED
    BY <1>2, <1>4, <1>5, <1>6, <1>7, <1>9, <1>10, <1>11 DEF PollEnds

\* Every step, as one of a single stream.
LEMMA StreamSteps ==
  ASSUME OrderInv, [Next]_vars
  PROVE  \/ Serve /\ UNCHANGED streamVars
         \/ Expiry
         \/ ProcessEnds
         \/ Acts /\ \A s \in Streams : Moves(s)
PROOF
  <1>1. \/ Serve /\ UNCHANGED streamVars
        \/ Expiry
        \/ ProcessEnds
        \/ Acts
    BY StepKinds DEF OrderInv
  <1>2. TypeInv /\ OwnersInv
    BY DEF OrderInv
  <1>3. ASSUME NEW x \in Streams,
               \/ Create(x) \/ StartDetachedGeneration(x) \/ Generation(x)
               \/ TimerFires(x)
               \/ \E n \in DOMAIN writes[x] : WriteStarts(x, n) \/ WriteEnds(x, n)
               \/ FinFlushed(x) \/ FinAbandons(x) \/ FinFails(x) \/ FinResolves(x)
               \/ FinProgressed(x) \/ FinMarked(x) \/ FinDatabase(x)
        PROVE  \A s \in Streams : Moves(s)
    BY <1>2, <1>3, RestsBeside DEF Moves
  <1>4. ASSUME NEW c \in Cancels, HandleCancel(c)
        PROVE  \A s \in Streams : Moves(s)
    BY <1>2, <1>4, RestsMeanwhile DEF HandleCancel, Moves
  <1>5. ASSUME \/ \E c \in Cancels, x \in Streams, mine \in BOOLEAN : CancelAsks(c, x, mine)
               \/ \E o \in Observers, x \in Streams, mine \in BOOLEAN : Attach(o, x, mine)
               \/ \E o \in Observers : PollTick(o) \/ PollEnds(o) \/ Leave(o)
        PROVE  \A s \in Streams : Moves(s)
    BY <1>2, <1>5, RestsMeanwhile DEF Moves
  <1>6. ASSUME NEW x \in Streams, FailMarked(x)
        PROVE  ProcessEnds \/ \A s \in Streams : Moves(s)
    <2>1. CASE Return(FailOf(x)) /\ UNCHANGED <<stores, streamVars>>
      <3>1. /\ FailOf(x) \in Callers /\ Back(FailOf(x)) /\ call'[FailOf(x)] = Idle
            /\ \A t \in Callers \ {FailOf(x)} : call'[t] = call[t]
        BY <1>2, <1>6, <2>1, OneCall, TaskIds DEF FailMarked
      <3> QED
        BY <2>1, <3>1, TaskIds, TaskNames DEF streamVars, Moves, Rests
    <2> QED
      BY <1>6, <2>1 DEF FailMarked
  <1>7. CASE UNCHANGED vars
    BY <1>1, <1>7 DEF vars, sessionVars, streamVars, Moves, Rests
  <1>8. CASE Continuation
    BY <1>1, <1>3, <1>4, <1>5, <1>6, <1>8 DEF Continuation, FinGoesOn, FinDies
  <1>9. CASE Event
    BY <1>1, <1>3, <1>5, <1>9 DEF Event
  <1>10. CASE Redis \/ Expiry \/ Crash
    BY <1>10 DEF Redis, Crash
  <1> QED
    BY <1>7, <1>8, <1>9, <1>10 DEF Next

\* A request that has marked a session has marked it for ever.
LEMMA MarkStays ==
  ASSUME OrderInv, [Next]_vars, NEW s \in Streams, ~CancelledBy(s, {"mark"})'
  PROVE  ~CancelledBy(s, {"mark"})
PROOF
  <1>0. cancel \in [Cancels -> CancelRequest]
    BY DEF OrderInv, TypeInv, TypeOK, StreamTypeOK
  <1>1. ASSUME NEW c \in Cancels, cancel[c].how = "mark"
        PROVE  cancel'[c].how = "mark" /\ cancel'[c].stream = cancel[c].stream
    <2>1. cancel[c].st \notin {"idle", "reading"}
      BY <1>1 DEF OrderInv, ReplyInv
    <2>2. ASSUME NEW d \in Cancels, HandleCancel(d)
          PROVE  cancel'[c].how = "mark" /\ cancel'[c].stream = cancel[c].stream
      <3>1. CASE CancelMarked(d)
        BY <1>0, <1>1, <3>1 DEF CancelMarked, CancelRequest
      <3>2. CASE CancelRefused(d) \/ CancelStops(d) \/ CancelMarks(d)
        BY <1>0, <1>1, <2>1, <3>2 DEF CancelRefused, CancelStops, CancelMarks, Accepted
      <3> QED
        BY <2>2, <3>1, <3>2 DEF HandleCancel
    <2>3. ASSUME NEW d \in Cancels, NEW x \in Streams, NEW mine \in BOOLEAN,
                 CancelAsks(d, x, mine)
          PROVE  cancel'[c] = cancel[c]
      BY <1>0, <2>1, <2>3 DEF CancelAsks
    <2>4. CASE ProcessEnds
      BY <1>0, <1>1, <2>4 DEF ProcessEnds, CancelRequest
    <2>5. CASE Redis \/ Expiry \/ UNCHANGED vars
      BY <1>1, <2>5 DEF Redis, Expiry, vars, streamVars
    <2>6. ASSUME NEW x \in Streams,
                 \/ Create(x) \/ StartDetachedGeneration(x) \/ Generation(x)
                 \/ TimerFires(x)
                 \/ \E n \in DOMAIN writes[x] : WriteStarts(x, n) \/ WriteEnds(x, n)
          PROVE  cancel' = cancel
      BY <2>6 DEF Create, StartDetachedGeneration, Generation, GenDelta, GenDone, GenError,
                  TimerFires, WriteStarts, WriteEnds
    <2>7. ASSUME NEW x \in Streams,
                 \/ FinFlushed(x) \/ FinAbandons(x) \/ FinFails(x) \/ FinResolves(x)
                 \/ FinProgressed(x) \/ FinMarked(x) \/ FinDatabase(x)
          PROVE  cancel' = cancel
      BY <2>7 DEF FinFlushed, FinAbandons, FinFails, FinResolves, FinProgressed, FinMarked,
                  FinDatabase, FinStores, FinTouches, FinStoreFails, finOthers
    <2>8. ASSUME NEW o \in Observers, NEW x \in Streams, NEW mine \in BOOLEAN, Attach(o, x, mine)
          PROVE  cancel' = cancel
      BY <2>8 DEF Attach, observerOthers
    <2>9. ASSUME NEW o \in Observers, PollTick(o) \/ PollEnds(o) \/ Leave(o)
          PROVE  cancel' = cancel
      BY <2>9 DEF PollTick, PollEnds, PollRejected, PollAnswered, Leave, observerOthers
    <2>10. ASSUME NEW x \in Streams, FailMarked(x)
           PROVE  ProcessEnds \/ cancel' = cancel
      BY <2>10 DEF FailMarked, streamVars
    <2>11. CASE Continuation
      BY <1>1, <2>2, <2>4, <2>6, <2>7, <2>9, <2>10, <2>11 DEF Continuation, FinGoesOn, FinDies
    <2>12. CASE Event
      BY <1>1, <2>3, <2>6, <2>7, <2>8, <2>9, <2>12 DEF Event
    <2>13. CASE Crash
      BY <2>4, <2>13 DEF Crash
    <2> QED
      BY <2>5, <2>11, <2>12, <2>13 DEF Next
  <1> QED
    BY <1>1 DEF CancelledBy

-----------------------------------------------------------------------------
(* A session says generating until a final status is sent on its way.      *)

\* Nobody has begun to mark the session: no request, no finalizer, and of an error the
\* mark has not been saved yet.
EarlyPhases == {"idle", "flush", "check", "store", "touch", "progress"}
Unmarked(s) ==
  /\ ~CancelledBy(s, {"mark"})
  /\ fin[s].pc \in EarlyPhases
  /\ gen[s] = "error" => call[FailOf(s)].stage \in {"get", "save"}
StatusInv ==
  /\ \A t \in Callers : call[t].op = "get" => call[t].stage # "save"
  /\ \A s \in Streams : Unmarked(s) =>
       /\ session[s] # Null => session[s].status = "generating"
       /\ \A t \in Callers : call[t].stream = s /\ call[t].snap # Null =>
            call[t].snap.status = "generating"

\* Who may be about to save a session that exists.
LEMMA Savers ==
  ASSUME OrderInv, StatusInv, NEW s \in Streams, NEW h \in Callers, Saving(h, s)
  PROVE  \/ h = FailOf(s) /\ gen[s] = "error" /\ call[h].op = "mark"
         \/ h = FinalOf(s) /\ fin[s].pc = "mark" /\ call[h].op = "mark"
         \/ /\ h = FinalOf(s) /\ fin[s].pc = "progress" /\ call[h].op = "progress"
            /\ call[h].text = fin[s].text
         \/ \E n \in 1 .. MaxWrites :
              /\ h = WriteOf(s, n) /\ Calling(s, n) /\ call[h].op = "progress"
              /\ call[h].text = Txt(writes[s][n].len, "none")
         \/ CancelledBy(s, {"mark"}) /\ call[h].op = "mark"
PROOF
  <1>0. call[h].op \notin {"create", "get"} /\ call[h] # Idle /\ call[h].stream = s
    BY DEF Saving, StatusInv, Idle
  <1>1. OwnersInv
    BY DEF OrderInv
  <1>2. ASSUME NEW x \in Streams, h = CreateOf(x)
        PROVE  FALSE
    BY <1>0, <1>1, <1>2 DEF OwnersInv, CreateOwned, Is
  <1>3. ASSUME NEW x \in Streams, h = FailOf(x)
        PROVE  x = s /\ gen[s] = "error" /\ call[h].op = "mark"
    BY <1>0, <1>1, <1>3 DEF OwnersInv, FailOwned, Is
  <1>4. ASSUME NEW x \in Streams, h = FinalOf(x)
        PROVE  /\ x = s
               /\ \/ fin[s].pc = "mark" /\ call[h].op = "mark"
                  \/ /\ fin[s].pc = "progress" /\ call[h].op = "progress"
                     /\ call[h].text = fin[s].text
    BY <1>0, <1>1, <1>4 DEF OwnersInv, FinalOwned, Is
  <1>5. ASSUME NEW x \in Streams, NEW n \in 1 .. MaxWrites, h = WriteOf(x, n)
        PROVE  /\ x = s /\ Calling(s, n) /\ call[h].op = "progress"
               /\ call[h].text = Txt(writes[s][n].len, "none")
    BY <1>0, <1>1, <1>5 DEF OwnersInv, WriteOwned, Is
  <1>6. ASSUME NEW c \in Cancels, h = CancelOf(c)
        PROVE  CancelledBy(s, {"mark"}) /\ call[h].op = "mark"
    BY <1>0, <1>1, <1>6 DEF OwnersInv, CancelOwned, Is, CancelledBy
  <1>7. ASSUME NEW o \in Observers, h = PollOf(o)
        PROVE  FALSE
    BY <1>0, <1>1, <1>7 DEF OwnersInv, PollOwned, Is
  <1> QED
    BY <1>2, <1>3, <1>4, <1>5, <1>6, <1>7, TaskKinds

\* The mark of an error is a call of its own until it is taken back.
LEMMA FailStays ==
  ASSUME OrderInv, NEW s \in Streams, Moves(s), gen[s] = "error"
  PROVE  /\ gen'[s] = "error"
         /\ \/ call'[FailOf(s)] = call[FailOf(s)]
            \/ Back(FailOf(s)) /\ call'[FailOf(s)] = Idle
PROOF
  <1>0. TypeInv /\ FailOf(s) \in Callers /\ FinalOf(s) \in Callers
    BY TaskIds DEF OrderInv
  <1>1. ASSUME NEW t \in Callers, t[1] # "fail", NEW c,
               Invoke(t, c) \/ (c = Idle /\ Return(t))
        PROVE  call'[FailOf(s)] = call[FailOf(s)]
    BY <1>0, <1>1, OneCall, TaskNames
  <1>2. CASE Create(s) \/ StartDetachedGeneration(s) \/ Generation(s)
    BY <1>2 DEF Create, StartDetachedGeneration, Generation, GenDelta, GenDone, GenError,
                Subscribed
  <1>3. CASE Rests(s) \/ TimerFires(s) \/ FinStores(s)
    BY <1>3 DEF Rests, TimerFires, FinStores, finOthers
  <1>4. ASSUME NEW n \in DOMAIN writes[s], WriteStarts(s, n) \/ WriteEnds(s, n)
        PROVE  gen'[s] = "error" /\ call'[FailOf(s)] = call[FailOf(s)]
    <2>1. WriteOf(s, n) \in Callers /\ WriteOf(s, n)[1] = "write"
      BY <1>0, TaskIds, TaskNames, WritesBounded
    <2> QED
      BY <1>1, <1>4, <2>1 DEF WriteStarts, WriteEnds
  <1>5. FinalOf(s)[1] = "final"
    BY TaskNames
  <1>6. CASE FinFlushed(s) \/ FinFails(s) \/ FinProgressed(s)
    BY <1>0, <1>1, <1>5, <1>6 DEF FinFlushed, FinFails, FinProgressed, finOthers
  <1>7. CASE FinAbandons(s) \/ FinMarked(s) \/ FinResolves(s)
    BY <1>0, <1>1, <1>5, <1>7 DEF FinAbandons, FinMarked, FinResolves, finOthers
  <1>8. CASE FinTouches(s) \/ FinStoreFails(s)
    BY <1>0, <1>1, <1>5, <1>8 DEF FinTouches, FinStoreFails, finOthers
  <1>9. ASSUME NEW c \in Cancels, cancel[c].stream = s, CancelStops(c)
        PROVE  FALSE
    BY <1>9 DEF CancelStops, Subscribed
  <1> QED
    BY <1>2, <1>3, <1>4, <1>6, <1>7, <1>8, <1>9 DEF Moves, FinDatabase

\* The finalizer does not go back, and starts at the end of a generation.
LEMMA FinalizerGoesOn ==
  ASSUME OrderInv, NEW s \in Streams, Moves(s), fin'[s].pc \in EarlyPhases
  PROVE  fin[s].pc \in EarlyPhases
PROOF
  <1>0. fin \in [Streams -> Finalizer] /\ StoredOnce
    BY DEF OrderInv, TypeInv, TypeOK, StreamTypeOK, CompletedInv
  <1>1. CASE \/ Rests(s) \/ Create(s) \/ StartDetachedGeneration(s) \/ TimerFires(s)
             \/ \E n \in DOMAIN writes[s] : WriteStarts(s, n) \/ WriteEnds(s, n)
    BY <1>1 DEF Rests, Create, StartDetachedGeneration, TimerFires, WriteStarts, WriteEnds
  <1>2. CASE Generation(s) \/ \E c \in Cancels : cancel[c].stream = s /\ CancelStops(c)
    BY <1>0, <1>2
    DEF Generation, GenDelta, GenDone, GenError, CancelStops, Subscribed, StoredOnce,
        EarlyPhases
  <1>3. CASE FinFlushed(s) \/ FinResolves(s) \/ FinStores(s) \/ FinTouches(s)
    BY <1>3 DEF FinFlushed, FinResolves, FinBack, FinStores, FinTouches, EarlyPhases
  <1>4. CASE FinAbandons(s) \/ FinFails(s) \/ FinProgressed(s) \/ FinMarked(s)
             \/ FinStoreFails(s)
    BY <1>0, <1>4
    DEF FinAbandons, FinFails, FinProgressed, FinMarked, FinStoreFails, FinGoes, Finalizer,
        EarlyPhases
  <1> QED
    BY <1>1, <1>2, <1>3, <1>4 DEF Moves, FinDatabase

LEMMA StatusStep ==
  ASSUME OrderInv, StatusInv, [Next]_vars
  PROVE  StatusInv'
PROOF
  <1>0. /\ TypeInv /\ OwnersInv /\ UnbornInv /\ WireInv
        /\ session \in [Streams -> Session \cup {Null}] /\ call \in [Callers -> Call]
        /\ fin \in [Streams -> Finalizer]
        /\ Idle.snap = Null /\ Idle.stage = "idle" /\ Idle.op = "none"
    BY DEF OrderInv, TypeInv, TypeOK, SessionTypeOK, StreamTypeOK, Idle
  <1>1. \A s \in Streams : ~CancelledBy(s, {"mark"})' => ~CancelledBy(s, {"mark"})
    BY MarkStays
  <1>2. CASE Serve /\ UNCHANGED streamVars
    <2>1. PICK h : h = Head(wire)
      OBVIOUS
    <2>2. PICK g : g = call[h].stream
      OBVIOUS
    <2>3. /\ h \in Callers /\ g \in Streams
          /\ call'[h].op = call[h].op /\ call'[h].stream = g
          /\ \A t \in Callers : t # h => call'[t] = call[t]
          /\ \/ Saves(h)
             \/ /\ UNCHANGED session
                /\ \/ call'[h].stage = "back" /\ call'[h].snap = Null
                   \/ /\ call[h].stage = "get" /\ call'[h].snap = session[g]
                      /\ call'[h].stage = "save" => call[h].op # "get"
      BY <1>0, <1>2, <2>1, <2>2, ServeSessions
    <2>4. \A t \in Callers : call'[t].op = "get" => call'[t].stage # "save"
      BY <2>3 DEF StatusInv, Saves
    <2>5. ASSUME NEW s \in Streams, Unmarked(s)'
          PROVE  Unmarked(s)
      <3>1. ~CancelledBy(s, {"mark"}) /\ fin[s].pc \in EarlyPhases
        BY <1>1, <1>2, <2>5 DEF Unmarked, streamVars
      <3>2. gen[s] = "error" => call[FailOf(s)].stage \in {"get", "save"}
        <4>1. gen[s] = "error" => call'[FailOf(s)].stage \in {"get", "save"}
          BY <1>2, <2>5 DEF Unmarked, streamVars
        <4> QED
          BY <2>3, <4>1, TaskIds DEF Saves
      <3> QED
        BY <3>1, <3>2 DEF Unmarked
    <2>6. ASSUME NEW s \in Streams, Unmarked(s)', Saves(h), s = g
          PROVE  session'[s].status = "generating"
      <3>1. Unmarked(s) /\ session'[s] = Written(call[h])
        BY <1>0, <2>2, <2>3, <2>5, <2>6 DEF Saves
      <3>2. CASE call[h].op = "create"
        BY <3>1, <3>2 DEF Written, NewSession
      <3>3. CASE call[h].op # "create"
        <4>1. /\ Saving(h, s) /\ call[h].snap # Null
              /\ call[h].op = "progress" =>
                   Written(call[h]).status = call[h].snap.status
          BY <1>0, <2>2, <2>3, <2>6, <3>3, SavesNext
        <4>2. call[h].op = "mark" => FALSE
          <5>1. h = FailOf(s) /\ gen[s] = "error" => FALSE
            BY <1>2, <2>6 DEF Saves, Unmarked, streamVars
          <5>2. fin[s].pc # "mark" /\ ~CancelledBy(s, {"mark"})
            BY <3>1 DEF Unmarked, EarlyPhases
          <5> QED
            BY <2>3, <4>1, <5>1, <5>2, Savers
        <4>3. call[h].op = "progress"
          BY <2>3, <4>1, <4>2, Savers
        <4> QED
          BY <2>2, <2>3, <2>6, <3>1, <4>1, <4>3 DEF StatusInv
      <3> QED
        BY <3>2, <3>3
    <2>7. ASSUME NEW s \in Streams, Unmarked(s)'
          PROVE  /\ session'[s] # Null => session'[s].status = "generating"
                 /\ \A t \in Callers : call'[t].stream = s /\ call'[t].snap # Null =>
                      call'[t].snap.status = "generating"
      <3>1. Unmarked(s)
        BY <2>5, <2>7
      <3>2. session'[s] # Null => session'[s].status = "generating"
        <4>1. CASE Saves(h) /\ s = g
          BY <2>6, <2>7, <4>1
        <4>2. CASE ~(Saves(h) /\ s = g)
          <5>1. session'[s] = session[s]
            BY <1>0, <2>2, <2>3, <4>2 DEF Saves
          <5> QED
            BY <3>1, <5>1 DEF StatusInv
        <4> QED
          BY <4>1, <4>2
      <3>3. ASSUME NEW t \in Callers, call'[t].stream = s, call'[t].snap # Null
            PROVE  call'[t].snap.status = "generating"
        <4>1. CASE t = h
          BY <2>3, <3>1, <3>3, <4>1 DEF Saves, StatusInv
        <4>2. CASE t # h
          BY <2>3, <3>1, <3>3, <4>2 DEF StatusInv
        <4> QED
          BY <4>1, <4>2
      <3> QED
        BY <3>2, <3>3
    <2> QED
      BY <2>4, <2>7 DEF StatusInv
  <1>3. CASE Expiry
    <2>1. /\ UNCHANGED <<call, streamVars>>
          /\ \A s \in Streams : session'[s] # Null => session'[s] = session[s]
      BY <1>0, <1>3 DEF Expiry, Expire
    <2> QED
      BY <1>1, <2>1 DEF StatusInv, Unmarked, streamVars
  <1>4. CASE ProcessEnds
    <2>1. \A t \in Callers : call'[t] = Idle
      BY <1>4 DEF ProcessEnds
    <2>2. ASSUME NEW s \in Streams, Unmarked(s)'
          PROVE  Unmarked(s)
      <3>1. /\ ~CancelledBy(s, {"mark"})
            /\ fin'[s].pc \in EarlyPhases
            /\ gen'[s] = "error" => call'[FailOf(s)].stage \in {"get", "save"}
        BY <1>1, <2>2 DEF Unmarked
      <3>2. gen'[s] # "error"
        BY <1>0, <2>1, <3>1, TaskIds
      <3>3. gen[s] # "error" /\ fin[s].pc \in EarlyPhases
        BY <1>0, <1>4, <3>1, <3>2 DEF ProcessEnds, Finalizer, EarlyPhases
      <3> QED
        BY <3>1, <3>3 DEF Unmarked
    <2>3. UNCHANGED session
      BY <1>4 DEF ProcessEnds, stores
    <2> QED
      BY <1>0, <2>1, <2>2, <2>3 DEF StatusInv
  <1>5. CASE Acts /\ \A s \in Streams : Moves(s)
    <2>1. Turn /\ UNCHANGED session
      BY <1>5 DEF Acts, Turn
    <2>2. ASSUME NEW t \in Callers
          PROVE  \/ call'[t] = call[t]
                 \/ call'[t].snap = Null /\ (call'[t].op = "get" => call'[t].stage # "save")
      <3>1. ASSUME NEW u \in Streams, CreateTurn(u), t = CreateOf(u)
            PROVE  call'[t].snap = Null /\ call'[t].op # "get"
        <4>1. call'[t] = CreateCall(u)
          BY <1>0, <3>1 DEF CreateTurn, Calls, Invoke
        <4> QED
          BY <4>1 DEF CreateCall, Idle
      <3> QED
        BY <1>0, <2>1, <3>1, TurnMoves
    <2>3. ASSUME NEW s \in Streams, Unmarked(s)'
          PROVE  Unmarked(s)
      <3>1. /\ ~CancelledBy(s, {"mark"}) /\ fin[s].pc \in EarlyPhases
            /\ gen'[s] = "error" => call'[FailOf(s)].stage \in {"get", "save"}
        BY <1>1, <1>5, <2>3, FinalizerGoesOn DEF Unmarked
      <3>2. gen[s] = "error" => call[FailOf(s)].stage \in {"get", "save"}
        BY <1>0, <1>5, <3>1, FailStays
      <3> QED
        BY <3>1, <3>2 DEF Unmarked
    <2> QED
      BY <2>1, <2>2, <2>3 DEF StatusInv
  <1> QED
    BY <1>2, <1>3, <1>4, <1>5, StreamSteps

LEMMA StatusStart == Init => StatusInv
PROOF
  BY DEF Init, SessionInit, StatusInv, Idle

-----------------------------------------------------------------------------
(* The chain of progress writes: one after the other, each with no less.   *)

\* A generation that runs or has ended by itself, and that no request has marked.
Undisturbed(s) == gen[s] \in {"running", "done"} /\ ~CancelledBy(s, {"mark"})

\* Every write waits for the one before it, so that at most one is not done and has been
\* started; the finalizer has waited for the last before it goes on.
InOrder(w, total) ==
  /\ \A n \in DOMAIN w : w[n].after = n - 1 /\ w[n].len <= total
  /\ \A m, n \in DOMAIN w : m < n =>
       w[m].len <= w[n].len /\ (w[m].st # "done" => w[n].st = "queued")
Chained(s) ==
  /\ InOrder(writes[s], len[s])
  /\ gen[s] = "running" => tail[s] = Len(writes[s]) /\ pending[s] \in {len[s], Null}
  /\ gen[s] = "done" =>
       /\ s \notin timer
       /\ fin[s].pc = "flush" => fin[s].waits = Len(writes[s])
       /\ fin[s].pc # "flush" => \A n \in DOMAIN writes[s] : writes[s][n].st = "done"
ChainInv ==
  \A s \in Streams :
    /\ ~Known(s) => pending[s] = Null /\ tail[s] = 0
    /\ Undisturbed(s) => Chained(s)

\* A patch with all that was accumulated is put at the end of the chain.
LEMMA OrderQueued ==
  ASSUME NEW w \in Seq(Write), NEW total \in Nat, InOrder(w, total),
         NEW r \in Write, r.len = total, r.after = Len(w), r.st = "queued"
  PROVE  InOrder(Append(w, r), total)
PROOF
  <1>1. /\ DOMAIN w = 1 .. Len(w) /\ Len(w) \in Nat
        /\ DOMAIN Append(w, r) = 1 .. Len(w) + 1 /\ Append(w, r)[Len(w) + 1] = r
        /\ \A n \in 1 .. Len(w) : Append(w, r)[n] = w[n]
    OBVIOUS
  <1>2. PICK v : v = Append(w, r)
    OBVIOUS
  <1>3. \A n \in DOMAIN v : v[n].after = n - 1 /\ v[n].len <= total
    BY <1>1, <1>2 DEF InOrder
  <1>4. ASSUME NEW m \in DOMAIN v, NEW n \in DOMAIN v, m < n
        PROVE  v[m].len <= v[n].len /\ (v[m].st # "done" => v[n].st = "queued")
    BY <1>1, <1>2, <1>4 DEF InOrder
  <1> QED
    BY <1>2, <1>3, <1>4 DEF InOrder

\* The turn of one write.
LEMMA OrderWritten ==
  ASSUME NEW w \in Seq(Write), NEW total \in Nat, InOrder(w, total), NEW n \in DOMAIN w,
         NEW r \in Write, r.len = w[n].len, r.after = w[n].after,
         \/ w[n].st = "calling"
         \/ w[n].st = "queued" /\ (n # 1 => w[n - 1].st = "done")
  PROVE  InOrder([w EXCEPT ![n] = r], total)
PROOF
  <1>1. PICK v : v = [w EXCEPT ![n] = r]
    OBVIOUS
  <1>2. /\ DOMAIN w = 1 .. Len(w) /\ Len(w) \in Nat /\ DOMAIN v = DOMAIN w
        /\ v[n] = r /\ \A m \in DOMAIN w : m # n => v[m] = w[m]
    BY <1>1
  <1>3. ASSUME NEW m \in DOMAIN w, m < n
        PROVE  w[m].st = "done"
    <2>1. CASE w[n].st = "calling"
      BY <1>3, <2>1 DEF InOrder
    <2>2. CASE w[n].st = "queued" /\ (n # 1 => w[n - 1].st = "done")
      <3>1. n # 1 /\ n - 1 \in DOMAIN w /\ (m = n - 1 \/ m < n - 1)
        BY <1>2, <1>3
      <3> QED
        BY <1>3, <2>2, <3>1 DEF InOrder
    <2> QED
      BY <2>1, <2>2
  <1>4. ASSUME NEW m \in DOMAIN w, n < m
        PROVE  w[m].st = "queued"
    BY <1>4 DEF InOrder
  <1>5. \A m \in DOMAIN v : v[m].after = m - 1 /\ v[m].len <= total
    BY <1>2 DEF InOrder
  <1>6. ASSUME NEW k \in DOMAIN v, NEW m \in DOMAIN v, k < m
        PROVE  v[k].len <= v[m].len /\ (v[k].st # "done" => v[m].st = "queued")
    <2>1. v[k].len = w[k].len /\ v[m].len = w[m].len
      BY <1>2
    <2>2. w[k].len <= w[m].len
      BY <1>2, <1>6 DEF InOrder
    <2>3. v[k].st # "done" => v[m].st = "queued"
      BY <1>2, <1>3, <1>4, <1>6 DEF InOrder
    <2> QED
      BY <2>1, <2>2, <2>3
  <1> QED
    BY <1>1, <1>5, <1>6 DEF InOrder

LEMMA ChainStep ==
  ASSUME OrderInv, StatusInv, ChainInv, [Next]_vars
  PROVE  ChainInv'
PROOF
  <1>0. /\ TypeInv /\ CompletedInv /\ OwnersInv /\ UnbornInv /\ PromiseInv
        /\ gen \in [Streams -> GenStates] /\ len \in [Streams -> 0 .. MaxDeltas]
        /\ timer \subseteq Streams /\ pending \in [Streams -> Nat \cup {Null}]
        /\ writes \in [Streams -> Seq(Write)] /\ tail \in [Streams -> Nat]
        /\ fin \in [Streams -> Finalizer]
        /\ \A s \in Streams : len[s] \in Nat
    BY MaxDeltasAssumption DEF OrderInv, TypeInv, TypeOK, StreamTypeOK
  <1>1. \A s \in Streams : ~CancelledBy(s, {"mark"})' => ~CancelledBy(s, {"mark"})
    BY MarkStays
  <1>2. CASE UNCHANGED streamVars
    BY <1>1, <1>2 DEF ChainInv, Undisturbed, Chained, Known, streamVars
  <1>3. CASE ProcessEnds
    <2>1. ASSUME NEW s \in Streams
          PROVE  /\ writes'[s] = <<>> /\ s \notin timer' /\ pending'[s] = Null /\ tail'[s] = 0
                 /\ gen'[s] # "running" /\ fin'[s].pc # "flush"
      BY <1>0, <1>3 DEF ProcessEnds, Finalizer
    <2> QED
      BY <2>1 DEF ChainInv, Undisturbed, Chained, InOrder
  <1>4. CASE Acts /\ \A s \in Streams : Moves(s)
    <2>1. ASSUME NEW s \in Streams, ~Known(s)'
          PROVE  pending'[s] = Null /\ tail'[s] = 0
      <3>1. ~Known(s)
        BY <1>4, <2>1 DEF Acts, Distant
      <3>2. /\ pending[s] = Null /\ tail[s] = 0
            /\ writes[s] = <<>> /\ s \notin timer /\ gen[s] \in {"absent", "creating"}
            /\ fin[s].pc = "idle"
        BY <1>0, <3>1 DEF ChainInv, UnbornInv, Unborn, Known, CompletedInv, StoredOnce
      <3>3. CASE Rests(s)
        BY <3>2, <3>3 DEF Rests
      <3>4. CASE Create(s) \/ StartDetachedGeneration(s)
        BY <3>2, <3>4 DEF Create, StartDetachedGeneration, progressVars
      <3>5. ~Generation(s) /\ ~TimerFires(s)
        BY <3>2 DEF Generation, GenDelta, GenDone, GenError, Subscribed, TimerFires
      <3>6. ASSUME NEW c \in Cancels, cancel[c].stream = s, CancelStops(c)
            PROVE  FALSE
        BY <3>2, <3>6 DEF CancelStops, Subscribed
      <3>7. DOMAIN writes[s] = {}
        BY <3>2
      <3>8. /\ ~FinFlushed(s) /\ ~FinAbandons(s) /\ ~FinFails(s) /\ ~FinResolves(s)
            /\ ~FinProgressed(s) /\ ~FinMarked(s) /\ ~FinDatabase(s)
        BY <3>2 DEF FinFlushed, FinAbandons, FinFails, FinResolves, FinProgressed, FinMarked,
                    FinDatabase, FinStores, FinTouches, FinStoreFails, FinBack
      <3> QED
        BY <1>4, <3>3, <3>4, <3>5, <3>6, <3>7, <3>8 DEF Moves
    <2>2. ASSUME NEW s \in Streams, Undisturbed(s)'
          PROVE  Chained(s)'
      <3>0. /\ ~CancelledBy(s, {"mark"}) /\ gen'[s] \in {"running", "done"}
            /\ gen[s] \in {"running", "done"} => Chained(s)
        BY <1>1, <2>2 DEF Undisturbed, ChainInv
      <3>1. PICK w \in Seq(Write) : w = writes[s]
        BY <1>0
      <3>2. DOMAIN w = 1 .. Len(w) /\ Len(w) \in Nat
        BY <3>1
      <3>3. CASE Rests(s)
        <4>1. Chained(s) /\ gen'[s] = gen[s]
          BY <3>0, <3>3 DEF Rests
        <4>2. CASE /\ s \in timer' <=> s \in timer
                   /\ pending'[s] = pending[s] /\ tail'[s] = tail[s]
          BY <3>3, <4>1, <4>2 DEF Rests, Chained
        <4>3. CASE s \notin timer' /\ gen[s] # "running"
          BY <3>3, <4>1, <4>3 DEF Rests, Chained
        <4>4. CASE gen[s] = "running"
          <5>1. Unmarked(s)
            BY <1>0, <3>0, <4>4 DEF Unmarked, EarlyPhases, CompletedInv, StoredOnce
          <5>2. \A t \in Callers : call[t].stream = s /\ call[t].snap # Null =>
                  call[t].snap.status = "generating"
            BY <5>1 DEF StatusInv
          <5> QED
            BY <3>0, <3>3, <4>2, <5>2 DEF Rests
        <4> QED
          BY <3>3, <4>2, <4>3, <4>4 DEF Rests
      <3>4. CASE Create(s) \/ GenError(s)
        BY <1>0, <3>0, <3>4 DEF Create, GenError
      <3>5. CASE StartDetachedGeneration(s)
        <4>1. /\ ~Known(s) /\ gen'[s] # "done"
              /\ UNCHANGED <<writes, tail, pending>>
          BY <1>0, <3>5 DEF StartDetachedGeneration, Known, progressVars
        <4>2. writes'[s] = <<>> /\ tail'[s] = 0 /\ pending'[s] = Null
          BY <1>0, <4>1 DEF ChainInv, UnbornInv, Unborn
        <4> QED
          BY <4>1, <4>2 DEF Chained, InOrder
      <3>6. CASE GenDelta(s)
        <4>1. /\ gen[s] = "running" /\ gen'[s] = "running" /\ writes'[s] = w
              /\ len'[s] = len[s] + 1 /\ tail'[s] = tail[s] /\ pending'[s] = len[s] + 1
          BY <1>0, <3>1, <3>6 DEF GenDelta, Subscribed
        <4>2. InOrder(w, len[s]) /\ tail[s] = Len(w)
          BY <3>0, <3>1, <4>1 DEF Chained
        <4>3. \A n \in DOMAIN w : w[n].len \in Nat
          <5>1. \A n \in DOMAIN w : w[n] \in Write
            BY <3>1
          <5> QED
            BY <5>1 DEF Write
        <4>4. InOrder(w, len[s] + 1)
          BY <1>0, <4>2, <4>3 DEF InOrder
        <4>5. InOrder(writes[s], len[s])'
          BY <4>1, <4>4 DEF InOrder
        <4> QED
          BY <4>1, <4>2, <4>5 DEF Chained
      <3>7. ASSUME NEW total \in Nat, total = len[s], len'[s] = len[s], gen[s] = "running",
                   QueueProgressUpdate(s, total)
            PROVE  InOrder(writes[s], len[s])' /\ Len(writes'[s]) = Len(w) + 1
                   /\ tail'[s] = Len(w) + 1
        <4>1. PICK r : r = [len |-> total, after |-> tail[s], left |-> 2, st |-> "queued"]
          OBVIOUS
        <4>2. writes'[s] = Append(w, r) /\ tail'[s] = Len(w) + 1
          BY <1>0, <3>1, <3>7, <4>1 DEF QueueProgressUpdate
        <4>3. InOrder(w, total) /\ tail[s] = Len(w)
          BY <3>0, <3>1, <3>7 DEF Chained
        <4>4. r \in Write /\ r.len = total /\ r.after = Len(w) /\ r.st = "queued"
          BY <3>2, <4>1, <4>3 DEF Write
        <4>5. InOrder(Append(w, r), total)
          BY <4>3, <4>4, OrderQueued
        <4>6. Len(Append(w, r)) = Len(w) + 1
          BY <4>4
        <4> QED
          BY <3>7, <4>2, <4>5, <4>6 DEF InOrder
      <3>8. CASE GenDone(s)
        <4>1. PICK total \in Nat : total = len[s]
          BY <1>0
        <4>2. /\ gen[s] = "running" /\ gen'[s] = "done" /\ len'[s] = len[s]
              /\ FinalizerStarts(s, total, s \in cancelled)
          BY <1>0, <3>8, <4>1 DEF GenDone, Subscribed
        <4>3. total # Null
          BY NullAssumption
        <4>4. /\ QueueProgressUpdate(s, total) /\ s \notin timer'
              /\ fin'[s].pc = "flush" /\ fin'[s].waits = Len(w) + 1
          BY <1>0, <3>1, <4>2, <4>3 DEF FinalizerStarts
        <4> QED
          BY <3>7, <4>1, <4>2, <4>4 DEF Chained
      <3>9. CASE TimerFires(s)
        <4>1. gen[s] = "running" /\ Chained(s)
          BY <3>0, <3>9 DEF TimerFires, Chained
        <4>2. /\ gen'[s] = "running" /\ len'[s] = len[s] /\ pending'[s] = pending[s]
          BY <3>9, <4>1 DEF TimerFires
        <4>3. CASE pending[s] = Null
          BY <3>9, <4>1, <4>2, <4>3 DEF TimerFires, Chained
        <4>4. CASE pending[s] # Null
          <5>1. PICK total \in Nat : total = pending[s] /\ total = len[s]
            BY <1>0, <4>1, <4>4 DEF Chained
          <5>2. QueueProgressUpdate(s, total)
            BY <3>9, <4>4, <5>1 DEF TimerFires
          <5> QED
            BY <3>7, <4>1, <4>2, <5>1, <5>2 DEF Chained
        <4> QED
          BY <4>3, <4>4
      <3>10. ASSUME NEW n \in DOMAIN writes[s], WriteStarts(s, n) \/ WriteEnds(s, n)
             PROVE  Chained(s)'
        <4>1. /\ Chained(s) /\ InOrder(w, len[s]) /\ n \in DOMAIN w /\ w[n] \in Write
              /\ gen'[s] = gen[s] /\ UNCHANGED <<len, tail, pending, timer, fin>>
          BY <3>0, <3>1, <3>10 DEF Chained, WriteStarts, WriteEnds
        <4>2. /\ w[n].after = n - 1
              /\ \/ w[n].st = "calling"
                 \/ w[n].st = "queued" /\ (n # 1 => w[n - 1].st = "done")
          <5>1. w[n].after = n - 1
            BY <4>1 DEF InOrder
          <5>2. CASE WriteStarts(s, n)
            BY <3>1, <3>2, <4>1, <5>1, <5>2 DEF WriteStarts, WriteDone
          <5>3. CASE WriteEnds(s, n)
            <6>1. call[WriteOf(s, n)] # Idle /\ n \in 1 .. MaxWrites
              BY <1>0, <5>3, WritesBounded DEF WriteEnds, Back, Idle
            <6>2. Calling(s, n)
              BY <1>0, <6>1 DEF OwnersInv, WriteOwned
            <6> QED
              BY <3>1, <5>1, <6>2 DEF Calling
          <5> QED
            BY <3>10, <5>1, <5>2, <5>3
        <4>3. PICK r \in Write : /\ r.len = w[n].len /\ r.after = w[n].after
                                 /\ writes'[s] = [w EXCEPT ![n] = r]
          <5>1. CASE WriteStarts(s, n)
            <6>1. PICK r : r = [w[n] EXCEPT !.st = "calling"]
              OBVIOUS
            <6>2. r \in Write /\ r.len = w[n].len /\ r.after = w[n].after
              BY <4>1, <6>1 DEF Write
            <6>3. writes' = [writes EXCEPT ![s] = [w EXCEPT ![n] = r]]
              BY <3>1, <5>1, <6>1 DEF WriteStarts
            <6> QED
              BY <1>0, <6>2, <6>3
          <5>2. CASE WriteEnds(s, n)
            <6>1. PICK r : r = IF call[WriteOf(s, n)].ok \/ w[n].left = 1
                               THEN [w[n] EXCEPT !.st = "done"]
                               ELSE [w[n] EXCEPT !.st = "queued", !.left = 1]
              OBVIOUS
            <6>2. r \in Write /\ r.len = w[n].len /\ r.after = w[n].after
              <7>1. CASE r = [w[n] EXCEPT !.st = "done"]
                BY <4>1, <7>1 DEF Write
              <7>2. CASE r = [w[n] EXCEPT !.st = "queued", !.left = 1]
                <8>1. PICK q : q = [w[n] EXCEPT !.st = "queued"]
                  OBVIOUS
                <8>2. q \in Write /\ q.len = w[n].len /\ q.after = w[n].after
                  BY <4>1, <8>1 DEF Write
                <8>3. r = [q EXCEPT !.left = 1]
                  BY <7>2, <8>1
                <8> QED
                  BY <8>2, <8>3 DEF Write
              <7> QED
                BY <6>1, <7>1, <7>2
            <6>3. writes' = [writes EXCEPT ![s] = [w EXCEPT ![n] = r]]
              BY <3>1, <5>2, <6>1 DEF WriteEnds
            <6> QED
              BY <1>0, <6>2, <6>3
          <5> QED
            BY <3>10, <5>1, <5>2
        <4>4. PICK v \in Seq(Write) : v = [w EXCEPT ![n] = r]
          BY <3>1, <4>1, <4>3
        <4>5. InOrder(v, len[s]) /\ Len(v) = Len(w)
          <5>1. PICK total \in Nat : total = len[s]
            BY <1>0
          <5>2. InOrder(v, total)
            BY <4>1, <4>2, <4>3, <4>4, <5>1, OrderWritten
          <5> QED
            BY <3>1, <4>1, <4>4, <5>1, <5>2
        <4>6. InOrder(writes[s], len[s])' /\ Len(writes'[s]) = Len(w)
          BY <4>1, <4>3, <4>4, <4>5 DEF InOrder
        <4>7. gen[s] = "done" => fin[s].pc = "flush"
          BY <3>1, <4>1, <4>2 DEF Chained
        <4> QED
          BY <3>1, <4>1, <4>6, <4>7 DEF Chained
      <3>11. CASE FinFlushed(s)
        <4>1. /\ fin[s].pc = "flush" /\ fin'[s].pc = "check" /\ WriteDone(s, fin[s].waits)
              /\ UNCHANGED <<gen, len, timer, pending, writes, tail>>
          BY <1>0, <3>11 DEF FinFlushed, FinGoes, Finalizer, finOthers, progressVars
        <4>2. gen[s] = "done" /\ Chained(s)
          BY <1>0, <3>0, <4>1 DEF CompletedInv, StoredOnce
        <4>3. fin[s].waits = Len(w)
          BY <3>1, <4>1, <4>2 DEF Chained
        <4>4. Len(w) # 0 => w[Len(w)].st = "done"
          BY <3>1, <4>1, <4>3 DEF WriteDone
        <4>5. ASSUME NEW n \in DOMAIN w
              PROVE  w[n].st = "done"
          <5>1. Len(w) \in DOMAIN w /\ (n = Len(w) \/ n < Len(w))
            BY <3>2
          <5> QED
            BY <3>1, <3>2, <4>2, <4>4, <5>1 DEF Chained, InOrder
        <4> QED
          BY <3>1, <4>1, <4>2, <4>5 DEF Chained
      <3>12. CASE \/ FinAbandons(s) \/ FinFails(s) \/ FinResolves(s)
                  \/ FinProgressed(s) \/ FinMarked(s) \/ FinDatabase(s)
        <4>1. /\ fin[s].pc \notin {"idle", "flush"} /\ fin'[s].pc # "flush"
              /\ UNCHANGED <<gen, len, writes>> /\ timer' \subseteq timer
          <5>1. CASE FinAbandons(s) \/ FinMarked(s)
            BY <1>0, <5>1 DEF FinAbandons, FinMarked, FinBack, FinGoes, Finalizer, finOthers,
                              CompleteSubject
          <5>2. CASE FinFails(s) \/ FinResolves(s) \/ FinProgressed(s)
            BY <1>0, <5>2 DEF FinFails, FinResolves, FinProgressed, FinBack, FinGoes, Finalizer,
                              finOthers, progressVars
          <5>3. CASE FinDatabase(s)
            BY <1>0, <5>3 DEF FinDatabase, FinStores, FinTouches, FinStoreFails, FinGoes,
                              Finalizer, finOthers, progressVars
          <5> QED
            BY <3>12, <5>1, <5>2, <5>3
        <4>2. gen[s] = "done" /\ Chained(s)
          BY <1>0, <3>0, <4>1 DEF CompletedInv, StoredOnce
        <4> QED
          BY <4>1, <4>2 DEF Chained
      <3>13. ASSUME NEW c \in Cancels, cancel[c].stream = s, CancelStops(c)
             PROVE  FALSE
        BY <1>0, <3>0, <3>13 DEF CancelStops
      <3> QED
        BY <1>4, <3>3, <3>4, <3>5, <3>6, <3>8, <3>9, <3>10, <3>11, <3>12, <3>13
        DEF Moves, Generation
    <2> QED
      BY <2>1, <2>2 DEF ChainInv
  <1> QED
    BY <1>2, <1>3, <1>4, StreamSteps DEF Expiry

LEMMA ChainStart == Init => ChainInv
PROOF
  BY DEF Init, ChainInv, Undisturbed

-----------------------------------------------------------------------------
(* The text of a session does not shrink while its reply grows.            *)

\* What Redis may do to the session of a stream that no request has marked.
SavesFinal(s, pc) ==
  /\ Saving(FinalOf(s), s) /\ fin[s].pc = pc /\ call[FinalOf(s)].snap \in Session
  /\ session'[s] # Null
LEMMA SessionMoves ==
  ASSUME OrderInv, StatusInv, [Next]_vars, Serve, UNCHANGED streamVars,
         NEW h, h = Head(wire),
         NEW s \in Streams, ~CancelledBy(s, {"mark"}), gen[s] # "error",
         session'[s] # session[s]
  PROVE  /\ session'[s] # Null
         /\ \/ gen[s] = "creating" /\ session'[s] = NewSession
            \/ /\ h = FinalOf(s) /\ SavesFinal(s, "mark")
               /\ session'[s].text = call[h].snap.text
               /\ session'[s].status = call[h].status
            \/ /\ h = FinalOf(s) /\ SavesFinal(s, "progress")
               /\ session'[s].text = fin[s].text
               /\ session'[s].status = call[h].snap.status
            \/ \E n \in 1 .. MaxWrites :
                 /\ h = WriteOf(s, n) /\ Saving(h, s) /\ Calling(s, n)
                 /\ call[h].snap \in Session
                 /\ session'[s].text = Txt(writes[s][n].len, "none")
                 /\ session'[s].status = call[h].snap.status
PROOF
  <1>0. /\ TypeInv /\ OwnersInv /\ UnbornInv
        /\ session \in [Streams -> Session \cup {Null}]
        /\ session' \in [Streams -> Session \cup {Null}] /\ Null \notin Session
    <2>1. TypeInv /\ OwnersInv /\ UnbornInv /\ TypeInv'
      BY OrderStep DEF OrderInv
    <2> QED
      BY <2>1, NullAssumption DEF TypeInv, TypeOK, SessionTypeOK
  <1>1. /\ h \in Callers /\ Saves(h) /\ call[h].stream = s
        /\ session'[s] = Written(call[h])
    <2>1. h \in Callers /\ call[h].stream \in Streams /\ (Saves(h) \/ UNCHANGED session)
      BY <1>0, ServeSessions
    <2> QED
      BY <1>0, <2>1 DEF Saves
  <1>2. \/ call[h].op = "create" /\ session[s] = Null
        \/ /\ Saving(h, s) /\ call[h].op # "create"
           /\ call[h].snap \in Session /\ call[h].snap # Null
           /\ Written(call[h]).status =
                IF call[h].op = "progress" THEN call[h].snap.status ELSE call[h].status
           /\ Written(call[h]).text =
                IF call[h].op = "progress" THEN call[h].text ELSE call[h].snap.text
    BY <1>0, <1>1, SavesNext
  <1>5. session'[s] \in Session
    <2>1. Written(call[h]) \in Session
      BY <1>0, <1>1, <1>2, WrittenTyped DEF TypeInv, TypeOK, SessionTypeOK
    <2> QED
      BY <1>1, <2>1
  <1>3. CASE call[h].op = "create"
    <2>1. gen[s] = "creating"
      BY <1>0, <1>1, <1>3, OnlyCreates
    <2>2. session'[s] = NewSession
      BY <1>1, <1>3 DEF Written
    <2>3. NewSession \in Session
      BY DEF NewSession, Session, Statuses, Text, EmptyText, Marks
    <2> QED
      BY <1>0, <2>1, <2>2, <2>3
  <1>4. CASE call[h].op # "create"
    <2>1. /\ Saving(h, s) /\ call[h].snap \in Session
          /\ session'[s].status =
               IF call[h].op = "progress" THEN call[h].snap.status ELSE call[h].status
          /\ session'[s].text =
               IF call[h].op = "progress" THEN call[h].text ELSE call[h].snap.text
      BY <1>1, <1>2, <1>4
    <2>2. session'[s] # Null
      BY <1>0, <1>5
    <2> QED
      BY <1>1, <2>1, <2>2, Savers DEF SavesFinal
  <1> QED
    BY <1>3, <1>4

\* A reply that is not stored yet, of a stream that no request has marked.
Growing(s) == Undisturbed(s) /\ reply[s] = Null

\* What makes it inductive: no write that is still to come has less than the session, nor
\* has the last mark, when the finalizer could not store the reply.
Shortest(s) ==
  session[s] # Null =>
    /\ gen[s] = "running" => session[s].text.len <= len[s]
    /\ \A n \in DOMAIN writes[s] :
         writes[s][n].st # "done" => session[s].text.len <= writes[s][n].len
    /\ fin[s].pc = "mark" /\ call[FinalOf(s)].stage = "save" =>
         session[s].text.len <= call[FinalOf(s)].snap.text.len
TextInv ==
  \A s \in Streams :
    /\ ~Known(s) /\ session[s] # Null => session[s].text.len = 0
    /\ Growing(s) => Shortest(s)

\* What Redis does to the text.
LEMMA TextServed ==
  ASSUME OrderInv, StatusInv, ChainInv, TextInv, [Next]_vars, Serve, UNCHANGED streamVars,
         NEW s \in Streams
  PROVE  /\ ~Known(s) /\ session'[s] # Null => session'[s].text.len = 0
         /\ Growing(s) => Shortest(s)'
         /\ Growing(s) /\ session[s] # Null => session'[s].text.len >= session[s].text.len
PROOF
  <1>0. /\ TypeInv /\ OwnersInv /\ UnbornInv /\ CompletedInv /\ PromiseInv
        /\ \A x \in Streams : session[x] # Null => session[x].text.len \in Nat
        /\ writes[s] \in Seq(Write) /\ len[s] \in Nat
        /\ \A n \in DOMAIN writes[s] : writes[s][n] \in Write /\ writes[s][n].len \in Nat
        /\ EmptyText.len = 0 /\ NewSession.text = EmptyText
    <2>1. /\ TypeInv /\ OwnersInv /\ UnbornInv /\ CompletedInv /\ PromiseInv
          /\ session \in [Streams -> Session \cup {Null}]
          /\ writes[s] \in Seq(Write) /\ len[s] \in Nat
      BY MaxDeltasAssumption
      DEF OrderInv, TypeInv, TypeOK, SessionTypeOK, StreamTypeOK
    <2>2. \A x \in Streams : session[x] # Null => session[x].text.len \in Nat
      BY <2>1 DEF Session, Text
    <2>3. \A n \in DOMAIN writes[s] : writes[s][n] \in Write /\ writes[s][n].len \in Nat
      <3>1. \A n \in DOMAIN writes[s] : writes[s][n] \in Write
        BY <2>1
      <3> QED
        BY <3>1 DEF Write
    <2> QED
      BY <2>1, <2>2, <2>3 DEF EmptyText, NewSession
  <1>1. PICK h : h = Head(wire)
    OBVIOUS
  <1>2. /\ h \in Callers /\ call[h].stream \in Streams
        /\ \A t \in Callers : t # h => call'[t] = call[t]
        /\ \/ Saves(h)
           \/ /\ UNCHANGED session
              /\ call'[h].stage = "save" => call'[h].snap = session[call[h].stream]
    BY <1>0, <1>1, ServeSessions
  <1>3. UNCHANGED <<gen, len, writes, fin, reply, cancel>> /\ FinalOf(s) \in Callers
    BY TaskIds DEF streamVars
  <1>4. ASSUME ~Known(s)
        PROVE  session'[s] # Null => session'[s].text.len = 0
    <2>1. /\ gen[s] \in {"absent", "creating"} /\ fin[s].pc = "idle" /\ writes[s] = <<>>
          /\ \A t \in Callers : call[t].stream = s => t = CreateOf(s)
      BY <1>0, <1>4 DEF Known, UnbornInv, Unborn, CompletedInv, StoredOnce
    <2>2. ~CancelledBy(s, {"mark"})
      <3>1. ASSUME NEW c \in Cancels, cancel[c].stream = s, cancel[c].how = "mark"
            PROVE  FALSE
        BY <1>4, <3>1 DEF OrderInv, ReplyInv, PromiseInv
      <3> QED
        BY <3>1 DEF CancelledBy
    <2>3. session'[s] # session[s] => session'[s] = NewSession
      BY <1>1, <2>1, <2>2, SessionMoves DEF SavesFinal, Calling
    <2> QED
      BY <1>0, <1>4, <2>3 DEF TextInv
  <1>5. ASSUME Growing(s)
        PROVE  /\ Shortest(s)'
               /\ session[s] # Null => session'[s].text.len >= session[s].text.len
    <2>1. Chained(s) /\ Shortest(s) /\ ~CancelledBy(s, {"mark"}) /\ gen[s] \in {"running", "done"}
      BY <1>5 DEF Growing, Undisturbed, ChainInv, TextInv
    <2>2. fin[s].pc = "mark" => \A n \in DOMAIN writes[s] : writes[s][n].st = "done"
      BY <1>0, <2>1 DEF Chained, CompletedInv, StoredOnce
    <2>3. CASE session'[s] = session[s]
      <3>1. ASSUME fin[s].pc = "mark", call'[FinalOf(s)].stage = "save", session[s] # Null
            PROVE  session[s].text.len <= call'[FinalOf(s)].snap.text.len
        <4>1. call[FinalOf(s)].stream = s
          BY <1>0, <3>1 DEF OwnersInv, FinalOwned, Is
        <4>2. CASE h = FinalOf(s)
          BY <1>0, <1>2, <3>1, <4>1, <4>2 DEF Saves
        <4>3. CASE h # FinalOf(s)
          BY <1>2, <1>3, <2>1, <3>1, <4>3 DEF Shortest
        <4> QED
          BY <4>2, <4>3
      <3> QED
        BY <1>0, <1>3, <2>1, <2>3, <3>1 DEF Shortest
    <2>4. CASE session'[s] # session[s]
      <3>1. fin[s].pc # "progress"
        BY <1>0, <1>5 DEF Growing, CompletedInv, FinalizerStored, TypeInv, TypeOK,
                          StreamTypeOK, Finalizer
      <3>2. CASE /\ h = FinalOf(s) /\ SavesFinal(s, "mark")
                 /\ session'[s].text = call[h].snap.text
        <4>1. /\ fin[s].pc = "mark" /\ call[h].stage = "save"
              /\ session[s] # Null => session[s].text.len <= call[h].snap.text.len
              /\ gen[s] = "done"
          BY <1>0, <2>1, <3>2 DEF SavesFinal, Saving, Shortest, CompletedInv, StoredOnce
        <4>2. call'[h].stage # "save"
          BY <1>2, <2>4, <4>1 DEF Saves
        <4>3. /\ gen'[s] # "running"
              /\ \A n \in DOMAIN writes'[s] : writes'[s][n].st = "done"
          BY <1>3, <2>2, <4>1
        <4>4. Shortest(s)'
          BY <3>2, <4>2, <4>3 DEF Shortest
        <4>5. ASSUME session[s] # Null
              PROVE  session'[s].text.len >= session[s].text.len
          <5>1. session[s].text.len <= session'[s].text.len
            BY <3>2, <4>1, <4>5
          <5>2. session[s].text.len \in Nat /\ session'[s].text.len \in Nat
            BY <1>0, <3>2, <4>5 DEF SavesFinal, Session, Text
          <5> QED
            BY <5>1, <5>2
        <4> QED
          BY <4>4, <4>5
      <3>3. ASSUME NEW n \in 1 .. MaxWrites,
                   h = WriteOf(s, n), Saving(h, s), Calling(s, n),
                   session'[s].text = Txt(writes[s][n].len, "none")
            PROVE  /\ Shortest(s)'
                   /\ session[s] # Null => session'[s].text.len >= session[s].text.len
        <4>1. /\ session'[s].text.len = writes[s][n].len
              /\ n \in DOMAIN writes[s] /\ writes[s][n].st = "calling"
          BY <3>3 DEF Txt, Calling
        <4>2. InOrder(writes[s], len[s])
          BY <2>1 DEF Chained
        <4>3. ASSUME NEW m \in DOMAIN writes[s], writes[s][m].st # "done"
              PROVE  writes[s][n].len <= writes[s][m].len
          <5>1. m \in Nat /\ n \in Nat
            BY <1>0, <3>3
          <5>2. ~(m < n)
            BY <4>1, <4>2, <4>3 DEF InOrder
          <5>3. m = n \/ n < m
            BY <5>1, <5>2
          <5> QED
            BY <1>0, <4>1, <4>2, <5>3 DEF InOrder
        <4>4. writes[s][n].len <= len[s]
          BY <4>1, <4>2 DEF InOrder
        <4>5. fin'[s].pc # "mark"
          BY <1>3, <2>2, <4>1
        <4>6. Shortest(s)'
          BY <1>3, <4>1, <4>3, <4>4, <4>5 DEF Shortest
        <4>7. session[s] # Null => session[s].text.len <= writes[s][n].len
          BY <2>1, <4>1 DEF Shortest
        <4> QED
          BY <1>0, <4>1, <4>6, <4>7
      <3> QED
        BY <1>1, <2>1, <2>4, <3>1, <3>2, <3>3, SessionMoves DEF SavesFinal
    <2> QED
      BY <1>0, <2>3, <2>4
  <1> QED
    BY <1>4, <1>5

\* What a turn does to it.
LEMMA TextTurned ==
  ASSUME OrderInv, StatusInv, ChainInv, TextInv, Acts, NEW s \in Streams, Moves(s),
         ~CancelledBy(s, {"mark"}), Growing(s)'
  PROVE  Shortest(s)'
PROOF
  <1>0. /\ TypeInv /\ OwnersInv /\ UnbornInv /\ CompletedInv /\ UNCHANGED session
        /\ fin \in [Streams -> Finalizer] /\ reply \in [Streams -> Text \cup {Null}]
        /\ gen \in [Streams -> GenStates] /\ len \in [Streams -> 0 .. MaxDeltas]
        /\ writes \in [Streams -> Seq(Write)] /\ len[s] \in Nat
        /\ session[s] # Null => session[s].text.len \in Nat
    <2>1. session \in [Streams -> Session \cup {Null}]
      BY DEF OrderInv, TypeInv, TypeOK, SessionTypeOK
    <2>2. session[s] # Null => session[s].text.len \in Nat
      BY <2>1 DEF Session, Text
    <2> QED
      BY <2>2, MaxDeltasAssumption DEF OrderInv, TypeInv, TypeOK, StreamTypeOK, Acts, Turn
  <1>1. gen'[s] \in {"running", "done"} /\ reply'[s] = Null /\ session'[s] = session[s]
    BY <1>0 DEF Growing, Undisturbed
  <1>2. ASSUME gen[s] \in {"running", "done"}, reply[s] = Null
        PROVE  Shortest(s) /\ Chained(s)
    BY <1>2 DEF TextInv, ChainInv, Growing, Undisturbed
  <1>3. CASE Rests(s)
    BY <1>1, <1>2, <1>3 DEF Rests, Shortest
  <1>4. CASE Create(s) \/ GenError(s) \/ \E c \in Cancels : cancel[c].stream = s /\ CancelStops(c)
    BY <1>0, <1>1, <1>4 DEF Create, GenError, CancelStops
  <1>5. CASE StartDetachedGeneration(s)
    <2>1. /\ ~Known(s) /\ UNCHANGED <<writes, fin, len>>
          /\ gen[s] = "creating" /\ fin[s].pc = "idle" /\ writes[s] = <<>>
      BY <1>0, <1>5
      DEF StartDetachedGeneration, Known, progressVars, UnbornInv, Unborn, CompletedInv,
          StoredOnce
    <2>2. /\ DOMAIN writes'[s] = {} /\ fin'[s].pc # "mark"
          /\ len'[s] \in Nat /\ (session'[s] # Null => session'[s].text.len = 0)
      BY <1>0, <1>1, <2>1 DEF TextInv
    <2> QED
      BY <2>2 DEF Shortest
  <1>6. CASE GenDelta(s)
    <2>1. /\ gen[s] = "running" /\ UNCHANGED <<gen, writes, fin, reply>>
          /\ len'[s] = len[s] + 1 /\ fin[s].pc = "idle"
      BY <1>0, <1>6 DEF GenDelta, Subscribed, CompletedInv, StoredOnce
    <2> QED
      BY <1>0, <1>1, <1>2, <2>1 DEF Shortest
  <1>7. ASSUME NEW total \in Nat, total = len[s], gen[s] = "running", reply[s] = Null,
               QueueProgressUpdate(s, total), session[s] # Null
        PROVE  \A n \in DOMAIN writes'[s] :
                 writes'[s][n].st # "done" => session[s].text.len <= writes'[s][n].len
    <2>1. PICK r : r = [len |-> total, after |-> tail[s], left |-> 2, st |-> "queued"]
      OBVIOUS
    <2>2. PICK w \in Seq(Write) : w = writes[s]
      BY <1>0
    <2>3. writes'[s] = Append(w, r)
      BY <1>0, <1>7, <2>1, <2>2 DEF QueueProgressUpdate
    <2>4. /\ session[s].text.len <= total
          /\ \A n \in DOMAIN w : w[n].st # "done" => session[s].text.len <= w[n].len
      BY <1>2, <1>7, <2>2 DEF Shortest
    <2>5. ASSUME NEW n \in DOMAIN Append(w, r), Append(w, r)[n].st # "done"
          PROVE  session[s].text.len <= Append(w, r)[n].len
      BY <2>1, <2>2, <2>4, <2>5
    <2> QED
      BY <2>3, <2>5
  <1>8. CASE GenDone(s)
    <2>1. PICK total \in Nat : total = len[s]
      BY <1>0
    <2>2. total # Null
      BY NullAssumption
    <2>3. /\ gen[s] = "running" /\ gen'[s] = "done" /\ reply[s] = Null
          /\ FinalizerStarts(s, total, s \in cancelled)
      BY <1>0, <1>1, <1>8, <2>1 DEF GenDone, Subscribed
    <2>4. QueueProgressUpdate(s, total) /\ fin'[s].pc = "flush"
      BY <1>0, <2>2, <2>3 DEF FinalizerStarts
    <2> QED
      BY <1>1, <1>7, <2>1, <2>3, <2>4 DEF Shortest
  <1>9. CASE TimerFires(s)
    <2>1. /\ UNCHANGED <<gen, len, fin, reply, call>> /\ reply[s] = Null
          /\ s \in timer
      BY <1>1, <1>9 DEF TimerFires
    <2>2. Shortest(s) /\ Chained(s)
      BY <1>1, <1>2, <2>1
    <2>3. gen[s] = "running" /\ pending[s] \in {len[s], Null}
      BY <1>1, <2>1, <2>2 DEF Chained
    <2>4. CASE pending[s] = Null
      BY <1>1, <1>9, <2>1, <2>2, <2>4 DEF TimerFires, Shortest
    <2>5. CASE pending[s] # Null
      <3>1. PICK total \in Nat : total = pending[s] /\ total = len[s]
        BY <1>0, <2>3, <2>5
      <3>2. QueueProgressUpdate(s, total)
        BY <1>9, <2>5, <3>1 DEF TimerFires
      <3>3. fin'[s].pc # "mark"
        BY <1>0, <2>1, <2>3 DEF CompletedInv, StoredOnce
      <3> QED
        BY <1>1, <1>7, <2>1, <2>2, <2>3, <3>1, <3>2, <3>3 DEF Shortest
    <2> QED
      BY <2>4, <2>5
  <1>10. ASSUME NEW n \in DOMAIN writes[s], WriteStarts(s, n) \/ WriteEnds(s, n)
         PROVE  Shortest(s)'
    <2>1. UNCHANGED <<gen, len, fin, reply>> /\ Shortest(s) /\ Chained(s)
      BY <1>1, <1>2, <1>10 DEF WriteStarts, WriteEnds
    <2>2. PICK w \in Seq(Write) : w = writes[s]
      BY <1>0
    <2>3. w[n] \in Write /\ n \in DOMAIN w
      BY <2>2
    <2>4. w[n].st # "done"
      <3>1. CASE WriteStarts(s, n)
        BY <2>2, <3>1 DEF WriteStarts
      <3>2. CASE WriteEnds(s, n)
        <4>1. call[WriteOf(s, n)] # Idle /\ n \in 1 .. MaxWrites
          BY <1>0, <3>2, WritesBounded DEF WriteEnds, Back, Idle
        <4>2. Calling(s, n)
          BY <1>0, <4>1 DEF OwnersInv, WriteOwned
        <4> QED
          BY <2>2, <4>2 DEF Calling
      <3> QED
        BY <1>10, <3>1, <3>2
    <2>5. PICK r : r.len = w[n].len /\ writes'[s] = [w EXCEPT ![n] = r]
      <3>1. CASE WriteStarts(s, n)
        <4>1. PICK r : r = [w[n] EXCEPT !.st = "calling"]
          OBVIOUS
        <4>2. r.len = w[n].len
          BY <2>3, <4>1 DEF Write
        <4>3. writes' = [writes EXCEPT ![s] = [w EXCEPT ![n] = r]]
          BY <2>2, <3>1, <4>1 DEF WriteStarts
        <4> QED
          BY <1>0, <4>2, <4>3
      <3>2. CASE WriteEnds(s, n)
        <4>1. PICK r : r = IF call[WriteOf(s, n)].ok \/ w[n].left = 1
                           THEN [w[n] EXCEPT !.st = "done"]
                           ELSE [w[n] EXCEPT !.st = "queued", !.left = 1]
          OBVIOUS
        <4>2. r.len = w[n].len
          BY <2>3, <4>1 DEF Write
        <4>3. writes' = [writes EXCEPT ![s] = [w EXCEPT ![n] = r]]
          BY <2>2, <3>2, <4>1 DEF WriteEnds
        <4> QED
          BY <1>0, <4>2, <4>3
      <3> QED
        BY <1>10, <3>1, <3>2
    <2>6. DOMAIN [w EXCEPT ![n] = r] = DOMAIN w /\ [w EXCEPT ![n] = r][n] = r
          /\ \A m \in DOMAIN w : m # n => [w EXCEPT ![n] = r][m] = w[m]
      BY <2>2, <2>3
    <2>7. fin[s].pc # "mark"
      BY <1>0, <1>1, <2>1, <2>2, <2>3, <2>4 DEF Chained, CompletedInv, StoredOnce
    <2> QED
      BY <1>1, <2>1, <2>2, <2>3, <2>4, <2>5, <2>6, <2>7 DEF Shortest
  <1>11. CASE FinFlushed(s) \/ FinAbandons(s) \/ FinResolves(s) \/ FinMarked(s)
    <2>1. UNCHANGED <<gen, len, reply, writes>> /\ fin'[s].pc # "mark"
      BY <1>0, <1>11
      DEF FinFlushed, FinAbandons, FinResolves, FinMarked, FinGoes, finOthers, progressVars,
          CompleteSubject, Finalizer
    <2> QED
      BY <1>1, <1>2, <2>1 DEF Shortest
  <1>12. CASE FinFails(s)
    BY <1>1, <1>12 DEF FinFails, NoOutput, finOthers
  <1>13. CASE FinProgressed(s)
    <2>1. UNCHANGED reply /\ fin[s].pc = "progress"
      BY <1>13 DEF FinProgressed, FinBack
    <2>2. fin[s].text # Null
      BY <1>0, <2>1 DEF Finalizer
    <2> QED
      BY <1>0, <1>1, <2>1, <2>2 DEF CompletedInv, FinalizerStored
  <1>14. CASE FinStores(s) \/ FinTouches(s)
    <2>1. UNCHANGED <<gen, len, writes>> /\ fin'[s].pc # "mark" /\ fin[s].text # Null
      BY <1>0, <1>14 DEF FinStores, FinTouches, FinGoes, finOthers, progressVars, Finalizer
    <2>2. reply[s] = Null
      BY <1>0, <1>1, <1>14, <2>1
      DEF FinStores, FinTouches, CompletedInv, FinalizerStored, StoredOnce
    <2> QED
      BY <1>1, <1>2, <2>1, <2>2 DEF Shortest
  <1>15. CASE FinStoreFails(s)
    <2>1. UNCHANGED <<gen, len, writes, reply>>
      BY <1>15 DEF FinStoreFails, finOthers, progressVars
    <2>2. call'[FinalOf(s)].stage # "save"
      <3>1. call'[FinalOf(s)] = MarkCall(s, "interrupted", FALSE)
        BY <1>0, <1>15, OneCall, TaskIds DEF FinStoreFails
      <3> QED
        BY <3>1 DEF MarkCall, Idle
    <2> QED
      BY <1>1, <1>2, <2>1, <2>2 DEF Shortest
  <1> QED
    BY <1>3, <1>4, <1>5, <1>6, <1>8, <1>9, <1>10, <1>11, <1>12, <1>13, <1>14, <1>15
    DEF Moves, Generation, FinDatabase

LEMMA TextStep ==
  ASSUME OrderInv, StatusInv, ChainInv, TextInv, [Next]_vars
  PROVE  /\ TextInv'
         /\ \A s \in Streams :
              Growing(s) /\ session[s] # Null /\ session'[s] # Null =>
                session'[s].text.len >= session[s].text.len
PROOF
  <1>0. /\ TypeInv
        /\ session \in [Streams -> Session \cup {Null}]
        /\ \A x \in Streams : session[x] # Null => session[x].text.len \in Nat
    BY DEF OrderInv, TypeInv, TypeOK, SessionTypeOK, Session, Text
  <1>1. \A s \in Streams : ~CancelledBy(s, {"mark"})' => ~CancelledBy(s, {"mark"})
    BY MarkStays
  <1>2. CASE Serve /\ UNCHANGED streamVars
    <2>1. \A s \in Streams : (Growing(s)' => Growing(s)) /\ (Known(s)' <=> Known(s))
      BY <1>1, <1>2 DEF Growing, Undisturbed, Known, streamVars
    <2> QED
      BY <1>2, <2>1, TextServed DEF TextInv
  <1>3. CASE Expiry
    <2>1. /\ UNCHANGED <<call, streamVars>>
          /\ \A s \in Streams : session'[s] # Null => session'[s] = session[s]
      BY <1>0, <1>3 DEF Expiry, Expire
    <2>2. \A s \in Streams : (Growing(s)' => Growing(s)) /\ (Known(s)' <=> Known(s))
      BY <1>1, <2>1 DEF Growing, Undisturbed, Known, streamVars
    <2>3. ASSUME NEW s \in Streams, Shortest(s)
          PROVE  Shortest(s)'
      BY <2>1, <2>3 DEF Shortest, streamVars
    <2> QED
      BY <1>0, <2>1, <2>2, <2>3 DEF TextInv
  <1>4. CASE ProcessEnds
    <2>1. ASSUME NEW s \in Streams
          PROVE  /\ writes'[s] = <<>> /\ gen'[s] # "running" /\ fin'[s].pc # "mark"
                 /\ session'[s] = session[s] /\ (~Known(s)' => ~Known(s))
      BY <1>0, <1>4 DEF ProcessEnds, stores, Finalizer, Known, TypeInv, TypeOK, StreamTypeOK
    <2>2. \A s \in Streams : Shortest(s)'
      BY <2>1 DEF Shortest
    <2> QED
      BY <1>0, <2>1, <2>2 DEF TextInv
  <1>5. CASE Acts /\ \A s \in Streams : Moves(s)
    <2>1. UNCHANGED session
      BY <1>5 DEF Acts, Turn
    <2>2. \A s \in Streams : Known(s) => Known(s)'
      BY <1>5 DEF Acts, Distant
    <2>3. \A s \in Streams : Growing(s)' => Shortest(s)'
      BY <1>1, <1>5, TextTurned DEF Growing, Undisturbed
    <2> QED
      BY <1>0, <2>1, <2>2, <2>3 DEF TextInv
  <1> QED
    BY <1>2, <1>3, <1>4, <1>5, StreamSteps

LEMMA TextStart == Init => TextInv
PROOF
  BY DEF Init, SessionInit, TextInv, Growing, Undisturbed

\* While a reply grows, the text a client reads of it does not get shorter: no progress
\* write overtakes another, retried or not, and the mark of a reply that could not be
\* stored keeps the text; only a request that marks the session may bring back an older one.
THEOREM TextAlwaysGrows == Spec => TextGrows
PROOF
  <1>1. Init => OrderInv /\ StatusInv /\ ChainInv /\ TextInv
    BY OrderStart, StatusStart, ChainStart, TextStart
  <1>2. OrderInv /\ StatusInv /\ ChainInv /\ TextInv /\ [Next]_vars =>
          (OrderInv /\ StatusInv /\ ChainInv /\ TextInv)'
    BY OrderStep, StatusStep, ChainStep, TextStep
  <1>3. OrderInv /\ StatusInv /\ ChainInv /\ TextInv /\ [Next]_vars =>
          [\A s \in Streams :
             (/\ session[s] # Null /\ session'[s] # Null
              /\ gen[s] \in {"running", "done"} /\ reply[s] = Null
              /\ ~CancelledBy(s, {"mark"}))
               => session'[s].text.len >= session[s].text.len]_<<session, gen, reply, cancel>>
    BY TextStep DEF Growing, Undisturbed
  <1> QED
    BY <1>1, <1>2, <1>3, PTL DEF Spec, TextGrows

-----------------------------------------------------------------------------
(* The snapshot a client reads after a normal end is the stored message.   *)

\* A call that is answered without an error has done what it was for, or has found no
\* session.
LEMMA ServeAnswers ==
  ASSUME TypeInv, Serve, NEW h, h = Head(wire), call'[h].stage = "back", call'[h].ok
  PROVE  /\ call[h].stage = "save" => Saves(h)
         /\ call[h].stage = "get" =>
              /\ UNCHANGED session /\ call'[h].snap = session[call[h].stream]
              /\ call[h].op = "get" \/ session[call[h].stream] = Null
         /\ call[h].stage \in {"get", "save", "del"}
PROOF
  <1>1. h \in Callers /\ call \in [Callers -> Call] /\ call[h] \in Call
    BY DEF Serve, TypeInv, TypeOK, SessionTypeOK
  <1>2. ServeLookup(h) \/ ServeRead(h) \/ ServeSave(h) \/ ServeDel(h) \/ ServeFault(h)
    BY DEF Serve
  <1>3. ASSUME NEW snap, NEW ok, Answer(h, snap, ok)
        PROVE  call'[h].snap = snap /\ call'[h].ok = ok
    <2>1. PICK c : c = [call[h] EXCEPT !.stage = "back", !.snap = snap, !.ok = ok]
      OBVIOUS
    <2>2. call' = [call EXCEPT ![h] = c]
      BY <1>3, <2>1 DEF Answer
    <2>3. c.snap = snap /\ c.ok = ok
      BY <1>1, <2>1 DEF Call
    <2> QED
      BY <1>1, <2>2, <2>3
  <1>4. ASSUME NEW snap, NEW stage, Continue(h, stage, snap)
        PROVE  call'[h].stage = stage
    <2>1. PICK c : c = [call[h] EXCEPT !.stage = stage, !.snap = snap]
      OBVIOUS
    <2>2. call' = [call EXCEPT ![h] = c]
      BY <1>4, <2>1 DEF Continue
    <2>3. c.stage = stage
      BY <1>1, <2>1 DEF Call
    <2> QED
      BY <1>1, <2>2, <2>3
  <1>5. ~ServeFault(h)
    BY <1>3 DEF ServeFault
  <1>6. ~ServeRead(h)
    BY <1>4 DEF ServeRead
  <1>7. CASE ServeLookup(h)
    BY <1>3, <1>7 DEF ServeLookup
  <1>8. CASE ServeSave(h)
    <2>1. Answer(h, Null, TRUE)
      BY <1>4, <1>8 DEF ServeSave
    <2> QED
      BY <1>3, <1>8, <2>1 DEF ServeSave, Save, Saves
  <1>9. CASE ServeDel(h)
    BY <1>9 DEF ServeDel
  <1> QED
    BY <1>2, <1>5, <1>6, <1>7, <1>8, <1>9 DEF ServeLookup, ServeSave, ServeDel

\* Only a mark deletes the active pointer.
LEMMA ServeDeletes ==
  ASSUME TypeInv, Serve, NEW h, h = Head(wire), call'[h].stage = "del"
  PROVE  call[h].op = "mark"
PROOF
  <1>1. h \in Callers /\ call \in [Callers -> Call] /\ call[h] \in Call
    BY DEF Serve, TypeInv, TypeOK, SessionTypeOK
  <1>2. ServeLookup(h) \/ ServeRead(h) \/ ServeSave(h) \/ ServeDel(h) \/ ServeFault(h)
    BY DEF Serve
  <1>3. ASSUME NEW snap, NEW ok, Answer(h, snap, ok)
        PROVE  call'[h].stage = "back"
    <2>1. PICK c : c = [call[h] EXCEPT !.stage = "back", !.snap = snap, !.ok = ok]
      OBVIOUS
    <2>2. call' = [call EXCEPT ![h] = c]
      BY <1>3, <2>1 DEF Answer
    <2>3. c.stage = "back"
      BY <1>1, <2>1 DEF Call
    <2> QED
      BY <1>1, <2>2, <2>3
  <1>4. ASSUME NEW snap, Continue(h, "save", snap)
        PROVE  call'[h].stage = "save"
    <2>1. PICK c : c = [call[h] EXCEPT !.stage = "save", !.snap = snap]
      OBVIOUS
    <2>2. call' = [call EXCEPT ![h] = c]
      BY <1>4, <2>1 DEF Continue
    <2>3. c.stage = "save"
      BY <1>1, <2>1 DEF Call
    <2> QED
      BY <1>1, <2>2, <2>3
  <1> QED
    BY <1>2, <1>3, <1>4 DEF ServeLookup, ServeRead, ServeSave, ServeDel, ServeFault

\* A stream that has ended by itself.
Ended(s) == Undisturbed(s) /\ gen[s] = "done"

\* What makes it inductive: the progress of the finalizer puts the message into the
\* session, if there is one, and the mark that says completed is made from what is there.
Mirrored(s) ==
  /\ session[s] # Null =>
       /\ session[s].status = "completed" => session[s].text = reply[s]
       /\ fin[s].pc = "progress" /\ Back(FinalOf(s)) /\ call[FinalOf(s)].ok =>
            session[s].text = fin[s].text
       /\ fin[s].pc = "mark" /\ call[FinalOf(s)].status = "completed" =>
            session[s].text = reply[s]
  /\ fin[s].pc = "mark" /\ call[FinalOf(s)].status = "completed"
       /\ call[FinalOf(s)].snap # Null => call[FinalOf(s)].snap.text = reply[s]
  /\ fin[s].pc = "progress" => call[FinalOf(s)].stage # "del"
SnapshotInv == \A s \in Streams : Ended(s) => Mirrored(s)

LEMMA SnapshotServed ==
  ASSUME OrderInv, StatusInv, ChainInv, [Next]_vars, Serve, UNCHANGED streamVars,
         NEW s \in Streams, Ended(s), Mirrored(s)
  PROVE  Mirrored(s)'
PROOF
  <1>0. /\ TypeInv /\ OwnersInv /\ CompletedInv /\ FinalOf(s) \in Callers
        /\ UNCHANGED <<gen, fin, reply, writes>>
    BY TaskIds DEF OrderInv, streamVars
  <1>1. PICK h : h = Head(wire)
    OBVIOUS
  <1>2. /\ h \in Callers /\ call'[h].status = call[h].status
        /\ \A t \in Callers : t # h => call'[t] = call[t]
        /\ \/ Saves(h)
           \/ /\ UNCHANGED session
              /\ \/ call'[h].stage = "back" /\ call'[h].snap = Null
                 \/ call[h].stage = "get" /\ call'[h].snap = session[call[h].stream]
    BY <1>0, <1>1, ServeSessions
  <1>3. Chained(s) /\ ~CancelledBy(s, {"mark"}) /\ gen[s] = "done"
    BY DEF Ended, Undisturbed, ChainInv
  <1>4. ASSUME fin[s].pc \in EarlyPhases
        PROVE  \A t \in Callers : call[t].stream = s /\ call[t].snap # Null =>
                 call[t].snap.status = "generating"
    BY <1>3, <1>4 DEF StatusInv, Unmarked
  <1>5. /\ fin[s].pc \in {"progress", "mark"} => call[FinalOf(s)].stream = s
        /\ fin[s].pc = "progress" => call[FinalOf(s)].op = "progress"
    BY <1>0 DEF OwnersInv, FinalOwned, Is
  <1>6. CASE session'[s] # session[s]
    <2>1. CASE /\ h = FinalOf(s) /\ SavesFinal(s, "mark")
               /\ session'[s].text = call[h].snap.text
               /\ session'[s].status = call[h].status
      <3>1. /\ fin[s].pc = "mark" /\ call[h].snap # Null
            /\ call'[h].snap = Null /\ call'[h].status = call[h].status
        BY <1>2, <1>6, <2>1, NullAssumption DEF SavesFinal, Saves
      <3>2. call[h].status = "completed" => session'[s].text = reply[s]
        BY <2>1, <3>1 DEF Mirrored
      <3> QED
        BY <1>0, <2>1, <3>1, <3>2 DEF Mirrored
    <2>2. CASE /\ h = FinalOf(s) /\ SavesFinal(s, "progress")
               /\ session'[s].text = fin[s].text
               /\ session'[s].status = call[h].snap.status
      <3>1. fin[s].pc = "progress" /\ call[h].snap # Null /\ call[h].op = "progress"
        BY <1>5, <2>2, NullAssumption DEF SavesFinal
      <3>2. session'[s].status = "generating"
        BY <1>2, <1>4, <1>5, <2>2, <3>1 DEF EarlyPhases
      <3>3. call'[h].stage # "del"
        BY <1>0, <1>1, <3>1, ServeDeletes
      <3> QED
        BY <1>0, <2>2, <3>1, <3>2, <3>3 DEF Mirrored
    <2>3. ASSUME NEW n \in 1 .. MaxWrites,
                 h = WriteOf(s, n), Saving(h, s), Calling(s, n),
                 call[h].snap \in Session,
                 session'[s].status = call[h].snap.status
          PROVE  Mirrored(s)'
      <3>1. fin[s].pc = "flush" /\ call[h].snap # Null
        BY <1>3, <2>3, NullAssumption DEF Chained, Calling
      <3>2. session'[s].status = "generating"
        BY <1>2, <1>4, <2>3, <3>1 DEF EarlyPhases, Saving
      <3> QED
        BY <1>0, <3>1, <3>2 DEF Mirrored
    <2> QED
      BY <1>1, <1>3, <1>6, <2>1, <2>2, <2>3, SessionMoves
  <1>7. CASE session'[s] = session[s] /\ h # FinalOf(s)
    BY <1>0, <1>2, <1>7 DEF Mirrored, Back
  <1>8. CASE session'[s] = session[s] /\ h = FinalOf(s)
    <2>1. ASSUME fin[s].pc = "progress", Back(h)', call'[h].ok, session[s] # Null
          PROVE  session[s].text = fin[s].text
      <3>1. /\ call[h].stage \in {"get", "save", "del"}
            /\ call[h].stage = "save" => Saves(h)
            /\ call[h].stage = "get" => session[s] = Null
        BY <1>0, <1>1, <1>5, <1>8, <2>1, ServeAnswers DEF Back
      <3>2. Saves(h)
        BY <1>8, <2>1, <3>1 DEF Mirrored
      <3>3. UnbornInv
        BY DEF OrderInv
      <3>4. /\ session' = [session EXCEPT ![s] = Written(call[h])]
            /\ Written(call[h]).text = call[h].text
        BY <1>0, <1>2, <1>5, <1>8, <2>1, <3>2, <3>3, SavesNext
      <3>5. call[h].text = fin[s].text
        BY <1>0, <1>8, <2>1 DEF OwnersInv, FinalOwned
      <3> QED
        BY <1>0, <1>8, <3>4, <3>5 DEF TypeInv, TypeOK, SessionTypeOK
    <2>2. fin[s].pc = "progress" => call'[h].stage # "del"
      BY <1>0, <1>1, <1>5, <1>8, ServeDeletes
    <2>3. ASSUME fin[s].pc = "mark", call'[h].status = "completed", call'[h].snap # Null
          PROVE  call'[h].snap.text = reply[s]
      <3>1. call'[h].snap = session[s]
        BY <1>2, <1>5, <1>8, <2>3 DEF Saves
      <3> QED
        BY <1>2, <1>8, <2>3, <3>1 DEF Mirrored
    <2> QED
      BY <1>0, <1>2, <1>8, <2>1, <2>2, <2>3 DEF Mirrored
  <1> QED
    BY <1>6, <1>7, <1>8

LEMMA SnapshotTurned ==
  ASSUME OrderInv, StatusInv, ChainInv, SnapshotInv, Acts, NEW s \in Streams, Moves(s),
         ~CancelledBy(s, {"mark"}), Ended(s)'
  PROVE  Mirrored(s)'
PROOF
  <1>0. /\ TypeInv /\ OwnersInv /\ CompletedInv /\ UNCHANGED session
        /\ fin \in [Streams -> Finalizer] /\ gen \in [Streams -> GenStates]
        /\ writes \in [Streams -> Seq(Write)] /\ FinalOf(s) \in Callers
    BY TaskIds DEF OrderInv, TypeInv, TypeOK, StreamTypeOK, Acts, Turn
  <1>1. gen'[s] = "done" /\ session'[s] = session[s]
    BY <1>0 DEF Ended
  <1>2. ASSUME gen[s] = "done"
        PROVE  Mirrored(s) /\ Chained(s)
    BY <1>2 DEF SnapshotInv, ChainInv, Ended, Undisturbed
  <1>3. ASSUME gen[s] = "running" \/ fin[s].pc \in EarlyPhases, gen[s] # "error"
        PROVE  session[s] # Null => session[s].status = "generating"
    BY <1>0, <1>3 DEF StatusInv, Unmarked, CompletedInv, StoredOnce, EarlyPhases
  <1>4. ASSUME NEW t \in Callers, t # FinalOf(s), NEW c,
               Invoke(t, c) \/ (c = Idle /\ Return(t))
        PROVE  call'[FinalOf(s)] = call[FinalOf(s)]
    BY <1>0, <1>4, OneCall
  <1>5. CASE Rests(s)
    BY <1>1, <1>2, <1>5 DEF Rests, Mirrored, Back
  <1>6. CASE \/ Create(s) \/ StartDetachedGeneration(s) \/ GenError(s) \/ GenDelta(s)
             \/ \E c \in Cancels : cancel[c].stream = s /\ CancelStops(c)
    BY <1>0, <1>1, <1>6
    DEF Create, StartDetachedGeneration, GenError, GenDelta, Subscribed, CancelStops
  <1>7. CASE GenDone(s)
    <2>1. gen[s] = "running" /\ fin'[s].pc = "flush"
      BY <1>0, <1>7 DEF GenDone, Subscribed, FinalizerStarts
    <2>2. session[s] # Null => session[s].status = "generating"
      BY <1>3, <2>1
    <2> QED
      BY <1>1, <2>1, <2>2 DEF Mirrored
  <1>8. CASE TimerFires(s)
    BY <1>1, <1>2, <1>8 DEF TimerFires, Mirrored, Back
  <1>9. ASSUME NEW n \in DOMAIN writes[s], WriteStarts(s, n) \/ WriteEnds(s, n)
        PROVE  Mirrored(s)'
    <2>1. WriteOf(s, n) \in Callers /\ WriteOf(s, n) # FinalOf(s)
      BY <1>0, TaskIds, TaskNames, WritesBounded
    <2>2. call'[FinalOf(s)] = call[FinalOf(s)] /\ UNCHANGED <<gen, fin, reply>>
      BY <1>4, <1>9, <2>1 DEF WriteStarts, WriteEnds
    <2> QED
      BY <1>1, <1>2, <2>2 DEF Mirrored, Back
  <1>10. CASE FinFlushed(s) \/ FinResolves(s) \/ FinStores(s)
    <2>1. /\ gen[s] = "done" /\ fin[s].pc \in EarlyPhases
          /\ fin'[s].pc \notin {"progress", "mark"}
      BY <1>0, <1>1, <1>10
      DEF FinFlushed, FinResolves, FinStores, FinBack, FinGoes, finOthers, Finalizer,
          EarlyPhases
    <2>2. session[s] # Null => session[s].status = "generating"
      BY <1>3, <2>1
    <2> QED
      BY <1>1, <2>1, <2>2 DEF Mirrored
  <1>11. CASE FinAbandons(s) \/ FinMarked(s)
    <2>1. /\ gen[s] = "done" /\ UNCHANGED reply
          /\ fin'[s].pc \notin {"progress", "mark"}
      BY <1>0, <1>1, <1>11 DEF FinAbandons, FinMarked, FinGoes, finOthers, Finalizer
    <2> QED
      BY <1>1, <1>2, <2>1 DEF Mirrored
  <1>12. CASE FinFails(s)
    BY <1>1, <1>12 DEF FinFails, NoOutput, finOthers
  <1>13. CASE FinTouches(s)
    <2>1. /\ gen[s] = "done" /\ fin[s].pc \in EarlyPhases /\ fin'[s].pc = "progress"
      BY <1>0, <1>1, <1>13 DEF FinTouches, FinGoes, finOthers, Finalizer, EarlyPhases
    <2>2. session[s] # Null => session[s].status = "generating"
      BY <1>3, <2>1
    <2>3. call'[FinalOf(s)] = ProgressCall(s, fin[s].text)
      BY <1>0, <1>13, OneCall DEF FinTouches
    <2>4. call'[FinalOf(s)].stage = "get"
      BY <2>3 DEF ProgressCall, Idle
    <2> QED
      BY <1>1, <2>1, <2>2, <2>4 DEF Mirrored, Back
  <1>14. CASE FinStoreFails(s)
    <2>1. /\ gen[s] = "done" /\ fin[s].pc \in EarlyPhases /\ fin'[s].pc = "mark"
      BY <1>0, <1>1, <1>14 DEF FinStoreFails, FinGoes, finOthers, Finalizer, EarlyPhases
    <2>2. session[s] # Null => session[s].status = "generating"
      BY <1>3, <2>1
    <2>3. call'[FinalOf(s)] = MarkCall(s, "interrupted", FALSE)
      BY <1>0, <1>14, OneCall DEF FinStoreFails
    <2>4. call'[FinalOf(s)].status # "completed"
      BY <2>3 DEF MarkCall, Idle
    <2> QED
      BY <1>1, <2>1, <2>2, <2>4 DEF Mirrored
  <1>15. CASE FinProgressed(s)
    <2>1. /\ gen[s] = "done" /\ fin[s].pc = "progress" /\ fin'[s].pc = "mark"
          /\ Back(FinalOf(s)) /\ call[FinalOf(s)].ok /\ UNCHANGED reply
      BY <1>0, <1>1, <1>15 DEF FinProgressed, FinBack, FinGoes, finOthers, Finalizer
    <2>2. session[s] # Null => session[s].text = fin[s].text
      BY <1>2, <2>1 DEF Mirrored
    <2>3. reply[s] = fin[s].text
      BY <1>0, <2>1 DEF CompletedInv, FinalizerStored
    <2>4. PICK st : st = IF fin[s].stopped THEN "interrupted" ELSE "completed"
      OBVIOUS
    <2>5. call'[FinalOf(s)] = MarkCall(s, st, FALSE)
      BY <1>0, <1>15, <2>4, OneCall DEF FinProgressed
    <2>6. call'[FinalOf(s)].snap = Null
      BY <2>5 DEF MarkCall, Idle
    <2> QED
      BY <1>1, <2>1, <2>2, <2>3, <2>6 DEF Mirrored
  <1> QED
    BY <1>5, <1>6, <1>7, <1>8, <1>9, <1>10, <1>11, <1>12, <1>13, <1>14, <1>15
    DEF Moves, Generation, FinDatabase

LEMMA SnapshotStep ==
  ASSUME OrderInv, StatusInv, ChainInv, SnapshotInv, [Next]_vars
  PROVE  SnapshotInv'
PROOF
  <1>0. /\ fin \in [Streams -> Finalizer] /\ gen \in [Streams -> GenStates]
        /\ session \in [Streams -> Session \cup {Null}]
    BY DEF OrderInv, TypeInv, TypeOK, StreamTypeOK, SessionTypeOK
  <1>1. \A s \in Streams : ~CancelledBy(s, {"mark"})' => ~CancelledBy(s, {"mark"})
    BY MarkStays
  <1>2. CASE Serve /\ UNCHANGED streamVars
    <2>1. \A s \in Streams : Ended(s)' => Ended(s)
      BY <1>1, <1>2 DEF Ended, Undisturbed, streamVars
    <2> QED
      BY <1>2, <2>1, SnapshotServed DEF SnapshotInv
  <1>3. CASE Expiry
    <2>1. /\ UNCHANGED <<call, streamVars>>
          /\ \A s \in Streams : session'[s] # Null => session'[s] = session[s]
      BY <1>0, <1>3 DEF Expiry, Expire
    <2>2. \A s \in Streams : Ended(s)' => Ended(s)
      BY <1>1, <2>1 DEF Ended, Undisturbed, streamVars
    <2>3. ASSUME NEW s \in Streams, Mirrored(s)
          PROVE  Mirrored(s)'
      BY <2>1, <2>3 DEF Mirrored, Back, streamVars
    <2> QED
      BY <2>2, <2>3 DEF SnapshotInv
  <1>4. CASE ProcessEnds
    <2>1. ASSUME NEW s \in Streams
          PROVE  /\ gen'[s] = "done" => gen[s] = "done"
                 /\ fin'[s].pc \notin {"progress", "mark"}
                 /\ session'[s] = session[s] /\ reply'[s] = reply[s]
      BY <1>0, <1>4 DEF ProcessEnds, stores, Finalizer
    <2>2. \A s \in Streams : Ended(s)' => Ended(s)
      BY <1>1, <2>1 DEF Ended, Undisturbed
    <2>3. ASSUME NEW s \in Streams, Mirrored(s)
          PROVE  Mirrored(s)'
      BY <2>1, <2>3 DEF Mirrored
    <2> QED
      BY <2>2, <2>3 DEF SnapshotInv
  <1>5. CASE Acts /\ \A s \in Streams : Moves(s)
    <2>1. \A s \in Streams : Ended(s)' => ~CancelledBy(s, {"mark"})
      BY <1>1 DEF Ended, Undisturbed
    <2> QED
      BY <1>5, <2>1, SnapshotTurned DEF SnapshotInv
  <1> QED
    BY <1>2, <1>3, <1>4, <1>5, StreamSteps

LEMMA SnapshotStart == Init => SnapshotInv
PROOF
  BY DEF Init, SnapshotInv, Ended

\* After a normal end, what the session says is the message that was stored: no progress
\* write lands on it, and the mark that says completed is made from the session with the
\* message in it.
THEOREM SnapshotIsAlwaysReply == Spec => []SnapshotIsReply
PROOF
  <1>1. Init => OrderInv /\ StatusInv /\ ChainInv /\ SnapshotInv
    BY OrderStart, StatusStart, ChainStart, SnapshotStart
  <1>2. OrderInv /\ StatusInv /\ ChainInv /\ SnapshotInv /\ [Next]_vars =>
          (OrderInv /\ StatusInv /\ ChainInv /\ SnapshotInv)'
    BY OrderStep, StatusStep, ChainStep, SnapshotStep
  <1>3. SnapshotInv => SnapshotIsReply
    BY DEF SnapshotInv, Ended, Undisturbed, Mirrored, SnapshotIsReply
  <1> QED
    BY <1>1, <1>2, <1>3, PTL DEF Spec

-----------------------------------------------------------------------------
(* What the model had sent is stored, unless something interferes.         *)

\* No operation has failed before one has failed.
LEMMA FaultsStay ==
  ASSUME OrderInv, [Next]_vars, faults' = 0
  PROVE  faults = 0
PROOF
  <1>0. faults \in Nat /\ faults + 1 # 0
    BY MaxFaultsAssumption DEF OrderInv, TypeInv, TypeOK, SessionTypeOK
  <1>1. CASE Redis
    BY <1>0, <1>1 DEF Redis, Serve, ServeLookup, ServeRead, ServeSave, ServeDel, ServeFault
  <1>2. CASE Expiry \/ UNCHANGED vars
    BY <1>2 DEF Expiry, Expire, vars, sessionVars
  <1>3. CASE ProcessEnds
    BY <1>3 DEF ProcessEnds, stores
  <1>4. ASSUME NEW s \in Streams,
               \/ Create(s) \/ StartDetachedGeneration(s) \/ Generation(s)
               \/ TimerFires(s) \/ FailMarked(s)
               \/ \E n \in DOMAIN writes[s] : WriteStarts(s, n) \/ WriteEnds(s, n)
        PROVE  faults = 0
    BY <1>3, <1>4
    DEF Create, StartDetachedGeneration, Generation, GenDelta, GenDone, GenError, TimerFires,
        FailMarked, WriteStarts, WriteEnds, stores
  <1>5. ASSUME NEW s \in Streams, FinGoesOn(s) \/ FinDatabase(s)
        PROVE  faults = 0
    BY <1>0, <1>3, <1>5
    DEF FinGoesOn, FinFlushed, FinAbandons, FinFails, FinResolves, FinProgressed, FinMarked,
        FinDies, FinDatabase, FinStores, FinTouches, FinStoreFails, stores
  <1>6. ASSUME NEW c \in Cancels,
               HandleCancel(c) \/ \E s \in Streams, mine \in BOOLEAN : CancelAsks(c, s, mine)
        PROVE  faults = 0
    BY <1>6
    DEF HandleCancel, CancelRefused, CancelStops, CancelMarks, CancelMarked, CancelAsks, stores
  <1>7. ASSUME NEW o \in Observers,
               \/ PollEnds(o) \/ PollTick(o) \/ Leave(o)
               \/ \E s \in Streams, mine \in BOOLEAN : Attach(o, s, mine)
        PROVE  faults = 0
    BY <1>7
    DEF PollEnds, PollRejected, PollAnswered, PollTick, Leave, Attach, stores, sessionVars
  <1>8. CASE Continuation
    BY <1>4, <1>5, <1>6, <1>7, <1>8 DEF Continuation
  <1>9. CASE Event
    BY <1>4, <1>5, <1>6, <1>7, <1>9 DEF Event
  <1> QED
    BY <1>1, <1>2, <1>3, <1>8, <1>9 DEF Next, Crash

\* Until something fails, an answer is not an error.
LEMMA ServeSucceeds ==
  ASSUME TypeInv, Serve, NEW h, h = Head(wire), faults' = 0, call'[h].stage = "back"
  PROVE  call'[h].ok
PROOF
  <1>1. h \in Callers /\ call \in [Callers -> Call] /\ call[h] \in Call
        /\ faults \in Nat /\ faults + 1 # 0
    BY MaxFaultsAssumption DEF Serve, TypeInv, TypeOK, SessionTypeOK
  <1>2. ServeLookup(h) \/ ServeRead(h) \/ ServeSave(h) \/ ServeDel(h)
    <2>1. ServeLookup(h) \/ ServeRead(h) \/ ServeSave(h) \/ ServeDel(h) \/ ServeFault(h)
      BY DEF Serve
    <2>2. ~ServeFault(h)
      BY <1>1 DEF ServeFault
    <2> QED
      BY <2>1, <2>2
  <1>3. ASSUME NEW snap, Answer(h, snap, TRUE)
        PROVE  call'[h].ok
    <2>1. PICK c : c = [call[h] EXCEPT !.stage = "back", !.snap = snap, !.ok = TRUE]
      OBVIOUS
    <2>2. call' = [call EXCEPT ![h] = c]
      BY <1>3, <2>1 DEF Answer
    <2>3. c.ok
      BY <1>1, <2>1 DEF Call
    <2> QED
      BY <1>1, <2>2, <2>3
  <1>4. ASSUME NEW snap, NEW stage, stage # "back", Continue(h, stage, snap)
        PROVE  FALSE
    <2>1. PICK c : c = [call[h] EXCEPT !.stage = stage, !.snap = snap]
      OBVIOUS
    <2>2. call' = [call EXCEPT ![h] = c]
      BY <1>4, <2>1 DEF Continue
    <2>3. c.stage = stage
      BY <1>1, <2>1 DEF Call
    <2> QED
      BY <1>1, <1>4, <2>2, <2>3
  <1> QED
    BY <1>2, <1>3, <1>4 DEF ServeLookup, ServeRead, ServeSave, ServeDel

\* What makes it inductive.  A session is there from its creation until its TTL ends:
Kept(s) ==
  s \notin expired =>
    /\ gen[s] \in {"running", "done", "error", "stopped"} => session[s] # Null
    /\ gen[s] = "creating" /\ Back(CreateOf(s)) /\ call[CreateOf(s)].ok => session[s] # Null
\* and the finalizer finds it generating, also after an error, whose mark has been sent
\* before the finalizer reads, but is saved after that.
FinalizerFirst(s) ==
  fin[s].pc = "check" /\ call[FinalOf(s)].stage = "get" /\ gen[s] = "error" =>
    \/ call[FailOf(s)].stage = "get"
    \/ call[FailOf(s)].stage = "save" /\ ~Before(FailOf(s), FinalOf(s))
FoundOpen(s) ==
  /\ FinalizerFirst(s)
  /\ fin[s].pc = "check" /\ call[FinalOf(s)].stage # "get" =>
       Back(FinalOf(s)) /\ StillGenerating(call[FinalOf(s)].snap)
  /\ fin[s].pc \in {"mark", "done"} /\ len[s] > 0 => reply[s] # Null
Spared(s) == ~CancelledBy(s, {"mark"}) /\ s \notin expired /\ faults = 0
OutputInv ==
  \A s \in Streams :
    /\ fin[s].pc = "flush" => gen[s] # "error"
    /\ Kept(s)
    /\ Spared(s) => FoundOpen(s)

\* No update takes a session away.
LEMMA SessionStays ==
  ASSUME TypeInv, OwnersInv, UnbornInv, TypeInv', Serve, NEW h, h = Head(wire),
         NEW s \in Streams, session[s] # Null \/ (Saves(h) /\ call[h].stream = s)
  PROVE  session'[s] # Null
PROOF
  <1>0. /\ session \in [Streams -> Session \cup {Null}] /\ Null \notin Session
        /\ h \in Callers /\ call[h] \in Call
        /\ Saves(h) \/ UNCHANGED session
    BY NullAssumption, ServeSessions DEF TypeInv, TypeOK, SessionTypeOK
  <1>1. ASSUME Saves(h)
        PROVE  Written(call[h]) \in Session
    <2>1. call[h].op # "create" => call[h].snap # Null
      BY <1>0, <1>1, SavesNext
    <2> QED
      BY <1>0, <2>1, WrittenTyped
  <1> QED
    BY <1>0, <1>1 DEF Saves

LEMMA OutputServed ==
  ASSUME OrderInv, StatusInv, OutputInv, [Next]_vars, Serve, UNCHANGED streamVars,
         NEW s \in Streams
  PROVE  /\ fin'[s].pc = "flush" => gen'[s] # "error"
         /\ Kept(s)'
         /\ Spared(s)' => FoundOpen(s)'
PROOF
  <1>0. /\ TypeInv /\ OwnersInv /\ UnbornInv /\ PromiseInv /\ WireInv /\ TypeInv'
        /\ FinalOf(s) \in Callers /\ FailOf(s) \in Callers /\ CreateOf(s) \in Callers
        /\ UNCHANGED <<gen, fin, reply, len, cancel>>
    BY OrderStep, TaskIds DEF OrderInv, streamVars
  <1>1. PICK h : h = Head(wire)
    OBVIOUS
  <1>2. /\ h \in Callers
        /\ \A t \in Callers : t # h => call'[t] = call[t]
        /\ \/ Saves(h)
           \/ /\ UNCHANGED session
              /\ call'[h].stage \in {"save", "back"}
              /\ call'[h].stage = "save" => call[h].op # "get"
    BY <1>0, <1>1, ServeSessions
  <1>3. /\ InFlight(h)
        /\ \A t \in Callers : InFlight(t) /\ t # h => Before(h, t)
        /\ \A x, y \in Callers : Before(x, y)' => x # h /\ (Before(x, y) \/ y = h)
    BY <1>0, <1>1, WireServed
  <1>4. expired' = expired
    BY DEF Serve, ServeLookup, ServeRead, ServeSave, ServeDel, ServeFault
  <1>5. Kept(s)'
    <2>1. session[s] # Null => session'[s] # Null
      BY <1>0, <1>1, SessionStays
    <2>2. ASSUME gen[s] = "creating", Back(CreateOf(s))', call'[CreateOf(s)].ok, h = CreateOf(s)
          PROVE  session'[s] # Null
      <3>1. call[h].stream = s /\ call[h].stage = "save"
        BY <1>0, <1>3, <2>2
        DEF InFlight, UnbornInv, Unborn, OwnersInv, CreateOwned, Is
      <3>2. Saves(h)
        BY <1>0, <1>1, <2>2, <3>1, ServeAnswers DEF Back
      <3> QED
        BY <1>0, <1>1, <3>1, <3>2, SessionStays
    <2> QED
      BY <1>0, <1>2, <1>4, <2>1, <2>2 DEF OutputInv, Kept, Back
  <1>6. ASSUME Spared(s)'
        PROVE  FoundOpen(s)'
    <2>1. Spared(s) /\ faults' = 0 /\ Kept(s) /\ FoundOpen(s)
      BY <1>0, <1>4, <1>6, FaultsStay DEF Spared, CancelledBy, OutputInv
    <2>2. fin[s].pc = "check" => session[s] # Null
      BY <1>0, <2>1 DEF Spared, Kept, PromiseInv, FinalizedAsEnded
    <2>3. ASSUME fin[s].pc = "check", call'[FinalOf(s)].stage = "get", gen[s] = "error"
          PROVE  \/ call'[FailOf(s)].stage = "get"
                 \/ call'[FailOf(s)].stage = "save" /\ ~Before(FailOf(s), FinalOf(s))'
      <3>1. h # FinalOf(s)
        BY <1>2, <2>3 DEF Saves
      <3>2. call'[FinalOf(s)] = call[FinalOf(s)] /\ InFlight(FinalOf(s))
        BY <1>0, <1>2, <2>3, <3>1 DEF InFlight
      <3>3. \/ call[FailOf(s)].stage = "get"
            \/ call[FailOf(s)].stage = "save" /\ ~Before(FailOf(s), FinalOf(s))
        BY <2>1, <2>3, <3>2 DEF FoundOpen, FinalizerFirst
      <3>4. CASE h = FailOf(s)
        <4>1. call[h].stage = "get" /\ ~Saves(h)
          BY <1>0, <1>3, <3>1, <3>2, <3>3, <3>4 DEF Saves
        <4>2. call[h].op = "mark" /\ call[h].stream = s
          BY <1>0, <3>4, <4>1 DEF OwnersInv, FailOwned, Is, Idle
        <4>3. call'[h].stage # "back"
          BY <1>0, <1>1, <2>1, <2>2, <2>3, <4>1, <4>2, ServeAnswers, ServeSucceeds
        <4>4. call'[h].stage = "save"
          BY <1>2, <4>1, <4>3
        <4>5. ~Before(FailOf(s), FinalOf(s))'
          BY <1>0, <1>3, <3>4
        <4> QED
          BY <3>4, <4>4, <4>5
      <3>5. CASE h # FailOf(s)
        BY <1>0, <1>2, <1>3, <3>1, <3>3, <3>5
      <3> QED
        BY <3>4, <3>5
    <2>4. ASSUME fin[s].pc = "check", call'[FinalOf(s)].stage # "get"
          PROVE  Back(FinalOf(s))' /\ StillGenerating(call'[FinalOf(s)].snap)
      <3>1. CASE h # FinalOf(s)
        BY <1>0, <1>2, <2>1, <2>4, <3>1 DEF FoundOpen, Back, StillGenerating
      <3>2. CASE h = FinalOf(s)
        <4>1. call[h].op = "get" /\ call[h].stream = s
          BY <1>0, <2>4, <3>2 DEF OwnersInv, FinalOwned, Is
        <4>2. call[h].stage = "get"
          BY <1>3, <2>1, <2>4, <3>2 DEF FoundOpen, Back, InFlight
        <4>3. call'[h].stage = "back"
          BY <1>2, <4>1, <4>2 DEF Saves
        <4>4. call'[h].snap = session[s]
          BY <1>0, <1>1, <2>1, <4>1, <4>2, <4>3, ServeAnswers, ServeSucceeds
        <4>5. Unmarked(s)
          BY <2>1, <2>4, <3>2, <4>2
          DEF Unmarked, Spared, EarlyPhases, FoundOpen, FinalizerFirst
        <4>6. session[s].status = "generating"
          BY <2>2, <2>4, <4>5 DEF StatusInv
        <4> QED
          BY <2>2, <2>4, <3>2, <4>3, <4>4, <4>6 DEF Back, StillGenerating
      <3> QED
        BY <3>1, <3>2
    <2> QED
      BY <1>0, <2>1, <2>3, <2>4 DEF FoundOpen, FinalizerFirst
  <1> QED
    BY <1>0, <1>5, <1>6 DEF OutputInv

\* A stop that ends a generation starts its finalizer.
LEMMA StopMoves ==
  ASSUME TypeInv, NEW s \in Streams, NEW c \in Cancels, cancel[c].stream = s, CancelStops(c)
  PROVE  gen'[s] = "stopped" /\ fin'[s].pc = "flush"
PROOF
  <1>1. gen' = [gen EXCEPT ![s] = "stopped"]
    BY DEF CancelStops
  <1>2. PICK m : m = pending[s]
    OBVIOUS
  <1>3. FinalizerStarts(s, m, TRUE)
    BY <1>2 DEF CancelStops
  <1> QED
    BY <1>1, <1>3 DEF FinalizerStarts, TypeInv, TypeOK, StreamTypeOK

\* So does the end of the model's stream.
LEMMA DoneMoves ==
  ASSUME TypeInv, NEW s \in Streams, GenDone(s)
  PROVE  gen'[s] = "done" /\ fin'[s].pc = "flush"
PROOF
  <1>1. gen' = [gen EXCEPT ![s] = "done"]
    BY DEF GenDone
  <1>2. PICK m, b : m = len[s] /\ b = (s \in cancelled)
    OBVIOUS
  <1>3. FinalizerStarts(s, m, b)
    BY <1>2 DEF GenDone
  <1> QED
    BY <1>1, <1>3 DEF FinalizerStarts, TypeInv, TypeOK, StreamTypeOK

\* The finalizer begins to check after the flush, or at once after an error.
LEMMA CheckBegins ==
  ASSUME OrderInv, NEW s \in Streams, Moves(s), fin'[s].pc = "check"
  PROVE  \/ FinFlushed(s)
         \/ GenError(s)
         \/ fin[s].pc = "check" /\ gen'[s] = gen[s] /\ call'[FinalOf(s)] = call[FinalOf(s)]
PROOF
  <1>0. /\ TypeInv /\ CompletedInv /\ FinalOf(s) \in Callers
        /\ fin \in [Streams -> Finalizer] /\ gen \in [Streams -> GenStates]
    BY TaskIds DEF OrderInv, TypeInv, TypeOK, StreamTypeOK
  <1>1. CASE Rests(s) \/ TimerFires(s)
    BY <1>1 DEF Rests, TimerFires
  <1>2. CASE Create(s) \/ StartDetachedGeneration(s) \/ GenDelta(s)
    BY <1>0, <1>2
    DEF Create, StartDetachedGeneration, GenDelta, Subscribed, CompletedInv, StoredOnce
  <1>3. CASE GenDone(s) \/ \E c \in Cancels : cancel[c].stream = s /\ CancelStops(c)
    BY <1>0, <1>3, StopMoves, DoneMoves
  <1>4. ASSUME NEW n \in DOMAIN writes[s], WriteStarts(s, n) \/ WriteEnds(s, n)
        PROVE  UNCHANGED <<fin, gen>> /\ call'[FinalOf(s)] = call[FinalOf(s)]
    <2>1. WriteOf(s, n) \in Callers /\ WriteOf(s, n) # FinalOf(s)
      BY <1>0, TaskIds, TaskNames, WritesBounded
    <2> QED
      BY <1>0, <1>4, <2>1, OneCall DEF WriteStarts, WriteEnds
  <1>5. CASE \/ FinAbandons(s) \/ FinFails(s) \/ FinResolves(s) \/ FinProgressed(s)
             \/ FinMarked(s) \/ FinDatabase(s)
    BY <1>0, <1>5
    DEF FinAbandons, FinFails, FinResolves, FinProgressed, FinMarked, FinDatabase, FinStores,
        FinTouches, FinStoreFails, FinGoes, Finalizer
  <1> QED
    BY <1>1, <1>2, <1>3, <1>4, <1>5 DEF Moves, Generation

LEMMA OutputTurned ==
  ASSUME OrderInv, OutputInv, [Next]_vars, Acts, NEW s \in Streams, Moves(s)
  PROVE  /\ fin'[s].pc = "flush" => gen'[s] # "error"
         /\ Kept(s)'
         /\ Spared(s)' => FoundOpen(s)'
PROOF
  <1>0. /\ TypeInv /\ CompletedInv /\ UnbornInv /\ WireInv /\ Turn
        /\ UNCHANGED <<session, expired>>
        /\ FinalOf(s) \in Callers /\ FailOf(s) \in Callers /\ CreateOf(s) \in Callers
        /\ fin \in [Streams -> Finalizer] /\ gen \in [Streams -> GenStates]
        /\ reply \in [Streams -> Text \cup {Null}] /\ len[s] \in Nat
    BY TaskIds, MaxDeltasAssumption
    DEF OrderInv, TypeInv, TypeOK, StreamTypeOK, Acts, Turn
  <1>1. /\ \A t \in Callers : Back(t)' => call'[t] = call[t]
        /\ \A x, y \in Callers : Before(x, y)' => Before(x, y) \/ ~InFlight(y)
    <2>1. ASSUME NEW u \in Streams, CreateTurn(u)
          PROVE  call'[CreateOf(u)].stage = "save"
      <3>1. call'[CreateOf(u)] = CreateCall(u)
        BY <1>0, <2>1 DEF CreateTurn, Calls, Invoke, TypeInv, TypeOK, SessionTypeOK
      <3> QED
        BY <3>1 DEF CreateCall, Idle
    <2> QED
      BY <1>0, <2>1, TurnMoves DEF Back
  <1>2. ASSUME fin'[s].pc = "flush"
        PROVE  gen'[s] # "error"
    <2>1. CASE Rests(s) \/ TimerFires(s) \/ GenDelta(s)
      BY <1>2, <2>1 DEF Rests, TimerFires, GenDelta, OutputInv
    <2>2. CASE \E n \in DOMAIN writes[s] : WriteStarts(s, n) \/ WriteEnds(s, n)
      BY <1>2, <2>2 DEF WriteStarts, WriteEnds, OutputInv
    <2>3. CASE Create(s) \/ StartDetachedGeneration(s)
      BY <1>0, <2>3 DEF Create, StartDetachedGeneration
    <2>4. CASE GenDone(s) \/ GenError(s) \/ \E c \in Cancels : cancel[c].stream = s /\ CancelStops(c)
      <3>1. GenError(s) => fin'[s].pc = "check"
        BY <1>0 DEF GenError
      <3> QED
        BY <1>0, <1>2, <2>4, <3>1, StopMoves, DoneMoves
    <2>5. CASE FinFlushed(s) \/ FinAbandons(s) \/ FinFails(s) \/ FinResolves(s)
      <3>1. FinResolves(s) => fin'[s].pc # "flush"
        BY <1>0 DEF FinResolves, Finalizer
      <3> QED
        BY <1>0, <1>2, <2>5, <3>1 DEF FinFlushed, FinAbandons, FinFails, FinGoes, Finalizer
    <2>6. CASE FinProgressed(s) \/ FinMarked(s) \/ FinDatabase(s)
      BY <1>0, <1>2, <2>6
      DEF FinProgressed, FinMarked, FinDatabase, FinStores, FinTouches, FinStoreFails, FinGoes,
          Finalizer
    <2> QED
      BY <2>1, <2>2, <2>3, <2>4, <2>5, <2>6 DEF Moves, Generation
  <1>3. Kept(s)'
    <2>1. gen'[s] = gen[s] \/ gen[s] = "running" \/ Create(s) \/ StartDetachedGeneration(s)
      <3>1. CASE Rests(s) \/ TimerFires(s) \/ Generation(s)
        BY <3>1 DEF Rests, TimerFires, Generation, GenDelta, GenDone, GenError, Subscribed
      <3>2. CASE \/ \E n \in DOMAIN writes[s] : WriteStarts(s, n) \/ WriteEnds(s, n)
                 \/ \E c \in Cancels : cancel[c].stream = s /\ CancelStops(c)
        BY <3>2 DEF WriteStarts, WriteEnds, CancelStops, Subscribed
      <3>3. CASE \/ FinFlushed(s) \/ FinAbandons(s) \/ FinFails(s) \/ FinResolves(s)
                 \/ FinProgressed(s) \/ FinMarked(s) \/ FinDatabase(s)
        BY <3>3
        DEF FinFlushed, FinAbandons, FinFails, FinResolves, FinProgressed, FinMarked,
            FinDatabase, FinStores, FinTouches, FinStoreFails, finOthers
      <3> QED
        BY <3>1, <3>2, <3>3 DEF Moves
    <2>2. CASE gen'[s] = gen[s] \/ gen[s] = "running"
      <3>1. gen[s] = "creating" /\ Back(CreateOf(s))' => call'[CreateOf(s)] = call[CreateOf(s)]
        BY <1>0, <1>1
      <3>2. Kept(s) /\ (gen[s] = "running" => gen'[s] # "creating")
        BY <1>0 DEF OutputInv, Acts, Distant, Known
      <3> QED
        BY <1>0, <2>2, <3>1, <3>2 DEF Kept, Back
    <2>3. CASE Create(s)
      <3>1. gen'[s] = "creating" /\ call[CreateOf(s)] = Idle
        BY <1>0, <2>3 DEF Create, OrderInv, OwnersInv, CreateOwned
      <3>2. ~Back(CreateOf(s))'
        BY <1>0, <1>1, <3>1 DEF Back, Idle
      <3> QED
        BY <3>1, <3>2 DEF Kept
    <2>4. CASE StartDetachedGeneration(s)
      BY <1>0, <2>4 DEF StartDetachedGeneration, OutputInv, Kept
    <2> QED
      BY <2>1, <2>2, <2>3, <2>4
  <1>4. ASSUME Spared(s)'
        PROVE  Spared(s) /\ Kept(s) /\ FoundOpen(s)
    BY <1>0, <1>4, MarkStays, FaultsStay DEF Spared, OutputInv
  <1>5. ASSUME Spared(s)'
        PROVE  FinalizerFirst(s)'
    <2>1. ASSUME fin'[s].pc = "check", gen'[s] = "error", call'[FinalOf(s)].stage = "get"
          PROVE  \/ call'[FailOf(s)].stage = "get"
                 \/ call'[FailOf(s)].stage = "save" /\ ~Before(FailOf(s), FinalOf(s))'
      <3>1. ~FinFlushed(s)
        BY <2>1 DEF FinFlushed, finOthers, OutputInv
      <3>2. CASE GenError(s)
        <4>1. call'[FailOf(s)] = MarkCall(s, "failed", TRUE)
          BY <1>0, <3>2, TaskNames DEF GenError, TypeInv, TypeOK, SessionTypeOK
        <4> QED
          BY <4>1 DEF MarkCall, Idle
      <3>3. CASE /\ fin[s].pc = "check" /\ gen'[s] = gen[s]
                 /\ call'[FinalOf(s)] = call[FinalOf(s)]
        <4>1. \/ call[FailOf(s)].stage = "get"
              \/ call[FailOf(s)].stage = "save" /\ ~Before(FailOf(s), FinalOf(s))
          BY <1>4, <1>5, <2>1, <3>3 DEF FoundOpen, FinalizerFirst
        <4>2. call'[FailOf(s)] = call[FailOf(s)]
          BY <2>1, <3>3, <4>1, FailStays DEF Back
        <4>3. InFlight(FinalOf(s))
          BY <2>1, <3>3 DEF InFlight
        <4> QED
          BY <1>0, <1>1, <4>1, <4>2, <4>3
      <3> QED
        BY <2>1, <3>1, <3>2, <3>3, CheckBegins
    <2> QED
      BY <2>1 DEF FinalizerFirst
  <1>6. ASSUME Spared(s)', fin'[s].pc = "check", call'[FinalOf(s)].stage # "get"
        PROVE  Back(FinalOf(s))' /\ StillGenerating(call'[FinalOf(s)].snap)
    <2>1. ~FinFlushed(s)
      <3>1. FinFlushed(s) => call'[FinalOf(s)] = GetCall(s)
        BY <1>0, OneCall DEF FinFlushed
      <3> QED
        BY <1>6, <3>1 DEF GetCall, Idle
    <2>2. ~GenError(s)
      <3>1. GenError(s) => call'[FinalOf(s)] = GetCall(s)
        BY <1>0 DEF GenError, TypeInv, TypeOK, SessionTypeOK
      <3> QED
        BY <1>6, <3>1 DEF GetCall, Idle
    <2>3. fin[s].pc = "check" /\ call'[FinalOf(s)] = call[FinalOf(s)]
      BY <1>6, <2>1, <2>2, CheckBegins
    <2> QED
      BY <1>4, <1>6, <2>3 DEF FoundOpen, Back, StillGenerating
  <1>7. ASSUME Spared(s)', fin'[s].pc \in {"mark", "done"}, len'[s] > 0
        PROVE  reply'[s] # Null
    <2>0. FoundOpen(s) /\ faults = 0 /\ faults' = 0
      BY <1>4, <1>7 DEF Spared
    <2>1. CASE Rests(s) \/ TimerFires(s)
      BY <1>7, <2>0, <2>1 DEF Rests, TimerFires, FoundOpen
    <2>2. CASE \E n \in DOMAIN writes[s] : WriteStarts(s, n) \/ WriteEnds(s, n)
      BY <1>7, <2>0, <2>2 DEF WriteStarts, WriteEnds, FoundOpen
    <2>3. CASE Create(s) \/ StartDetachedGeneration(s) \/ GenDelta(s)
      BY <1>0, <1>7, <2>3
      DEF Create, StartDetachedGeneration, GenDelta, Subscribed, CompletedInv, StoredOnce
    <2>4. CASE GenDone(s) \/ GenError(s) \/ \E c \in Cancels : cancel[c].stream = s /\ CancelStops(c)
      <3>1. GenError(s) => fin'[s].pc = "check"
        BY <1>0 DEF GenError
      <3> QED
        BY <1>0, <1>7, <2>4, <3>1, StopMoves, DoneMoves
    <2>5. CASE FinFlushed(s) \/ FinResolves(s) \/ FinStores(s) \/ FinTouches(s)
      BY <1>0, <1>7, <2>5
      DEF FinFlushed, FinResolves, FinStores, FinTouches, FinGoes, Finalizer
    <2>6. CASE FinAbandons(s)
      BY <2>0, <2>6 DEF FinAbandons, FinBack, Back, FoundOpen
    <2>7. CASE FinFails(s)
      BY <1>7, <2>7 DEF FinFails, NoOutput, finOthers
    <2>8. CASE FinProgressed(s)
      <3>1. fin[s].pc = "progress" /\ UNCHANGED reply /\ fin[s].text # Null
        BY <1>0, <2>8 DEF FinProgressed, FinBack, Finalizer
      <3> QED
        BY <1>0, <3>1 DEF CompletedInv, FinalizerStored
    <2>9. CASE FinMarked(s)
      BY <1>7, <2>0, <2>9 DEF FinMarked, FinBack, finOthers, FoundOpen
    <2>10. ~FinStoreFails(s)
      BY <2>0 DEF FinStoreFails
    <2> QED
      BY <2>1, <2>2, <2>3, <2>4, <2>5, <2>6, <2>7, <2>8, <2>9, <2>10
      DEF Moves, Generation, FinDatabase
  <1> QED
    BY <1>2, <1>3, <1>5, <1>6, <1>7 DEF FoundOpen

LEMMA OutputStep ==
  ASSUME OrderInv, StatusInv, OutputInv, [Next]_vars
  PROVE  OutputInv'
PROOF
  <1>0. /\ fin \in [Streams -> Finalizer] /\ gen \in [Streams -> GenStates]
        /\ session \in [Streams -> Session \cup {Null}] /\ expired \subseteq Streams
    BY DEF OrderInv, TypeInv, TypeOK, StreamTypeOK, SessionTypeOK
  <1>1. \A s \in Streams : ~CancelledBy(s, {"mark"})' => ~CancelledBy(s, {"mark"})
    BY MarkStays
  <1>2. CASE Serve /\ UNCHANGED streamVars
    BY <1>2, OutputServed DEF OutputInv
  <1>3. CASE Expiry
    <2>1. PICK x \in Streams : Expire(x)
      BY <1>3 DEF Expiry
    <2>2. /\ UNCHANGED <<call, wire, faults, streamVars>> /\ expired' = expired \cup {x}
          /\ \A s \in Streams : s # x => session'[s] = session[s]
      BY <1>0, <1>3, <2>1 DEF Expiry, Expire
    <2>3. ASSUME NEW s \in Streams, s \notin expired'
          PROVE  s \notin expired /\ session'[s] = session[s]
      BY <1>0, <2>2, <2>3
    <2>4. ASSUME NEW s \in Streams
          PROVE  Kept(s)'
      BY <2>2, <2>3 DEF OutputInv, Kept, Back, streamVars
    <2>5. ASSUME NEW s \in Streams, Spared(s)'
          PROVE  Spared(s)
      BY <1>1, <2>2, <2>3, <2>5 DEF Spared
    <2>6. ASSUME NEW s \in Streams, FoundOpen(s)
          PROVE  FoundOpen(s)'
      BY <2>2, <2>6
      DEF FoundOpen, FinalizerFirst, Back, Before, StillGenerating, streamVars
    <2> QED
      BY <2>2, <2>4, <2>5, <2>6 DEF OutputInv, streamVars
  <1>4. CASE ProcessEnds
    <2>1. UNCHANGED <<session, expired, faults, len, reply>>
      BY <1>4 DEF ProcessEnds, stores
    <2>2. ASSUME NEW s \in Streams
          PROVE  /\ gen'[s] \notin {"creating", "running"}
                 /\ gen'[s] # "lost" => gen'[s] = gen[s]
                 /\ fin'[s].pc \in {"idle", "done", "lost"}
                 /\ fin'[s].pc = "done" => fin[s].pc = "done"
      BY <1>0, <1>4 DEF ProcessEnds, Finalizer
    <2>3. ASSUME NEW s \in Streams
          PROVE  Kept(s)'
      BY <2>1, <2>2 DEF OutputInv, Kept
    <2>4. ASSUME NEW s \in Streams, Spared(s)'
          PROVE  FoundOpen(s)'
      <3>1. FoundOpen(s)
        BY <1>1, <2>1, <2>4 DEF Spared, OutputInv
      <3> QED
        BY <2>1, <2>2, <3>1 DEF FoundOpen, FinalizerFirst
    <2> QED
      BY <2>2, <2>3, <2>4 DEF OutputInv
  <1>5. CASE Acts /\ \A s \in Streams : Moves(s)
    BY <1>5, OutputTurned DEF OutputInv
  <1> QED
    BY <1>2, <1>3, <1>4, <1>5, StreamSteps

LEMMA OutputStart == Init => OutputInv
PROOF
  <1> SUFFICES ASSUME Init, NEW s \in Streams
               PROVE  /\ fin[s].pc = "flush" => gen[s] # "error"
                      /\ Kept(s) /\ FoundOpen(s)
    BY DEF OutputInv
  <1>1. fin[s].pc = "idle" /\ gen[s] = "absent"
    BY DEF Init, NoFinalizer
  <1> QED
    BY <1>1 DEF Kept, FoundOpen, FinalizerFirst

\* Unless a request marks the session, an operation fails or the TTL ends meanwhile, what
\* the model had sent is stored when the finalizer is through: after a normal end, a stop
\* and an error alike, although the mark of an error is sent before the finalizer reads.
THEOREM OutputAlwaysKept == Spec => []OutputKept
PROOF
  <1>1. Init => OrderInv /\ StatusInv /\ OutputInv
    BY OrderStart, StatusStart, OutputStart
  <1>2. OrderInv /\ StatusInv /\ OutputInv /\ [Next]_vars =>
          (OrderInv /\ StatusInv /\ OutputInv)'
    BY OrderStep, StatusStep, OutputStep
  <1>3. OutputInv => OutputKept
    BY DEF OutputInv, Spared, FoundOpen, OutputKept
  <1> QED
    BY <1>1, <1>2, <1>3, PTL DEF Spec
=============================================================================
