-------------------------- MODULE ConversationStream --------------------------
(***************************************************************************)
(* ConversationStreamService: a model reply is generated in the background, *)
(* detached from the HTTP request; its progress goes to the Redis session  *)
(* (StreamSession); when it ends, a finalizer stores the assistant message *)
(* and the final status; observers poll the session; the user may stop it. *)
(*                                                                         *)
(* One action is one uninterrupted run of JavaScript, from an event or a   *)
(* settled promise to the next await.  Events (a delta, a timer, a request, *)
(* a database result) are handled when no settled promise is left to        *)
(* continue with; see Quiet.                                                *)
(*                                                                         *)
(* Not here: what the live Subject delivers (StreamEnvelope shows that no  *)
(* event that reaches an observer this way carries done or error, so       *)
(* emitLive changes no state of this module and streamSubjects is left     *)
(* out); phase events, which are collected for the message and change      *)
(* nothing else; token counts; title refinement and the summary, started   *)
(* by setImmediate after the message is stored.                            *)
(***************************************************************************)
EXTENDS StreamSession, FiniteSets

CONSTANTS
  Observers,   \* SSE requests that may observe a stream, one each
  Cancels,     \* DELETE :id/stream requests, one each
  MaxDeltas,   \* how many deltas a model emits at most
  MaxCrashes,  \* how many times the process may be killed
  Overtaking   \* whether a reply of Redis may be handled before the code that
               \* awaits an earlier one goes on: replies read in one chunk
               \* settle together, and deeper call chains go on later

ASSUME OvertakingAssumption == Overtaking \in BOOLEAN
ASSUME MaxDeltasAssumption == MaxDeltas \in Nat
ASSUME MaxCrashesAssumption == MaxCrashes \in Nat

\* Every delta may arm the flush timer once, and the finalizer flushes once.
MaxWrites == MaxDeltas + 1

\* The asynchronous calls of the session service, by who made them.
CreateOf(s) == <<"create", s>>
FailOf(s) == <<"fail", s>>
FinalOf(s) == <<"final", s>>
WriteOf(s, n) == <<"write", s, n>>
CancelOf(c) == <<"cancel", c>>
PollOf(o) == <<"poll", o>>

Tasks ==
  {CreateOf(s) : s \in Streams} \cup {FailOf(s) : s \in Streams}
    \cup {FinalOf(s) : s \in Streams}
    \cup {WriteOf(s, n) : s \in Streams, n \in 1 .. MaxWrites}
    \cup {CancelOf(c) : c \in Cancels} \cup {PollOf(o) : o \in Observers}

ASSUME CallersAssumption == Callers = Tasks

VARIABLES
  gen,         \* where the generation of a stream is
  len,         \* how many deltas it has accumulated (thinking + response)
  cancelled,   \* cancelledStreams
  timer,       \* flushTimers: the streams with a timer set
  pending,     \* pendingProgress: the length to flush, or Null
  writes,      \* the progress writes queued so far, in order
  tail,        \* progressQueues: the last write of the promise chain, or 0
  fin,         \* finalizeGeneration
  reply,       \* the assistant message of the stream in the database
  cancel,      \* the cancel requests
  observer,    \* the observers
  crashes      \* how many times the process was killed

streamVars == <<gen, len, cancelled, timer, pending, writes, tail, fin, reply,
                cancel, observer, crashes>>
vars == <<sessionVars, streamVars>>

GenStates == {"absent", "creating", "rejected", "running",
              "done", "error", "stopped", "lost"}

\* left is the number of attempts a write still has, the first included.
Write == [len : Nat, after : Nat, left : 1 .. 2,
          st : {"queued", "calling", "done"}]

FinStates == {"idle", "flush", "check", "store", "touch", "progress", "mark",
              "done", "lost"}
Finalizer ==
  {f \in [pc : FinStates, waits : Nat, stopped : BOOLEAN, text : Text \cup {Null}] :
     f.pc \in {"store", "touch", "progress"} => f.text # Null}
NoFinalizer == [pc |-> "idle", waits |-> 0, stopped |-> FALSE, text |-> Null]

\* how: what an accepted request did, stop the generation or mark the session.
CancelStates == {"idle", "reading", "marking", "done"}
CancelRequest == [st : CancelStates, stream : Streams \cup {Null},
                  mine : BOOLEAN, how : {"nothing", "stop", "mark"}]
NoCancel == [st |-> "idle", stream |-> Null, mine |-> TRUE, how |-> "nothing"]

\* last: lastSeq, Null for -1.  read: the poll just handled saw a final status.
Observer == [st : {"idle", "watching", "ended", "failed", "left"},
             stream : Streams \cup {Null}, mine : BOOLEAN,
             last : Nat \cup {Null}, sawEnd : BOOLEAN]
NoObserver == [st |-> "idle", stream |-> Null, mine |-> TRUE, last |-> Null,
               sawEnd |-> FALSE]

Init ==
  /\ SessionInit
  /\ gen = [s \in Streams |-> "absent"]
  /\ len = [s \in Streams |-> 0]
  /\ cancelled = {}
  /\ timer = {}
  /\ pending = [s \in Streams |-> Null]
  /\ writes = [s \in Streams |-> <<>>]
  /\ tail = [s \in Streams |-> 0]
  /\ fin = [s \in Streams |-> NoFinalizer]
  /\ reply = [s \in Streams |-> Null]
  /\ cancel = [c \in Cancels |-> NoCancel]
  /\ observer = [o \in Observers |-> NoObserver]
  /\ crashes = 0

-----------------------------------------------------------------------------
(* Helpers.                                                                *)

stores == <<session, active, expired, faults>>
progressVars == <<timer, pending, writes, tail>>

Txt(n, mark) == [len |-> n, mark |-> mark]

\* generationSubs has an entry from the subscription to the end of the stream.
Subscribed(s) == gen[s] = "running"

\* A client learns the id from a first frame or from GET :id/stream/active; no
\* response leaves before the turn in which createSession returns.
Known(s) == gen[s] \notin {"absent", "creating"}

\* completeSubject: also forgets the chain, the timer and the pending patch;
\* writes already queued go on.
CompleteSubject(s) ==
  /\ timer' = timer \ {s}
  /\ pending' = [pending EXCEPT ![s] = Null]
  /\ tail' = [tail EXCEPT ![s] = 0]
  /\ UNCHANGED writes

\* Mutants: a third attempt; a write that does not wait for the one before it;
\* a write that waits for the end of the chain it has just become.
QueueProgressUpdateThrice(s, n) ==
  /\ writes' = [writes EXCEPT ![s] =
       Append(@, [len |-> n, after |-> tail[s], left |-> 3, st |-> "queued"])]
  /\ tail' = [tail EXCEPT ![s] = Len(writes[s]) + 1]
QueueProgressUpdateUnchained(s, n) ==
  /\ writes' = [writes EXCEPT ![s] =
       Append(@, [len |-> n, after |-> 0, left |-> 2, st |-> "queued"])]
  /\ tail' = [tail EXCEPT ![s] = Len(writes[s]) + 1]
QueueProgressUpdateOnItself(s, n) ==
  /\ writes' = [writes EXCEPT ![s] =
       Append(@, [len |-> n, after |-> Len(@) + 1, left |-> 2, st |-> "queued"])]
  /\ tail' = [tail EXCEPT ![s] = Len(writes[s]) + 1]

\* queueProgressUpdate: the write runs after the one the chain ends in.
QueueProgressUpdate(s, n) ==
  /\ writes' = [writes EXCEPT ![s] =
       Append(@, [len |-> n, after |-> tail[s], left |-> 2, st |-> "queued"])]
  /\ tail' = [tail EXCEPT ![s] = Len(writes[s]) + 1]

\* Mutants: the cancellation is forgotten; the flush is not awaited.
FinalizerStartsForgetful(s, n, wasCancelled) ==
  /\ fin' = [fin EXCEPT ![s] =
       [pc |-> "flush", stopped |-> FALSE, text |-> Null,
        waits |-> IF n = Null THEN 0 ELSE Len(writes[s]) + 1]]
  /\ cancelled' = cancelled \ {s}
  /\ timer' = timer \ {s}
  /\ IF n = Null THEN UNCHANGED <<writes, tail>> ELSE QueueProgressUpdate(s, n)
FinalizerStartsHasty(s, n, wasCancelled) ==
  /\ fin' = [fin EXCEPT ![s] =
       [pc |-> "flush", stopped |-> wasCancelled, text |-> Null, waits |-> 0]]
  /\ cancelled' = cancelled \ {s}
  /\ timer' = timer \ {s}
  /\ IF n = Null THEN UNCHANGED <<writes, tail>> ELSE QueueProgressUpdate(s, n)

\* finalizeGeneration up to its first await, in the turn in which the stream
\* ends: flushProgressNow queues the pending patch n, if there is one.
FinalizerStarts(s, n, wasCancelled) ==
  /\ fin' = [fin EXCEPT ![s] =
       [pc |-> "flush", stopped |-> wasCancelled, text |-> Null,
        waits |-> IF n = Null THEN 0 ELSE Len(writes[s]) + 1]]
  /\ cancelled' = cancelled \ {s}
  /\ timer' = timer \ {s}
  /\ IF n = Null THEN UNCHANGED <<writes, tail>> ELSE QueueProgressUpdate(s, n)

\* The process is gone, killed or by an unhandled rejection, and starts again:
\* what is in Redis and in the database stays.
ProcessEnds ==
  /\ call' = [t \in Callers |-> Idle]
  /\ wire' = <<>>
  /\ gen' = [s \in Streams |->
       IF gen[s] \in {"creating", "running"} THEN "lost" ELSE gen[s]]
  /\ cancelled' = {}
  /\ timer' = {}
  /\ pending' = [s \in Streams |-> Null]
  /\ writes' = [s \in Streams |-> <<>>]
  /\ tail' = [s \in Streams |-> 0]
  /\ fin' = [s \in Streams |->
       IF fin[s].pc \in {"idle", "done"} THEN fin[s]
       ELSE [fin[s] EXCEPT !.pc = "lost"]]
  /\ cancel' = [c \in Cancels |->
       IF cancel[c].st = "idle" THEN cancel[c]
       ELSE [cancel[c] EXCEPT !.st = "done"]]
  /\ observer' = [o \in Observers |->
       IF observer[o].st # "watching" THEN observer[o]
       ELSE [observer[o] EXCEPT !.st = "failed"]]
  /\ UNCHANGED <<stores, len, reply>>

-----------------------------------------------------------------------------
(* The stream stage and the generation.                                    *)

\* StreamStage.execute awaits createSession ...
Create(s) ==
  /\ gen[s] = "absent"
  /\ gen' = [gen EXCEPT ![s] = "creating"]
  /\ Invoke(CreateOf(s), CreateCall(s))
  /\ UNCHANGED <<stores, len, cancelled, progressVars, fin, reply, cancel,
                 observer, crashes>>

\* ... and then calls startDetachedGeneration, or the request fails.
StartDetachedGeneration(s) ==
  /\ gen[s] = "creating"
  /\ Back(CreateOf(s))
  /\ gen' = [gen EXCEPT ![s] =
       IF call[CreateOf(s)].ok THEN "running" ELSE "rejected"]
  /\ Return(CreateOf(s))
  /\ UNCHANGED <<stores, len, cancelled, progressVars, fin, reply, cancel,
                 observer, crashes>>

\* The model emits a delta: it is accumulated and scheduleRedisFlush is called.
GenDelta(s) ==
  /\ Subscribed(s)
  /\ len[s] < MaxDeltas
  /\ len' = [len EXCEPT ![s] = @ + 1]
  /\ pending' = [pending EXCEPT ![s] = len[s] + 1]
  /\ timer' = timer \cup {s}
  /\ UNCHANGED <<stores, call, wire, gen, cancelled, writes, tail, fin, reply,
                 cancel, observer, crashes>>

\* The model emits done and completes, in one turn in every provider; the
\* patch of the done event is flushed by the finalizer.
GenDone(s) ==
  /\ Subscribed(s)
  /\ gen' = [gen EXCEPT ![s] = "done"]
  /\ pending' = [pending EXCEPT ![s] = len[s]]
  /\ FinalizerStarts(s, len[s], s \in cancelled)
  /\ UNCHANGED <<stores, call, wire, len, reply, cancel, observer, crashes>>

\* Mutant: the pending patch survives the error and is flushed first.
GenErrorFlushes(s) ==
  /\ Subscribed(s)
  /\ gen' = [gen EXCEPT ![s] = "error"]
  /\ Invoke(FailOf(s), MarkCall(s, "failed", TRUE))
  /\ UNCHANGED pending
  /\ FinalizerStarts(s, pending[s], s \in cancelled)
  /\ UNCHANGED <<stores, len, reply, cancel, observer, crashes>>

\* The stream errors: catchError sends markStatus('failed', message) without
\* waiting for it and drops the pending patch, so that the finalizer, started
\* in the same turn, has nothing to flush and sends its own GET right behind.
GenError(s) ==
  /\ Subscribed(s)
  /\ gen' = [gen EXCEPT ![s] = "error"]
  /\ call' = [call EXCEPT ![FailOf(s)] = MarkCall(s, "failed", TRUE),
                          ![FinalOf(s)] = GetCall(s)]
  /\ wire' = wire \o <<FailOf(s), FinalOf(s)>>
  /\ CompleteSubject(s)
  /\ fin' = [fin EXCEPT ![s] = [pc |-> "check", waits |-> 0,
                                stopped |-> s \in cancelled, text |-> Null]]
  /\ cancelled' = cancelled \ {s}
  /\ UNCHANGED <<stores, len, reply, cancel, observer, crashes>>

\* The unawaited markStatus ends; its rejection is unhandled.
FailMarked(s) ==
  /\ Back(FailOf(s))
  /\ IF call[FailOf(s)].ok
     THEN /\ Return(FailOf(s))
          /\ UNCHANGED <<stores, streamVars>>
     ELSE /\ ProcessEnds
          /\ UNCHANGED crashes

-----------------------------------------------------------------------------
(* Progress writes.                                                        *)

TimerFires(s) ==
  /\ s \in timer
  /\ timer' = timer \ {s}
  /\ IF pending[s] # Null THEN QueueProgressUpdate(s, pending[s])
                          ELSE UNCHANGED <<writes, tail>>
  /\ UNCHANGED <<stores, call, wire, gen, len, cancelled, pending, fin, reply,
                 cancel, observer, crashes>>

WriteDone(s, n) == n # 0 => writes[s][n].st = "done"

WriteStarts(s, n) ==
  /\ writes[s][n].st = "queued"
  /\ WriteDone(s, writes[s][n].after)
  /\ writes' = [writes EXCEPT ![s][n].st = "calling"]
  /\ Invoke(WriteOf(s, n), ProgressCall(s, Txt(writes[s][n].len, "none")))
  /\ UNCHANGED <<stores, gen, len, cancelled, timer, pending, tail, fin, reply,
                 cancel, observer, crashes>>

\* A failed write is tried once more and then given up.
WriteEnds(s, n) ==
  /\ Back(WriteOf(s, n))
  /\ writes' = [writes EXCEPT ![s][n] =
       IF call[WriteOf(s, n)].ok \/ @.left = 1
       THEN [@ EXCEPT !.st = "done"]
       ELSE [@ EXCEPT !.st = "queued", !.left = 1]]
  /\ Return(WriteOf(s, n))
  /\ UNCHANGED <<stores, gen, len, cancelled, timer, pending, tail, fin, reply,
                 cancel, observer, crashes>>

-----------------------------------------------------------------------------
(* finalizeGeneration, after its first await.                              *)

finOthers == <<gen, len, cancelled, cancel, observer, crashes>>

FinBack(s, pc) == fin[s].pc = pc /\ Back(FinalOf(s)) /\ call[FinalOf(s)].ok
FinGoes(s, pc) == fin' = [fin EXCEPT ![s].pc = pc]

FinFlushed(s) ==
  /\ fin[s].pc = "flush"
  /\ WriteDone(s, fin[s].waits)
  /\ FinGoes(s, "check")
  /\ Invoke(FinalOf(s), GetCall(s))
  /\ UNCHANGED <<stores, reply, progressVars, finOthers>>

StillGenerating(snap) == snap # Null /\ snap.status = "generating"
NoOutput(s) == gen[s] = "error" /\ len[s] = 0 /\ ~fin[s].stopped

\* The session is gone or has a final status: nothing is stored.
FinAbandons(s) ==
  /\ FinBack(s, "check")
  /\ ~StillGenerating(call[FinalOf(s)].snap)
  /\ FinGoes(s, "done")
  /\ CompleteSubject(s)
  /\ Return(FinalOf(s))
  /\ UNCHANGED <<stores, reply, finOthers>>

\* An error without output: marked failed again, this time without a message.
FinFails(s) ==
  /\ FinBack(s, "check")
  /\ StillGenerating(call[FinalOf(s)].snap)
  /\ NoOutput(s)
  /\ FinGoes(s, "mark")
  /\ Invoke(FinalOf(s), MarkCall(s, "failed", FALSE))
  /\ UNCHANGED <<stores, reply, progressVars, finOthers>>

FinalMark(s) ==
  CASE fin[s].stopped   -> "stopped"
    [] gen[s] = "done"  -> "none"
    [] OTHER            -> "broken"

\* Mutant: what was flushed to Redis is stored, not what was accumulated.
FinalTextsFlushed(s) ==
  {Txt(IF writes[s] = <<>> THEN 0 ELSE writes[s][Len(writes[s])].len, FinalMark(s))}
    \cup (IF len[s] > 0 THEN {Txt(0, "withheld")} ELSE {})

\* The content of the message; moderation may replace any output.
FinalTexts(s) ==
  {Txt(len[s], FinalMark(s))}
    \cup (IF len[s] > 0 THEN {Txt(0, "withheld")} ELSE {})

FinResolves(s) ==
  /\ FinBack(s, "check")
  /\ StillGenerating(call[FinalOf(s)].snap)
  /\ ~NoOutput(s)
  /\ \E text \in FinalTexts(s) :
       fin' = [fin EXCEPT ![s].pc = "store", ![s].text = text]
  /\ Return(FinalOf(s))
  /\ UNCHANGED <<stores, reply, progressVars, finOthers>>

\* createAssistantMessage, then touchUpdatedAt.
FinStores(s) ==
  /\ fin[s].pc = "store"
  /\ reply' = [reply EXCEPT ![s] = fin[s].text]
  /\ FinGoes(s, "touch")
  /\ UNCHANGED <<stores, call, wire, progressVars, finOthers>>

FinTouches(s) ==
  /\ fin[s].pc = "touch"
  /\ FinGoes(s, "progress")
  /\ Invoke(FinalOf(s), ProgressCall(s, fin[s].text))
  /\ UNCHANGED <<stores, reply, progressVars, finOthers>>

\* Mutant: the failure is swallowed.
FinStoreFailsSilently(s) ==
  /\ fin[s].pc \in {"store", "touch"}
  /\ faults < MaxFaults
  /\ faults' = faults + 1
  /\ FinGoes(s, "progress")
  /\ Invoke(FinalOf(s), ProgressCall(s, fin[s].text))
  /\ UNCHANGED <<session, active, expired, reply, progressVars, finOthers>>

\* Either of the two fails: the session ends interrupted.
FinStoreFails(s) ==
  /\ fin[s].pc \in {"store", "touch"}
  /\ faults < MaxFaults
  /\ faults' = faults + 1
  /\ FinGoes(s, "mark")
  /\ Invoke(FinalOf(s), MarkCall(s, "interrupted", FALSE))
  /\ UNCHANGED <<session, active, expired, reply, progressVars, finOthers>>

FinProgressed(s) ==
  /\ FinBack(s, "progress")
  /\ FinGoes(s, "mark")
  /\ Invoke(FinalOf(s), MarkCall(s,
       IF fin[s].stopped THEN "interrupted" ELSE "completed", FALSE))
  /\ UNCHANGED <<stores, reply, progressVars, finOthers>>

FinMarked(s) ==
  /\ FinBack(s, "mark")
  /\ FinGoes(s, "done")
  /\ CompleteSubject(s)
  /\ Return(FinalOf(s))
  /\ UNCHANGED <<stores, reply, finOthers>>

\* A session call outside the try block is rejected: nobody handles it.
FinDies(s) ==
  /\ Back(FinalOf(s))
  /\ ~call[FinalOf(s)].ok
  /\ ProcessEnds
  /\ UNCHANGED crashes

FinGoesOn(s) ==
  \/ FinFlushed(s) \/ FinAbandons(s) \/ FinFails(s) \/ FinResolves(s)
  \/ FinProgressed(s) \/ FinMarked(s) \/ FinDies(s)

FinDatabase(s) == FinStores(s) \/ FinTouches(s) \/ FinStoreFails(s)

-----------------------------------------------------------------------------
(* cancelGeneration.                                                       *)

cancelOthers == <<len, reply, observer, crashes>>

CancelAsks(c, s, mine) ==
  /\ cancel[c].st = "idle"
  /\ Known(s)
  /\ cancel' = [cancel EXCEPT ![c] = [st |-> "reading", stream |-> s,
                                      mine |-> mine, how |-> "nothing"]]
  /\ Invoke(CancelOf(c), GetCall(s))
  /\ UNCHANGED <<stores, gen, cancelled, progressVars, fin, cancelOthers>>

Accepted(c) ==
  /\ cancel[c].st = "reading"
  /\ Back(CancelOf(c))
  /\ call[CancelOf(c)].ok
  /\ StillGenerating(call[CancelOf(c)].snap)
  /\ cancel[c].mine

\* Not found, forbidden, or over already.
CancelRefused(c) ==
  /\ cancel[c].st = "reading"
  /\ Back(CancelOf(c))
  /\ ~Accepted(c)
  /\ cancel' = [cancel EXCEPT ![c].st = "done"]
  /\ Return(CancelOf(c))
  /\ UNCHANGED <<stores, gen, cancelled, progressVars, fin, cancelOthers>>

\* A running generation is unsubscribed, which starts its finalizer.
CancelStops(c) ==
  /\ Accepted(c)
  /\ LET s == cancel[c].stream IN
       /\ Subscribed(s)
       /\ gen' = [gen EXCEPT ![s] = "stopped"]
       /\ FinalizerStarts(s, pending[s], TRUE)
  /\ cancel' = [cancel EXCEPT ![c].st = "done", ![c].how = "stop"]
  /\ Return(CancelOf(c))
  /\ UNCHANGED <<stores, pending, cancelOthers>>

\* No generation in this process: the session is marked by the request itself.
CancelMarks(c) ==
  /\ Accepted(c)
  /\ LET s == cancel[c].stream IN
       /\ ~Subscribed(s)
       /\ cancelled' = cancelled \cup {s}
       /\ Invoke(CancelOf(c), MarkCall(s, "interrupted", FALSE))
  /\ cancel' = [cancel EXCEPT ![c].st = "marking", ![c].how = "mark"]
  /\ UNCHANGED <<stores, gen, progressVars, fin, cancelOthers>>

CancelMarked(c) ==
  /\ cancel[c].st = "marking"
  /\ Back(CancelOf(c))
  /\ IF call[CancelOf(c)].ok THEN CompleteSubject(cancel[c].stream)
                             ELSE UNCHANGED progressVars
  /\ cancel' = [cancel EXCEPT ![c].st = "done"]
  /\ Return(CancelOf(c))
  /\ UNCHANGED <<stores, gen, cancelled, fin, cancelOthers>>

HandleCancel(c) ==
  CancelRefused(c) \/ CancelStops(c) \/ CancelMarks(c) \/ CancelMarked(c)

-----------------------------------------------------------------------------
(* observeSession.                                                         *)

observerOthers == <<gen, len, cancelled, fin, reply, cancel, crashes>>

\* The subscription reads the session at once ...
Attach(o, s, mine) ==
  /\ observer[o].st = "idle"
  /\ Known(s)
  /\ observer' = [observer EXCEPT ![o] =
       [NoObserver EXCEPT !.st = "watching", !.stream = s, !.mine = mine]]
  /\ Invoke(PollOf(o), GetCall(s))
  /\ UNCHANGED <<stores, progressVars, observerOthers>>

\* ... and then at every tick of its interval, taken to be longer than a read.
PollTick(o) ==
  /\ observer[o].st = "watching"
  /\ call[PollOf(o)] = Idle
  /\ Invoke(PollOf(o), GetCall(observer[o].stream))
  /\ UNCHANGED <<stores, progressVars, observer, observerOthers>>

Valid(o) ==
  call[PollOf(o)].ok /\ call[PollOf(o)].snap # Null /\ observer[o].mine

\* Mutant: a session that is not found is polled for again.
PollRejectedPatiently(o) ==
  /\ Back(PollOf(o))
  /\ ~Valid(o)
  /\ observer' = [observer EXCEPT ![o].st =
       IF @ = "watching" /\ ~(call[PollOf(o)].ok /\ observer[o].mine)
       THEN "failed" ELSE @]
  /\ Return(PollOf(o))
  /\ UNCHANGED <<stores, progressVars, observerOthers>>

\* validateSession throws, or Redis does: the client gets an error.
PollRejected(o) ==
  /\ Back(PollOf(o))
  /\ ~Valid(o)
  /\ observer' = [observer EXCEPT ![o].st =
       IF @ = "watching" THEN "failed" ELSE @]
  /\ Return(PollOf(o))
  /\ UNCHANGED <<stores, progressVars, observerOthers>>

\* emitSnapshotIfNew: a sequence number seen before emits nothing; a final
\* status releases the stream's memory even when nothing was emitted.
Seen(ob, snap) ==
  LET final == snap.status # "generating" IN
  IF ob.st # "watching" THEN ob
  ELSE IF snap.seq = ob.last THEN [ob EXCEPT !.sawEnd = final]
  ELSE [ob EXCEPT !.last = snap.seq, !.sawEnd = final,
                  !.st = IF final \/ snap.error THEN "ended" ELSE @]

PollAnswered(o) ==
  /\ Back(PollOf(o))
  /\ Valid(o)
  /\ LET snap == call[PollOf(o)].snap IN
       /\ observer' = [observer EXCEPT ![o] = Seen(@, snap)]
       /\ IF snap.status # "generating"
          THEN CompleteSubject(observer[o].stream)
          ELSE UNCHANGED progressVars
  /\ Return(PollOf(o))
  /\ UNCHANGED <<stores, observerOthers>>

\* The client disconnects; a poll under way is still answered.
Leave(o) ==
  /\ observer[o].st = "watching"
  /\ observer' = [observer EXCEPT ![o].st = "left"]
  /\ UNCHANGED <<sessionVars, progressVars, observerOthers>>

PollEnds(o) == PollRejected(o) \/ PollAnswered(o)

-----------------------------------------------------------------------------
(* The event loop.                                                         *)

Crash ==
  /\ crashes < MaxCrashes
  /\ crashes' = crashes + 1
  /\ ProcessEnds

\* No settled promise is waiting for its continuation to run.
Quiet ==
  /\ \A t \in Callers : ~Back(t)
  /\ \A s \in Streams :
       /\ fin[s].pc = "flush" => ~WriteDone(s, fin[s].waits)
       /\ \A n \in DOMAIN writes[s] :
            writes[s][n].st = "queued" => ~WriteDone(s, writes[s][n].after)

Continuation ==
  \/ \E s \in Streams :
       \/ StartDetachedGeneration(s) \/ FailMarked(s) \/ FinGoesOn(s)
       \/ \E n \in DOMAIN writes[s] : WriteStarts(s, n) \/ WriteEnds(s, n)
  \/ \E c \in Cancels : HandleCancel(c)
  \/ \E o \in Observers : PollEnds(o)

Generation(s) == GenDelta(s) \/ GenDone(s) \/ GenError(s)

Event ==
  /\ Quiet
  /\ \/ \E s \in Streams :
          \/ Create(s) \/ Generation(s) \/ TimerFires(s) \/ FinDatabase(s)
          \/ \E mine \in BOOLEAN :
               \/ \E c \in Cancels : CancelAsks(c, s, mine)
               \/ \E o \in Observers : Attach(o, s, mine)
     \/ \E o \in Observers : PollTick(o) \/ Leave(o)

Redis ==
  /\ Overtaking \/ Quiet
  /\ Serve
  /\ UNCHANGED streamVars

Expiry == \E s \in Streams : Expire(s) /\ UNCHANGED streamVars

Next == Redis \/ Expiry \/ Continuation \/ Event \/ Crash

Spec == Init /\ [][Next]_vars

\* Redis answers and its keys expire; settled promises are continued with; no
\* event waits for ever in the event loop (hence SF: every event interrupts the
\* others); the model stops (OLLAMA_STREAM_TIMEOUT_MS).  Nothing is assumed of
\* clients, deltas, faults and crashes.
Fairness ==
  /\ SF_vars(Redis)
  /\ WF_vars(Expiry)
  /\ WF_vars(Continuation)
  /\ \A s \in Streams :
       /\ SF_vars(Quiet /\ (GenDone(s) \/ GenError(s)))
       /\ SF_vars(Quiet /\ FinDatabase(s))
  /\ \A o \in Observers : SF_vars(Quiet /\ PollTick(o))

FairSpec == Spec /\ Fairness

-----------------------------------------------------------------------------
(* Properties.                                                             *)

StreamTypeOK ==
  /\ gen \in [Streams -> GenStates]
  /\ len \in [Streams -> 0 .. MaxDeltas]
  /\ cancelled \subseteq Streams
  /\ timer \subseteq Streams
  /\ pending \in [Streams -> Nat \cup {Null}]
  /\ writes \in [Streams -> Seq(Write)]
  /\ tail \in [Streams -> Nat]
  /\ fin \in [Streams -> Finalizer]
  /\ reply \in [Streams -> Text \cup {Null}]
  /\ cancel \in [Cancels -> CancelRequest]
  /\ observer \in [Observers -> Observer]
  /\ crashes \in 0 .. MaxCrashes

TypeOK == SessionTypeOK /\ StreamTypeOK

\* Requests being handled are about a stream.
Requests ==
  /\ \A c \in Cancels : cancel[c].st # "idle" => cancel[c].stream \in Streams
  /\ \A o \in Observers : observer[o].st # "idle" => observer[o].stream \in Streams

\* Every write that was queued, and the timer that will queue one, answers to
\* a delta of its own; the finalizer of a stream that has ended adds one.
WriteBudget ==
  \A s \in Streams :
    LET early == gen[s] \in {"absent", "creating", "running"} IN
    /\ Len(writes[s]) <= len[s] + 1
    /\ s \in timer \/ early => Len(writes[s]) <= len[s]
    /\ s \in timer /\ early => Len(writes[s]) < len[s]

TypeInv == TypeOK /\ CallsWellFormed /\ Requests /\ WriteBudget

\* A session that says completed has its assistant message in the database,
\* and not one the user stopped: whichever stale snapshot, of the finalizer,
\* of the failure mark, of a progress write or of a cancel, was written last.
CompletedHasReply ==
  \A s \in Streams :
    (session[s] # Null /\ session[s].status = "completed")
      => reply[s] # Null /\ reply[s].mark # "stopped"

\* What makes it inductive: a status lives on in the snapshots that have been
\* read and in the marks on their way, the finalizer knows what it has stored,
\* and stores once.
Answered(s) == s \in Streams /\ reply[s] # Null /\ reply[s].mark # "stopped"
SnapshotsAnswered ==
  \A t \in Callers :
    (call[t].snap # Null /\ call[t].snap.status = "completed")
      => Answered(call[t].stream)
MarksAnswered ==
  \A t \in Callers : call[t].status = "completed" => Answered(call[t].stream)
FinalizerStored ==
  \A s \in Streams :
    /\ fin[s].pc \in {"store", "touch", "progress"} /\ ~fin[s].stopped
         => fin[s].text.mark # "stopped"
    /\ fin[s].pc \in {"touch", "progress"} => reply[s] = fin[s].text
StoredOnce ==
  \A s \in Streams :
    /\ gen[s] \in {"absent", "creating", "running"} => fin[s].pc = "idle"
    /\ fin[s].pc \in {"idle", "flush", "check", "store"} => reply[s] = Null
CompletedInv ==
  /\ CompletedHasReply
  /\ SnapshotsAnswered
  /\ MarksAnswered
  /\ FinalizerStored
  /\ StoredOnce

CancelledBy(s, hows) ==
  \E c \in Cancels : cancel[c].stream = s /\ cancel[c].how \in hows

\* The stored message is all the model had sent when the generation ended,
\* unless withheld, and its marker tells how it ended.
ReplyFaithful ==
  \A s \in Streams : reply[s] # Null =>
    /\ reply[s].mark # "withheld" => reply[s].len = len[s]
    /\ reply[s].mark = "none" => gen[s] = "done"
    /\ reply[s].mark = "broken" => gen[s] = "error"
    /\ gen[s] = "stopped" => reply[s].mark \in {"stopped", "withheld"}
    /\ reply[s].mark = "stopped" => CancelledBy(s, {"stop", "mark"})

\* Unless a second request, a fault or the TTL interferes, what the model had
\* sent is stored, also after an error and after the user's stop.
OutputKept ==
  \A s \in Streams :
    (/\ fin[s].pc = "done"
     /\ len[s] > 0
     /\ ~CancelledBy(s, {"mark"})
     /\ s \notin expired
     /\ faults = 0) => reply[s] # Null

\* The snapshot a client reads after a normal end is the stored message: no
\* progress write lands on it (a withheld reply does not come back).
SnapshotIsReply ==
  \A s \in Streams :
    (/\ session[s] # Null
     /\ session[s].status = "completed"
     /\ gen[s] = "done"
     /\ ~CancelledBy(s, {"mark"})) => session[s].text = reply[s]

\* While a reply grows, the text in Redis never gets shorter: progress writes
\* do not overtake each other, not even when one is retried; only a stop that
\* marks the session itself may bring back the text it has read.
TextGrows ==
  [][\A s \in Streams :
       (/\ session[s] # Null /\ session'[s] # Null
        /\ gen[s] \in {"running", "done"} /\ reply[s] = Null
        /\ ~CancelledBy(s, {"mark"}))
         => session'[s].text.len >= session[s].text.len]_<<session, gen, reply, cancel>>

\* A client that does not leave is told, at the latest when the keys expire,
\* that the stream is over, whatever was lost in a crash.
ObserverReleased ==
  \A o \in Observers :
    observer[o].st = "watching" ~> observer[o].st # "watching"

-----------------------------------------------------------------------------
(* The abstract specification, and how it is implemented.                  *)

Lost(s) == gen[s] = "lost" \/ fin[s].pc = "lost"

PromisePhase(s) ==
  CASE Lost(s) \/ fin[s].pc = "done" \/ reply[s] # Null -> "settled"
    [] gen[s] \in {"absent", "creating", "rejected"}    -> "idle"
    [] gen[s] = "running"                               -> "open"
    [] OTHER                                            -> gen[s]

Promise == INSTANCE ReplyPromise
  WITH phase  <- [s \in Streams |-> PromisePhase(s)],
       sent   <- len,
       answer <- reply

\* Whatever sessions, writes, stops, failures and crashes do, a stream is settled
\* once, with all the model had sent and the marker of how it ended, or without
\* a message, and is left alone from then on.
KeepsPromise == Promise!Spec

\* And it is settled: models end, and so do the finalizers.
SettlesAsPromised == Promise!FairSpec

\* What makes the steps correspond: a finalizer is started by the end of its stream and
\* knows how that ended, stores what was sent by then, and no stream that is set
\* up or running has been asked to stop.
SetUp(s) == gen[s] \in {"absent", "creating", "running"}
FinalizedAsEnded(s) ==
  /\ fin[s].pc # "idle" <=> gen[s] \in {"done", "error", "stopped"}
  /\ fin[s].pc # "idle" => (fin[s].stopped <=> gen[s] = "stopped")
  /\ fin[s].pc \in {"store", "touch", "progress"} => fin[s].text \in FinalTexts(s)
  /\ s \in cancelled => ~SetUp(s)
PromiseInv ==
  /\ \A s \in Streams : FinalizedAsEnded(s)
  /\ \A c \in Cancels : cancel[c].st # "idle" => Known(cancel[c].stream)

\* And what makes ReplyFaithful inductive: a stored message stays what the finalizer
\* resolved, and a stopped stream has the request that stopped it.
ReplyInv ==
  /\ \A s \in Streams : reply[s] # Null => reply[s] \in FinalTexts(s)
  /\ \A s \in Streams : gen[s] = "stopped" => CancelledBy(s, {"stop"})
  /\ \A c \in Cancels :
       cancel[c].st \in {"idle", "reading"} => cancel[c].how = "nothing"

-----------------------------------------------------------------------------
(* What comments and summaries in the code say, which the code does not do. *)

\* conversation-stream.service.ts:214: a stop by the user keeps what was
\* output.  A stop that arrives while the finalizer is at work marks the
\* session first, and the finalizer then stores nothing.
CancelPersistsOutput ==
  \A c \in Cancels :
    LET s == cancel[c].stream IN
    (/\ cancel[c].how # "nothing"
     /\ cancel[c].st = "done"
     /\ fin[s].pc = "done"
     /\ len[s] > 0) => reply[s] # Null

\* conversation-stream.service.ts:190: the poll notices the end from Redis.
\* Two updates from one snapshot save the same sequence number, and a final
\* status that comes second under a number already seen is not emitted.
ObserverToldOfEnd ==
  \A o \in Observers :
    LET s == observer[o].stream IN
    (/\ observer[o].sawEnd
     /\ fin[s].pc = "done"
     /\ call[FailOf(s)] = Idle
     /\ \A c \in Cancels : call[CancelOf(c)] = Idle)
      => observer[o].st # "watching"

\* conversation.controller.ts:173: the snapshot of the stream in progress.
\* The pointer is deleted by whichever stream of the conversation ends.
RunningStreamIsActive ==
  \A s \in Streams :
    (/\ gen[s] = "running"
     /\ session[s] # Null
     /\ session[s].status = "generating") => ActiveSession(KeyOf[s]) # Null

=============================================================================
