---------------------------- MODULE StreamSession ----------------------------
(***************************************************************************)
(* The stream sessions kept in Redis by StreamSessionService:              *)
(*   stream:session:<streamId>           the session record, and           *)
(*   stream:active:<userId>:<convId>     the stream to resume there.       *)
(*                                                                         *)
(* Every public method is a read-modify-write over several Redis commands  *)
(* (GET, then MULTI SET SET EXEC, then possibly DEL), with an await between *)
(* any two of them.  A call in progress is a record in `call`, which keeps *)
(* the snapshot it has read; its next command waits in `wire`.             *)
(*                                                                         *)
(* The process has one ioredis connection, so commands are executed, and   *)
(* their replies handled, in the order they were issued: `wire` is a FIFO. *)
(* Serving the head of the queue executes the command and runs the code up *)
(* to the call's next command.  What the caller does once a call is over   *)
(* is left to the caller, at any later time.                               *)
(*                                                                         *)
(* Not modelled: several application processes on the same Redis; thinking *)
(* and response are one text; userMessageContent and the time stamps.      *)
(***************************************************************************)
EXTENDS Naturals, Sequences

CONSTANTS
  Streams,     \* stream ids
  Keys,        \* (user, conversation) pairs
  KeyOf,       \* the pair a stream was created for
  Callers,     \* the calls that may be in progress, by identity
  Expirable,   \* the streams whose keys may reach the end of their TTL
  MaxFaults,   \* how many Redis or database operations may fail
  Null         \* JavaScript's null, and an absent key

ASSUME KeyOfAssumption == KeyOf \in [Streams -> Keys]
ASSUME ExpirableAssumption == Expirable \subseteq Streams
ASSUME MaxFaultsAssumption == MaxFaults \in Nat

VARIABLES
  session,     \* the value under stream:session:<s>
  active,      \* the value under stream:active:<k>
  call,        \* the calls of the service in progress
  wire,        \* the commands sent and not answered, oldest first
  expired,     \* history: the streams whose keys have expired
  faults       \* how many operations have failed so far

sessionVars == <<session, active, call, wire, expired, faults>>

-----------------------------------------------------------------------------
(* Data.  A text is what it was made of: how many deltas of the model, and *)
(* the marker the finalizer appended, or "withheld" once moderation        *)
(* replaced it.                                                            *)

Statuses == {"generating", "completed", "failed", "interrupted"}
Marks == {"none", "stopped", "broken", "withheld"}
Text == [len : Nat, mark : Marks]
EmptyText == [len |-> 0, mark |-> "none"]

Session == [status : Statuses, text : Text, seq : Nat, error : BOOLEAN]
NewSession ==
  [status |-> "generating", text |-> EmptyText, seq |-> 0, error |-> FALSE]

\* null is no text, no record and no number.
ASSUME NullAssumption == Null \notin Text \cup Session \cup Streams \cup Nat

Ops == {"none", "create", "get", "progress", "mark"}
Stages == {"idle", "get", "save", "del", "back"}

Call == [op : Ops, stream : Streams \cup {Null}, text : Text,
         status : Statuses, error : BOOLEAN, stage : Stages,
         snap : Session \cup {Null}, ok : BOOLEAN]

Idle == [op |-> "none", stream |-> Null, text |-> EmptyText,
         status |-> "generating", error |-> FALSE, stage |-> "idle",
         snap |-> Null, ok |-> TRUE]

\* The calls, at their first command.
CreateCall(s) ==
  [Idle EXCEPT !.op = "create", !.stream = s, !.stage = "save"]
GetCall(s) ==
  [Idle EXCEPT !.op = "get", !.stream = s, !.stage = "get"]
ProgressCall(s, text) ==
  [Idle EXCEPT !.op = "progress", !.stream = s, !.stage = "get", !.text = text]
MarkCall(s, status, error) ==
  [Idle EXCEPT !.op = "mark", !.stream = s, !.stage = "get",
               !.status = status, !.error = error]

\* Mutant: markStatus starts the sequence again.
WrittenAnew(c) ==
  CASE c.op = "create"   -> NewSession
    [] c.op = "progress" -> [c.snap EXCEPT !.text = c.text, !.seq = @ + 1]
    [] OTHER             -> [c.snap EXCEPT !.status = c.status,
                                           !.error = c.error, !.seq = 0]

\* The record a call saves, made from the snapshot it has read.
Written(c) ==
  CASE c.op = "create"   -> NewSession
    [] c.op = "progress" -> [c.snap EXCEPT !.text = c.text, !.seq = @ + 1]
    [] OTHER             -> [c.snap EXCEPT !.status = c.status,
                                           !.error = c.error, !.seq = @ + 1]

\* saveSession: one transaction writes the record and the active pointer.
Save(s, record) ==
  /\ session' = [session EXCEPT ![s] = record]
  /\ active' = [active EXCEPT ![KeyOf[s]] = s]

\* getActiveSession, its two reads taken at one instant.
ActiveSession(k) ==
  IF /\ active[k] # Null
     /\ session[active[k]] # Null
     /\ session[active[k]].status = "generating"
  THEN active[k] ELSE Null

-----------------------------------------------------------------------------
(* What a caller does.                                                     *)

InFlight(t) == call[t].stage \in {"get", "save", "del"}
Back(t) == call[t].stage = "back"

\* Start call c under identity t, or the next one in place of one that is over.
Invoke(t, c) ==
  /\ call' = [call EXCEPT ![t] = c]
  /\ wire' = Append(wire, t)

\* Take the result of a call that is over.
Return(t) ==
  /\ call' = [call EXCEPT ![t] = Idle]
  /\ wire' = wire

-----------------------------------------------------------------------------
(* What Redis and the service do.                                          *)

Answer(t, snap, ok) ==
  /\ call' = [call EXCEPT ![t].stage = "back", ![t].snap = snap, ![t].ok = ok]
  /\ wire' = Tail(wire)

Continue(t, stage, snap) ==
  /\ call' = [call EXCEPT ![t].stage = stage, ![t].snap = snap]
  /\ wire' = Append(Tail(wire), t)

\* GET ends getSession, and the two updates when there is no session.
ServeLookup(t) ==
  /\ call[t].stage = "get"
  /\ call[t].op = "get" \/ session[call[t].stream] = Null
  /\ Answer(t, session[call[t].stream], TRUE)
  /\ UNCHANGED <<session, active, expired, faults>>

\* GET of an update that found its session.
ServeRead(t) ==
  /\ call[t].stage = "get"
  /\ call[t].op # "get"
  /\ session[call[t].stream] # Null
  /\ Continue(t, "save", session[call[t].stream])
  /\ UNCHANGED <<session, active, expired, faults>>

\* MULTI; markStatus goes on to DEL when the status is a final one.
ServeSave(t) ==
  /\ call[t].stage = "save"
  /\ Save(call[t].stream, Written(call[t]))
  /\ IF call[t].op = "mark" /\ call[t].status # "generating"
     THEN Continue(t, "del", Null)
     ELSE Answer(t, Null, TRUE)
  /\ UNCHANGED <<expired, faults>>

\* DEL of the active pointer, whichever stream it names by now.
ServeDel(t) ==
  /\ call[t].stage = "del"
  /\ active' = [active EXCEPT ![KeyOf[call[t].stream]] = Null]
  /\ Answer(t, Null, TRUE)
  /\ UNCHANGED <<session, expired, faults>>

\* The command is rejected, a transaction possibly after it was executed.
ServeFault(t) ==
  /\ faults < MaxFaults
  /\ faults' = faults + 1
  /\ InFlight(t)
  /\ \/ UNCHANGED <<session, active>>
     \/ call[t].stage = "save" /\ Save(call[t].stream, Written(call[t]))
  /\ Answer(t, Null, FALSE)
  /\ UNCHANGED expired

Serve ==
  /\ wire # <<>>
  /\ LET t == Head(wire) IN
       \/ ServeLookup(t)
       \/ ServeRead(t)
       \/ ServeSave(t)
       \/ ServeDel(t)
       \/ ServeFault(t)

\* Mutant: the pointer is saved without a TTL.
ExpireSession(s) ==
  /\ s \in Expirable
  /\ session[s] # Null
  /\ session' = [session EXCEPT ![s] = Null]
  /\ expired' = expired \cup {s}
  /\ UNCHANGED <<active, call, wire, faults>>

\* The TTL (SESSION_TTL_SECONDS) ends.  Both keys were last set by the same
\* transaction, if the pointer still names this stream.
Expire(s) ==
  /\ s \in Expirable
  /\ session[s] # Null
  /\ session' = [session EXCEPT ![s] = Null]
  /\ active' = [k \in Keys |-> IF active[k] = s THEN Null ELSE active[k]]
  /\ expired' = expired \cup {s}
  /\ UNCHANGED <<call, wire, faults>>

SessionInit ==
  /\ session = [s \in Streams |-> Null]
  /\ active = [k \in Keys |-> Null]
  /\ call = [t \in Callers |-> Idle]
  /\ wire = <<>>
  /\ expired = {}
  /\ faults = 0

-----------------------------------------------------------------------------
(* Properties.                                                             *)

SessionTypeOK ==
  /\ session \in [Streams -> Session \cup {Null}]
  /\ active \in [Keys -> Streams \cup {Null}]
  /\ call \in [Callers -> Call]
  /\ wire \in Seq(Callers)
  /\ expired \subseteq Streams
  /\ faults \in 0 .. MaxFaults

\* A call under way is about a stream, and has read what it is going to update.
WellFormed(c) ==
  c.stage \in {"get", "save", "del"} =>
    /\ c.stream \in Streams
    /\ c.stage = "save" /\ c.op # "create" => c.snap # Null

CallsWellFormed == \A t \in Callers : WellFormed(call[t])

\* A pointer to resume from never dangles: it names a stream of that user and
\* conversation whose session exists (saveSession sets both keys with one TTL).
PointerResolves ==
  \A k \in Keys : active[k] # Null =>
    /\ active[k] \in Streams
    /\ KeyOf[active[k]] = k
    /\ session[active[k]] # Null

\* The sequence number observers compare (emitSnapshotIfNew) never goes back,
\* although every update writes what it computed from an older snapshot:
\* commands are served in the order they were issued.
SeqNeverGoesBack ==
  [][\A s \in Streams :
       (session[s] # Null /\ session'[s] # Null)
         => session'[s].seq >= session[s].seq]_session

=============================================================================
