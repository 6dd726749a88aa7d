----------------------------- MODULE ProviderStream -----------------------------
(***************************************************************************)
(* OllamaProvider.streamChat and, around it, AiService.streamChat, which    *)
(* with skipCache (every caller's choice) relays notification by            *)
(* notification and unsubscribes its own subscription when it is dropped.   *)
(*                                                                         *)
(* A run has at most one such stream.  What it reads is abstracted to what  *)
(* decides its end: whether some text came ("heard"), the model's line      *)
(* with done, the end of the body without one, a broken connection, and the *)
(* timer of OLLAMA_STREAM_TIMEOUT_MS.  Where the code sets "aborted" and    *)
(* aborts, the rejection is handled before any other event, so TimeOut is   *)
(* one step; so is an HTTP error with the reading of its text.             *)
(***************************************************************************)
CONSTANT Runs

VARIABLES
  feed,     \* of every run: what its subscriber has been sent
  conn,     \* of every run: the fetch of its stream
  timer,    \* of every run: is timeoutTimer set?
  heard     \* of every run: is thinking or response not empty?

streamVars == <<conn, timer, heard>>

Source == INSTANCE AnswerSource WITH Runs <- Runs, feed <- feed

StreamTypeOK ==
  /\ feed \in [Runs -> Source!Feed]
  /\ conn \in [Runs -> {"none", "requesting", "reading", "closed"}]
  /\ timer \in [Runs -> BOOLEAN]
  /\ heard \in [Runs -> BOOLEAN]

StreamInit ==
  /\ Source!Init
  /\ conn = [r \in Runs |-> "none"]
  /\ timer = [r \in Runs |-> FALSE]
  /\ heard = [r \in Runs |-> FALSE]

Connected(r) == conn[r] \in {"requesting", "reading"}

-----------------------------------------------------------------------------
(* An rxjs subscriber: once it is closed, it ignores what it is sent.      *)

IfOpen(f, sent) == IF f.state = "open" THEN sent ELSE f

SendText(f) == IfOpen(f, [f EXCEPT !.text = TRUE])
SendDone(f) == IfOpen(f, [f EXCEPT !.done = TRUE])
Complete(f) == IfOpen(f, [f EXCEPT !.state = "completed"])
Error(f)    == IfOpen(f, [f EXCEPT !.state = "failed"])

-----------------------------------------------------------------------------

\* The subscription: the timer is set and the request sent.
OpenStream(r) ==
  /\ conn' = [conn EXCEPT ![r] = "requesting"]
  /\ timer' = [timer EXCEPT ![r] = TRUE]
  /\ UNCHANGED heard

\* Its end, whichever way: finally() or the teardown clears the timer.
CloseStream(r) ==
  /\ conn' = [conn EXCEPT ![r] = "closed"]
  /\ timer' = [timer EXCEPT ![r] = FALSE]
  /\ UNCHANGED heard

\* Mutant: the teardown aborts, and leaves the timer to itself.
DropStreamNoClear(r) ==
  IF Connected(r) THEN conn' = [conn EXCEPT ![r] = "closed"] /\ UNCHANGED <<timer, heard>>
                  ELSE UNCHANGED streamVars

\* The teardown on unsubscription: it aborts the fetch if there is one.
DropStream(r) ==
  IF Connected(r) THEN CloseStream(r) ELSE UNCHANGED streamVars

\* The headers arrive, with status ok and a body.
Responds(r) ==
  /\ conn[r] = "requesting"
  /\ conn' = [conn EXCEPT ![r] = "reading"]
  /\ UNCHANGED <<feed, timer, heard>>

\* A refused connection, an HTTP error, or a response without a body.
Rejected(r) ==
  /\ conn[r] = "requesting"
  /\ CloseStream(r)
  /\ feed' = [feed EXCEPT ![r] = Error(@)]

\* A line with text.  Lines that are not JSON, or carry nothing, are skipped.
ReadText(r) ==
  /\ conn[r] = "reading"
  /\ heard' = [heard EXCEPT ![r] = TRUE]
  /\ feed' = [feed EXCEPT ![r] = SendText(@)]
  /\ UNCHANGED <<conn, timer>>

\* The model's line with done; what follows it in the chunk is not read.
ReadDone(r) ==
  /\ conn[r] = "reading"
  /\ CloseStream(r)
  /\ feed' = [feed EXCEPT ![r] = Complete(SendDone(@))]

\* Mutant: the end of the body is completion enough.
ReadEndNoDone(r) ==
  /\ conn[r] = "reading"
  /\ CloseStream(r)
  /\ feed' = [feed EXCEPT ![r] = Complete(@)]

\* The body ends without that line: the provider sends the done itself.
ReadEnd(r) ==
  /\ conn[r] = "reading"
  /\ CloseStream(r)
  /\ feed' = [feed EXCEPT ![r] = Complete(SendDone(@))]

\* The connection breaks: an answer if anything was read, else an error.
ReadFails(r) ==
  /\ conn[r] = "reading"
  /\ CloseStream(r)
  /\ feed' = [feed EXCEPT ![r] = IF heard[r] THEN Complete(SendDone(@))
                                             ELSE Error(@)]

\* The timer: an AbortError, whatever was read.
TimeOut(r) ==
  /\ timer[r]
  /\ CloseStream(r)
  /\ feed' = [feed EXCEPT ![r] = Error(@)]

StreamStep(r) ==
  \/ Responds(r)
  \/ Rejected(r)
  \/ ReadText(r)
  \/ ReadDone(r)
  \/ ReadEnd(r)
  \/ ReadFails(r)
  \/ TimeOut(r)
=============================================================================
