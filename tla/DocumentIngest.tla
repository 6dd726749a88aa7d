----------------------------- MODULE DocumentIngest -----------------------------
(***************************************************************************)
(* The documents of one knowledge base, their chunks in the database and   *)
(* the vectors of the chunks in Qdrant: what the requests of               *)
(* KnowledgeBaseController and the jobs of IngestProcessor do to them.     *)
(*                                                                         *)
(* Neither store knows of the other and no operation spans both, so every  *)
(* operation is a step of its own, after any of which the request or the   *)
(* job may fail or the process may end.  BullMQ runs one job at a time (the *)
(* concurrency of a worker is 1), tries it Attempts times, and gives one    *)
(* whose worker disappeared (a stalled job) back to the queue once.        *)
(*                                                                         *)
(* Not modelled: permissions (a request that is refused fails); the file,  *)
(* which is never removed; several application processes; a job that stalls *)
(* while its process is alive.                                             *)
(***************************************************************************)
EXTENDS Naturals, FiniteSets

CONSTANTS
  Docs,          \* the documents that may be uploaded
  Requests,      \* the requests that may be in progress
  Attempts,      \* attempts of a job
  Pieces,        \* how many pieces a document is split into
  MaxJobs,       \* how many jobs are ever queued
  MaxIds,        \* how many ids of chunks are in use at a time
  MaxFaults      \* how many updates of a status fail and how many times the
                 \* process ends, together

ASSUME AttemptsAssumption == Attempts \in Nat \ {0}
ASSUME PiecesAssumption == Pieces \in [Docs -> Nat]
ASSUME BoundsAssumption ==
  MaxJobs \in Nat /\ MaxIds \in Nat /\ MaxFaults \in Nat

VARIABLES
  kb,            \* whether the knowledge base exists
  doc,           \* the rows of the documents
  chunks,        \* the rows of the chunks
  vectors,       \* the points in Qdrant
  job,           \* the jobs
  worker,        \* the job being processed
  req,           \* the requests
  faults,        \* how many updates of a status have failed
  crashes,       \* how many times the process has ended
  touched,       \* history: documents a removal was begun of, until an ingest
                 \* begins that no removal is in progress beside
  overlapped     \* history: documents that were ingested while being removed

stores == <<kb, doc, chunks, vectors>>
vars == <<stores, job, worker, req, faults, crashes, touched, overlapped>>

Statuses == {"pending", "processing", "ready", "failed"}

\* status is "none" before the upload and "removed" after the removal.
Document == [status : Statuses \cup {"none", "removed"}, count : Nat]

\* A row of Chunk, and the point in Qdrant with its id and its document; piece says
\* which one of the document it holds.
Chunk == [id : 1 .. MaxIds, doc : Docs, piece : Nat]

JobIds == 1 .. MaxJobs
Job == [st : {"none", "waiting", "active", "completed", "failed"}, doc : Docs,
        attempts : 0 .. Attempts, stalls : 0 .. 2]

\* Where the job being processed is: the operation it waits for.  old: the
\* chunks it found; made: how many it has created; last: the last of these.
WorkerPoints == {"idle", "mark", "old", "vectors", "rows", "count", "chunk",
                 "upsert", "ready", "catch", "complete", "fail"}
Worker == [job : 0 .. MaxJobs, pc : WorkerPoints, old : SUBSET Chunk,
           made : Nat, last : SUBSET Chunk]
NoWork == [job |-> 0, pc |-> "idle", old |-> {}, made |-> 0, last |-> {}]

\* The requests: upload and reindexing end in "enqueue"; the removal of a document
\* goes from "vectors" to "delete", that of the knowledge base ends in "kb".
RequestPoints == {"idle", "enqueue", "vectors", "rows", "count", "delete", "kb"}
Removals == {"vectors", "rows", "count", "delete"}
Request == [pc : RequestPoints, doc : Docs, old : SUBSET Chunk]

Init ==
  /\ kb = TRUE
  /\ doc = [d \in Docs |-> [status |-> "none", count |-> 0]]
  /\ chunks = {} /\ vectors = {}
  /\ \E d \in Docs :
       /\ job = [j \in JobIds |->
            [st |-> "none", doc |-> d, attempts |-> 0, stalls |-> 0]]
       /\ req = [r \in Requests |-> [pc |-> "idle", doc |-> d, old |-> {}]]
  /\ worker = NoWork
  /\ faults = 0 /\ crashes = 0 /\ touched = {} /\ overlapped = {}

-----------------------------------------------------------------------------
(* Helpers.                                                                *)

Exists(d) == doc[d].status \in Statuses
ChunksOf(d) == {c \in chunks : c.doc = d}

Removing(d) ==
  \E r \in Requests : \/ req[r].pc \in Removals /\ req[r].doc = d
                      \/ req[r].pc = "kb"
Target == job[worker.job].doc
Ingesting(d) == worker.job # 0 /\ Target = d

\* document.update: it throws when there is no such row.
SetStatus(d, status) == doc' = [doc EXCEPT ![d].status = status]

-----------------------------------------------------------------------------
(* The requests.                                                           *)

jobOthers == <<worker, faults, crashes>>

Goes(r, pc) == req' = [req EXCEPT ![r].pc = pc]
Ends(r) == req' = [req EXCEPT ![r] = [@ EXCEPT !.pc = "idle", !.old = {}]]

\* createDocument
Upload(r, d) ==
  /\ req[r].pc = "idle"
  /\ kb
  /\ doc[d].status = "none"
  /\ SetStatus(d, "pending")
  /\ req' = [req EXCEPT ![r].pc = "enqueue", ![r].doc = d]
  /\ UNCHANGED <<kb, chunks, vectors, job, touched, jobOthers>>

\* assertDocumentBelongsToKb
Reindex(r, d) ==
  /\ req[r].pc = "idle"
  /\ Exists(d)
  /\ req' = [req EXCEPT ![r].pc = "enqueue", ![r].doc = d]
  /\ UNCHANGED <<stores, job, touched, jobOthers>>

Enqueue(r) ==
  /\ req[r].pc = "enqueue"
  /\ \E j \in JobIds :
       /\ job[j].st = "none"
       /\ \A i \in 1 .. j - 1 : job[i].st # "none"
       /\ job' = [job EXCEPT ![j] =
            [st |-> "waiting", doc |-> req[r].doc, attempts |-> 0, stalls |-> 0]]
  /\ Ends(r)
  /\ UNCHANGED <<stores, touched, jobOthers>>

\* Mutant: the row alone is removed.
RemoveDocumentRow(r, d) ==
  /\ req[r].pc = "idle"
  /\ doc[d].status # "none"
  /\ req' = [req EXCEPT ![r].pc = "delete", ![r].doc = d]
  /\ touched' = touched \cup {d}
  /\ UNCHANGED <<stores, job, jobOthers>>

\* removeDocument begins with deleteDocumentVectors, whatever the document, and that
\* with the chunks it finds.
RemoveDocument(r, d) ==
  /\ req[r].pc = "idle"
  /\ doc[d].status # "none"
  /\ req' = [req EXCEPT ![r] = [pc |-> "vectors", doc |-> d, old |-> ChunksOf(d)]]
  /\ touched' = touched \cup {d}
  /\ UNCHANGED <<stores, job, jobOthers>>

DeleteVectors(r) ==
  /\ req[r].pc = "vectors"
  /\ vectors' = vectors \ req[r].old
  /\ Goes(r, "rows")
  /\ UNCHANGED <<kb, doc, chunks, job, touched, jobOthers>>

DeleteRows(r) ==
  /\ req[r].pc = "rows"
  /\ chunks' = chunks \ ChunksOf(req[r].doc)
  /\ Goes(r, "count")
  /\ UNCHANGED <<kb, doc, vectors, job, touched, jobOthers>>

ResetCount(r) ==
  /\ req[r].pc = "count"
  /\ Exists(req[r].doc)
  /\ doc' = [doc EXCEPT ![req[r].doc].count = 0]
  /\ Goes(r, "delete")
  /\ UNCHANGED <<kb, chunks, vectors, job, touched, jobOthers>>

\* The row goes, and with it the chunks that have appeared meanwhile.
DeleteDocument(r) ==
  /\ req[r].pc = "delete"
  /\ Exists(req[r].doc)
  /\ SetStatus(req[r].doc, "removed")
  /\ chunks' = chunks \ ChunksOf(req[r].doc)
  /\ Ends(r)
  /\ UNCHANGED <<kb, vectors, job, touched, jobOthers>>

\* DELETE :id, the knowledge base itself, begins with all its vectors.
DeleteKbVectors == vectors' = {}
RemoveKnowledgeBase(r) ==
  /\ req[r].pc = "idle"
  /\ DeleteKbVectors
  /\ Goes(r, "kb")
  /\ touched' = Docs
  /\ UNCHANGED <<kb, doc, chunks, job, jobOthers>>

\* The row goes, and with it the documents and their chunks.
DeleteKb(r) ==
  /\ req[r].pc = "kb"
  /\ kb
  /\ kb' = FALSE
  /\ doc' = [d \in Docs |-> IF Exists(d) THEN [doc[d] EXCEPT !.status = "removed"]
                                         ELSE doc[d]]
  /\ chunks' = {}
  /\ Ends(r)
  /\ UNCHANGED <<vectors, job, touched, jobOthers>>

\* The request is refused, or an operation of it fails.
RequestFails(r) ==
  /\ req[r].pc # "idle"
  /\ Ends(r)
  /\ UNCHANGED <<stores, job, touched, jobOthers>>

Handle(r) ==
  \/ Enqueue(r) \/ DeleteVectors(r) \/ DeleteRows(r) \/ ResetCount(r)
  \/ DeleteDocument(r) \/ DeleteKb(r)
  \/ RequestFails(r)

-----------------------------------------------------------------------------
(* ingestDocument.                                                         *)

workOthers == <<req, crashes>>

Works(pc) == worker' = [worker EXCEPT !.pc = pc]

Take(j) ==
  /\ worker.pc = "idle"
  /\ job[j].st = "waiting"
  /\ job' = [job EXCEPT ![j].st = "active"]
  /\ worker' = [NoWork EXCEPT !.job = j, !.pc = "mark"]
  /\ UNCHANGED <<stores, faults, touched, workOthers>>

\* findUnique and update: a document that is gone fails the attempt before the
\* try block, whichever of the two finds out.
MarkProcessing ==
  /\ worker.pc = "mark"
  /\ IF Exists(Target) THEN SetStatus(Target, "processing") /\ Works("old")
                       ELSE UNCHANGED doc /\ Works("fail")
  /\ UNCHANGED <<kb, chunks, vectors, job, faults, touched, workOthers>>

\* deleteDocumentVectors, as the requests do it.
WorkFindOld ==
  /\ worker.pc = "old"
  /\ worker' = [worker EXCEPT !.pc = "vectors", !.old = ChunksOf(Target)]
  /\ touched' = IF Removing(Target) THEN touched ELSE touched \ {Target}
  /\ UNCHANGED <<stores, job, faults, workOthers>>

WorkDeleteVectors ==
  /\ worker.pc = "vectors"
  /\ vectors' = vectors \ worker.old
  /\ worker' = [worker EXCEPT !.pc = "rows", !.old = {}]
  /\ UNCHANGED <<kb, doc, chunks, job, faults, touched, workOthers>>

\* Mutant: only the first attempt clears what is there.
WorkDeleteRowsOnce ==
  /\ worker.pc = "rows"
  /\ chunks' = IF job[worker.job].attempts = 0 THEN chunks \ ChunksOf(Target) ELSE chunks
  /\ Works("count")
  /\ UNCHANGED <<kb, doc, vectors, job, faults, touched, workOthers>>

WorkDeleteRows ==
  /\ worker.pc = "rows"
  /\ chunks' = chunks \ ChunksOf(Target)
  /\ Works("count")
  /\ UNCHANGED <<kb, doc, vectors, job, faults, touched, workOthers>>

\* What follows, reading, splitting and embedding the file, changes nothing: then
\* comes the next piece, if there is one.
NextPiece(made) == IF made < Pieces[Target] THEN "chunk" ELSE "ready"
WorkResetCount ==
  /\ worker.pc = "count"
  /\ IF Exists(Target)
     THEN doc' = [doc EXCEPT ![Target].count = 0] /\ Works(NextPiece(0))
     ELSE UNCHANGED doc /\ Works("catch")
  /\ UNCHANGED <<kb, chunks, vectors, job, faults, touched, workOthers>>

\* chunk.create: it throws when the document is gone.  An id nothing refers to
\* any more stands for the next one of the database.
InUse == chunks \cup vectors \cup worker.old \cup UNION {req[r].old : r \in Requests}
NewId(id) ==
  /\ \A c \in InUse : c.id # id
  /\ \A i \in 1 .. id - 1 : \E c \in InUse : c.id = i
CreateChunk ==
  /\ worker.pc = "chunk"
  /\ IF Exists(Target)
     THEN \E id \in 1 .. MaxIds :
            /\ NewId(id)
            /\ LET c == [id |-> id, doc |-> Target, piece |-> worker.made] IN
                 /\ chunks' = chunks \cup {c}
                 /\ worker' = [worker EXCEPT !.pc = "upsert", !.last = {c}]
     ELSE Works("catch") /\ UNCHANGED chunks
  /\ UNCHANGED <<kb, doc, vectors, job, faults, touched, workOthers>>

UpsertChunk ==
  /\ worker.pc = "upsert"
  /\ vectors' = vectors \cup worker.last
  /\ worker' = [worker EXCEPT !.made = @ + 1, !.last = {},
                              !.pc = NextPiece(worker.made + 1)]
  /\ UNCHANGED <<kb, doc, chunks, job, faults, touched, workOthers>>

MarkReady ==
  /\ worker.pc = "ready"
  /\ IF Exists(Target)
     THEN /\ doc' = [doc EXCEPT ![Target] = [status |-> "ready", count |-> worker.made]]
          /\ Works("complete")
     ELSE UNCHANGED doc /\ Works("catch")
  /\ UNCHANGED <<kb, chunks, vectors, job, faults, touched, workOthers>>

\* Anything in the try block fails.
WorkFails ==
  /\ worker.pc \in {"old", "vectors", "rows", "count", "chunk", "upsert", "ready"}
  /\ Works("catch")
  /\ UNCHANGED <<stores, job, faults, touched, workOthers>>

\* Mutant: back to pending, for the next attempt.
MarkFailedPending ==
  /\ worker.pc = "catch"
  /\ IF Exists(Target) THEN SetStatus(Target, "pending") ELSE UNCHANGED doc
  /\ Works("fail")
  /\ UNCHANGED <<kb, chunks, vectors, job, faults, touched, workOthers>>

\* The update in the catch block throws too when the document is gone.
MarkFailed ==
  /\ worker.pc = "catch"
  /\ IF Exists(Target) THEN SetStatus(Target, "failed") ELSE UNCHANGED doc
  /\ Works("fail")
  /\ UNCHANGED <<kb, chunks, vectors, job, faults, touched, workOthers>>

\* The database fails outside the try block.
MarkFails ==
  /\ worker.pc \in {"mark", "catch"}
  /\ faults + crashes < MaxFaults
  /\ faults' = faults + 1
  /\ Works("fail")
  /\ UNCHANGED <<stores, job, touched, workOthers>>

-----------------------------------------------------------------------------
(* BullMQ.                                                                 *)

Complete ==
  /\ worker.pc = "complete"
  /\ job' = [job EXCEPT ![worker.job].st = "completed"]
  /\ worker' = NoWork
  /\ UNCHANGED <<stores, faults, touched, workOthers>>

AttemptFails ==
  /\ worker.pc = "fail"
  /\ LET n == job[worker.job].attempts + 1 IN
     job' = [job EXCEPT ![worker.job] =
       [@ EXCEPT !.attempts = n, !.st = IF n < Attempts THEN "waiting" ELSE "failed"]]
  /\ worker' = NoWork
  /\ UNCHANGED <<stores, faults, touched, workOthers>>

\* A job whose worker has disappeared: maxStalledCount is 1.
Stalled(j) ==
  /\ job[j].st = "active"
  /\ worker.job # j
  /\ job' = [job EXCEPT ![j] =
       [@ EXCEPT !.stalls = job[j].stalls + 1,
                 !.st = IF job[j].stalls = 0 THEN "waiting" ELSE "failed"]]
  /\ UNCHANGED <<stores, worker, faults, touched, workOthers>>

Work ==
  \/ \E j \in JobIds : Take(j)
  \/ MarkProcessing \/ WorkFindOld \/ WorkDeleteVectors \/ WorkDeleteRows
  \/ WorkResetCount \/ CreateChunk \/ UpsertChunk \/ MarkReady \/ WorkFails
  \/ MarkFailed \/ MarkFails \/ Complete \/ AttemptFails

\* The process ends and starts again.
Crash ==
  /\ faults + crashes < MaxFaults
  /\ crashes' = crashes + 1
  /\ worker' = NoWork
  /\ req' = [r \in Requests |-> [req[r] EXCEPT !.pc = "idle", !.old = {}]]
  /\ UNCHANGED <<stores, job, faults, touched>>

Step ==
  \/ \E r \in Requests :
       \/ \E d \in Docs : Upload(r, d) \/ Reindex(r, d) \/ RemoveDocument(r, d)
       \/ RemoveKnowledgeBase(r) \/ Handle(r)
  \/ Work
  \/ \E j \in JobIds : Stalled(j)
  \/ Crash

Next ==
  /\ Step
  /\ overlapped' = overlapped \cup {d \in Docs : Removing(d)' /\ Ingesting(d)'}

Spec == Init /\ [][Next]_vars

-----------------------------------------------------------------------------
(* Properties.                                                             *)

TypeOK ==
  /\ kb \in BOOLEAN
  /\ doc \in [Docs -> Document]
  /\ chunks \subseteq Chunk
  /\ vectors \subseteq Chunk
  /\ job \in [JobIds -> Job]
  /\ worker \in Worker
  /\ req \in [Requests -> Request]
  /\ faults \in 0 .. MaxFaults
  /\ crashes \in 0 .. MaxFaults
  /\ touched \subseteq Docs
  /\ overlapped \subseteq Docs

\* What makes it inductive: a job that runs has attempts and stalls left.
JobsBounded ==
  /\ \A j \in JobIds :
       job[j].st \in {"waiting", "active"} => job[j].attempts < Attempts /\ job[j].stalls < 2
  /\ worker.pc # "idle" => worker.job \in JobIds /\ job[worker.job].st = "active"
  /\ worker.pc = "idle" => worker.job = 0
TypeInv == TypeOK /\ JobsBounded

\* These rows hold the first n pieces of a document, one each, and have their vectors.
Indexed(rows, n) ==
  /\ rows \subseteq vectors
  /\ {c.piece : c \in rows} = 0 .. n - 1
  /\ IsFiniteSet(rows) /\ Cardinality(rows) = n

\* A document that says ready can be found whole: one chunk of every piece, with
\* its vector, and as many as chunkCount says, however many attempts, crashes and
\* reindexings came before; unless a removal was begun since (and failed).
ReadyIsIndexed ==
  \A d \in Docs : doc[d].status = "ready" /\ d \notin touched =>
    Indexed(ChunksOf(d), Pieces[d]) /\ doc[d].count = Pieces[d]

\* What makes it inductive: a removal in progress is noted and deletes vectors of its
\* own document only; while a job is at it the document does not say ready, and what it
\* has made so far is there.
RemovalNoted(r) ==
  /\ req[r].pc \in Removals => req[r].doc \in touched
  /\ req[r].pc = "kb" => touched = Docs
  /\ req[r].pc = "vectors" => \A c \in req[r].old : c.doc = req[r].doc
WorkCounts ==
  /\ worker.pc \in {"mark", "old", "vectors", "rows", "count"} => worker.made = 0
  /\ worker.pc \in {"chunk", "upsert"} => worker.made < Pieces[Target]
  /\ worker.pc = "ready" => worker.made = Pieces[Target]
  /\ worker.pc \notin {"upsert", "catch", "fail"} => worker.last = {}
  /\ worker.pc = "vectors" => \A c \in worker.old : c.doc = Target
WorkIndexes ==
  /\ worker.pc \notin {"idle", "mark", "complete", "fail"} => doc[Target].status # "ready"
  /\ worker.pc = "count" => ChunksOf(Target) = {}
  /\ worker.pc \in {"chunk", "upsert", "ready"} /\ Target \notin touched =>
       Indexed(ChunksOf(Target) \ worker.last, worker.made)
  /\ worker.pc = "upsert" /\ Target \notin touched =>
       \E c \in ChunksOf(Target) : worker.last = {c} /\ c.piece = worker.made
ReadyInv ==
  /\ ReadyIsIndexed
  /\ \A r \in Requests : RemovalNoted(r)
  /\ WorkCounts /\ WorkIndexes

\* At no time is a vector left without the row that the next ingest or removal
\* finds it by, but where a document is removed while it is ingested.
OrphansOnlyByOverlap ==
  \A c \in vectors : c \in chunks \/ c.doc \in overlapped

\* What makes it inductive: once the vectors of a document are deleted there are
\* none of it, but for those a job adds meanwhile.
NoVectors(d, but) == \A c \in vectors : c.doc = d => c \in but \/ d \in overlapped
OverlapsNoted == \A d \in Docs : Removing(d) /\ Ingesting(d) => d \in overlapped
RemovalClears(r) ==
  /\ req[r].pc = "vectors" => NoVectors(req[r].doc, req[r].old)
  /\ req[r].pc \in {"rows", "count", "delete"} => NoVectors(req[r].doc, {})
  /\ req[r].pc = "kb" => \A d \in Docs : NoVectors(d, {})
RemovalsClear == \A r \in Requests : RemovalClears(r)
WorkClears ==
  /\ worker.pc = "vectors" => NoVectors(Target, worker.old)
  /\ worker.pc = "rows" => NoVectors(Target, {})
  /\ worker.pc = "upsert" =>
       \A c \in worker.last : c.doc = Target /\ (c \in chunks \/ Target \in overlapped)
OrphansInv == OrphansOnlyByOverlap /\ OverlapsNoted /\ RemovalsClear /\ WorkClears

\* With no job left to run, a document has its outcome: none stays pending or
\* processing, unless an update of its status failed or BullMQ gave its job up.
Queued(d) == \E j \in JobIds : job[j].doc = d /\ job[j].st # "none"
Under(d) == \E j \in JobIds : job[j].doc = d /\ job[j].st \in {"waiting", "active"}
GivenUp(d) == \E j \in JobIds : job[j].doc = d /\ job[j].stalls > 1
Outcome(d) == doc[d].status \in {"ready", "failed", "removed"}
SettledHasOutcome ==
  \A d \in Docs :
    Queued(d) /\ ~Under(d) /\ ~GivenUp(d) /\ faults = 0 => Outcome(d)

\* What makes it inductive: only a document that was uploaded has jobs, and one whose
\* job is about to end has its outcome.
JobsKnown ==
  /\ \A j \in JobIds : IF job[j].st = "none" THEN job[j].stalls = 0
                                             ELSE doc[job[j].doc].status # "none"
  /\ \A r \in Requests : req[r].pc = "enqueue" => doc[req[r].doc].status # "none"
  /\ worker.pc = "complete" \/ (worker.pc = "fail" /\ faults = 0) => Outcome(Target)
OutcomeInv == SettledHasOutcome /\ JobsKnown

-----------------------------------------------------------------------------
(* What a comment in the code says, which the code does not do.            *)

\* knowledge-base.controller.ts:148: the queue is persistent, a restart of the
\* process loses no task.  The second restart during one job does.
RestartLosesNoTask ==
  \A d \in Docs : Queued(d) /\ ~Under(d) /\ faults = 0 => Outcome(d)

=============================================================================
