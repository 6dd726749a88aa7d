-------------------------- MODULE DocumentIngestProofs --------------------------
(***************************************************************************)
(* For any documents, requests, attempts and failures: the types; that a    *)
(* vector is left without its row only where a document is removed while it *)
(* is ingested; that no document is left without an outcome; that one that  *)
(* says ready is there as a whole; and, for any texts and options, that the *)
(* pieces of a text hold it, and with them the chunks of a ready document.  *)
(***************************************************************************)
EXTENDS DocumentText, RankingProofs, FiniteSetTheorems, TLAPS

-----------------------------------------------------------------------------
(* Types.                                                                  *)

\* What a request becomes.
LEMMA RequestGoes ==
  ASSUME TypeOK, NEW r \in Requests, NEW pc \in RequestPoints
  PROVE  Goes(r, pc) => req' \in [Requests -> Request]
  BY DEF TypeOK, Goes, Request

LEMMA RequestEnds ==
  ASSUME TypeOK, NEW r \in Requests
  PROVE  Ends(r) => req' \in [Requests -> Request]
PROOF
  <1>1. req[r] \in Request
    BY DEF TypeOK
  <1>2. [req[r] EXCEPT !.pc = "idle", !.old = {}] \in Request
    BY <1>1 DEF Request, RequestPoints
  <1> QED
    BY <1>2 DEF TypeOK, Ends

\* The types of documents.
LEMMA DocumentSet ==
  ASSUME TypeOK, NEW d \in Docs, NEW s \in Statuses \cup {"none", "removed"}
  PROVE  SetStatus(d, s) => doc' \in [Docs -> Document]
  BY DEF TypeOK, SetStatus, Document

LEMMA DocumentCounted ==
  ASSUME TypeOK, NEW d \in Docs
  PROVE  [doc EXCEPT ![d].count = 0] \in [Docs -> Document]
  BY DEF TypeOK, Document

\* A step of the worker that only changes where it is.
LEMMA WorkerWorks ==
  ASSUME TypeOK, NEW pc \in WorkerPoints
  PROVE  Works(pc) => /\ worker' \in Worker
                      /\ worker'.pc = pc /\ worker'.job = worker.job
                      /\ worker'.old = worker.old /\ worker'.made = worker.made
                      /\ worker'.last = worker.last
  BY DEF TypeOK, Works, Worker

\* The document of the job being processed.
LEMMA TargetType ==
  ASSUME TypeInv, worker.pc # "idle"
  PROVE  /\ worker.job \in JobIds /\ Target \in Docs
         /\ job[worker.job].st = "active" /\ job[worker.job] \in Job
  BY DEF TypeInv, TypeOK, JobsBounded, Target, Job

\* What comes after a piece.
LEMMA NextPieceType == \A made : NextPiece(made) \in {"chunk", "ready"}
  BY DEF NextPiece

LEMMA IdleWorker == NoWork \in Worker
  BY BoundsAssumption DEF NoWork, Worker, WorkerPoints

\* Nothing has been uploaded.
LEMMA TypeInit == Init => TypeInv
PROOF
  <1> SUFFICES ASSUME Init PROVE TypeInv
    OBVIOUS
  <1>1. PICK e \in Docs :
          /\ job = [j \in JobIds |->
               [st |-> "none", doc |-> e, attempts |-> 0, stalls |-> 0]]
          /\ req = [r \in Requests |-> [pc |-> "idle", doc |-> e, old |-> {}]]
    BY DEF Init
  <1>2. job \in [JobIds -> Job]
    BY <1>1, AttemptsAssumption DEF Job
  <1>3. req \in [Requests -> Request]
    BY <1>1 DEF Request, RequestPoints
  <1>4. doc \in [Docs -> Document]
    BY DEF Init, Document
  <1>5. worker \in Worker
    BY IdleWorker DEF Init
  <1>a. /\ kb \in BOOLEAN /\ chunks \subseteq Chunk /\ vectors \subseteq Chunk
        /\ touched \subseteq Docs /\ overlapped \subseteq Docs
    BY DEF Init
  <1>b. faults \in 0 .. MaxFaults /\ crashes \in 0 .. MaxFaults
    BY BoundsAssumption DEF Init
  <1>6. TypeOK
    BY <1>2, <1>3, <1>4, <1>5, <1>a, <1>b DEF TypeOK
  <1>7. JobsBounded
    BY <1>1 DEF Init, JobsBounded, NoWork
  <1> QED
    BY <1>6, <1>7 DEF TypeInv

\* A step of a request leaves the types of what it does not touch.
LEMMA RequestTypes ==
  ASSUME TypeInv,
         req' \in [Requests -> Request], kb' \in BOOLEAN,
         doc' \in [Docs -> Document], chunks' \subseteq Chunk, vectors' \subseteq Chunk,
         touched' \subseteq Docs, overlapped' \subseteq Docs,
         UNCHANGED <<job, worker, faults, crashes>>
  PROVE  TypeInv'
  BY DEF TypeInv, TypeOK, JobsBounded

\* So does a step of the worker that stays with its job.
LEMMA WorkTypes ==
  ASSUME TypeInv, worker.pc # "idle",
         worker' \in Worker, worker'.job = worker.job, worker'.pc # "idle",
         doc' \in [Docs -> Document], chunks' \subseteq Chunk, vectors' \subseteq Chunk,
         faults' \in 0 .. MaxFaults,
         touched' \subseteq Docs, overlapped' \subseteq Docs,
         UNCHANGED <<kb, job, req, crashes>>
  PROVE  TypeInv'
  BY DEF TypeInv, TypeOK, JobsBounded

\* The steps of the requests.
LEMMA TypeRequests ==
  ASSUME TypeInv, overlapped' \subseteq Docs, NEW r \in Requests,
         \/ \E d \in Docs : Upload(r, d) \/ Reindex(r, d) \/ RemoveDocument(r, d)
         \/ RemoveKnowledgeBase(r) \/ Handle(r)
  PROVE  TypeInv'
PROOF
  <1>0. /\ TypeOK /\ req[r] \in Request /\ req[r].doc \in Docs
        /\ \A d \in Docs : ChunksOf(d) \subseteq Chunk
    BY DEF TypeInv, TypeOK, Request, ChunksOf
  <1>1. ASSUME NEW d \in Docs, Upload(r, d) PROVE TypeInv'
    <2>1. doc' \in [Docs -> Document]
      BY <1>0, <1>1, DocumentSet DEF Upload, Statuses
    <2>2. req' \in [Requests -> Request]
      BY <1>0, <1>1 DEF Upload, TypeOK, Request, RequestPoints
    <2> QED
      BY <1>0, <1>1, <2>1, <2>2, RequestTypes DEF Upload, TypeOK, jobOthers
  <1>2. ASSUME NEW d \in Docs, Reindex(r, d) PROVE TypeInv'
    <2>1. req' \in [Requests -> Request]
      BY <1>0, <1>2 DEF Reindex, TypeOK, Request, RequestPoints
    <2> QED
      BY <1>0, <1>2, <2>1, RequestTypes DEF Reindex, TypeOK, jobOthers, stores
  <1>3. ASSUME NEW d \in Docs, RemoveDocument(r, d) PROVE TypeInv'
    <2>1. req' \in [Requests -> Request]
      <3>1. [pc |-> "vectors", doc |-> d, old |-> ChunksOf(d)] \in Request
        BY <1>0 DEF Request, RequestPoints
      <3> QED
        BY <1>0, <1>3, <3>1 DEF RemoveDocument, TypeOK
    <2> QED
      BY <1>0, <1>3, <2>1, RequestTypes DEF RemoveDocument, TypeOK, jobOthers, stores
  <1>4. ASSUME RemoveKnowledgeBase(r) PROVE TypeInv'
    <2>1. req' \in [Requests -> Request]
      BY <1>0, <1>4, RequestGoes DEF RemoveKnowledgeBase, RequestPoints
    <2> QED
      BY <1>0, <1>4, <2>1, RequestTypes
      DEF RemoveKnowledgeBase, DeleteKbVectors, TypeOK, jobOthers
  <1>5. ASSUME Enqueue(r) PROVE TypeInv'
    <2>1. req' \in [Requests -> Request]
      BY <1>0, <1>5, RequestEnds DEF Enqueue
    <2>2. PICK j \in JobIds :
            /\ job[j].st = "none"
            /\ job' = [job EXCEPT ![j] =
                 [st |-> "waiting", doc |-> req[r].doc, attempts |-> 0, stalls |-> 0]]
      BY <1>5 DEF Enqueue
    <2>3. [st |-> "waiting", doc |-> req[r].doc, attempts |-> 0, stalls |-> 0] \in Job
      BY <1>0, AttemptsAssumption DEF Job
    <2>4. job' \in [JobIds -> Job]
      BY <1>0, <2>2, <2>3 DEF TypeOK
    <2>5. UNCHANGED <<stores, touched, jobOthers>>
      BY <1>5 DEF Enqueue
    <2>6. JobsBounded'
      <3>1. \A i \in JobIds : i # j => job'[i] = job[i]
        BY <1>0, <2>2 DEF TypeOK
      <3>2. job'[j] = [st |-> "waiting", doc |-> req[r].doc, attempts |-> 0, stalls |-> 0]
        BY <1>0, <2>2 DEF TypeOK
      <3> QED
        BY <2>2, <2>5, <3>1, <3>2, AttemptsAssumption DEF TypeInv, JobsBounded, jobOthers
    <2> QED
      BY <1>0, <2>1, <2>4, <2>5, <2>6 DEF TypeInv, TypeOK, jobOthers, stores
  <1>6. ASSUME DeleteVectors(r) PROVE TypeInv'
    <2>1. req' \in [Requests -> Request]
      BY <1>0, <1>6, RequestGoes DEF DeleteVectors, RequestPoints
    <2> QED
      BY <1>0, <1>6, <2>1, RequestTypes DEF DeleteVectors, TypeOK, jobOthers
  <1>7. ASSUME DeleteRows(r) PROVE TypeInv'
    <2>1. req' \in [Requests -> Request]
      BY <1>0, <1>7, RequestGoes DEF DeleteRows, RequestPoints
    <2> QED
      BY <1>0, <1>7, <2>1, RequestTypes DEF DeleteRows, TypeOK, jobOthers
  <1>8. ASSUME ResetCount(r) PROVE TypeInv'
    <2>1. req' \in [Requests -> Request]
      BY <1>0, <1>8, RequestGoes DEF ResetCount, RequestPoints
    <2>2. doc' \in [Docs -> Document]
      BY <1>0, <1>8, DocumentCounted DEF ResetCount
    <2> QED
      BY <1>0, <1>8, <2>1, <2>2, RequestTypes DEF ResetCount, TypeOK, jobOthers
  <1>9. ASSUME DeleteDocument(r) PROVE TypeInv'
    <2>1. req' \in [Requests -> Request]
      BY <1>0, <1>9, RequestEnds DEF DeleteDocument
    <2>2. doc' \in [Docs -> Document]
      BY <1>0, <1>9, DocumentSet DEF DeleteDocument
    <2> QED
      BY <1>0, <1>9, <2>1, <2>2, RequestTypes DEF DeleteDocument, TypeOK, jobOthers
  <1>10. ASSUME DeleteKb(r) PROVE TypeInv'
    <2>1. req' \in [Requests -> Request]
      BY <1>0, <1>10, RequestEnds DEF DeleteKb
    <2>2. \A d \in Docs : doc[d] \in Document /\ [doc[d] EXCEPT !.status = "removed"] \in Document
      BY <1>0 DEF TypeOK, Document
    <2>3. doc' \in [Docs -> Document]
      BY <1>10, <2>2 DEF DeleteKb
    <2> QED
      BY <1>0, <1>10, <2>1, <2>3, RequestTypes DEF DeleteKb, TypeOK, jobOthers
  <1>11. ASSUME RequestFails(r) PROVE TypeInv'
    <2>1. req' \in [Requests -> Request]
      BY <1>0, <1>11, RequestEnds DEF RequestFails
    <2> QED
      BY <1>0, <1>11, <2>1, RequestTypes DEF RequestFails, TypeOK, jobOthers, stores
  <1> QED
    BY <1>1, <1>2, <1>3, <1>4, <1>5, <1>6, <1>7, <1>8, <1>9, <1>10, <1>11
    DEF Handle

\* The steps of the worker, of BullMQ and of the process.
LEMMA TypeWork ==
  ASSUME TypeInv, overlapped' \subseteq Docs, Work
  PROVE  TypeInv'
PROOF
  <1>0. TypeOK
    BY DEF TypeInv
  <1>F. faults \in 0 .. MaxFaults /\ crashes \in 0 .. MaxFaults /\ touched \subseteq Docs
    BY <1>0 DEF TypeOK
  \* A step that goes from one point to another and leaves the stores well typed.
  <1>W. ASSUME NEW pc \in WorkerPoints \ {"idle"}, Works(pc), worker.pc # "idle",
               doc' \in [Docs -> Document], chunks' \subseteq Chunk,
               vectors' \subseteq Chunk, faults' \in 0 .. MaxFaults,
               touched' \subseteq Docs, UNCHANGED <<kb, job, req, crashes>>
        PROVE  TypeInv'
    <2>1. worker' \in Worker /\ worker'.job = worker.job /\ worker'.pc # "idle"
      BY <1>0, <1>W, WorkerWorks
    <2> QED
      BY <1>W, <2>1, WorkTypes
  <1>S. doc \in [Docs -> Document] /\ chunks \subseteq Chunk /\ vectors \subseteq Chunk
    BY <1>0 DEF TypeOK
  <1>P. {"mark", "old", "vectors", "rows", "count", "chunk", "upsert", "ready", "catch",
         "complete", "fail"} \subseteq WorkerPoints \ {"idle"}
    BY DEF WorkerPoints
  <1>1. ASSUME NEW j \in JobIds, Take(j) PROVE TypeInv'
    <2>a. worker' = [job |-> j, pc |-> "mark", old |-> {}, made |-> 0, last |-> {}]
      BY <1>1 DEF Take, NoWork
    <2>b. j \in 0 .. MaxJobs
      BY BoundsAssumption DEF JobIds
    <2>1. worker' \in Worker /\ worker'.job = j /\ worker'.pc = "mark"
      BY <2>a, <2>b DEF Worker, WorkerPoints
    <2>2. job' \in [JobIds -> Job]
      BY <1>0, <1>1 DEF Take, TypeOK, Job
    <2>3. /\ \A i \in JobIds \ {j} : job'[i] = job[i]
          /\ job'[j].st = "active" /\ job'[j].attempts = job[j].attempts
          /\ job'[j].stalls = job[j].stalls
      BY <1>0, <1>1 DEF Take, TypeOK, Job
    <2>4. JobsBounded'
      BY <1>1, <2>1, <2>3 DEF Take, TypeInv, JobsBounded
    <2> QED
      BY <1>0, <1>1, <2>1, <2>2, <2>4 DEF Take, TypeInv, TypeOK, stores, workOthers
  <1>2. ASSUME MarkProcessing PROVE TypeInv'
    <2>1. Target \in Docs
      BY <1>2, TargetType DEF MarkProcessing
    <2>2. CASE Exists(Target)
      <3>1. doc' \in [Docs -> Document]
        BY <1>0, <1>2, <2>1, <2>2, DocumentSet DEF MarkProcessing, Statuses
      <3> QED
        BY <1>2, <1>F, <1>P, <1>S, <1>W, <2>2, <3>1 DEF MarkProcessing, workOthers
    <2>3. CASE ~Exists(Target)
      BY <1>2, <1>F, <1>P, <1>S, <1>W, <2>3 DEF MarkProcessing, workOthers
    <2> QED
      BY <2>2, <2>3
  <1>3. ASSUME WorkFindOld PROVE TypeInv'
    <2>1. ChunksOf(Target) \subseteq Chunk
      BY <1>S DEF ChunksOf
    <2>2. worker' \in Worker /\ worker'.job = worker.job /\ worker'.pc # "idle"
      BY <1>0, <1>3, <2>1 DEF WorkFindOld, TypeOK, Worker, WorkerPoints
    <2>3. touched' \subseteq Docs
      BY <1>3, <1>F DEF WorkFindOld
    <2> QED
      BY <1>3, <1>F, <1>S, <2>2, <2>3, WorkTypes DEF WorkFindOld, workOthers, stores
  <1>4. ASSUME WorkDeleteVectors PROVE TypeInv'
    <2>1. worker' \in Worker /\ worker'.job = worker.job /\ worker'.pc # "idle"
      BY <1>0, <1>4 DEF WorkDeleteVectors, TypeOK, Worker, WorkerPoints
    <2> QED
      BY <1>4, <1>F, <1>S, <2>1, WorkTypes DEF WorkDeleteVectors, workOthers
  <1>5. ASSUME WorkDeleteRows PROVE TypeInv'
    BY <1>5, <1>F, <1>P, <1>S, <1>W DEF WorkDeleteRows, workOthers
  <1>6. ASSUME WorkResetCount PROVE TypeInv'
    <2>1. Target \in Docs /\ NextPiece(0) \in WorkerPoints \ {"idle"}
      BY <1>6, <1>P, TargetType, NextPieceType DEF WorkResetCount
    <2>2. CASE Exists(Target)
      <3>1. doc' \in [Docs -> Document]
        BY <1>0, <1>6, <2>1, <2>2, DocumentCounted DEF WorkResetCount
      <3> QED
        BY <1>6, <1>F, <1>S, <1>W, <2>1, <2>2, <3>1 DEF WorkResetCount, workOthers
    <2>3. CASE ~Exists(Target)
      BY <1>6, <1>F, <1>P, <1>S, <1>W, <2>3 DEF WorkResetCount, workOthers
    <2> QED
      BY <2>2, <2>3
  <1>7. ASSUME CreateChunk PROVE TypeInv'
    <2>1. CASE Exists(Target)
      <3>1. PICK id \in 1 .. MaxIds :
              LET c == [id |-> id, doc |-> Target, piece |-> worker.made] IN
                /\ chunks' = chunks \cup {c}
                /\ worker' = [worker EXCEPT !.pc = "upsert", !.last = {c}]
        BY <1>7, <2>1 DEF CreateChunk
      <3> DEFINE c == [id |-> id, doc |-> Target, piece |-> worker.made]
      <3>2. c \in Chunk
        BY <1>0, <1>7, TargetType DEF CreateChunk, Chunk, TypeOK, Worker
      <3>3. /\ chunks' = chunks \cup {c}
            /\ worker' = [worker EXCEPT !.pc = "upsert", !.last = {c}]
        BY <3>1
      <3> HIDE DEF c
      <3>4. worker' \in Worker /\ worker'.job = worker.job /\ worker'.pc # "idle"
        BY <1>0, <3>2, <3>3 DEF TypeOK, Worker, WorkerPoints
      <3>5. chunks' \subseteq Chunk
        BY <1>S, <3>2, <3>3
      <3> QED
        BY <1>7, <1>F, <1>S, <3>4, <3>5, WorkTypes DEF CreateChunk, workOthers
    <2>2. CASE ~Exists(Target)
      BY <1>7, <1>F, <1>P, <1>S, <1>W, <2>2 DEF CreateChunk, workOthers
    <2> QED
      BY <2>1, <2>2
  <1>8. ASSUME UpsertChunk PROVE TypeInv'
    <2>1. worker.last \subseteq Chunk /\ worker.made \in Nat
      BY <1>0 DEF TypeOK, Worker
    <2> DEFINE n == worker.made + 1
    <2>a. n \in Nat /\ worker \in Worker
      BY <1>0, <2>1 DEF TypeOK
    <2>b. worker' = [worker EXCEPT !.made = n, !.last = {}, !.pc = NextPiece(n)]
      BY <1>8 DEF UpsertChunk
    <2> HIDE DEF n
    <2>c. NextPiece(n) \in WorkerPoints \ {"idle"}
      BY <1>P, NextPieceType
    <2>3. worker' \in Worker /\ worker'.job = worker.job /\ worker'.pc # "idle"
      BY <2>a, <2>b, <2>c DEF Worker
    <2>4. vectors' \subseteq Chunk
      BY <1>8, <1>S, <2>1 DEF UpsertChunk
    <2> QED
      BY <1>8, <1>F, <1>S, <2>3, <2>4, WorkTypes DEF UpsertChunk, workOthers
  <1>9. ASSUME MarkReady PROVE TypeInv'
    <2>1. CASE Exists(Target)
      <3>1. doc' \in [Docs -> Document]
        BY <1>0, <1>9, <2>1, TargetType DEF MarkReady, TypeOK, Document, Worker, Statuses
      <3> QED
        BY <1>9, <1>F, <1>P, <1>S, <1>W, <2>1, <3>1 DEF MarkReady, workOthers
    <2>2. CASE ~Exists(Target)
      BY <1>9, <1>F, <1>P, <1>S, <1>W, <2>2 DEF MarkReady, workOthers
    <2> QED
      BY <2>1, <2>2
  <1>10. ASSUME WorkFails PROVE TypeInv'
    BY <1>10, <1>F, <1>P, <1>S, <1>W DEF WorkFails, workOthers, stores
  <1>11. ASSUME MarkFailed PROVE TypeInv'
    <2>1. CASE Exists(Target)
      <3>1. doc' \in [Docs -> Document]
        BY <1>0, <1>11, <2>1, TargetType, DocumentSet DEF MarkFailed, Statuses
      <3> QED
        BY <1>11, <1>F, <1>P, <1>S, <1>W, <2>1, <3>1 DEF MarkFailed, workOthers
    <2>2. CASE ~Exists(Target)
      BY <1>11, <1>F, <1>P, <1>S, <1>W, <2>2 DEF MarkFailed, workOthers
    <2> QED
      BY <2>1, <2>2
  <1>12. ASSUME MarkFails PROVE TypeInv'
    <2>1. faults' \in 0 .. MaxFaults
      BY <1>12, <1>F, BoundsAssumption DEF MarkFails
    <2> QED
      BY <1>12, <1>F, <1>P, <1>S, <1>W, <2>1 DEF MarkFails, workOthers, stores
  \* The job comes to its end or goes back to the queue.
  <1>J. ASSUME NEW q \in Job, worker.pc # "idle", job' = [job EXCEPT ![worker.job] = q],
               q.st \in {"waiting", "active"} => q.attempts < Attempts /\ q.stalls < 2,
               worker' = NoWork, UNCHANGED <<stores, faults, touched, workOthers>>
        PROVE  TypeInv'
    <2>1. worker.job \in JobIds
      BY <1>J, TargetType
    <2>2. job' \in [JobIds -> Job]
      BY <1>0, <1>J, <2>1 DEF TypeOK
    <2>3. job'[worker.job] = q /\ \A i \in JobIds \ {worker.job} : job'[i] = job[i]
      BY <1>0, <1>J, <2>1 DEF TypeOK
    <2>4. JobsBounded'
      BY <1>J, <2>1, <2>3 DEF TypeInv, JobsBounded, NoWork
    <2> QED
      BY <1>0, <1>J, <2>2, <2>4, IdleWorker DEF TypeInv, TypeOK, stores, workOthers
  <1>13. ASSUME Complete PROVE TypeInv'
    <2> DEFINE q == [job[worker.job] EXCEPT !.st = "completed"]
    <2>1. worker.pc # "idle" /\ q \in Job /\ q.st = "completed"
      BY <1>13, TargetType DEF Complete, Job
    <2>2. job' = [job EXCEPT ![worker.job] = q]
      BY <1>13 DEF Complete
    <2> HIDE DEF q
    <2> QED
      BY <1>13, <1>J, <2>1, <2>2 DEF Complete
  <1>14. ASSUME AttemptFails PROVE TypeInv'
    <2> DEFINE n == job[worker.job].attempts + 1
    <2> DEFINE q == [job[worker.job] EXCEPT !.attempts = n,
                       !.st = IF n < Attempts THEN "waiting" ELSE "failed"]
    <2>1. /\ worker.pc # "idle" /\ worker.job \in JobIds /\ job[worker.job] \in Job
          /\ job[worker.job].st = "active"
      BY <1>14, TargetType DEF AttemptFails
    <2>2. /\ job[worker.job].attempts < Attempts /\ job[worker.job].stalls < 2
          /\ job[worker.job].attempts \in Nat /\ Attempts \in Nat
      BY <2>1, AttemptsAssumption DEF TypeInv, JobsBounded, Job
    <2>3. n \in 0 .. Attempts
      BY <2>2
    <2>4. /\ q \in Job /\ q.attempts = n /\ q.stalls = job[worker.job].stalls
          /\ q.st = IF n < Attempts THEN "waiting" ELSE "failed"
      BY <2>1, <2>3 DEF Job
    <2>5. job' = [job EXCEPT ![worker.job] = q]
      BY <1>14 DEF AttemptFails
    <2> HIDE DEF q
    <2> QED
      BY <1>14, <1>J, <2>1, <2>2, <2>4, <2>5 DEF AttemptFails
  <1> QED
    BY <1>1, <1>2, <1>3, <1>4, <1>5, <1>6, <1>7, <1>8, <1>9, <1>10, <1>11, <1>12, <1>13,
       <1>14 DEF Work

LEMMA TypeStalled ==
  ASSUME TypeInv, overlapped' \subseteq Docs, NEW j \in JobIds, Stalled(j)
  PROVE  TypeInv'
PROOF
  <1>1. /\ job[j] \in Job /\ job[j].st = "active" /\ worker.job # j
        /\ job[j].attempts < Attempts /\ job[j].stalls < 2
    BY DEF TypeInv, TypeOK, JobsBounded, Stalled
  <1> DEFINE n == job[j].stalls + 1
  <1> DEFINE st == IF job[j].stalls = 0 THEN "waiting" ELSE "failed"
  <1> DEFINE q == [job[j] EXCEPT !.stalls = n, !.st = st]
  <1>a. n \in 0 .. 2 /\ (st = "waiting" => n < 2) /\ st \in {"waiting", "failed"}
    BY <1>1 DEF Job
  <1>b. q \in Job /\ q.attempts = job[j].attempts /\ q.stalls = n /\ q.st = st
    BY <1>1, <1>a DEF Job
  <1>2. /\ q \in Job /\ q.attempts = job[j].attempts
        /\ q.st = "waiting" => q.stalls < 2
        /\ q.st \in {"waiting", "failed"}
    BY <1>a, <1>b
  <1>3. job' = [job EXCEPT ![j] = q]
    BY DEF Stalled
  <1> HIDE DEF q
  <1>4. /\ job' \in [JobIds -> Job] /\ job'[j] = q
        /\ \A i \in JobIds \ {j} : job'[i] = job[i]
    BY <1>2, <1>3 DEF TypeInv, TypeOK
  <1>5. JobsBounded'
    BY <1>1, <1>2, <1>4 DEF TypeInv, JobsBounded, Stalled
  <1> QED
    BY <1>4, <1>5 DEF TypeInv, TypeOK, Stalled, stores, workOthers

LEMMA TypeCrash ==
  ASSUME TypeInv, overlapped' \subseteq Docs, Crash
  PROVE  TypeInv'
PROOF
  <1>a. faults \in 0 .. MaxFaults /\ crashes \in 0 .. MaxFaults /\ MaxFaults \in Nat
    BY BoundsAssumption DEF TypeInv, TypeOK
  <1>b. faults + crashes < MaxFaults /\ crashes' = crashes + 1
    BY DEF Crash
  <1>1. crashes' \in 0 .. MaxFaults
    BY <1>a, <1>b
  <1>2. \A r \in Requests : [req[r] EXCEPT !.pc = "idle", !.old = {}] \in Request
    BY DEF TypeInv, TypeOK, Request, RequestPoints
  <1>3. req' \in [Requests -> Request]
    BY <1>2 DEF Crash
  <1>4. worker' = NoWork /\ UNCHANGED <<stores, job, faults, touched>>
    BY DEF Crash
  <1>5. JobsBounded'
    BY <1>4 DEF TypeInv, JobsBounded, NoWork
  <1> QED
    BY <1>1, <1>3, <1>4, <1>5, IdleWorker DEF TypeInv, TypeOK, stores

LEMMA TypeNext == TypeInv /\ [Next]_vars => TypeInv'
PROOF
  <1> SUFFICES ASSUME TypeInv, [Next]_vars PROVE TypeInv'
    OBVIOUS
  <1>1. CASE Next
    <2>1. overlapped' \subseteq Docs
      BY <1>1 DEF Next, TypeInv, TypeOK
    <2> QED
      BY <1>1, <2>1, TypeRequests, TypeWork, TypeStalled, TypeCrash DEF Next, Step
  <1>2. CASE UNCHANGED vars
    BY <1>2 DEF vars, stores, TypeInv, TypeOK, JobsBounded
  <1> QED
    BY <1>1, <1>2

\* Type correctness, and that a job that waits or runs has attempts left and has
\* been given back at most once: for any documents, requests, jobs and failures.
THEOREM TypeInvariant == Spec => []TypeInv
PROOF
  <1> QED
    BY TypeInit, TypeNext, PTL DEF Spec

\* Type correctness: what ingest and the requests keep stays of its type.
THEOREM TypeCorrect == Spec => []TypeOK
PROOF
  <1>1. TypeInv => TypeOK
    BY DEF TypeInv
  <1> QED
    BY <1>1, TypeInvariant, PTL

-----------------------------------------------------------------------------
(* Vectors without rows.                                                   *)

LEMMA OrphansInit == Init => OrphansInv
PROOF
  <1> SUFFICES ASSUME Init PROVE OrphansInv
    OBVIOUS
  <1>1. \A r \in Requests : req[r].pc = "idle"
    BY DEF Init
  <1>2. worker.pc = "idle" /\ worker.job = 0 /\ vectors = {}
    BY DEF Init, NoWork
  <1> QED
    BY <1>1, <1>2 DEF OrphansInv, OrphansOnlyByOverlap, OverlapsNoted, RemovalsClear,
       RemovalClears, WorkClears, Ingesting, NoVectors

\* A removal is not disturbed by a step that adds no vector.
LEMMA RemovalKept ==
  ASSUME NEW p \in Requests, RemovalClears(p), req'[p] = req[p],
         vectors' \subseteq vectors, overlapped \subseteq overlapped'
  PROVE  RemovalClears(p)'
  BY DEF RemovalClears, NoVectors

\* Nor is the job being processed, unless a row it needs is deleted.
LEMMA WorkKept ==
  ASSUME WorkClears, worker' = worker, worker.pc # "idle" => Target' = Target,
         vectors' \subseteq vectors, overlapped \subseteq overlapped',
         worker.pc = "upsert" =>
           \A c \in worker.last : c \in chunks => c \in chunks' \/ c.doc \in overlapped'
  PROVE  WorkClears'
PROOF
  <1>1. (worker.pc = "vectors" => NoVectors(Target, worker.old))'
    BY DEF WorkClears, NoVectors
  <1>2. (worker.pc = "rows" => NoVectors(Target, {}))'
    BY DEF WorkClears, NoVectors
  <1>3. (worker.pc = "upsert" =>
           \A c \in worker.last : c.doc = Target /\ (c \in chunks \/ Target \in overlapped))'
    BY DEF WorkClears
  <1> QED
    BY <1>1, <1>2, <1>3 DEF WorkClears

\* A step of one request, which adds no vector and deletes no row of a vector but of
\* a document that was ingested while it was removed.
LEMMA OrphansRequest ==
  ASSUME OrphansInv, overlapped \subseteq overlapped', OverlapsNoted',
         vectors' \subseteq vectors, worker' = worker,
         worker.pc # "idle" => Target' = Target,
         \A c \in vectors' : c \in chunks => c \in chunks' \/ c.doc \in overlapped',
         worker.pc = "upsert" =>
           \A c \in worker.last : c \in chunks => c \in chunks' \/ c.doc \in overlapped',
         NEW r \in Requests, \A p \in Requests \ {r} : req'[p] = req[p],
         RemovalClears(r)'
  PROVE  OrphansInv'
PROOF
  <1>1. OrphansOnlyByOverlap'
    BY DEF OrphansInv, OrphansOnlyByOverlap
  <1>2. WorkClears'
    BY WorkKept DEF OrphansInv
  <1>3. RemovalsClear'
    <2>1. \A p \in Requests \ {r} : RemovalClears(p)'
      BY RemovalKept DEF OrphansInv, RemovalsClear
    <2> QED
      BY <2>1 DEF RemovalsClear
  <1> QED
    BY <1>1, <1>2, <1>3 DEF OrphansInv

\* A step of the worker that adds no vector.
LEMMA OrphansWork ==
  ASSUME OrphansInv, overlapped \subseteq overlapped', OverlapsNoted',
         vectors' \subseteq vectors, req' = req,
         \A c \in vectors' : c \in chunks => c \in chunks' \/ c.doc \in overlapped',
         WorkClears'
  PROVE  OrphansInv'
PROOF
  <1>1. OrphansOnlyByOverlap'
    BY DEF OrphansInv, OrphansOnlyByOverlap
  <1>2. RemovalsClear'
    BY RemovalKept DEF OrphansInv, RemovalsClear
  <1> QED
    BY <1>1, <1>2 DEF OrphansInv

\* The steps of the requests.
LEMMA OrphansRequests ==
  ASSUME TypeInv, OrphansInv, overlapped \subseteq overlapped', OverlapsNoted',
         NEW r \in Requests,
         \/ \E d \in Docs : Upload(r, d) \/ Reindex(r, d) \/ RemoveDocument(r, d)
         \/ RemoveKnowledgeBase(r) \/ Handle(r)
  PROVE  OrphansInv'
PROOF
  <1>0. /\ req \in [Requests -> Request] /\ req[r] \in Request /\ req[r].doc \in Docs
        /\ vectors \subseteq Chunk /\ chunks \subseteq Chunk
        /\ worker.last \subseteq Chunk
        /\ \A c \in Chunk : c.doc \in Docs
    BY DEF TypeInv, TypeOK, Request, Worker, Chunk
  <1>O. /\ OrphansOnlyByOverlap /\ OverlapsNoted /\ WorkClears
        /\ \A p \in Requests : RemovalClears(p)
    BY DEF OrphansInv, RemovalsClear
  \* A row the worker waits to upsert belongs to a document being ingested.
  <1>L. worker.pc = "upsert" =>
          \A c \in worker.last : c.doc = Target /\ Ingesting(c.doc)
    BY TargetType, BoundsAssumption DEF WorkClears, OrphansInv, Ingesting, JobIds
  \* A step that leaves the rows and the jobs.
  <1>Q. ASSUME vectors' \subseteq vectors, chunks' = chunks, worker' = worker, job' = job,
               \A p \in Requests \ {r} : req'[p] = req[p], RemovalClears(r)'
        PROVE  OrphansInv'
    BY <1>Q, OrphansRequest DEF Target
  <1>1. ASSUME NEW d \in Docs, Upload(r, d) PROVE OrphansInv'
    <2>1. /\ \A p \in Requests \ {r} : req'[p] = req[p]
          /\ req'[r].pc = "enqueue"
      BY <1>0, <1>1 DEF Upload, Request
    <2> QED
      BY <1>1, <1>Q, <2>1 DEF Upload, jobOthers, RemovalClears
  <1>2. ASSUME NEW d \in Docs, Reindex(r, d) PROVE OrphansInv'
    <2>1. /\ \A p \in Requests \ {r} : req'[p] = req[p]
          /\ req'[r].pc = "enqueue"
      BY <1>0, <1>2 DEF Reindex, Request
    <2> QED
      BY <1>2, <1>Q, <2>1 DEF Reindex, jobOthers, stores, RemovalClears
  <1>3. ASSUME NEW d \in Docs, RemoveDocument(r, d) PROVE OrphansInv'
    <2>1. /\ \A p \in Requests \ {r} : req'[p] = req[p]
          /\ req'[r].pc = "vectors" /\ req'[r].doc = d /\ req'[r].old = ChunksOf(d)
      BY <1>0, <1>3 DEF RemoveDocument, Request
    <2>2. RemovalClears(r)'
      BY <1>3, <1>O, <2>1 DEF RemoveDocument, stores, RemovalClears, NoVectors, ChunksOf,
         OrphansOnlyByOverlap
    <2> QED
      BY <1>3, <1>Q, <2>1, <2>2 DEF RemoveDocument, jobOthers, stores
  <1>4. ASSUME RemoveKnowledgeBase(r) PROVE OrphansInv'
    <2>1. /\ \A p \in Requests \ {r} : req'[p] = req[p]
          /\ req'[r].pc = "kb"
      BY <1>0, <1>4 DEF RemoveKnowledgeBase, Goes, Request
    <2>2. RemovalClears(r)'
      BY <1>4, <2>1 DEF RemoveKnowledgeBase, DeleteKbVectors, RemovalClears, NoVectors
    <2> QED
      BY <1>4, <1>Q, <2>1, <2>2 DEF RemoveKnowledgeBase, DeleteKbVectors, jobOthers
  <1>E. Ends(r) => /\ \A p \in Requests \ {r} : req'[p] = req[p]
                   /\ req'[r].pc = "idle" /\ RemovalClears(r)'
    BY <1>0 DEF Ends, Request, RemovalClears
  <1>5. ASSUME Enqueue(r) PROVE OrphansInv'
    <2>1. PICK j \in JobIds :
            /\ job[j].st = "none"
            /\ job' = [job EXCEPT ![j] =
                 [st |-> "waiting", doc |-> req[r].doc, attempts |-> 0, stalls |-> 0]]
      BY <1>5 DEF Enqueue
    <2>2. worker' = worker /\ UNCHANGED stores /\ Ends(r)
      BY <1>5 DEF Enqueue, jobOthers
    <2>3. worker.pc # "idle" => Target' = Target
      BY <2>1, <2>2, TargetType DEF Target, TypeInv, TypeOK
    <2> QED
      BY <1>E, <2>2, <2>3, OrphansRequest DEF stores
  <1>6. ASSUME DeleteVectors(r) PROVE OrphansInv'
    <2>1. /\ \A p \in Requests \ {r} : req'[p] = req[p]
          /\ req'[r].pc = "rows" /\ req'[r].doc = req[r].doc
      BY <1>0, <1>6 DEF DeleteVectors, Goes, Request
    <2>2. RemovalClears(r)'
      BY <1>6, <1>O, <2>1 DEF DeleteVectors, RemovalClears, NoVectors
    <2> QED
      BY <1>6, <1>Q, <2>1, <2>2 DEF DeleteVectors, jobOthers
  <1>7. ASSUME DeleteRows(r) PROVE OrphansInv'
    <2>1. /\ \A p \in Requests \ {r} : req'[p] = req[p]
          /\ req'[r].pc = "count" /\ req'[r].doc = req[r].doc
      BY <1>0, <1>7 DEF DeleteRows, Goes, Request
    <2>2. NoVectors(req[r].doc, {}) /\ Removing(req[r].doc)
      BY <1>7, <1>O DEF DeleteRows, RemovalClears, Removing, Removals
    <2>3. RemovalClears(r)'
      BY <1>7, <2>1, <2>2 DEF DeleteRows, RemovalClears, NoVectors
    <2>4. \A c \in vectors' : c \in chunks => c \in chunks' \/ c.doc \in overlapped'
      BY <1>7, <2>2 DEF DeleteRows, NoVectors, ChunksOf
    <2>5. worker.pc = "upsert" =>
            \A c \in worker.last : c \in chunks => c \in chunks' \/ c.doc \in overlapped'
      BY <1>0, <1>7, <1>L, <1>O, <2>2 DEF DeleteRows, ChunksOf, OverlapsNoted
    <2> QED
      BY <1>7, <2>1, <2>3, <2>4, <2>5, OrphansRequest DEF DeleteRows, jobOthers, Target
  <1>8. ASSUME ResetCount(r) PROVE OrphansInv'
    <2>1. /\ \A p \in Requests \ {r} : req'[p] = req[p]
          /\ req'[r].pc = "delete" /\ req'[r].doc = req[r].doc
      BY <1>0, <1>8 DEF ResetCount, Goes, Request
    <2>2. RemovalClears(r)'
      BY <1>8, <1>O, <2>1 DEF ResetCount, RemovalClears, NoVectors
    <2> QED
      BY <1>8, <1>Q, <2>1, <2>2 DEF ResetCount, jobOthers
  <1>9. ASSUME DeleteDocument(r) PROVE OrphansInv'
    <2>2. NoVectors(req[r].doc, {}) /\ Removing(req[r].doc)
      BY <1>9, <1>O DEF DeleteDocument, RemovalClears, Removing, Removals
    <2>4. \A c \in vectors' : c \in chunks => c \in chunks' \/ c.doc \in overlapped'
      BY <1>9, <2>2 DEF DeleteDocument, NoVectors, ChunksOf
    <2>5. worker.pc = "upsert" =>
            \A c \in worker.last : c \in chunks => c \in chunks' \/ c.doc \in overlapped'
      BY <1>0, <1>9, <1>L, <1>O, <2>2 DEF DeleteDocument, ChunksOf, OverlapsNoted
    <2> QED
      BY <1>9, <1>E, <2>4, <2>5, OrphansRequest DEF DeleteDocument, jobOthers, Target
  <1>10. ASSUME DeleteKb(r) PROVE OrphansInv'
    <2>2. \A d \in Docs : NoVectors(d, {}) /\ Removing(d)
      BY <1>10, <1>O DEF DeleteKb, RemovalClears, Removing
    <2>4. \A c \in vectors' : c \in chunks => c \in chunks' \/ c.doc \in overlapped'
      BY <1>0, <1>10, <2>2 DEF DeleteKb, NoVectors
    <2>5. worker.pc = "upsert" =>
            \A c \in worker.last : c \in chunks => c \in chunks' \/ c.doc \in overlapped'
      BY <1>0, <1>L, <1>O, <2>2 DEF OverlapsNoted
    <2> QED
      BY <1>10, <1>E, <2>4, <2>5, OrphansRequest DEF DeleteKb, jobOthers, Target
  <1>11. ASSUME RequestFails(r) PROVE OrphansInv'
    BY <1>11, <1>E, <1>Q DEF RequestFails, jobOthers, stores
  <1> QED
    BY <1>1, <1>2, <1>3, <1>4, <1>5, <1>6, <1>7, <1>8, <1>9, <1>10, <1>11
    DEF Handle

\* The steps of the worker.
LEMMA OrphansWorker ==
  ASSUME TypeInv, OrphansInv, overlapped \subseteq overlapped', OverlapsNoted', Work
  PROVE  OrphansInv'
PROOF
  <1>0. /\ worker \in Worker
        /\ vectors \subseteq Chunk /\ chunks \subseteq Chunk
        /\ \A c \in Chunk : c.doc \in Docs
    BY DEF TypeInv, TypeOK, Chunk
  <1>O. /\ OrphansOnlyByOverlap /\ OverlapsNoted /\ WorkClears
        /\ \A p \in Requests : RemovalClears(p)
    BY DEF OrphansInv, RemovalsClear
  \* A step after which the worker relies on nothing.
  <1>Q. ASSUME vectors' = vectors, chunks \subseteq chunks', req' = req,
               worker'.pc \notin {"vectors", "rows", "upsert"}
        PROVE  OrphansInv'
    BY <1>Q, OrphansWork DEF WorkClears
  <1>P. \A pc : Works(pc) => worker'.pc = pc /\ worker'.old = worker.old
                            /\ worker'.job = worker.job /\ worker'.last = worker.last
    BY <1>0 DEF Works, Worker
  <1>1. ASSUME NEW j \in JobIds, Take(j) PROVE OrphansInv'
    <2>1. worker'.pc = "mark"
      BY <1>1 DEF Take, NoWork
    <2> QED
      BY <1>1, <1>Q, <2>1 DEF Take, stores, workOthers
  <1>2. ASSUME MarkProcessing PROVE OrphansInv'
    BY <1>2, <1>P, <1>Q DEF MarkProcessing, workOthers
  <1>3. ASSUME WorkFindOld PROVE OrphansInv'
    <2>1. /\ worker'.pc = "vectors" /\ worker'.old = ChunksOf(Target)
          /\ worker'.job = worker.job
      BY <1>0, <1>3 DEF WorkFindOld, Worker
    <2>2. Target' = Target
      BY <1>3, <2>1 DEF WorkFindOld, Target
    <2>3. WorkClears'
      BY <1>3, <1>O, <2>1, <2>2 DEF WorkFindOld, WorkClears, NoVectors, ChunksOf,
         OrphansOnlyByOverlap, stores
    <2> QED
      BY <1>3, <2>3, OrphansWork DEF WorkFindOld, stores, workOthers
  <1>4. ASSUME WorkDeleteVectors PROVE OrphansInv'
    <2>1. worker'.pc = "rows" /\ worker'.job = worker.job
      BY <1>0, <1>4 DEF WorkDeleteVectors, Worker
    <2>2. Target' = Target
      BY <1>4, <2>1 DEF WorkDeleteVectors, Target
    <2>3. WorkClears'
      BY <1>4, <1>O, <2>1, <2>2 DEF WorkDeleteVectors, WorkClears, NoVectors
    <2> QED
      BY <1>4, <2>3, OrphansWork DEF WorkDeleteVectors, workOthers
  <1>5. ASSUME WorkDeleteRows PROVE OrphansInv'
    <2>1. worker'.pc = "count"
      BY <1>5, <1>P DEF WorkDeleteRows
    <2>2. WorkClears'
      BY <2>1 DEF WorkClears
    <2>3. \A c \in vectors' : c \in chunks => c \in chunks' \/ c.doc \in overlapped'
      BY <1>5, <1>O DEF WorkDeleteRows, WorkClears, NoVectors, ChunksOf
    <2> QED
      BY <1>5, <2>2, <2>3, OrphansWork DEF WorkDeleteRows, workOthers
  <1>6. ASSUME WorkResetCount PROVE OrphansInv'
    <2>1. worker'.pc \in {"chunk", "ready", "catch"}
      BY <1>6, <1>P, NextPieceType DEF WorkResetCount
    <2> QED
      BY <1>6, <1>Q, <2>1 DEF WorkResetCount, workOthers
  <1>7. ASSUME CreateChunk PROVE OrphansInv'
    <2>1. CASE Exists(Target)
      <3>1. PICK id \in 1 .. MaxIds :
              LET c == [id |-> id, doc |-> Target, piece |-> worker.made] IN
                /\ chunks' = chunks \cup {c}
                /\ worker' = [worker EXCEPT !.pc = "upsert", !.last = {c}]
        BY <1>7, <2>1 DEF CreateChunk
      <3> DEFINE c == [id |-> id, doc |-> Target, piece |-> worker.made]
      <3>2. /\ chunks' = chunks \cup {c}
            /\ worker' = [worker EXCEPT !.pc = "upsert", !.last = {c}]
            /\ c.doc = Target
        BY <3>1
      <3> HIDE DEF c
      <3>3. worker'.pc = "upsert" /\ worker'.last = {c} /\ worker'.job = worker.job
        BY <1>0, <3>2 DEF Worker
      <3>4. Target' = Target
        BY <1>7, <3>3 DEF CreateChunk, Target
      <3>5. WorkClears'
        BY <3>2, <3>3, <3>4 DEF WorkClears
      <3> QED
        BY <1>7, <3>2, <3>5, OrphansWork DEF CreateChunk, workOthers
    <2>2. CASE ~Exists(Target)
      BY <1>7, <1>P, <1>Q, <2>2 DEF CreateChunk, workOthers
    <2> QED
      BY <2>1, <2>2
  <1>8. ASSUME UpsertChunk PROVE OrphansInv'
    <2>1. /\ worker'.pc \in {"chunk", "ready"} /\ vectors' = vectors \cup worker.last
          /\ req' = req /\ chunks' = chunks
      BY <1>0, <1>8, NextPieceType DEF UpsertChunk, Worker, workOthers
    <2>2. WorkClears'
      BY <2>1 DEF WorkClears
    <2>3. /\ \A c \in worker.last : c.doc = Target /\ (c \in chunks \/ Target \in overlapped)
          /\ Ingesting(Target) /\ Target \in Docs
      BY <1>8, <1>O, TargetType, BoundsAssumption DEF UpsertChunk, WorkClears, Ingesting,
         JobIds
    <2>4. OrphansOnlyByOverlap'
      BY <1>O, <2>1, <2>3 DEF OrphansOnlyByOverlap
    <2>5. ASSUME NEW p \in Requests PROVE RemovalClears(p)'
      \* A removal in progress of the document makes an overlap of the vector.
      <3>1. Removing(Target) => Target \in overlapped'
        BY <1>O, <2>3 DEF OverlapsNoted
      <3>2. CASE req[p].pc \in {"vectors", "rows", "count", "delete"}
        <4>1. req[p].doc = Target => Removing(Target)
          BY <3>2 DEF Removing, Removals
        <4> QED
          BY <1>O, <2>1, <2>3, <3>1, <3>2, <4>1 DEF RemovalClears, NoVectors
      <3>3. CASE req[p].pc = "kb"
        <4>1. Removing(Target)
          BY <3>3 DEF Removing
        <4> QED
          BY <1>O, <2>1, <2>3, <3>1, <3>3, <4>1 DEF RemovalClears, NoVectors
      <3> QED
        BY <2>1, <3>2, <3>3 DEF RemovalClears
    <2> QED
      BY <2>2, <2>4, <2>5 DEF OrphansInv, RemovalsClear
  <1>9. ASSUME MarkReady PROVE OrphansInv'
    BY <1>9, <1>P, <1>Q DEF MarkReady, workOthers
  <1>10. ASSUME WorkFails PROVE OrphansInv'
    BY <1>10, <1>P, <1>Q DEF WorkFails, workOthers, stores
  <1>11. ASSUME MarkFailed PROVE OrphansInv'
    BY <1>11, <1>P, <1>Q DEF MarkFailed, workOthers
  <1>12. ASSUME MarkFails PROVE OrphansInv'
    BY <1>12, <1>P, <1>Q DEF MarkFails, workOthers, stores
  <1>13. ASSUME Complete PROVE OrphansInv'
    BY <1>13, <1>Q DEF Complete, NoWork, workOthers, stores
  <1>14. ASSUME AttemptFails PROVE OrphansInv'
    BY <1>14, <1>Q DEF AttemptFails, NoWork, workOthers, stores
  <1> QED
    BY <1>1, <1>2, <1>3, <1>4, <1>5, <1>6, <1>7, <1>8, <1>9, <1>10, <1>11, <1>12, <1>13,
       <1>14 DEF Work

LEMMA OrphansStalled ==
  ASSUME TypeInv, OrphansInv, overlapped \subseteq overlapped', OverlapsNoted',
         NEW j \in JobIds, Stalled(j)
  PROVE  OrphansInv'
PROOF
  <1>1. UNCHANGED <<stores, worker, req>>
    BY DEF Stalled, workOthers
  <1>2. worker.pc # "idle" => Target' = Target
    BY <1>1, TargetType DEF Stalled, Target, TypeInv, TypeOK
  <1>3. WorkClears'
    BY <1>1, <1>2, WorkKept DEF OrphansInv, stores
  <1> QED
    BY <1>1, <1>3, OrphansWork DEF stores

LEMMA OrphansCrash ==
  ASSUME TypeInv, OrphansInv, overlapped \subseteq overlapped', OverlapsNoted', Crash
  PROVE  OrphansInv'
PROOF
  <1>1. /\ UNCHANGED stores /\ worker'.pc = "idle"
        /\ \A r \in Requests : req'[r].pc = "idle"
    BY DEF Crash, NoWork, TypeInv, TypeOK, Request
  <1>2. OrphansOnlyByOverlap'
    BY <1>1 DEF OrphansInv, OrphansOnlyByOverlap, stores
  <1>3. RemovalsClear'
    BY <1>1 DEF RemovalsClear, RemovalClears
  <1>4. WorkClears'
    BY <1>1 DEF WorkClears
  <1> QED
    BY <1>2, <1>3, <1>4 DEF OrphansInv

LEMMA OrphansNext == TypeInv /\ OrphansInv /\ [Next]_vars => OrphansInv'
PROOF
  <1> SUFFICES ASSUME TypeInv, OrphansInv, [Next]_vars PROVE OrphansInv'
    OBVIOUS
  <1>1. CASE Next
    <2>1. overlapped \subseteq overlapped' /\ OverlapsNoted'
      BY <1>1 DEF Next, OverlapsNoted
    <2> QED
      BY <1>1, <2>1, OrphansRequests, OrphansWorker, OrphansStalled, OrphansCrash
      DEF Next, Step
  <1>2. CASE UNCHANGED vars
    BY <1>2 DEF vars, stores, OrphansInv, OrphansOnlyByOverlap, OverlapsNoted,
       RemovalsClear, RemovalClears, WorkClears, NoVectors, Removing, Ingesting, Target
  <1> QED
    BY <1>1, <1>2

\* deleteDocumentVectors and the loop of ingestDocument never lose sight of a
\* vector: however requests, attempts, failures and ends of the process mix, one
\* without its row belongs to a document that was ingested while it was removed.
THEOREM OrphansAlwaysOverlap == Spec => []OrphansOnlyByOverlap
PROOF
  <1>1. OrphansInv => OrphansOnlyByOverlap
    BY DEF OrphansInv
  <1> QED
    BY <1>1, OrphansInit, OrphansNext, TypeInvariant, PTL DEF Spec

-----------------------------------------------------------------------------
(* The outcomes of documents.                                              *)

LEMMA OutcomeInit == Init => OutcomeInv
PROOF
  <1> SUFFICES ASSUME Init PROVE OutcomeInv
    OBVIOUS
  <1>1. /\ \A j \in JobIds : job[j].st = "none" /\ job[j].stalls = 0
        /\ \A r \in Requests : req[r].pc = "idle"
        /\ worker.pc = "idle"
    BY DEF Init, NoWork
  <1> QED
    BY <1>1 DEF OutcomeInv, SettledHasOutcome, JobsKnown, Queued

\* A step that leaves the jobs, and takes an outcome only from a document a job is under
\* way for.
LEMMA OutcomeKept ==
  ASSUME TypeInv, OutcomeInv, job' = job, faults' = 0 => faults = 0,
         \A d \in Docs : doc[d].status # "none" => doc'[d].status # "none",
         \A d \in Docs : Outcome(d) => Outcome(d)' \/ Under(d),
         \A r \in Requests : req'[r].pc = "enqueue" => doc'[req'[r].doc].status # "none",
         worker'.pc = "complete" \/ (worker'.pc = "fail" /\ faults' = 0) => Outcome(Target)'
  PROVE  OutcomeInv'
PROOF
  <1>1. \A j \in JobIds : job[j].doc \in Docs
    BY DEF TypeInv, TypeOK, Job
  <1>2. JobsKnown'
    BY <1>1 DEF OutcomeInv, JobsKnown
  <1>3. SettledHasOutcome'
    BY DEF OutcomeInv, SettledHasOutcome, Queued, Under, GivenUp
  <1> QED
    BY <1>2, <1>3 DEF OutcomeInv

\* A step of a request that leaves the jobs.
LEMMA OutcomeRequest ==
  ASSUME TypeInv, OutcomeInv, UNCHANGED <<job, worker, faults>>,
         \A d \in Docs : doc[d].status # "none" => doc'[d].status # "none",
         \A d \in Docs : Outcome(d) => Outcome(d)',
         NEW r \in Requests, \A p \in Requests \ {r} : req'[p] = req[p],
         req'[r].pc = "enqueue" => doc'[req'[r].doc].status # "none"
  PROVE  OutcomeInv'
PROOF
  <1>1. \A p \in Requests : req[p].doc \in Docs
    BY DEF TypeInv, TypeOK, Request
  <1>2. \A p \in Requests : req'[p].pc = "enqueue" => doc'[req'[p].doc].status # "none"
    BY <1>1 DEF OutcomeInv, JobsKnown
  <1>3. worker.pc \in {"complete", "fail"} => Target \in Docs
    BY TargetType
  <1>4. worker'.pc = "complete" \/ (worker'.pc = "fail" /\ faults' = 0) => Outcome(Target)'
    BY <1>3 DEF OutcomeInv, JobsKnown, Target, Outcome
  <1> QED
    BY <1>2, <1>4, OutcomeKept

\* The row of a document goes, or all rows do.
LEMMA OutcomeRemoved ==
  ASSUME TypeInv, NEW gone \in SUBSET Docs,
         doc' = [d \in Docs |-> IF d \in gone THEN [doc[d] EXCEPT !.status = "removed"]
                                              ELSE doc[d]]
  PROVE  /\ \A d \in Docs : doc[d].status # "none" => doc'[d].status # "none"
         /\ \A d \in Docs : Outcome(d) => Outcome(d)'
PROOF
  <1>1. \A d \in Docs : doc[d] \in Document
    BY DEF TypeInv, TypeOK
  <1>2. \A d \in Docs : doc'[d].status = IF d \in gone THEN "removed" ELSE doc[d].status
    BY <1>1 DEF Document
  <1> QED
    BY <1>2 DEF Outcome

LEMMA OutcomeRequests ==
  ASSUME TypeInv, OutcomeInv, NEW r \in Requests,
         \/ \E d \in Docs : Upload(r, d) \/ Reindex(r, d) \/ RemoveDocument(r, d)
         \/ RemoveKnowledgeBase(r) \/ Handle(r)
  PROVE  OutcomeInv'
PROOF
  <1>0. /\ req \in [Requests -> Request] /\ req[r] \in Request /\ req[r].doc \in Docs
        /\ doc \in [Docs -> Document]
        /\ \A d \in Docs : doc[d] \in Document
    BY DEF TypeInv, TypeOK, Request
  <1>E. Ends(r) => (\A p \in Requests \ {r} : req'[p] = req[p]) /\ req'[r].pc = "idle"
    BY <1>0 DEF Ends, Request
  <1>G. \A pc : Goes(r, pc) => (\A p \in Requests \ {r} : req'[p] = req[p]) /\ req'[r].pc = pc
    BY <1>0 DEF Goes, Request
  \* A step that leaves the documents, too.
  <1>Q. ASSUME UNCHANGED <<doc, job, worker, faults>>,
               \A p \in Requests \ {r} : req'[p] = req[p],
               req'[r].pc = "enqueue" => doc[req'[r].doc].status # "none"
        PROVE  OutcomeInv'
    BY <1>Q, OutcomeRequest DEF Outcome
  <1>1. ASSUME NEW d \in Docs, Upload(r, d) PROVE OutcomeInv'
    <2>1. /\ \A p \in Requests \ {r} : req'[p] = req[p]
          /\ req'[r].doc = d
      BY <1>0, <1>1 DEF Upload, Request
    <2>2. /\ \A e \in Docs \ {d} : doc'[e] = doc[e]
          /\ doc[d].status = "none" /\ doc'[d].status = "pending"
      BY <1>0, <1>1 DEF Upload, SetStatus, Document
    <2>3. \A e \in Docs : Outcome(e) => Outcome(e)'
      BY <2>2 DEF Outcome
    <2> QED
      BY <1>1, <2>1, <2>2, <2>3, OutcomeRequest DEF Upload, jobOthers
  <1>2. ASSUME NEW d \in Docs, Reindex(r, d) PROVE OutcomeInv'
    <2>1. /\ \A p \in Requests \ {r} : req'[p] = req[p]
          /\ req'[r].doc = d
      BY <1>0, <1>2 DEF Reindex, Request
    <2>2. doc[d].status # "none"
      BY <1>2 DEF Reindex, Exists, Statuses
    <2> QED
      BY <1>2, <1>Q, <2>1, <2>2 DEF Reindex, stores, jobOthers
  <1>3. ASSUME NEW d \in Docs, RemoveDocument(r, d) PROVE OutcomeInv'
    <2>1. /\ \A p \in Requests \ {r} : req'[p] = req[p]
          /\ req'[r].pc = "vectors"
      BY <1>0, <1>3 DEF RemoveDocument
    <2> QED
      BY <1>3, <1>Q, <2>1 DEF RemoveDocument, stores, jobOthers
  <1>4. ASSUME RemoveKnowledgeBase(r) PROVE OutcomeInv'
    BY <1>4, <1>G, <1>Q DEF RemoveKnowledgeBase, jobOthers
  <1>5. ASSUME Enqueue(r) PROVE OutcomeInv'
    <2>1. PICK j \in JobIds :
            /\ job[j].st = "none"
            /\ job' = [job EXCEPT ![j] =
                 [st |-> "waiting", doc |-> req[r].doc, attempts |-> 0, stalls |-> 0]]
      BY <1>5 DEF Enqueue
    <2>2. UNCHANGED <<doc, worker, faults>> /\ Ends(r)
      BY <1>5 DEF Enqueue, stores, jobOthers
    <2>3. /\ \A i \in JobIds \ {j} : job'[i] = job[i]
          /\ job'[j].st = "waiting" /\ job'[j].doc = req[r].doc /\ job'[j].stalls = 0
      BY <2>1 DEF TypeInv, TypeOK
    <2>4. worker.pc \in {"complete", "fail"} => worker.job # j /\ worker.job \in JobIds
      BY <2>1, TargetType
    <2>5. worker.pc \in {"complete", "fail"} => Target' = Target
      BY <2>2, <2>3, <2>4 DEF Target
    <2>6. doc[req[r].doc].status # "none"
      BY <1>5 DEF Enqueue, OutcomeInv, JobsKnown
    <2>7. JobsKnown'
      <3>1. \A i \in JobIds : IF job'[i].st = "none" THEN job'[i].stalls = 0
                                                     ELSE doc'[job'[i].doc].status # "none"
        BY <2>2, <2>3, <2>6 DEF OutcomeInv, JobsKnown
      <3>2. \A p \in Requests : req'[p].pc = "enqueue" => doc'[req'[p].doc].status # "none"
        BY <1>E, <2>2 DEF OutcomeInv, JobsKnown
      <3>3. worker'.pc = "complete" \/ (worker'.pc = "fail" /\ faults' = 0) => Outcome(Target)'
        BY <2>2, <2>5 DEF OutcomeInv, JobsKnown, Outcome
      <3> QED
        BY <3>1, <3>2, <3>3 DEF JobsKnown
    <2>8. SettledHasOutcome'
      <3> SUFFICES ASSUME NEW d \in Docs, Queued(d)', ~Under(d)', ~GivenUp(d)', faults' = 0
                   PROVE  Outcome(d)'
        BY DEF SettledHasOutcome
      <3>1. d # req[r].doc
        BY <2>3 DEF Under
      <3>2. Queued(d) /\ ~Under(d)
        BY <2>1, <2>3, <3>1 DEF Queued, Under
      <3>3. ~GivenUp(d)
        BY <2>1, <2>3, <3>1 DEF GivenUp, OutcomeInv, JobsKnown
      <3> QED
        BY <2>2, <3>2, <3>3 DEF OutcomeInv, SettledHasOutcome, Outcome
    <2> QED
      BY <2>7, <2>8 DEF OutcomeInv
  <1>6. ASSUME DeleteVectors(r) PROVE OutcomeInv'
    BY <1>6, <1>G, <1>Q DEF DeleteVectors, jobOthers
  <1>7. ASSUME DeleteRows(r) PROVE OutcomeInv'
    BY <1>7, <1>G, <1>Q DEF DeleteRows, jobOthers
  <1>8. ASSUME ResetCount(r) PROVE OutcomeInv'
    <2>1. \A d \in Docs : doc'[d].status = doc[d].status
      BY <1>0, <1>8 DEF ResetCount, Document
    <2> QED
      BY <1>8, <1>G, <2>1, OutcomeRequest DEF ResetCount, jobOthers, Outcome
  <1>9. ASSUME DeleteDocument(r) PROVE OutcomeInv'
    <2>1. doc' = [d \in Docs |-> IF d \in {req[r].doc}
                                   THEN [doc[d] EXCEPT !.status = "removed"] ELSE doc[d]]
      BY <1>0, <1>9 DEF DeleteDocument, SetStatus
    <2>2. /\ \A d \in Docs : doc[d].status # "none" => doc'[d].status # "none"
          /\ \A d \in Docs : Outcome(d) => Outcome(d)'
      BY <1>0, <2>1, OutcomeRemoved
    <2> QED
      BY <1>9, <1>E, <2>2, OutcomeRequest DEF DeleteDocument, jobOthers
  <1>10. ASSUME DeleteKb(r) PROVE OutcomeInv'
    <2> DEFINE gone == {d \in Docs : Exists(d)}
    <2>1. doc' = [d \in Docs |-> IF d \in gone
                                   THEN [doc[d] EXCEPT !.status = "removed"] ELSE doc[d]]
      BY <1>10 DEF DeleteKb
    <2>2. gone \in SUBSET Docs
      OBVIOUS
    <2> HIDE DEF gone
    <2>3. /\ \A d \in Docs : doc[d].status # "none" => doc'[d].status # "none"
          /\ \A d \in Docs : Outcome(d) => Outcome(d)'
      BY <2>1, <2>2, OutcomeRemoved
    <2> QED
      BY <1>10, <1>E, <2>3, OutcomeRequest DEF DeleteKb, jobOthers
  <1>11. ASSUME RequestFails(r) PROVE OutcomeInv'
    BY <1>11, <1>E, <1>Q DEF RequestFails, jobOthers, stores
  <1> QED
    BY <1>1, <1>2, <1>3, <1>4, <1>5, <1>6, <1>7, <1>8, <1>9, <1>10, <1>11
    DEF Handle

\* A step of the worker with its job.
LEMMA OutcomeWorks ==
  ASSUME TypeInv, OutcomeInv, worker.pc # "idle", UNCHANGED <<job, req>>,
         faults' = 0 => faults = 0, worker'.job = worker.job,
         doc' = doc \/ \E s \in Document : /\ Exists(Target) /\ s.status \in Statuses
                                           /\ doc' = [doc EXCEPT ![Target] = s],
         worker'.pc = "complete" \/ (worker'.pc = "fail" /\ faults' = 0) => Outcome(Target)'
  PROVE  OutcomeInv'
PROOF
  <1>1. /\ Target \in Docs /\ Under(Target) /\ doc \in [Docs -> Document]
        /\ \A r \in Requests : req[r].doc \in Docs
    BY TargetType DEF Target, Under, TypeInv, TypeOK, Request
  <1>2. \A d \in Docs : doc'[d] = doc[d] \/ (d = Target /\ Exists(d) /\ doc'[d].status \in Statuses)
    BY <1>1
  <1>3. \A d \in Docs : doc[d].status # "none" => doc'[d].status # "none"
    BY <1>2 DEF Statuses
  <1>4. \A d \in Docs : Outcome(d) => Outcome(d)' \/ Under(d)
    BY <1>1, <1>2 DEF Outcome
  <1>5. \A r \in Requests : req'[r].pc = "enqueue" => doc'[req'[r].doc].status # "none"
    BY <1>1, <1>3 DEF OutcomeInv, JobsKnown
  <1> QED
    BY <1>3, <1>4, <1>5, OutcomeKept

\* The worker's job comes to its end, or goes back to the queue.
LEMMA OutcomeJob ==
  ASSUME TypeInv, OutcomeInv, UNCHANGED <<doc, req, faults>>,
         NEW j \in JobIds, NEW q \in Job, job' = [job EXCEPT ![j] = q],
         job[j].st # "none", q.st # "none", q.doc = job[j].doc, q.stalls >= job[j].stalls,
         \/ q.st \in {"waiting", "active"} \/ q.stalls > 1
         \/ faults = 0 => Outcome(job[j].doc),
         (worker' = worker /\ worker.job # j) \/ worker'.pc \notin {"complete", "fail"}
  PROVE  OutcomeInv'
PROOF
  <1>1. job'[j] = q /\ \A i \in JobIds \ {j} : job'[i] = job[i]
    BY DEF TypeInv, TypeOK
  <1>2. JobsKnown'
    <2>1. /\ \A i \in JobIds : IF job'[i].st = "none" THEN job'[i].stalls = 0
                                                       ELSE doc'[job'[i].doc].status # "none"
          /\ \A r \in Requests : req'[r].pc = "enqueue" => doc'[req'[r].doc].status # "none"
      BY <1>1 DEF OutcomeInv, JobsKnown
    <2>2. worker'.pc = "complete" \/ (worker'.pc = "fail" /\ faults' = 0) => Outcome(Target)'
      <3>1. worker'.pc \in {"complete", "fail"} => Target' = Target
        BY <1>1, TargetType DEF Target
      <3> QED
        BY <3>1 DEF OutcomeInv, JobsKnown, Outcome
    <2> QED
      BY <2>1, <2>2 DEF JobsKnown
  <1>3. SettledHasOutcome'
    <2> SUFFICES ASSUME NEW d \in Docs, Queued(d)', ~Under(d)', ~GivenUp(d)', faults' = 0
                 PROVE  Outcome(d)'
      BY DEF SettledHasOutcome
    <2>1. CASE d # job[j].doc
      <3>1. Queued(d) /\ ~Under(d) /\ ~GivenUp(d)
        BY <1>1, <2>1 DEF Queued, Under, GivenUp
      <3> QED
        BY <3>1 DEF OutcomeInv, SettledHasOutcome, Outcome
    <2>2. CASE d = job[j].doc
      BY <1>1, <2>2 DEF Under, GivenUp, Outcome
    <2> QED
      BY <2>1, <2>2
  <1> QED
    BY <1>2, <1>3 DEF OutcomeInv

LEMMA OutcomeWork ==
  ASSUME TypeInv, OutcomeInv, Work
  PROVE  OutcomeInv'
PROOF
  <1>0. /\ worker \in Worker /\ doc \in [Docs -> Document] /\ faults \in Nat
        /\ job \in [JobIds -> Job] /\ \A j \in JobIds : job[j].stalls \in Nat
        /\ \A d \in Docs : doc[d] \in Document
    BY BoundsAssumption DEF TypeInv, TypeOK, Job
  <1>P. \A pc : Works(pc) => worker'.pc = pc /\ worker'.job = worker.job
    BY <1>0 DEF Works, Worker
  <1>T. worker.pc # "idle" => /\ Target \in Docs /\ worker.job \in JobIds
                              /\ doc[Target].status # "none" /\ job[worker.job].st = "active"
    BY TargetType DEF OutcomeInv, JobsKnown, Target
  <1>G. worker.pc # "idle" /\ ~Exists(Target) => Outcome(Target)
    BY <1>0, <1>T DEF Exists, Outcome, Document
  \* A step that leaves the documents.
  <1>Q. ASSUME worker.pc # "idle", UNCHANGED <<doc, job, req>>, faults' = 0 => faults = 0,
               worker'.job = worker.job, worker'.pc \notin {"complete", "fail"}
        PROVE  OutcomeInv'
    BY <1>Q, OutcomeWorks
  \* A step that sets a status.
  <1>S. ASSUME NEW status \in Statuses, NEW n \in Nat, worker.pc # "idle", Exists(Target),
               doc' = [doc EXCEPT ![Target] = [status |-> status, count |-> n]],
               UNCHANGED <<job, req, faults>>, worker'.job = worker.job,
               worker'.pc \in {"complete", "fail"} => status \in {"ready", "failed"}
        PROVE  OutcomeInv'
    <2>1. PICK s \in Document : s = [status |-> status, count |-> n]
      BY DEF Document
    <2>2. Target' = Target
      BY <1>S DEF Target
    <2>3. doc'[Target].status = status
      BY <1>0, <1>S, <1>T
    <2>4. worker'.pc \in {"complete", "fail"} => Outcome(Target)'
      BY <1>S, <2>2, <2>3 DEF Outcome
    <2> QED
      BY <1>S, <2>1, <2>4, OutcomeWorks
  <1>C. \A status : worker.pc # "idle" /\ SetStatus(Target, status) =>
          /\ doc[Target].count \in Nat
          /\ doc' = [doc EXCEPT ![Target] = [status |-> status, count |-> doc[Target].count]]
    BY <1>0, <1>T DEF SetStatus, Document
  <1>1. ASSUME NEW j \in JobIds, Take(j) PROVE OutcomeInv'
    <2>1. PICK q \in Job : q = [job[j] EXCEPT !.st = "active"]
      BY <1>0 DEF Job
    <2>2. q.st = "active" /\ q.doc = job[j].doc /\ q.stalls = job[j].stalls
      BY <1>0, <2>1 DEF Job
    <2>3. job' = [job EXCEPT ![j] = q] /\ job[j].st = "waiting"
      BY <1>1, <2>1 DEF Take
    <2>4. worker'.pc = "mark" /\ UNCHANGED <<doc, req, faults>>
      BY <1>1 DEF Take, NoWork, stores, workOthers
    <2>5. q.stalls >= job[j].stalls
      BY <1>0, <2>2
    <2> QED
      BY <2>2, <2>3, <2>4, <2>5, OutcomeJob
  <1>2. ASSUME MarkProcessing PROVE OutcomeInv'
    <2>1. CASE Exists(Target)
      <3>1. SetStatus(Target, "processing") /\ Works("old")
        BY <1>2, <2>1 DEF MarkProcessing
      <3> QED
        BY <1>2, <1>C, <1>P, <1>S, <2>1, <3>1 DEF MarkProcessing, workOthers, Statuses
    <2>2. CASE ~Exists(Target)
      <3>1. UNCHANGED <<doc, job, req, faults>> /\ Works("fail") /\ worker.pc # "idle"
        BY <1>2, <2>2 DEF MarkProcessing, workOthers
      <3>2. Outcome(Target)'
        BY <1>G, <1>P, <2>2, <3>1 DEF Outcome, Target
      <3> QED
        BY <1>P, <3>1, <3>2, OutcomeWorks
    <2> QED
      BY <2>1, <2>2
  <1>3. ASSUME WorkFindOld PROVE OutcomeInv'
    <2>1. worker'.pc = "vectors" /\ worker'.job = worker.job
      BY <1>0, <1>3 DEF WorkFindOld, Worker
    <2> QED
      BY <1>3, <1>Q, <2>1 DEF WorkFindOld, stores, workOthers
  <1>4. ASSUME WorkDeleteVectors PROVE OutcomeInv'
    <2>1. worker'.pc = "rows" /\ worker'.job = worker.job
      BY <1>0, <1>4 DEF WorkDeleteVectors, Worker
    <2> QED
      BY <1>4, <1>Q, <2>1 DEF WorkDeleteVectors, workOthers
  <1>5. ASSUME WorkDeleteRows PROVE OutcomeInv'
    BY <1>5, <1>P, <1>Q DEF WorkDeleteRows, workOthers
  <1>6. ASSUME WorkResetCount PROVE OutcomeInv'
    <2>1. CASE Exists(Target)
      <3>1. /\ doc' = [doc EXCEPT ![Target].count = 0]
            /\ Works(NextPiece(0)) /\ UNCHANGED <<job, req, faults>> /\ worker.pc # "idle"
        BY <1>6, <2>1 DEF WorkResetCount, workOthers
      <3>2. worker'.pc \notin {"complete", "fail"} /\ worker'.job = worker.job
        BY <1>P, <3>1, NextPieceType
      <3>3. doc' = [doc EXCEPT ![Target] = [status |-> doc[Target].status, count |-> 0]]
        <4>1. doc[Target] \in Document
          BY <1>0, <1>T, <3>1
        <4>2. [doc[Target] EXCEPT !.count = 0] = [status |-> doc[Target].status, count |-> 0]
          BY <4>1 DEF Document
        <4> QED
          BY <3>1, <4>2
      <3>4. doc[Target].status \in Statuses /\ 0 \in Nat
        BY <2>1 DEF Exists
      <3> QED
        BY <1>S, <2>1, <3>1, <3>2, <3>3, <3>4
    <2>2. CASE ~Exists(Target)
      BY <1>6, <1>P, <1>Q, <2>2 DEF WorkResetCount, workOthers
    <2> QED
      BY <2>1, <2>2
  <1>7. ASSUME CreateChunk PROVE OutcomeInv'
    <2>1. worker'.pc \in {"upsert", "catch"} /\ worker'.job = worker.job
      BY <1>0, <1>7, <1>P DEF CreateChunk, Worker
    <2> QED
      BY <1>7, <1>Q, <2>1 DEF CreateChunk, workOthers
  <1>8. ASSUME UpsertChunk PROVE OutcomeInv'
    <2>1. worker'.pc \in {"chunk", "ready"} /\ worker'.job = worker.job
      BY <1>0, <1>8, NextPieceType DEF UpsertChunk, Worker
    <2> QED
      BY <1>8, <1>Q, <2>1 DEF UpsertChunk, workOthers
  <1>9. ASSUME MarkReady PROVE OutcomeInv'
    <2>1. CASE Exists(Target)
      <3>1. worker.made \in Nat
        BY <1>0 DEF Worker
      <3> QED
        BY <1>9, <1>P, <1>S, <2>1, <3>1 DEF MarkReady, workOthers, Statuses
    <2>2. CASE ~Exists(Target)
      BY <1>9, <1>P, <1>Q, <2>2 DEF MarkReady, workOthers
    <2> QED
      BY <2>1, <2>2
  <1>10. ASSUME WorkFails PROVE OutcomeInv'
    BY <1>10, <1>P, <1>Q DEF WorkFails, workOthers, stores
  <1>11. ASSUME MarkFailed PROVE OutcomeInv'
    <2>1. CASE Exists(Target)
      <3>1. SetStatus(Target, "failed") /\ Works("fail")
        BY <1>11, <2>1 DEF MarkFailed
      <3> QED
        BY <1>11, <1>C, <1>P, <1>S, <2>1, <3>1 DEF MarkFailed, workOthers, Statuses
    <2>2. CASE ~Exists(Target)
      <3>1. UNCHANGED <<doc, job, req, faults>> /\ Works("fail") /\ worker.pc # "idle"
        BY <1>11, <2>2 DEF MarkFailed, workOthers
      <3>2. Outcome(Target)'
        BY <1>G, <1>P, <2>2, <3>1 DEF Outcome, Target
      <3> QED
        BY <1>P, <3>1, <3>2, OutcomeWorks
    <2> QED
      BY <2>1, <2>2
  <1>12. ASSUME MarkFails PROVE OutcomeInv'
    <2>1. faults' # 0 /\ worker'.pc = "fail" /\ worker'.job = worker.job
      BY <1>0, <1>12, <1>P DEF MarkFails
    <2> QED
      BY <1>12, <2>1, OutcomeWorks DEF MarkFails, stores, workOthers
  <1>13. ASSUME Complete PROVE OutcomeInv'
    <2>1. worker.pc = "complete" /\ worker.job \in JobIds /\ Outcome(Target)
      BY <1>13, <1>T DEF Complete, OutcomeInv, JobsKnown
    <2>2. PICK q \in Job : q = [job[worker.job] EXCEPT !.st = "completed"]
      BY <1>0, <2>1 DEF Job
    <2>3. /\ q.st = "completed" /\ q.doc = job[worker.job].doc
          /\ q.stalls = job[worker.job].stalls /\ q.stalls >= job[worker.job].stalls
      BY <1>0, <2>1, <2>2 DEF Job
    <2>4. job' = [job EXCEPT ![worker.job] = q]
      BY <1>13, <2>2 DEF Complete
    <2>5. UNCHANGED <<doc, req, faults>> /\ worker'.pc = "idle"
      BY <1>13 DEF Complete, NoWork, stores, workOthers
    <2>6. faults = 0 => Outcome(job[worker.job].doc)
      BY <2>1 DEF Target
    <2> QED
      BY <1>T, <2>1, <2>3, <2>4, <2>5, <2>6, OutcomeJob
  <1>14. ASSUME AttemptFails PROVE OutcomeInv'
    <2>1. worker.pc = "fail" /\ worker.job \in JobIds /\ (faults = 0 => Outcome(Target))
      BY <1>14, <1>T DEF AttemptFails, OutcomeInv, JobsKnown
    <2> DEFINE n == job[worker.job].attempts + 1
    <2>2. PICK q \in Job : q = [job[worker.job] EXCEPT !.attempts = n,
                                  !.st = IF n < Attempts THEN "waiting" ELSE "failed"]
      <3>1. /\ job[worker.job].attempts < Attempts /\ job[worker.job].attempts \in Nat
            /\ job[worker.job] \in Job /\ Attempts \in Nat
        BY <1>0, <1>T, <2>1, AttemptsAssumption DEF TypeInv, JobsBounded, Job
      <3>2. n \in 0 .. Attempts
        BY <3>1
      <3> QED
        BY <3>1, <3>2 DEF Job
    <2>3. /\ q.st # "none" /\ q.doc = job[worker.job].doc
          /\ q.stalls = job[worker.job].stalls /\ q.stalls >= job[worker.job].stalls
      BY <1>0, <2>1, <2>2 DEF Job
    <2>4. job' = [job EXCEPT ![worker.job] = q]
      BY <1>14, <2>2 DEF AttemptFails
    <2>5. UNCHANGED <<doc, req, faults>> /\ worker'.pc = "idle"
      BY <1>14 DEF AttemptFails, NoWork, stores, workOthers
    <2>6. faults = 0 => Outcome(job[worker.job].doc)
      BY <2>1 DEF Target
    <2> QED
      BY <1>T, <2>1, <2>3, <2>4, <2>5, <2>6, OutcomeJob
  <1> QED
    BY <1>1, <1>2, <1>3, <1>4, <1>5, <1>6, <1>7, <1>8, <1>9, <1>10, <1>11, <1>12, <1>13,
       <1>14 DEF Work

LEMMA OutcomeStalled ==
  ASSUME TypeInv, OutcomeInv, NEW j \in JobIds, Stalled(j)
  PROVE  OutcomeInv'
PROOF
  <1>1. /\ job[j] \in Job /\ job[j].st = "active" /\ worker.job # j /\ job[j].stalls < 2
        /\ job[j].stalls \in Nat
    BY DEF TypeInv, TypeOK, JobsBounded, Stalled, Job
  <1> DEFINE n == job[j].stalls + 1
  <1> DEFINE st == IF job[j].stalls = 0 THEN "waiting" ELSE "failed"
  <1>2. n \in 0 .. 2 /\ n >= job[j].stalls /\ (st = "waiting" \/ (st = "failed" /\ n > 1))
    BY <1>1
  <1>3. PICK q \in Job : q = [job[j] EXCEPT !.stalls = n, !.st = st]
    BY <1>1, <1>2 DEF Job
  <1>4. q.st = st /\ q.stalls = n /\ q.doc = job[j].doc
    BY <1>1, <1>3 DEF Job
  <1>5. job' = [job EXCEPT ![j] = q] /\ UNCHANGED <<doc, req, faults, worker>>
    BY <1>3 DEF Stalled, stores, workOthers
  <1> HIDE DEF n, st
  <1> QED
    BY <1>1, <1>2, <1>4, <1>5, OutcomeJob

LEMMA OutcomeCrash ==
  ASSUME TypeInv, OutcomeInv, Crash
  PROVE  OutcomeInv'
PROOF
  <1>1. /\ UNCHANGED <<doc, job, faults>> /\ worker'.pc = "idle"
        /\ \A r \in Requests : req'[r].pc = "idle"
    BY DEF Crash, NoWork, stores, TypeInv, TypeOK, Request
  <1> QED
    BY <1>1, OutcomeKept DEF Outcome

LEMMA OutcomeNext == TypeInv /\ OutcomeInv /\ [Next]_vars => OutcomeInv'
PROOF
  <1> SUFFICES ASSUME TypeInv, OutcomeInv, [Next]_vars PROVE OutcomeInv'
    OBVIOUS
  <1>1. CASE Next
    BY <1>1, OutcomeRequests, OutcomeWork, OutcomeStalled, OutcomeCrash DEF Next, Step
  <1>2. CASE UNCHANGED vars
    BY <1>2 DEF vars, stores, OutcomeInv, SettledHasOutcome, JobsKnown, Queued, Under,
       GivenUp, Outcome, Target
  <1> QED
    BY <1>1, <1>2

\* The states the interface waits for are always reached by the jobs: when none is left
\* for a document, IngestService has marked it ready or failed or its row is gone, unless
\* the update that marks it failed, or BullMQ gave its job up.
THEOREM SettledAlwaysHasOutcome == Spec => []SettledHasOutcome
PROOF
  <1>1. OutcomeInv => SettledHasOutcome
    BY DEF OutcomeInv
  <1> QED
    BY <1>1, OutcomeInit, OutcomeNext, TypeInvariant, PTL DEF Spec

-----------------------------------------------------------------------------
(* Documents that say ready.                                               *)

LEMMA ReadyInit == Init => ReadyInv
PROOF
  <1> SUFFICES ASSUME Init PROVE ReadyInv
    OBVIOUS
  <1>1. /\ \A d \in Docs : doc[d].status = "none"
        /\ \A r \in Requests : req[r].pc = "idle"
        /\ worker.pc = "idle" /\ worker.last = {}
    BY DEF Init, NoWork
  <1> QED
    BY <1>1 DEF ReadyInv, ReadyIsIndexed, RemovalNoted, WorkCounts, WorkIndexes, Removals

\* What is indexed stays so as long as its vectors do.
LEMMA IndexedKept ==
  ASSUME NEW rows, NEW n, Indexed(rows, n), rows \subseteq vectors'
  PROVE  Indexed(rows, n)'
  BY DEF Indexed

LEMMA NothingIndexed == Indexed({}, 0)
  BY FS_EmptySet DEF Indexed

\* One more piece.
LEMMA OneMoreIndexed ==
  ASSUME NEW rows, NEW n \in Nat, Indexed(rows, n), NEW c, c \notin rows, c.piece = n,
         rows \cup {c} \subseteq vectors'
  PROVE  Indexed(rows \cup {c}, n + 1)'
PROOF
  <1>1. /\ {d.piece : d \in rows} = 0 .. n - 1
        /\ IsFiniteSet(rows) /\ Cardinality(rows) = n
    BY DEF Indexed
  <1>2. IsFiniteSet(rows \cup {c}) /\ Cardinality(rows \cup {c}) = n + 1
    BY <1>1, FS_AddElement
  <1>3. {d.piece : d \in rows \cup {c}} = 0 .. (n + 1) - 1
    <2>1. {d.piece : d \in rows \cup {c}} = {d.piece : d \in rows} \cup {n}
      OBVIOUS
    <2>2. (0 .. n - 1) \cup {n} = 0 .. (n + 1) - 1
      OBVIOUS
    <2> QED
      BY <1>1, <2>1, <2>2
  <1> QED
    BY <1>2, <1>3 DEF Indexed

\* A step of a request, which takes rows and vectors only from documents it notes.
LEMMA ReadyRequest ==
  ASSUME TypeInv, ReadyInv, worker' = worker, worker.pc # "idle" => Target' = Target,
         touched \subseteq touched', touched' \subseteq Docs,
         chunks' \subseteq chunks,
         \A d \in Docs \ touched' :
           ChunksOf(d) \subseteq chunks' /\ ChunksOf(d) \cap vectors \subseteq vectors',
         \A d \in Docs : doc'[d].status = "ready" =>
           doc[d].status = "ready" /\ (d \in touched' \/ doc'[d].count = doc[d].count),
         NEW r \in Requests, \A p \in Requests \ {r} : req'[p] = req[p],
         RemovalNoted(r)'
  PROVE  ReadyInv'
PROOF
  <1>1. \A d \in Docs \ touched' : ChunksOf(d)' = ChunksOf(d)
    BY DEF ChunksOf
  <1>2. ReadyIsIndexed'
    <2> SUFFICES ASSUME NEW d \in Docs, doc'[d].status = "ready", d \notin touched'
                 PROVE  Indexed(ChunksOf(d), Pieces[d])' /\ doc'[d].count = Pieces[d]
      BY DEF ReadyIsIndexed
    <2>1. Indexed(ChunksOf(d), Pieces[d]) /\ doc[d].count = Pieces[d]
      BY DEF ReadyInv, ReadyIsIndexed
    <2>2. ChunksOf(d) \subseteq vectors'
      BY <2>1 DEF Indexed
    <2>3. Indexed(ChunksOf(d), Pieces[d])'
      BY <1>1, <2>1, <2>2 DEF Indexed
    <2> QED
      BY <2>1, <2>3
  <1>3. \A p \in Requests : RemovalNoted(p)'
    BY DEF ReadyInv, RemovalNoted
  <1>4. WorkCounts'
    BY DEF ReadyInv, WorkCounts
  <1>5. WorkIndexes'
    <2>1. worker.pc # "idle" => Target \in Docs
      BY TargetType
    <2>2. (worker.pc \notin {"idle", "mark", "complete", "fail"} => doc[Target].status # "ready")'
      BY <2>1 DEF ReadyInv, WorkIndexes
    <2>3. (worker.pc = "count" => ChunksOf(Target) = {})'
      BY DEF ReadyInv, WorkIndexes, ChunksOf
    <2>4. ASSUME worker.pc \in {"chunk", "upsert", "ready"}, Target \notin touched'
          PROVE  Indexed(ChunksOf(Target) \ worker.last, worker.made)'
      <3>1. /\ Indexed(ChunksOf(Target) \ worker.last, worker.made)
            /\ Target' = Target /\ Target \in Docs
        BY <2>1, <2>4 DEF ReadyInv, WorkIndexes
      <3>2. ChunksOf(Target)' = ChunksOf(Target)
        BY <1>1, <2>4, <3>1 DEF ChunksOf
      <3>3. ChunksOf(Target) \ worker.last \subseteq vectors'
        BY <2>4, <3>1 DEF Indexed
      <3> QED
        BY <3>1, <3>2, <3>3 DEF Indexed
    <2>5. ASSUME worker.pc = "upsert", Target \notin touched'
          PROVE  (\E c \in ChunksOf(Target) : worker.last = {c} /\ c.piece = worker.made)'
      <3>1. PICK c \in ChunksOf(Target) : worker.last = {c} /\ c.piece = worker.made
        BY <2>5 DEF ReadyInv, WorkIndexes
      <3>2. c \in ChunksOf(Target)'
        BY <1>1, <2>1, <2>5 DEF ChunksOf
      <3> QED
        BY <3>1, <3>2
    <2>6. worker.pc # "idle" => Target' = Target
      OBVIOUS
    <2> QED
      BY <2>2, <2>3, <2>4, <2>5, <2>6 DEF WorkIndexes
  <1> QED
    BY <1>2, <1>3, <1>4, <1>5 DEF ReadyInv

LEMMA ReadyRequests ==
  ASSUME TypeInv, TypeInv', ReadyInv, NEW r \in Requests,
         \/ \E d \in Docs : Upload(r, d) \/ Reindex(r, d) \/ RemoveDocument(r, d)
         \/ RemoveKnowledgeBase(r) \/ Handle(r)
  PROVE  ReadyInv'
PROOF
  <1>0. /\ req \in [Requests -> Request] /\ req[r] \in Request /\ req[r].doc \in Docs
        /\ doc \in [Docs -> Document] /\ touched \subseteq Docs /\ chunks \subseteq Chunk
        /\ \A d \in Docs : doc[d] \in Document
        /\ RemovalNoted(r)
    BY DEF TypeInv, TypeOK, Request, ReadyInv
  <1>E. Ends(r) => (\A p \in Requests \ {r} : req'[p] = req[p]) /\ RemovalNoted(r)'
    BY <1>0 DEF Ends, Request, RemovalNoted, Removals
  <1>G. \A pc : Goes(r, pc) => /\ \A p \in Requests \ {r} : req'[p] = req[p]
                               /\ req'[r].pc = pc /\ req'[r].doc = req[r].doc
    BY <1>0 DEF Goes, Request
  <1>T. touched' = touched \/ touched' = Docs => touched \subseteq touched' /\ touched' \subseteq Docs
    BY <1>0
  \* A step that leaves the stores but what a document says, which it does not call ready.
  <1>Q. ASSUME UNCHANGED <<chunks, vectors, worker, job, touched>>,
               \A d \in Docs : doc'[d] = doc[d] \/ doc'[d].status # "ready",
               \A p \in Requests \ {r} : req'[p] = req[p], RemovalNoted(r)'
        PROVE  ReadyInv'
    <2>1. \A d \in Docs : doc'[d].status = "ready" =>
            doc[d].status = "ready" /\ (d \in touched' \/ doc'[d].count = doc[d].count)
      BY <1>Q
    <2>2. \A d \in Docs \ touched' :
            ChunksOf(d) \subseteq chunks' /\ ChunksOf(d) \cap vectors \subseteq vectors'
      BY <1>Q DEF ChunksOf
    <2> QED
      BY <1>0, <1>Q, <1>T, <2>1, <2>2, ReadyRequest DEF Target
  \* A step of a removal, which leaves vectors and rows of other documents.
  <1>R. ASSUME req[r].pc \in Removals, UNCHANGED <<worker, job, touched>>,
               chunks' \subseteq chunks,
               \A c \in chunks : c.doc # req[r].doc => c \in chunks',
               \A c \in vectors : c.doc # req[r].doc => c \in vectors',
               \A d \in Docs \ {req[r].doc} : doc'[d] = doc[d],
               doc'[req[r].doc].status = "ready" => doc[req[r].doc].status = "ready",
               \A p \in Requests \ {r} : req'[p] = req[p], RemovalNoted(r)'
        PROVE  ReadyInv'
    <2>1. req[r].doc \in touched'
      BY <1>0, <1>R DEF RemovalNoted
    <2>2. \A d \in Docs \ touched' :
            ChunksOf(d) \subseteq chunks' /\ ChunksOf(d) \cap vectors \subseteq vectors'
      BY <1>R, <2>1 DEF ChunksOf
    <2>3. \A d \in Docs : doc'[d].status = "ready" =>
            doc[d].status = "ready" /\ (d \in touched' \/ doc'[d].count = doc[d].count)
      BY <1>R, <2>1
    <2> QED
      BY <1>0, <1>R, <1>T, <2>2, <2>3, ReadyRequest DEF Target
  <1>1. ASSUME NEW d \in Docs, Upload(r, d) PROVE ReadyInv'
    <2>1. /\ \A p \in Requests \ {r} : req'[p] = req[p]
          /\ req'[r].pc = "enqueue"
      BY <1>0, <1>1 DEF Upload, Request
    <2>2. \A e \in Docs : doc'[e] = doc[e] \/ doc'[e].status # "ready"
      BY <1>0, <1>1 DEF Upload, SetStatus, Document
    <2>3. RemovalNoted(r)'
      BY <2>1 DEF RemovalNoted, Removals
    <2> QED
      BY <1>1, <1>Q, <2>1, <2>2, <2>3 DEF Upload, jobOthers
  <1>2. ASSUME NEW d \in Docs, Reindex(r, d) PROVE ReadyInv'
    <2>1. /\ \A p \in Requests \ {r} : req'[p] = req[p]
          /\ req'[r].pc = "enqueue"
      BY <1>0, <1>2 DEF Reindex, Request
    <2>2. RemovalNoted(r)'
      BY <2>1 DEF RemovalNoted, Removals
    <2> QED
      BY <1>2, <1>Q, <2>1, <2>2 DEF Reindex, jobOthers, stores
  <1>3. ASSUME NEW d \in Docs, RemoveDocument(r, d) PROVE ReadyInv'
    <2>1. /\ \A p \in Requests \ {r} : req'[p] = req[p]
          /\ req'[r].pc = "vectors" /\ req'[r].doc = d /\ req'[r].old = ChunksOf(d)
      BY <1>0, <1>3 DEF RemoveDocument, Request
    <2>2. RemovalNoted(r)'
      BY <1>3, <2>1 DEF RemoveDocument, RemovalNoted, ChunksOf
    <2>3. /\ touched \subseteq touched' /\ touched' \subseteq Docs
          /\ UNCHANGED <<doc, chunks, vectors, job, worker>>
      BY <1>0, <1>3 DEF RemoveDocument, jobOthers, stores
    <2>4. \A e \in Docs \ touched' :
            ChunksOf(e) \subseteq chunks' /\ ChunksOf(e) \cap vectors \subseteq vectors'
      BY <2>3 DEF ChunksOf
    <2> QED
      BY <2>1, <2>2, <2>3, <2>4, ReadyRequest DEF Target
  <1>4. ASSUME RemoveKnowledgeBase(r) PROVE ReadyInv'
    <2>1. /\ \A p \in Requests \ {r} : req'[p] = req[p]
          /\ req'[r].pc = "kb" /\ touched' = Docs
          /\ UNCHANGED <<doc, chunks, job, worker>>
      BY <1>0, <1>4, <1>G DEF RemoveKnowledgeBase, jobOthers
    <2>2. RemovalNoted(r)'
      BY <2>1 DEF RemovalNoted, Removals
    <2> QED
      BY <1>T, <2>1, <2>2, ReadyRequest DEF Target
  <1>5. ASSUME Enqueue(r) PROVE ReadyInv'
    <2>1. PICK j \in JobIds :
            /\ job[j].st = "none"
            /\ job' = [job EXCEPT ![j] =
                 [st |-> "waiting", doc |-> req[r].doc, attempts |-> 0, stalls |-> 0]]
      BY <1>5 DEF Enqueue
    <2>2. UNCHANGED <<stores, touched, worker>> /\ Ends(r)
      BY <1>5 DEF Enqueue, jobOthers
    <2>3. worker.pc # "idle" => Target' = Target
      BY <2>1, <2>2, TargetType DEF Target, TypeInv, TypeOK
    <2>4. \A e \in Docs \ touched' :
            ChunksOf(e) \subseteq chunks' /\ ChunksOf(e) \cap vectors \subseteq vectors'
      BY <2>2 DEF ChunksOf, stores
    <2> QED
      BY <1>E, <1>T, <2>2, <2>3, <2>4, ReadyRequest DEF stores
  <1>6. ASSUME DeleteVectors(r) PROVE ReadyInv'
    <2>1. \A c \in vectors : c.doc # req[r].doc => c \in vectors'
      BY <1>0, <1>6 DEF DeleteVectors, RemovalNoted
    <2>2. /\ \A p \in Requests \ {r} : req'[p] = req[p]
          /\ req'[r].pc = "rows" /\ req'[r].doc = req[r].doc
      BY <1>6, <1>G DEF DeleteVectors
    <2>3. RemovalNoted(r)'
      BY <1>0, <1>6, <2>2 DEF DeleteVectors, RemovalNoted, Removals
    <2> QED
      BY <1>6, <1>R, <2>1, <2>2, <2>3 DEF DeleteVectors, jobOthers, Removals
  <1>7. ASSUME DeleteRows(r) PROVE ReadyInv'
    <2>1. chunks' \subseteq chunks /\ \A c \in chunks : c.doc # req[r].doc => c \in chunks'
      BY <1>7 DEF DeleteRows, ChunksOf
    <2>2. /\ \A p \in Requests \ {r} : req'[p] = req[p]
          /\ req'[r].pc = "count" /\ req'[r].doc = req[r].doc
      BY <1>7, <1>G DEF DeleteRows
    <2>3. RemovalNoted(r)'
      BY <1>0, <1>7, <2>2 DEF DeleteRows, RemovalNoted, Removals
    <2> QED
      BY <1>7, <1>R, <2>1, <2>2, <2>3 DEF DeleteRows, jobOthers, Removals
  <1>8. ASSUME ResetCount(r) PROVE ReadyInv'
    <2>1. /\ \A d \in Docs \ {req[r].doc} : doc'[d] = doc[d]
          /\ doc'[req[r].doc].status = doc[req[r].doc].status
      BY <1>0, <1>8 DEF ResetCount, Document
    <2>2. /\ \A p \in Requests \ {r} : req'[p] = req[p]
          /\ req'[r].pc = "delete" /\ req'[r].doc = req[r].doc
      BY <1>8, <1>G DEF ResetCount
    <2>3. RemovalNoted(r)'
      BY <1>0, <1>8, <2>2 DEF ResetCount, RemovalNoted, Removals
    <2> QED
      BY <1>8, <1>R, <2>1, <2>2, <2>3 DEF ResetCount, jobOthers, Removals
  <1>9. ASSUME DeleteDocument(r) PROVE ReadyInv'
    <2>1. chunks' \subseteq chunks /\ \A c \in chunks : c.doc # req[r].doc => c \in chunks'
      BY <1>9 DEF DeleteDocument, ChunksOf
    <2>2. /\ \A d \in Docs \ {req[r].doc} : doc'[d] = doc[d]
          /\ doc'[req[r].doc].status = "removed"
      BY <1>0, <1>9 DEF DeleteDocument, SetStatus, Document
    <2> QED
      BY <1>9, <1>E, <1>R, <2>1, <2>2 DEF DeleteDocument, jobOthers, Removals
  <1>10. ASSUME DeleteKb(r) PROVE ReadyInv'
    <2>1. touched' = Docs /\ UNCHANGED <<vectors, job, worker>> /\ chunks' = {}
      BY <1>0, <1>10 DEF DeleteKb, RemovalNoted, jobOthers
    <2>2. \A d \in Docs : doc'[d].status = "ready" => doc[d].status = "ready"
      <3>1. \A d \in Docs : [doc[d] EXCEPT !.status = "removed"].status = "removed"
        BY <1>0 DEF Document
      <3> QED
        BY <1>10, <3>1 DEF DeleteKb
    <2> QED
      BY <1>10, <1>E, <1>T, <2>1, <2>2, ReadyRequest DEF DeleteKb, Target
  <1>11. ASSUME RequestFails(r) PROVE ReadyInv'
    BY <1>11, <1>E, <1>Q DEF RequestFails, jobOthers, stores
  <1> QED
    BY <1>1, <1>2, <1>3, <1>4, <1>5, <1>6, <1>7, <1>8, <1>9, <1>10, <1>11
    DEF Handle

\* A step of the worker, which leaves what other documents have.
LEMMA ReadyWorks ==
  ASSUME TypeInv, ReadyInv, worker.pc # "idle", Target' = Target,
         UNCHANGED <<req, touched>>,
         \A d \in Docs \ {Target} : doc'[d] = doc[d],
         \A c \in Chunk : c.doc # Target => (c \in chunks' <=> c \in chunks)
                                             /\ (c \in vectors => c \in vectors'),
         doc'[Target].status = "ready" /\ Target \notin touched =>
           Indexed(ChunksOf(Target), Pieces[Target])' /\ doc'[Target].count = Pieces[Target],
         chunks' \subseteq Chunk, WorkCounts', WorkIndexes'
  PROVE  ReadyInv'
PROOF
  <1>1. ReadyIsIndexed'
    <2> SUFFICES ASSUME NEW d \in Docs, doc'[d].status = "ready", d \notin touched'
                 PROVE  Indexed(ChunksOf(d), Pieces[d])' /\ doc'[d].count = Pieces[d]
      BY DEF ReadyIsIndexed
    <2>1. CASE d = Target
      <3>1. ChunksOf(d)' = ChunksOf(Target)'
        BY <2>1 DEF ChunksOf
      <3> QED
        BY <2>1, <3>1 DEF Indexed
    <2>2. CASE d # Target
      <3>1. Indexed(ChunksOf(d), Pieces[d]) /\ doc[d].count = Pieces[d] /\ doc'[d] = doc[d]
        BY <2>2 DEF ReadyInv, ReadyIsIndexed
      <3>2. chunks \subseteq Chunk /\ ChunksOf(d) \subseteq vectors
        BY <3>1 DEF TypeInv, TypeOK, Indexed
      <3>3. ChunksOf(d)' = ChunksOf(d) /\ ChunksOf(d) \subseteq vectors'
        BY <2>2, <3>2 DEF ChunksOf
      <3> QED
        BY <3>1, <3>3 DEF Indexed
    <2> QED
      BY <2>1, <2>2
  <1>2. \A p \in Requests : RemovalNoted(p)'
    BY DEF ReadyInv, RemovalNoted
  <1> QED
    BY <1>1, <1>2 DEF ReadyInv

\* A step that only goes on to a point at which nothing is known of the document.
LEMMA ReadyGoesOn ==
  ASSUME TypeInv, ReadyInv, UNCHANGED <<chunks, vectors, req, touched>>,
         worker.pc # "idle", Target' = Target,
         doc' = doc \/ \E s \in Document : /\ s.status # "ready"
                                           /\ doc' = [doc EXCEPT ![Target] = s],
         worker'.pc \in {"catch", "fail"},
         worker'.pc = "catch" => doc'[Target].status # "ready"
  PROVE  ReadyInv'
PROOF
  <1>1. /\ Target \in Docs /\ doc \in [Docs -> Document] /\ chunks \subseteq Chunk
    BY TargetType DEF TypeInv, TypeOK
  <1>2. /\ \A d \in Docs \ {Target} : doc'[d] = doc[d]
        /\ doc'[Target] = doc[Target] \/ doc'[Target].status # "ready"
    BY <1>1
  <1>3. doc'[Target].status = "ready" /\ Target \notin touched =>
          Indexed(ChunksOf(Target), Pieces[Target])' /\ doc'[Target].count = Pieces[Target]
    <2> SUFFICES ASSUME doc'[Target] = doc[Target], doc[Target].status = "ready",
                        Target \notin touched
                 PROVE  Indexed(ChunksOf(Target), Pieces[Target])'
                          /\ doc'[Target].count = Pieces[Target]
      BY <1>2
    <2>1. Indexed(ChunksOf(Target), Pieces[Target]) /\ doc[Target].count = Pieces[Target]
      BY <1>1 DEF ReadyInv, ReadyIsIndexed
    <2> QED
      BY <2>1 DEF Indexed, ChunksOf
  <1>4. WorkCounts'
    BY DEF WorkCounts
  <1>5. WorkIndexes'
    BY DEF WorkIndexes
  <1> QED
    BY <1>1, <1>2, <1>3, <1>4, <1>5, ReadyWorks

LEMMA ReadyWork ==
  ASSUME TypeInv, TypeInv', ReadyInv, Work
  PROVE  ReadyInv'
PROOF
  <1>0. /\ worker \in Worker /\ worker.made \in Nat /\ doc \in [Docs -> Document]
        /\ chunks \subseteq Chunk /\ chunks' \subseteq Chunk /\ vectors \subseteq Chunk
        /\ job \in [JobIds -> Job] /\ \A d \in Docs : doc[d] \in Document /\ Pieces[d] \in Nat
        /\ \A c \in Chunk : c.doc \in Docs
    BY PiecesAssumption DEF TypeInv, TypeOK, Worker, Chunk
  <1>I. /\ ReadyIsIndexed /\ WorkCounts /\ WorkIndexes
        /\ \A p \in Requests : RemovalNoted(p)
    BY DEF ReadyInv
  <1>P. \A pc : Works(pc) => worker'.pc = pc /\ worker'.old = worker.old
                            /\ worker'.job = worker.job /\ worker'.last = worker.last
                            /\ worker'.made = worker.made
    BY <1>0 DEF Works, Worker
  <1>T. worker.pc # "idle" => /\ Target \in Docs
                              /\ worker'.job = worker.job /\ job' = job => Target' = Target
    BY TargetType DEF Target
  \* A step that takes or leaves a job, and nothing else.
  <1>J. ASSUME UNCHANGED <<stores, req, touched>>,
               worker'.pc \in {"idle", "mark"}, worker'.made = 0, worker'.last = {}
        PROVE  ReadyInv'
    <2>1. WorkCounts' /\ WorkIndexes'
      BY <1>J DEF WorkCounts, WorkIndexes
    <2>2. ReadyIsIndexed'
      BY <1>I, <1>J DEF ReadyIsIndexed, Indexed, ChunksOf, stores
    <2>3. \A p \in Requests : RemovalNoted(p)'
      BY <1>I, <1>J DEF RemovalNoted
    <2> QED
      BY <2>1, <2>2, <2>3 DEF ReadyInv
  <1>1. ASSUME NEW j \in JobIds, Take(j) PROVE ReadyInv'
    BY <1>1, <1>J DEF Take, NoWork, workOthers
  <1>2. ASSUME MarkProcessing PROVE ReadyInv'
    <2>1. /\ worker.pc = "mark" /\ UNCHANGED <<chunks, vectors, job, req, touched>>
          /\ Target \in Docs
      BY <1>2, <1>T DEF MarkProcessing, workOthers
    <2>2. CASE Exists(Target)
      <3>1. SetStatus(Target, "processing") /\ Works("old")
        BY <1>2, <2>2 DEF MarkProcessing
      <3>2. /\ \A d \in Docs \ {Target} : doc'[d] = doc[d]
            /\ doc'[Target].status = "processing"
        BY <1>0, <2>1, <3>1 DEF SetStatus, Document
      <3>3. Target' = Target /\ worker'.pc = "old" /\ worker'.made = 0 /\ worker'.last = {}
        BY <1>I, <1>P, <1>T, <2>1, <3>1 DEF WorkCounts
      <3>4. WorkCounts' /\ WorkIndexes'
        BY <3>2, <3>3 DEF WorkCounts, WorkIndexes
      <3> QED
        BY <1>0, <2>1, <3>2, <3>3, <3>4, ReadyWorks
    <2>3. CASE ~Exists(Target)
      BY <1>2, <1>P, <1>T, <2>1, <2>3, ReadyGoesOn DEF MarkProcessing
    <2> QED
      BY <2>2, <2>3
  <1>3. ASSUME WorkFindOld PROVE ReadyInv'
    <2>1. /\ worker'.pc = "vectors" /\ worker'.old = ChunksOf(Target)
          /\ worker'.made = 0 /\ worker'.last = {} /\ Target' = Target
          /\ worker.pc = "old" /\ UNCHANGED <<stores, req>>
      BY <1>0, <1>3, <1>I, <1>T DEF WorkFindOld, Worker, WorkCounts, workOthers
    <2>2. doc[Target].status # "ready"
      BY <1>I, <2>1 DEF WorkIndexes
    <2>3. WorkCounts' /\ WorkIndexes'
      BY <2>1, <2>2 DEF WorkCounts, WorkIndexes, ChunksOf, stores
    <2>4. \A d \in Docs \ touched' : d \notin touched \/ d = Target
      BY <1>3 DEF WorkFindOld
    <2>5. ReadyIsIndexed'
      BY <1>I, <2>1, <2>2, <2>4 DEF ReadyIsIndexed, Indexed, ChunksOf, stores
    <2>6. ASSUME NEW p \in Requests PROVE RemovalNoted(p)'
      <3>1. req[p].pc = "kb" \/ (req[p].pc \in Removals /\ req[p].doc = Target) =>
              Removing(Target)
        BY DEF Removing
      <3>2. Removing(Target) => touched' = touched
        BY <1>3 DEF WorkFindOld
      <3>3. touched \ {Target} \subseteq touched'
        BY <1>3 DEF WorkFindOld
      <3> QED
        BY <1>I, <2>1, <3>1, <3>2, <3>3 DEF RemovalNoted
    <2> QED
      BY <2>3, <2>5, <2>6 DEF ReadyInv
  <1>4. ASSUME WorkDeleteVectors PROVE ReadyInv'
    <2>1. /\ worker'.pc = "rows" /\ worker'.made = 0 /\ worker'.last = {} /\ Target' = Target
          /\ worker.pc = "vectors" /\ UNCHANGED <<doc, chunks, req, touched>>
          /\ vectors' = vectors \ worker.old
      BY <1>0, <1>4, <1>I, <1>T DEF WorkDeleteVectors, Worker, WorkCounts, workOthers
    <2>2. doc[Target].status # "ready" /\ \A c \in worker.old : c.doc = Target
      BY <1>I, <2>1 DEF WorkIndexes, WorkCounts
    <2>3. WorkCounts' /\ WorkIndexes'
      BY <2>1, <2>2 DEF WorkCounts, WorkIndexes
    <2> QED
      BY <1>0, <2>1, <2>2, <2>3, ReadyWorks
  <1>5. ASSUME WorkDeleteRows PROVE ReadyInv'
    <2>1. /\ worker'.pc = "count" /\ worker'.made = 0 /\ worker'.last = {} /\ Target' = Target
          /\ worker.pc = "rows" /\ UNCHANGED <<doc, vectors, req, touched>>
          /\ chunks' = chunks \ ChunksOf(Target)
      BY <1>5, <1>I, <1>P, <1>T DEF WorkDeleteRows, WorkCounts, workOthers
    <2>2. doc[Target].status # "ready"
      BY <1>I, <2>1 DEF WorkIndexes
    <2>3. ChunksOf(Target)' = {}
      BY <2>1 DEF ChunksOf
    <2>4. WorkCounts' /\ WorkIndexes'
      BY <2>1, <2>2, <2>3 DEF WorkCounts, WorkIndexes
    <2> QED
      BY <1>0, <2>1, <2>2, <2>4, ReadyWorks DEF ChunksOf
  <1>6. ASSUME WorkResetCount PROVE ReadyInv'
    <2>1. /\ worker.pc = "count" /\ UNCHANGED <<chunks, vectors, job, req, touched>>
          /\ Target \in Docs /\ worker.made = 0 /\ worker.last = {}
          /\ doc[Target].status # "ready" /\ ChunksOf(Target) = {}
      BY <1>6, <1>I, <1>T DEF WorkResetCount, workOthers, WorkCounts, WorkIndexes
    <2>2. CASE Exists(Target)
      <3>1. /\ \A d \in Docs \ {Target} : doc'[d] = doc[d]
            /\ doc'[Target].status # "ready"
        BY <1>0, <1>6, <2>1, <2>2 DEF WorkResetCount, Document
      <3>2. /\ worker'.pc = NextPiece(0) /\ worker'.made = 0 /\ worker'.last = {}
            /\ Target' = Target
        BY <1>6, <1>P, <1>T, <2>1, <2>2 DEF WorkResetCount
      <3>3. /\ worker'.pc \in {"chunk", "ready"}
            /\ worker'.pc = "chunk" => 0 < Pieces[Target]
            /\ worker'.pc = "ready" => Pieces[Target] = 0
        BY <1>0, <2>1, <3>2 DEF NextPiece
      <3>4. WorkCounts'
        BY <3>2, <3>3 DEF WorkCounts
      <3>5. Indexed(ChunksOf(Target) \ worker.last, worker.made)'
        <4>1. ChunksOf(Target)' = {}
          BY <2>1, <3>2 DEF ChunksOf
        <4> QED
          BY <3>2, <4>1, NothingIndexed DEF Indexed
      <3>6. WorkIndexes'
        BY <3>1, <3>2, <3>3, <3>5 DEF WorkIndexes
      <3> QED
        BY <1>0, <2>1, <3>1, <3>2, <3>4, <3>6, ReadyWorks
    <2>3. CASE ~Exists(Target)
      BY <1>6, <1>P, <1>T, <2>1, <2>3, ReadyGoesOn DEF WorkResetCount
    <2> QED
      BY <2>2, <2>3
  <1>7. ASSUME CreateChunk PROVE ReadyInv'
    <2>1. /\ worker.pc = "chunk" /\ UNCHANGED <<doc, vectors, job, req, touched>>
          /\ Target \in Docs /\ worker.last = {} /\ worker.made < Pieces[Target]
          /\ doc[Target].status # "ready"
      BY <1>7, <1>I, <1>T DEF CreateChunk, workOthers, WorkCounts, WorkIndexes
    <2>2. CASE Exists(Target)
      <3>1. PICK id \in 1 .. MaxIds :
              /\ NewId(id)
              /\ LET c == [id |-> id, doc |-> Target, piece |-> worker.made] IN
                   /\ chunks' = chunks \cup {c}
                   /\ worker' = [worker EXCEPT !.pc = "upsert", !.last = {c}]
        BY <1>7, <2>2 DEF CreateChunk
      <3>2. PICK c \in Chunk : c = [id |-> id, doc |-> Target, piece |-> worker.made]
        BY <1>0, <2>1 DEF Chunk
      <3>3. chunks' = chunks \cup {c} /\ worker' = [worker EXCEPT !.pc = "upsert", !.last = {c}]
        BY <3>1, <3>2
      <3>4. c.doc = Target /\ c.piece = worker.made /\ c \notin chunks
        BY <3>1, <3>2 DEF NewId, InUse
      <3>5. /\ worker'.pc = "upsert" /\ worker'.last = {c} /\ worker'.made = worker.made
            /\ worker'.job = worker.job
        BY <1>0, <3>3 DEF Worker
      <3>6. Target' = Target
        BY <1>T, <2>1, <3>5
      <3>7. WorkCounts'
        BY <2>1, <3>5, <3>6 DEF WorkCounts
      <3>8. ChunksOf(Target)' = ChunksOf(Target) \cup {c}
        BY <3>3, <3>4, <3>6 DEF ChunksOf
      <3>9. ChunksOf(Target)' \ {c} = ChunksOf(Target) \ worker.last
        BY <2>1, <3>4, <3>8 DEF ChunksOf
      <3>10. Target \notin touched => Indexed(ChunksOf(Target) \ worker.last, worker.made)'
        BY <1>I, <2>1, <3>5, <3>9 DEF WorkIndexes, Indexed
      <3>11. WorkIndexes'
        BY <2>1, <3>4, <3>5, <3>6, <3>8, <3>10 DEF WorkIndexes
      <3> QED
        BY <1>0, <2>1, <3>3, <3>4, <3>6, <3>7, <3>11, ReadyWorks
    <2>3. CASE ~Exists(Target)
      BY <1>7, <1>P, <1>T, <2>1, <2>3, ReadyGoesOn DEF CreateChunk
    <2> QED
      BY <2>2, <2>3
  <1>8. ASSUME UpsertChunk PROVE ReadyInv'
    <2>1. /\ worker.pc = "upsert" /\ UNCHANGED <<doc, chunks, job, req, touched>>
          /\ Target \in Docs /\ worker.made < Pieces[Target]
          /\ doc[Target].status # "ready" /\ vectors' = vectors \cup worker.last
      BY <1>8, <1>I, <1>T DEF UpsertChunk, workOthers, WorkCounts, WorkIndexes
    <2>2. PICK n \in Nat : n = worker.made + 1
      BY <1>0
    <2>3. /\ worker'.pc = NextPiece(n) /\ worker'.made = n /\ worker'.last = {}
          /\ worker'.job = worker.job
      BY <1>0, <1>8, <2>2 DEF UpsertChunk, Worker
    <2>4. Target' = Target
      BY <1>T, <2>1, <2>3
    <2>5. /\ worker'.pc \in {"chunk", "ready"}
          /\ worker'.pc = "chunk" => n < Pieces[Target]
          /\ worker'.pc = "ready" => n = Pieces[Target]
      BY <1>0, <2>1, <2>2, <2>3 DEF NextPiece
    <2>6. WorkCounts'
      BY <2>3, <2>4, <2>5 DEF WorkCounts
    <2>7. ASSUME Target \notin touched
          PROVE  Indexed(ChunksOf(Target) \ worker.last, worker.made)'
      <3>1. PICK c \in ChunksOf(Target) : worker.last = {c} /\ c.piece = worker.made
        BY <1>I, <2>1, <2>7 DEF WorkIndexes
      <3>2. PICK rows : rows = ChunksOf(Target) \ {c}
        OBVIOUS
      <3>3. PICK m \in Nat : m = worker.made
        BY <1>0
      <3>4. Indexed(rows, m) /\ c.piece = m
        BY <1>I, <2>1, <2>7, <3>1, <3>2, <3>3 DEF WorkIndexes
      <3>5. rows \cup {c} = ChunksOf(Target) /\ c \notin rows
        BY <3>1, <3>2
      <3>6. rows \cup {c} \subseteq vectors'
        BY <2>1, <3>1, <3>4 DEF Indexed
      <3>7. Indexed(rows \cup {c}, m + 1)'
        BY <3>4, <3>5, <3>6, OneMoreIndexed
      <3>8. (ChunksOf(Target) \ worker.last)' = rows \cup {c} /\ worker'.made = m + 1
        BY <2>1, <2>2, <2>3, <2>4, <3>3, <3>5 DEF ChunksOf
      <3> QED
        BY <3>7, <3>8 DEF Indexed
    <2>8. WorkIndexes'
      BY <2>1, <2>3, <2>4, <2>5, <2>7 DEF WorkIndexes
    <2> QED
      BY <1>0, <2>1, <2>4, <2>6, <2>8, ReadyWorks
  <1>9. ASSUME MarkReady PROVE ReadyInv'
    <2>1. /\ worker.pc = "ready" /\ UNCHANGED <<chunks, vectors, job, req, touched>>
          /\ Target \in Docs /\ worker.last = {} /\ worker.made = Pieces[Target]
          /\ doc[Target].status # "ready"
          /\ Target \notin touched => Indexed(ChunksOf(Target) \ worker.last, worker.made)
      BY <1>9, <1>I, <1>T DEF MarkReady, workOthers, WorkCounts, WorkIndexes
    <2>2. CASE Exists(Target)
      <3>1. /\ \A d \in Docs \ {Target} : doc'[d] = doc[d]
            /\ doc'[Target].count = worker.made
        BY <1>0, <1>9, <2>1, <2>2 DEF MarkReady
      <3>2. worker'.pc = "complete" /\ worker'.last = {} /\ Target' = Target
        BY <1>9, <1>P, <1>T, <2>1, <2>2 DEF MarkReady
      <3>3. WorkCounts' /\ WorkIndexes'
        BY <3>2 DEF WorkCounts, WorkIndexes
      <3>4. Target \notin touched => Indexed(ChunksOf(Target), Pieces[Target])'
        <4>1. ChunksOf(Target) \ worker.last = ChunksOf(Target)
          BY <2>1
        <4>2. Target \notin touched => Indexed(ChunksOf(Target), Pieces[Target])
          BY <2>1, <4>1
        <4> QED
          BY <2>1, <3>2, <4>2 DEF Indexed, ChunksOf
      <3> QED
        BY <1>0, <2>1, <3>1, <3>2, <3>3, <3>4, ReadyWorks
    <2>3. CASE ~Exists(Target)
      BY <1>9, <1>P, <1>T, <2>1, <2>3, ReadyGoesOn DEF MarkReady
    <2> QED
      BY <2>2, <2>3
  <1>10. ASSUME WorkFails PROVE ReadyInv'
    <2>1. worker.pc \notin {"idle", "mark", "complete", "fail"}
      BY <1>10 DEF WorkFails
    <2>2. doc[Target].status # "ready"
      BY <1>I, <2>1 DEF WorkIndexes
    <2> QED
      BY <1>10, <1>P, <1>T, <2>1, <2>2, ReadyGoesOn DEF WorkFails, workOthers, stores
  <1>11. ASSUME MarkFailed PROVE ReadyInv'
    <2>1. /\ worker.pc = "catch" /\ UNCHANGED <<chunks, vectors, job, req, touched>>
          /\ worker'.pc = "fail" /\ Target \in Docs /\ Target' = Target
      BY <1>11, <1>P, <1>T DEF MarkFailed, workOthers
    <2>2. CASE Exists(Target)
      <3>1. PICK s \in Document : s = [doc[Target] EXCEPT !.status = "failed"]
        BY <1>0, <2>1 DEF Document, Statuses
      <3>2. s.status # "ready"
        BY <1>0, <2>1, <3>1 DEF Document
      <3>3. doc' = [doc EXCEPT ![Target] = s]
        BY <1>11, <2>2, <3>1 DEF MarkFailed, SetStatus
      <3> QED
        BY <2>1, <3>2, <3>3, ReadyGoesOn
    <2>3. CASE ~Exists(Target)
      BY <1>11, <2>1, <2>3, ReadyGoesOn DEF MarkFailed
    <2> QED
      BY <2>2, <2>3
  <1>12. ASSUME MarkFails PROVE ReadyInv'
    BY <1>12, <1>P, <1>T, ReadyGoesOn DEF MarkFails, workOthers, stores
  <1>13. ASSUME Complete PROVE ReadyInv'
    BY <1>13, <1>J DEF Complete, NoWork, workOthers
  <1>14. ASSUME AttemptFails PROVE ReadyInv'
    BY <1>14, <1>J DEF AttemptFails, NoWork, workOthers
  <1> QED
    BY <1>1, <1>2, <1>3, <1>4, <1>5, <1>6, <1>7, <1>8, <1>9, <1>10, <1>11, <1>12, <1>13,
       <1>14 DEF Work

LEMMA ReadyStalled ==
  ASSUME TypeInv, ReadyInv, NEW j \in JobIds, Stalled(j)
  PROVE  ReadyInv'
PROOF
  <1>1. UNCHANGED <<stores, worker, req, touched>>
    BY DEF Stalled, workOthers
  <1>2. worker.pc # "idle" => Target' = Target
    BY <1>1, TargetType DEF Stalled, Target, TypeInv, TypeOK
  <1>3. ReadyIsIndexed' /\ \A r \in Requests : RemovalNoted(r)'
    BY <1>1 DEF ReadyInv, ReadyIsIndexed, Indexed, ChunksOf, RemovalNoted, stores
  <1>4. WorkCounts'
    BY <1>1, <1>2 DEF ReadyInv, WorkCounts
  <1>5. WorkIndexes'
    BY <1>1, <1>2 DEF ReadyInv, WorkIndexes, Indexed, ChunksOf, stores
  <1> QED
    BY <1>3, <1>4, <1>5 DEF ReadyInv

LEMMA ReadyCrash ==
  ASSUME TypeInv, ReadyInv, Crash
  PROVE  ReadyInv'
PROOF
  <1>1. /\ UNCHANGED <<stores, touched>> /\ worker'.pc = "idle" /\ worker'.last = {}
        /\ \A r \in Requests : req'[r].pc = "idle"
    BY DEF Crash, NoWork, TypeInv, TypeOK, Request
  <1>2. ReadyIsIndexed'
    BY <1>1 DEF ReadyInv, ReadyIsIndexed, Indexed, ChunksOf, stores
  <1>3. \A r \in Requests : RemovalNoted(r)'
    BY <1>1 DEF RemovalNoted, Removals
  <1>4. WorkCounts' /\ WorkIndexes'
    BY <1>1 DEF WorkCounts, WorkIndexes
  <1> QED
    BY <1>2, <1>3, <1>4 DEF ReadyInv

LEMMA ReadyNext == TypeInv /\ ReadyInv /\ [Next]_vars => ReadyInv'
PROOF
  <1> SUFFICES ASSUME TypeInv, ReadyInv, [Next]_vars PROVE ReadyInv'
    OBVIOUS
  <1>0. TypeInv'
    BY TypeNext
  <1>1. CASE Next
    BY <1>0, <1>1, ReadyRequests, ReadyWork, ReadyStalled, ReadyCrash DEF Next, Step
  <1>2. CASE UNCHANGED vars
    <2>1. ReadyIsIndexed' /\ \A r \in Requests : RemovalNoted(r)'
      BY <1>2 DEF vars, stores, ReadyInv, ReadyIsIndexed, Indexed, ChunksOf, RemovalNoted
    <2>2. WorkCounts' /\ WorkIndexes'
      BY <1>2 DEF vars, stores, ReadyInv, WorkCounts, WorkIndexes, Indexed, ChunksOf, Target
    <2> QED
      BY <2>1, <2>2 DEF ReadyInv
  <1> QED
    BY <1>1, <1>2

\* What "ready" promises the searches: ingestDocument has written a row and a vector for
\* every piece of the document, once each, and chunkCount says how many, for any number
\* of documents, pieces, attempts, overlapping requests, failures and ends of the process;
\* unless a removal of the document, or of its knowledge base, was begun since.
THEOREM ReadyAlwaysIndexed == Spec => []ReadyIsIndexed
PROOF
  <1>1. ReadyInv => ReadyIsIndexed
    BY DEF ReadyInv
  <1> QED
    BY <1>1, ReadyInit, ReadyNext, TypeInvariant, PTL DEF Spec

-----------------------------------------------------------------------------
(* The pieces of a text: what trimming and joining do.                      *)

\* What trimming, cutting and joining are given: characters in the order of the text,
\* with blanks anywhere.
Line == {s \in Seq(Character) :
           \A i, j \in DOMAIN s :
             i < j /\ ~Blank(s[i]) /\ ~Blank(s[j]) => s[i].at < s[j].at}

\* Everything in P comes before everything in Q.
Earlier(P, Q) == \A p \in P, q \in Q : p < q

\* What a line is.
LEMMA Lines ==
  ASSUME NEW s \in Line
  PROVE  /\ s \in Seq(Character) /\ Len(s) \in Nat /\ DOMAIN s = 1 .. Len(s)
         /\ \A i \in 1 .. Len(s) : s[i] \in Character /\ s[i].at \in Nat
         /\ \A i, j \in 1 .. Len(s) :
              i < j /\ ~Blank(s[i]) /\ ~Blank(s[j]) => s[i].at < s[j].at
  <1>1. s \in Seq(Character) /\ Len(s) \in Nat /\ DOMAIN s = 1 .. Len(s)
    BY DEF Line
  <1>2. \A i \in 1 .. Len(s) : s[i] \in Character /\ s[i].at \in Nat
    <2>1. \A i \in 1 .. Len(s) : s[i] \in Character
      BY <1>1
    <2> QED  BY <2>1 DEF Character
  <1>3. \A i, j \in 1 .. Len(s) :
              i < j /\ ~Blank(s[i]) /\ ~Blank(s[j]) => s[i].at < s[j].at
    BY <1>1 DEF Line
  <1> QED  BY <1>1, <1>2, <1>3

\* Where a place is from.
LEMMA PlaceIn ==
  ASSUME NEW s \in Seq(Character)
  PROVE  /\ \A p : p \in Places(s) <=> \E i \in 1 .. Len(s) : ~Blank(s[i]) /\ s[i].at = p
         /\ Places(s) \subseteq Nat
  <1>1. DOMAIN s = 1 .. Len(s)
    OBVIOUS
  <1>2. \A p : p \in Places(s) <=> \E i \in 1 .. Len(s) : ~Blank(s[i]) /\ s[i].at = p
    BY <1>1 DEF Places
  <1>3. \A i \in 1 .. Len(s) : s[i].at \in Nat
    <2>1. \A i \in 1 .. Len(s) : s[i] \in Character
      OBVIOUS
    <2> QED  BY <2>1 DEF Character
  <1> QED  BY <1>2, <1>3

\* One character, and none.
LEMMA ShortLines ==
  /\ <<>> \in Line /\ Places(<<>>) = {}
  /\ \A c \in Character :
       <<c>> \in Line /\ Places(<<c>>) = IF Blank(c) THEN {} ELSE {c.at}
  <1>1. <<>> \in Line /\ Places(<<>>) = {}
    BY DEF Line, Places
  <1>2. ASSUME NEW c \in Character
        PROVE  <<c>> \in Line /\ Places(<<c>>) = IF Blank(c) THEN {} ELSE {c.at}
    <2>1. <<c>> \in Seq(Character) /\ DOMAIN <<c>> = {1} /\ <<c>>[1] = c
      OBVIOUS
    <2>2. <<c>> \in Line
      BY <2>1 DEF Line
    <2>3. \A p : p \in Places(<<c>>) <=> ~Blank(c) /\ c.at = p
      <3>1. Len(<<c>>) = 1 /\ 1 .. 1 = {1}
        OBVIOUS
      <3>2. \A p : p \in Places(<<c>>) <=>
              \E i \in 1 .. Len(<<c>>) : ~Blank(<<c>>[i]) /\ <<c>>[i].at = p
        BY <2>1, PlaceIn
      <3> QED  BY <2>1, <3>1, <3>2
    <2>4. Places(<<c>>) = IF Blank(c) THEN {} ELSE {c.at}
      BY <2>3
    <2> QED  BY <2>2, <2>4
  <1> QED  BY <1>1, <1>2

\* Two lines, the one before the other, make a line with the places of both.
LEMMA LinesJoin ==
  ASSUME NEW a \in Line, NEW b \in Line, Earlier(Places(a), Places(b))
  PROVE  a \o b \in Line /\ Places(a \o b) = Places(a) \cup Places(b)
  <1> DEFINE s == a \o b
  <1>1. /\ a \in Seq(Character) /\ Len(a) \in Nat
        /\ b \in Seq(Character) /\ Len(b) \in Nat
        /\ s \in Seq(Character) /\ Len(s) = Len(a) + Len(b) /\ DOMAIN s = 1 .. Len(s)
    BY Lines
  <1>2. \A i \in 1 .. Len(s) : s[i] = IF i <= Len(a) THEN a[i] ELSE b[i - Len(a)]
    BY <1>1
  <1> HIDE DEF s
  <1>3. \A i \in 1 .. Len(a) : i \in 1 .. Len(s) /\ s[i] = a[i]
    BY <1>1, <1>2
  <1>4. \A i \in 1 .. Len(b) : i + Len(a) \in 1 .. Len(s) /\ s[i + Len(a)] = b[i]
    <2> TAKE i \in 1 .. Len(b)
    <2>1. i + Len(a) \in 1 .. Len(s) /\ ~(i + Len(a) <= Len(a)) /\ (i + Len(a)) - Len(a) = i
      BY <1>1
    <2> QED  BY <1>2, <2>1
  <1>5. \A i \in 1 .. Len(s) : \/ i \in 1 .. Len(a) /\ s[i] = a[i]
                               \/ i - Len(a) \in 1 .. Len(b) /\ s[i] = b[i - Len(a)]
    BY <1>1, <1>2
  <1>6. Places(s) = Places(a) \cup Places(b)
    <2>1. ASSUME NEW p \in Places(s) PROVE p \in Places(a) \cup Places(b)
      <3>1. PICK i \in 1 .. Len(s) : ~Blank(s[i]) /\ s[i].at = p
        BY <1>1, PlaceIn
      <3> QED  BY <3>1, <1>1, <1>5, PlaceIn
    <2>2. ASSUME NEW p \in Places(a) PROVE p \in Places(s)
      <3>1. PICK i \in 1 .. Len(a) : ~Blank(a[i]) /\ a[i].at = p
        BY <1>1, PlaceIn
      <3> QED  BY <3>1, <1>1, <1>3, PlaceIn
    <2>3. ASSUME NEW p \in Places(b) PROVE p \in Places(s)
      <3>1. PICK i \in 1 .. Len(b) : ~Blank(b[i]) /\ b[i].at = p
        BY <1>1, PlaceIn
      <3> QED  BY <3>1, <1>1, <1>4, PlaceIn
    <2> QED  BY <2>1, <2>2, <2>3
  <1>7. ASSUME NEW i \in 1 .. Len(s), NEW j \in 1 .. Len(s), i < j,
               ~Blank(s[i]), ~Blank(s[j])
        PROVE  s[i].at < s[j].at
    <2>1. CASE i \in 1 .. Len(a) /\ j \in 1 .. Len(a)
      BY <2>1, <1>3, <1>7, Lines
    <2>2. CASE i - Len(a) \in 1 .. Len(b) /\ j - Len(a) \in 1 .. Len(b)
      <3>1. i - Len(a) < j - Len(a)
        BY <1>1, <1>7
      <3>2. s[i] = b[i - Len(a)] /\ s[j] = b[j - Len(a)]
        BY <1>1, <1>2, <2>2
      <3> QED  BY <2>2, <3>1, <3>2, <1>7, Lines
    <2>3. CASE i \in 1 .. Len(a) /\ j - Len(a) \in 1 .. Len(b)
      <3>1. s[i] = a[i] /\ s[j] = b[j - Len(a)]
        BY <1>1, <1>2, <2>3
      <3>2. s[i].at \in Places(a) /\ s[j].at \in Places(b)
        BY <3>1, <2>3, <1>1, <1>7, PlaceIn
      <3> QED  BY <3>2 DEF Earlier
    <2> QED  BY <1>1, <1>5, <1>7, <2>1, <2>2, <2>3
  <1>8. s \in Line
    BY <1>1, <1>7 DEF Line
  <1> QED  BY <1>6, <1>8 DEF s

\* What joins a line to what precedes it is blank.
Spaces == {s \in Seq(Character) : \A i \in DOMAIN s : Blank(s[i])}

\* Blanks hold no place.
LEMMA SpacesAreLines ==
  ASSUME NEW s \in Spaces
  PROVE  s \in Line /\ Places(s) = {}
  BY DEF Spaces, Line, Places

\* Joining loses nothing and keeps the order, whatever blanks are put in between.
LEMMA JoinedLines ==
  ASSUME NEW a \in Line, NEW b \in Line, NEW between \in Spaces,
         Earlier(Places(a), Places(b))
  PROVE  Joined(a, between, b) \in Line
         /\ Places(Joined(a, between, b)) = Places(a) \cup Places(b)
  <1>1. CASE a = <<>>
    BY <1>1, ShortLines DEF Joined
  <1>2. CASE a # <<>>
    <2>1. between \in Line /\ Places(between) = {}
      BY SpacesAreLines
    <2>2. a \o between \in Line /\ Places(a \o between) = Places(a)
      <3>1. Earlier(Places(a), Places(between))
        BY <2>1 DEF Earlier
      <3> QED  BY <2>1, <3>1, LinesJoin
    <2>3. /\ (a \o between) \o b \in Line
          /\ Places((a \o between) \o b) = Places(a) \cup Places(b)
      BY <2>2, LinesJoin
    <2> QED  BY <1>2, <2>3 DEF Joined
  <1> QED  BY <1>1, <1>2

\* The ends of a set of numbers.
LEMMA EndsOfNumbers ==
  ASSUME NEW n \in Nat, NEW s \in SUBSET (1 .. n), s # {}
  PROVE  /\ Max(s) \in s /\ Min(s) \in s
         /\ \A k \in s : Min(s) <= k /\ k <= Max(s)
  <1>1. \E m \in s : \A k \in s : m >= k
    <2> DEFINE below == {k \in Nat : n - k \in s}
    <2>1. PICK k \in s : TRUE
      OBVIOUS
    <2>2. n - k \in Nat /\ n - (n - k) = k
      OBVIOUS
    <2>3. n - k \in below
      BY <2>1, <2>2
    <2>4. below \in SUBSET Nat
      OBVIOUS
    <2> HIDE DEF below
    <2>5. PICK m \in below : \A l \in below : m <= l
      BY <2>3, <2>4, LeastNumber
    <2>6. m \in Nat /\ n - m \in s
      BY <2>5 DEF below
    <2>7. ASSUME NEW l \in s PROVE n - m >= l
      <3>1. n - l \in Nat /\ n - (n - l) = l
        OBVIOUS
      <3>2. n - l \in below
        BY <3>1 DEF below
      <3>3. m <= n - l
        BY <2>5, <3>2
      <3> QED  BY <2>6, <3>1, <3>3
    <2> QED  BY <2>6, <2>7
  <1>2. \E m \in s : \A k \in s : m <= k
    <2>1. s \in SUBSET Nat
      OBVIOUS
    <2> QED  BY <2>1, LeastNumber
  <1>3. Max(s) \in s /\ \A k \in s : Max(s) >= k
    BY <1>1 DEF Max
  <1>4. Min(s) \in s /\ \A k \in s : Min(s) <= k
    BY <1>2 DEF Min
  <1>5. \A k \in s : k \in Int
    OBVIOUS
  <1>6. \A m, k \in s : m >= k => k <= m
    BY <1>5
  <1> QED  BY <1>3, <1>4, <1>6

\* A stretch of a line.
LEMMA SubLines ==
  ASSUME NEW s \in Line, NEW a \in Nat \ {0}, NEW b \in 0 .. Len(s)
  PROVE  /\ SubSeq(s, a, b) \in Line
         /\ Len(SubSeq(s, a, b)) = IF a <= b THEN b - a + 1 ELSE 0
         /\ \A i \in 1 .. Len(SubSeq(s, a, b)) : SubSeq(s, a, b)[i] = s[a + i - 1]
         /\ \A p : p \in Places(SubSeq(s, a, b)) <=>
                     \E i \in a .. b : ~Blank(s[i]) /\ s[i].at = p
  <1> DEFINE t == SubSeq(s, a, b)
  <1>1. s \in Seq(Character) /\ Len(s) \in Nat
    BY Lines
  <1>2. /\ t \in Seq(Character) /\ Len(t) = IF a <= b THEN b - a + 1 ELSE 0
        /\ DOMAIN t = 1 .. Len(t)
        /\ \A i \in 1 .. Len(t) : t[i] = s[a + i - 1]
    BY <1>1
  <1> HIDE DEF t
  <1>3. \A i \in 1 .. Len(t) : a + i - 1 \in a .. b /\ a + i - 1 \in 1 .. Len(s)
    BY <1>1, <1>2
  <1>4. t \in Line
    <2> SUFFICES ASSUME NEW i \in 1 .. Len(t), NEW j \in 1 .. Len(t), i < j,
                        ~Blank(t[i]), ~Blank(t[j])
                 PROVE  t[i].at < t[j].at
      BY <1>2 DEF Line
    <2>1. a + i - 1 < a + j - 1 /\ a + i - 1 \in 1 .. Len(s) /\ a + j - 1 \in 1 .. Len(s)
      BY <1>3
    <2>2. t[i] = s[a + i - 1] /\ t[j] = s[a + j - 1]
      BY <1>2
    <2> QED  BY <2>1, <2>2, Lines
  <1>5. ASSUME NEW p
        PROVE  p \in Places(t) <=> \E i \in a .. b : ~Blank(s[i]) /\ s[i].at = p
    <2>1. ASSUME NEW i \in 1 .. Len(t), ~Blank(t[i]), t[i].at = p
          PROVE  \E j \in a .. b : ~Blank(s[j]) /\ s[j].at = p
      <3>1. a + i - 1 \in a .. b /\ t[i] = s[a + i - 1]
        BY <1>2, <1>3
      <3> QED  BY <2>1, <3>1
    <2>2. ASSUME NEW j \in a .. b, ~Blank(s[j]), s[j].at = p
          PROVE  \E i \in 1 .. Len(t) : ~Blank(t[i]) /\ t[i].at = p
      <3>1. j - a + 1 \in 1 .. Len(t) /\ a + (j - a + 1) - 1 = j
        BY <1>1, <1>2
      <3>2. t[j - a + 1] = s[j]
        BY <1>2, <3>1
      <3> QED  BY <2>2, <3>1, <3>2
    <2> QED  BY <1>2, <2>1, <2>2, PlaceIn
  <1> QED  BY <1>2, <1>4, <1>5 DEF t

\* Without blanks at its ends.
Trimmed(s) == s = <<>> \/ (~Blank(s[1]) /\ ~Blank(s[Len(s)]))

\* Trimming loses nothing but blanks at the ends.
LEMMA TrimKeeps ==
  ASSUME NEW s \in Line
  PROVE  /\ Trim(s) \in Line /\ Places(Trim(s)) = Places(s)
         /\ Len(Trim(s)) <= Len(s) /\ Trimmed(Trim(s))
         /\ Trim(s) = <<>> <=> Places(s) = {}
         /\ Trimmed(s) => Trim(s) = s
  <1> DEFINE ink == {i \in DOMAIN s : ~Blank(s[i])}
  <1>1. /\ s \in Seq(Character) /\ Len(s) \in Nat /\ DOMAIN s = 1 .. Len(s)
        /\ \A i \in 1 .. Len(s) : i \in ink <=> ~Blank(s[i])
    BY Lines
  <1>2. ink \in SUBSET (1 .. Len(s))
    BY <1>1
  <1>3. Trim(s) = IF ink = {} THEN <<>> ELSE SubSeq(s, Min(ink), Max(ink))
    BY DEF Trim
  <1> HIDE DEF ink
  <1>4. Places(s) = {} <=> ink = {}
    BY <1>1, <1>2, PlaceIn
  <1>5. CASE ink = {}
    <2>1. Trim(s) = <<>>
      BY <1>3, <1>5
    <2>2. Trimmed(s) => s = <<>>
      <3> SUFFICES ASSUME Trimmed(s), s # <<>> PROVE FALSE
        OBVIOUS
      <3>1. 1 \in 1 .. Len(s)
        BY <1>1
      <3> QED  BY <3>1, <1>1, <1>5 DEF Trimmed
    <2>3. Len(<<>>) = 0 /\ Trimmed(<<>>)
      BY DEF Trimmed
    <2>4. Places(s) = {} /\ Len(Trim(s)) <= Len(s)
      BY <1>1, <1>4, <1>5, <2>1, <2>3
    <2> QED  BY <2>1, <2>2, <2>3, <2>4, ShortLines
  <1>6. CASE ink # {}
    <2>0. PICK a \in ink, b \in ink : /\ \A i \in ink : a <= i /\ i <= b
                                     /\ Trim(s) = SubSeq(s, a, b)
      BY <1>1, <1>2, <1>3, <1>6, EndsOfNumbers
    <2>1. a \in ink /\ b \in ink /\ \A i \in ink : a <= i /\ i <= b
      BY <2>0
    <2>2. a \in 1 .. Len(s) /\ b \in 1 .. Len(s) /\ a <= b
      BY <1>2, <2>1
    <2>3. Trim(s) = SubSeq(s, a, b)
      BY <2>0
    <2>4. /\ Trim(s) \in Line /\ Len(Trim(s)) = b - a + 1
          /\ \A i \in 1 .. Len(Trim(s)) : Trim(s)[i] = s[a + i - 1]
          /\ \A p : p \in Places(Trim(s)) <=> \E i \in a .. b : ~Blank(s[i]) /\ s[i].at = p
      <3>1. a \in Nat \ {0} /\ b \in 0 .. Len(s)
        BY <1>1, <2>2
      <3> DEFINE t == SubSeq(s, a, b)
      <3>2. /\ t \in Line /\ Len(t) = IF a <= b THEN b - a + 1 ELSE 0
            /\ \A i \in 1 .. Len(t) : t[i] = s[a + i - 1]
            /\ \A p : p \in Places(t) <=> \E i \in a .. b : ~Blank(s[i]) /\ s[i].at = p
        BY <3>1, SubLines
      <3>3. t = Trim(s) /\ a <= b
        BY <2>2, <2>3
      <3> HIDE DEF t
      <3> QED  BY <3>2, <3>3
    <2>5. Places(Trim(s)) = Places(s)
      <3>1. \A i \in 1 .. Len(s) : ~Blank(s[i]) => i \in a .. b
        BY <1>1, <2>1, <2>2
      <3>2. \A i \in a .. b : i \in 1 .. Len(s)
        BY <2>2
      <3>3. \A p : p \in Places(s) <=> \E i \in 1 .. Len(s) : ~Blank(s[i]) /\ s[i].at = p
        BY <1>1, PlaceIn
      <3> QED  BY <2>4, <3>1, <3>2, <3>3
    <2>6. Trimmed(Trim(s))
      <3>1. Trim(s)[1] = s[a] /\ Trim(s)[Len(Trim(s))] = s[b]
        <4>1. a + 1 - 1 = a /\ a + (b - a + 1) - 1 = b
          BY <2>2
        <4>2. 1 \in 1 .. (b - a + 1) /\ b - a + 1 \in 1 .. (b - a + 1)
          BY <2>2
        <4> QED  BY <2>4, <4>1, <4>2
      <3>2. ~Blank(s[a]) /\ ~Blank(s[b])
        BY <1>1, <2>1, <2>2
      <3> QED  BY <3>1, <3>2 DEF Trimmed
    <2>7. Len(Trim(s)) <= Len(s) /\ Trim(s) # <<>>
      <3>1. b - a + 1 \in Nat \ {0} /\ b - a + 1 <= Len(s)
        BY <1>1, <2>2
      <3> QED  BY <2>4, <3>1
    <2>8. ASSUME Trimmed(s) PROVE Trim(s) = s
      <3>1. s # <<>>
        BY <1>1, <2>2
      <3>2. 1 \in ink /\ Len(s) \in ink
        BY <1>1, <2>2, <2>8, <3>1 DEF Trimmed
      <3>3. a <= 1 /\ Len(s) <= b
        BY <2>1, <3>2
      <3>4. a = 1 /\ b = Len(s)
        <4>1. Len(s) \in Nat
          BY <1>1
        <4>2. a \in Int /\ b \in Int /\ 1 <= a /\ b <= Len(s)
          BY <2>2, <4>1
        <4> QED  BY <3>3, <4>1, <4>2
      <3> QED  BY <1>1, <2>3, <3>4
    <2> QED  BY <1>4, <1>6, <2>4, <2>5, <2>6, <2>7, <2>8
  <1> QED  BY <1>5, <1>6

\* Joining puts no blanks at the ends.
LEMMA JoinedTrimmed ==
  ASSUME NEW a \in Line, NEW b \in Line, NEW between \in Spaces,
         Trimmed(a), Trimmed(b), b # <<>>
  PROVE  Trimmed(Joined(a, between, b)) /\ Joined(a, between, b) # <<>>
  <1>1. CASE a = <<>>
    BY <1>1 DEF Joined
  <1>2. CASE a # <<>>
    <2> DEFINE s == a \o between \o b
    <2>1. /\ a \in Seq(Character) /\ b \in Seq(Character) /\ between \in Seq(Character)
          /\ Len(a) \in Nat /\ Len(b) \in Nat /\ Len(between) \in Nat
          /\ Len(a) # 0 /\ Len(b) # 0
      BY <1>2, Lines DEF Spaces
    <2>2. /\ Len(s) = Len(a) + Len(between) + Len(b)
          /\ s[1] = a[1] /\ s[Len(s)] = b[Len(b)]
      BY <2>1
    <2>3. Joined(a, between, b) = s
      BY <1>2 DEF Joined
    <2>4. s # <<>>
      BY <2>1, <2>2
    <2> HIDE DEF s
    <2> QED  BY <1>2, <2>2, <2>3, <2>4 DEF Trimmed
  <1> QED  BY <1>1, <1>2

-----------------------------------------------------------------------------
(* Pieces that follow each other.                                          *)

\* The lines ps of L hold the places P, the ones of each line before those of the next.
Tiles(ps, P, L) ==
  /\ ps \in Seq(L)
  /\ \A p : p \in P <=> \E k \in 1 .. Len(ps) : p \in Places(ps[k])
  /\ \A k, l \in 1 .. Len(ps) : k < l => Earlier(Places(ps[k]), Places(ps[l]))

\* One more line.
LEMMA TilesAppend ==
  ASSUME NEW L \in SUBSET Line, NEW qs, NEW Q, Tiles(qs, Q, L),
         NEW y \in L, Earlier(Q, Places(y))
  PROVE  Tiles(Append(qs, y), Q \cup Places(y), L)
  <1> DEFINE ps == Append(qs, y)
             n == Len(qs)
  <1>1. qs \in Seq(L) /\ n \in Nat
    BY DEF Tiles
  <1>2. /\ ps \in Seq(L) /\ Len(ps) = n + 1 /\ ps[n + 1] = y
        /\ \A k \in 1 .. n : ps[k] = qs[k]
    BY <1>1
  <1>3. \A k \in 1 .. Len(ps) : k \in 1 .. n \/ k = n + 1
    BY <1>1, <1>2
  <1>4. \A k \in 1 .. n : k \in 1 .. Len(ps) /\ k < n + 1
    BY <1>1, <1>2
  <1>5. n + 1 \in 1 .. Len(ps)
    BY <1>1, <1>2
  <1>6. /\ \A p : p \in Q <=> \E k \in 1 .. n : p \in Places(qs[k])
        /\ \A k, l \in 1 .. n : k < l => Earlier(Places(qs[k]), Places(qs[l]))
    BY DEF Tiles
  <1> HIDE DEF ps, n
  <1>7. ASSUME NEW p
        PROVE  p \in Q \cup Places(y) <=> \E k \in 1 .. Len(ps) : p \in Places(ps[k])
    BY <1>2, <1>3, <1>4, <1>5, <1>6
  <1>8. ASSUME NEW k \in 1 .. Len(ps), NEW l \in 1 .. Len(ps), k < l
        PROVE  Earlier(Places(ps[k]), Places(ps[l]))
    <2>1. k \in 1 .. n
      BY <1>1, <1>2, <1>3, <1>8
    <2>2. CASE l \in 1 .. n
      BY <2>1, <2>2, <1>2, <1>6, <1>8
    <2>3. CASE l = n + 1
      <3>1. Places(ps[k]) \subseteq Q
        BY <2>1, <1>2, <1>6
      <3> QED  BY <2>3, <3>1, <1>2 DEF Earlier
    <2> QED  BY <1>3, <2>2, <2>3
  <1>9. Tiles(ps, Q \cup Places(y), L)
    BY <1>2, <1>7, <1>8 DEF Tiles
  <1> QED  BY <1>9 DEF ps

\* One line less.
LEMMA TilesFront ==
  ASSUME NEW L \in SUBSET Line, NEW qs \in Seq(L), NEW r \in L, NEW Q,
         Tiles(Append(qs, r), Q, L)
  PROVE  /\ \E P : Tiles(qs, P, L) /\ Q = P \cup Places(r) /\ Earlier(P, Places(r))
  <1> DEFINE ps == Append(qs, r)
             n == Len(qs)
             P == UNION {Places(qs[k]) : k \in 1 .. n}
  <1>1. n \in Nat /\ Len(ps) = n + 1 /\ ps[n + 1] = r /\ \A k \in 1 .. n : ps[k] = qs[k]
    OBVIOUS
  <1>2. /\ \A p : p \in Q <=> \E k \in 1 .. n + 1 : p \in Places(ps[k])
        /\ \A k, l \in 1 .. n + 1 : k < l => Earlier(Places(ps[k]), Places(ps[l]))
    BY <1>1 DEF Tiles
  <1>3. /\ \A k \in 1 .. n : k \in 1 .. n + 1 /\ k < n + 1
        /\ n + 1 \in 1 .. n + 1
        /\ \A k \in 1 .. n + 1 : k \in 1 .. n \/ k = n + 1
    BY <1>1
  <1>4. \A p : p \in P <=> \E k \in 1 .. n : p \in Places(qs[k])
    OBVIOUS
  <1> HIDE DEF ps, P
  <1>5. \A k, l \in 1 .. n : k < l => Earlier(Places(qs[k]), Places(qs[l]))
    BY <1>1, <1>2, <1>3
  <1>6. Tiles(qs, P, L)
    BY <1>4, <1>5 DEF Tiles
  <1>7. \A p : p \in Q <=> p \in P \/ p \in Places(r)
    BY <1>1, <1>2, <1>3, <1>4
  <1>8. Earlier(P, Places(r))
    <2>1. \A k \in 1 .. n : Earlier(Places(qs[k]), Places(r))
      BY <1>1, <1>2, <1>3
    <2> QED  BY <2>1, <1>4 DEF Earlier
  <1>9. Q = P \cup Places(r)
    BY <1>7
  <1> QED  BY <1>6, <1>8, <1>9

\* The last line goes on.
LEMMA TilesExtend ==
  ASSUME NEW L \in SUBSET Line, NEW qs \in Seq(L), NEW r \in L, NEW Q,
         Tiles(Append(qs, r), Q, L), NEW y \in L, NEW X,
         Places(y) = Places(r) \cup X, Earlier(Q, X)
  PROVE  Tiles(Append(qs, y), Q \cup X, L)
  <1>1. PICK P : Tiles(qs, P, L) /\ Q = P \cup Places(r) /\ Earlier(P, Places(r))
    BY TilesFront
  <1>2. Earlier(P, Places(y))
    BY <1>1 DEF Earlier
  <1>3. Tiles(Append(qs, y), P \cup Places(y), L)
    BY <1>1, <1>2, TilesAppend
  <1>4. P \cup Places(y) = Q \cup X
    BY <1>1
  <1> QED  BY <1>3, <1>4

\* What takes lines one by one, so that what it has made holds what it has taken,
\* makes lines that hold all.
LEMMA TilesByTaking ==
  ASSUME NEW L \in SUBSET Line, NEW items, NEW P, Tiles(items, P, Line),
         NEW made, Tiles(made[0], {}, L),
         \A k \in 1 .. Len(items) : \A Q :
           Tiles(made[k - 1], Q, L) /\ Earlier(Q, Places(items[k]))
             => Tiles(made[k], Q \cup Places(items[k]), L)
  PROVE  Tiles(made[Len(items)], P, L)
  <1> DEFINE n == Len(items)
             Taken(k) == UNION {Places(items[i]) : i \in 1 .. k}
             Good == {k \in 0 .. n : Tiles(made[k], Taken(k), L)}
  <1>1. /\ n \in Nat
        /\ \A p : p \in P <=> \E k \in 1 .. n : p \in Places(items[k])
        /\ \A k, l \in 1 .. n : k < l => Earlier(Places(items[k]), Places(items[l]))
    BY DEF Tiles
  <1>2. \A k, p : p \in Taken(k) <=> \E i \in 1 .. k : p \in Places(items[i])
    OBVIOUS
  <1>3. Taken(0) = {}
    BY <1>2
  <1>4. Taken(n) = P
    BY <1>1, <1>2
  <1>5. 0 \in Good
    BY <1>1, <1>3
  <1>6. ASSUME NEW k \in 0 .. n - 1, k \in Good PROVE k + 1 \in Good
    <2>1. k + 1 \in 1 .. n /\ k + 1 \in 0 .. n /\ (k + 1) - 1 = k
          /\ \A i \in 1 .. k : i \in 1 .. n /\ i < k + 1
      BY <1>1
    <2>2. Earlier(Taken(k), Places(items[k + 1]))
      <3>1. \A i \in 1 .. k : Earlier(Places(items[i]), Places(items[k + 1]))
        BY <1>1, <2>1
      <3> QED  BY <3>1, <1>2 DEF Earlier
    <2>3. Taken(k + 1) = Taken(k) \cup Places(items[k + 1])
      <3>1. \A i : i \in 1 .. k + 1 <=> i \in 1 .. k \/ i = k + 1
        BY <2>1
      <3> HIDE DEF Taken
      <3>2. \A p : p \in Taken(k + 1) <=> p \in Taken(k) \/ p \in Places(items[k + 1])
        BY <1>2, <3>1
      <3> QED  BY <3>2
    <2>4. Tiles(made[(k + 1) - 1], Taken(k), L)
      BY <1>6, <2>1
    <2> HIDE DEF Taken
    <2>5. Tiles(made[k + 1], Taken(k) \cup Places(items[k + 1]), L)
      BY <2>1, <2>2, <2>4
    <2> QED  BY <2>1, <2>3, <2>5
  <1> HIDE DEF Good
  <1>7. n \in Good
    <2>1. \A k \in 0 .. n : k \in Good
      BY <1>1, <1>5, <1>6, CountingUp
    <2> QED  BY <1>1, <2>1
  <1> QED  BY <1>4, <1>7 DEF Good

\* Lines that hold nothing are left out.
LEMMA TilesFilter ==
  ASSUME NEW L \in SUBSET Line, NEW ps, NEW P, Tiles(ps, P, L)
  PROVE  /\ Tiles(NonEmpty(ps), P, L)
         /\ \A k \in 1 .. Len(NonEmpty(ps)) : NonEmpty(ps)[k] # <<>>
  <1> DEFINE T == Range(ps) \ {<<>>}
             qs == NonEmpty(ps)
  <1>1. /\ ps \in Seq(L) /\ DOMAIN ps = 1 .. Len(ps)
        /\ \A p : p \in P <=> \E k \in 1 .. Len(ps) : p \in Places(ps[k])
        /\ \A k, l \in 1 .. Len(ps) : k < l => Earlier(Places(ps[k]), Places(ps[l]))
    BY DEF Tiles
  <1>2. \A k \in 1 .. Len(ps) : ps[k] \in T <=> ps[k] # <<>>
    BY <1>1 DEF Range
  <1>3. <<>> \notin T
    OBVIOUS
  <1>4. qs = Filter(ps, T)
    BY DEF NonEmpty
  <1> HIDE DEF T, qs
  <1>5. /\ qs \in Seq(L)
        /\ \A k \in 1 .. Len(qs) : qs[k] \in T /\ \E p \in 1 .. Len(ps) : ps[p] = qs[k]
        /\ \A p \in 1 .. Len(ps) : ps[p] \in T => \E k \in 1 .. Len(qs) : qs[k] = ps[p]
        /\ \A k, l \in 1 .. Len(qs) : k < l => Precedes(ps, qs[k], qs[l])
    BY <1>1, <1>4, FilterKeeps
  <1>6. ASSUME NEW p
        PROVE  p \in P <=> \E k \in 1 .. Len(qs) : p \in Places(qs[k])
    <2>1. ASSUME p \in P PROVE \E k \in 1 .. Len(qs) : p \in Places(qs[k])
      <3>1. PICK i \in 1 .. Len(ps) : p \in Places(ps[i])
        BY <1>1, <2>1
      <3>2. ps[i] # <<>>
        BY <3>1, ShortLines
      <3> QED  BY <1>2, <1>5, <3>1, <3>2
    <2>2. ASSUME NEW k \in 1 .. Len(qs), p \in Places(qs[k]) PROVE p \in P
      BY <1>1, <1>5, <2>2
    <2> QED  BY <2>1, <2>2
  <1>7. ASSUME NEW k \in 1 .. Len(qs), NEW l \in 1 .. Len(qs), k < l
        PROVE  Earlier(Places(qs[k]), Places(qs[l]))
    <2>1. PICK i, j \in 1 .. Len(ps) : i < j /\ qs[k] = ps[i] /\ qs[l] = ps[j]
      BY <1>5, <1>7 DEF Precedes
    <2> QED  BY <1>1, <2>1
  <1>8. Tiles(qs, P, L)
    BY <1>5, <1>6, <1>7 DEF Tiles
  <1>9. \A k \in 1 .. Len(qs) : qs[k] # <<>>
    BY <1>3, <1>5
  <1> QED  BY <1>8, <1>9 DEF qs

-----------------------------------------------------------------------------
(* The folds.                                                              *)

\* g solves the recursion of FoldLeft: step says what becomes of the place of an element
\* and what there is so far.
Solved(g, n, A, base, step) ==
  /\ g \in [SUBSET (1 .. n) -> A]
  /\ \A s \in SUBSET (1 .. n) :
       /\ s = {} => g[s] = base
       /\ s # {} => /\ Max(s) \in 1 .. n /\ g[s \ {Max(s)}] \in A
                    /\ g[s] = step[<<Max(s), g[s \ {Max(s)}]>>]

\* The recursion of FoldLeft has a solution.
LEMMA FoldSolved ==
  ASSUME NEW n \in Nat, NEW A, NEW base \in A, NEW step \in [(1 .. n) \X A -> A]
  PROVE  \E g : Solved(g, n, A, base, step)
  <1> DEFINE pick == [s \in SUBSET (1 .. n) |-> Max(s)]
  <1>1. \A s \in SUBSET (1 .. n) : s # {} => pick[s] \in s /\ pick[s] = Max(s)
    BY EndsOfNumbers
  <1>2. IsFiniteSet(1 .. n)
    BY FS_Interval
  <1> HIDE DEF pick
  <1>3. PICK g \in Folding(1 .. n, A, base, pick, step) : TRUE
    BY <1>1, <1>2, FoldExists
  <1>4. /\ g \in [SUBSET (1 .. n) -> A]
        /\ \A s \in SUBSET (1 .. n) :
             g[s] = IF s = {} THEN base ELSE step[<<pick[s], g[s \ {pick[s]}]>>]
    BY <1>3 DEF Folding
  <1>5. ASSUME NEW s \in SUBSET (1 .. n), s # {}
        PROVE  /\ Max(s) \in 1 .. n /\ g[s \ {Max(s)}] \in A
               /\ g[s] = step[<<Max(s), g[s \ {Max(s)}]>>]
    <2>1. pick[s] = Max(s) /\ Max(s) \in s /\ s \ {Max(s)} \in SUBSET (1 .. n)
      BY <1>1, <1>5
    <2> QED  BY <1>4, <1>5, <2>1
  <1>6. Solved(g, n, A, base, step)
    BY <1>4, <1>5 DEF Solved
  <1> QED  BY <1>6

\* The elements up to k are the last of them and those before it.
LEMMA UpTo ==
  ASSUME NEW n \in Nat
  PROVE  /\ 1 .. 0 = {} /\ 1 .. 0 \in SUBSET (1 .. n)
         /\ \A k \in 1 .. n : /\ 1 .. k \in SUBSET (1 .. n) /\ 1 .. k # {}
                              /\ Max(1 .. k) = k /\ (1 .. k) \ {k} = 1 .. (k - 1)
  <1>1. ASSUME NEW k \in 1 .. n
        PROVE  /\ 1 .. k \in SUBSET (1 .. n) /\ 1 .. k # {}
               /\ Max(1 .. k) = k /\ (1 .. k) \ {k} = 1 .. (k - 1)
    <2>1. k \in Nat /\ k \in 1 .. k
      OBVIOUS
    <2>2. 1 .. k \in SUBSET (1 .. n) /\ 1 .. k # {} /\ (1 .. k) \ {k} = 1 .. (k - 1)
      OBVIOUS
    <2>3. Max(1 .. k) \in 1 .. k /\ k <= Max(1 .. k)
      BY <2>1, EndsOfNumbers
    <2> QED  BY <2>1, <2>2, <2>3
  <1> QED  BY <1>1

\* The same of a function whose type is not known yet.
Follows(fold, n, A, base, step) ==
  \A t \in SUBSET (1 .. n) :
    /\ t = {} => fold[t] = base
    /\ t # {} /\ fold[t \ {Max(t)}] \in A =>
         fold[t] = step[<<Max(t), fold[t \ {Max(t)}]>>]

\* What it makes of the first k elements, one after the other, and all in all.
Made(n, A, base, step, all) ==
  {made \in [0 .. n -> A] :
     /\ made[0] = base
     /\ \A k \in 1 .. n : made[k] = step[<<k, made[k - 1]>>]
     /\ made[n] = all}

\* A solution passes through all its values in turn, each of them of type A.
LEMMA FoldMade ==
  ASSUME NEW n \in Nat, NEW A, NEW base \in A, NEW step \in [(1 .. n) \X A -> A],
         NEW fold, Follows(fold, n, A, base, step)
  PROVE  Made(n, A, base, step, fold[1 .. n]) # {}
  <1> DEFINE made == [k \in 0 .. n |-> fold[1 .. k]]
             Good == {k \in 0 .. n : made[k] \in A}
  <1>1. 0 \in 0 .. n /\ n \in 0 .. n
    OBVIOUS
  <1>2. made[0] = base
    <2>1. fold[1 .. 0] = base
      BY UpTo DEF Follows
    <2> QED  BY <1>1, <2>1
  <1>3. ASSUME NEW k \in 1 .. n, made[k - 1] \in A
        PROVE  made[k] = step[<<k, made[k - 1]>>] /\ made[k] \in A
    <2>1. k \in 0 .. n /\ k - 1 \in 0 .. n
      OBVIOUS
    <2>2. made[k] = fold[1 .. k] /\ made[k - 1] = fold[1 .. (k - 1)]
      BY <2>1
    <2>3. /\ 1 .. k \in SUBSET (1 .. n) /\ 1 .. k # {}
          /\ Max(1 .. k) = k /\ (1 .. k) \ {k} = 1 .. (k - 1)
      BY UpTo
    <2> HIDE DEF made
    <2>4. made[k] = step[<<k, made[k - 1]>>]
      BY <1>3, <2>2, <2>3 DEF Follows
    <2> QED  BY <1>3, <2>4
  <1>4. made[n] = fold[1 .. n] /\ made = [k \in 0 .. n |-> made[k]]
    BY <1>1
  <1> HIDE DEF made
  <1>5. \A k \in 0 .. n : k \in Good
    <2>1. 0 \in Good
      BY <1>1, <1>2
    <2>2. ASSUME NEW k \in 0 .. n - 1, k \in Good PROVE k + 1 \in Good
      <3>1. k + 1 \in 1 .. n /\ k + 1 \in 0 .. n /\ (k + 1) - 1 = k
        OBVIOUS
      <3> QED  BY <1>3, <2>2, <3>1
    <2> HIDE DEF Good
    <2> QED  BY <2>1, <2>2, CountingUp
  <1>6. \A k \in 0 .. n : made[k] \in A
    BY <1>5
  <1>7. \A k \in 1 .. n : made[k] = step[<<k, made[k - 1]>>]
    <2> TAKE k \in 1 .. n
    <2>1. k - 1 \in 0 .. n
      OBVIOUS
    <2> QED  BY <1>3, <1>6, <2>1
  <1>8. made \in [0 .. n -> A]
    BY <1>4, <1>6
  <1> QED  BY <1>2, <1>4, <1>7, <1>8 DEF Made

\* Pieces made so far, and the one being made.
Making(L) == [done : Seq(L), rest : L]
Nothing == [done |-> <<>>, rest |-> <<>>]

\* At first there is nothing, which holds nothing.
LEMMA MakingStarts ==
  ASSUME NEW L \in SUBSET Line, <<>> \in L
  PROVE  /\ Nothing \in Making(L)
         /\ Tiles(Append(Nothing.done, Nothing.rest), {}, L)
  <1>1. Nothing \in Making(L)
    BY DEF Making, Nothing
  <1>2. Tiles(<<>>, {}, L)
    BY DEF Tiles
  <1>3. Earlier({}, Places(<<>>)) /\ {} \cup Places(<<>>) = {}
    BY ShortLines DEF Earlier
  <1>4. Tiles(Append(<<>>, <<>>), {} \cup Places(<<>>), L)
    BY <1>2, <1>3, TilesAppend
  <1> QED  BY <1>1, <1>3, <1>4 DEF Nothing

\* What CutAfter does with one character.
CutStep(made, c, kinds) ==
  IF c.is \in kinds THEN [done |-> Append(made.done, Append(made.rest, c)), rest |-> <<>>]
                    ELSE [made EXCEPT !.rest = Append(@, c)]

\* What CutAfter has made stays of its type.
LEMMA CutStepTypes ==
  ASSUME NEW kinds, NEW m \in Making(Seq(Character)), NEW c \in Character
  PROVE  CutStep(m, c, kinds) \in Making(Seq(Character))
  <1>1. m.done \in Seq(Seq(Character)) /\ m.rest \in Seq(Character)
    BY DEF Making
  <1>2. Append(m.rest, c) \in Seq(Character) /\ <<>> \in Seq(Character)
    BY <1>1
  <1>3. Append(m.done, Append(m.rest, c)) \in Seq(Seq(Character))
    BY <1>1, <1>2
  <1>4. m = [done |-> m.done, rest |-> m.rest]
    BY DEF Making
  <1> DEFINE longer == Append(m.rest, c)
  <1>5. [m EXCEPT !.rest = longer] = [done |-> m.done, rest |-> longer]
    <2> HIDE DEF longer
    <2> QED  BY <1>4
  <1> QED  BY <1>1, <1>2, <1>3, <1>5 DEF CutStep, Making

\* CutAfter, character by character.
LEMMA CutRuns ==
  ASSUME NEW s \in Seq(Character), NEW kinds
  PROVE  \E made \in [0 .. Len(s) -> Making(Seq(Character))] :
           /\ made[0] = Nothing
           /\ \A k \in 1 .. Len(s) : made[k] = CutStep(made[k - 1], s[k], kinds)
           /\ CutAfter(s, kinds) = Append(made[Len(s)].done, made[Len(s)].rest)
  <1> DEFINE n == Len(s)
             A == Making(Seq(Character))
             step == [x \in (1 .. n) \X A |-> CutStep(x[2], s[x[1]], kinds)]
             Solves(h) ==
               h = [t \in SUBSET DOMAIN s |->
                      IF t = {} THEN Nothing ELSE CutStep(h[t \ {Max(t)}], s[Max(t)], kinds)]
             fold == CHOOSE h : Solves(h)
  <1>1. n \in Nat /\ DOMAIN s = 1 .. n /\ \A k \in 1 .. n : s[k] \in Character
    OBVIOUS
  <1>2. Nothing \in A
    BY DEF Making, Nothing
  <1>3. \A m \in A, c \in Character : CutStep(m, c, kinds) \in A
    BY CutStepTypes
  <1>4. step \in [(1 .. n) \X A -> A]
    <2> HIDE DEF A
    <2> QED  BY <1>1, <1>3
  <1>5. PICK g : Solved(g, n, A, Nothing, step)
    <2> HIDE DEF n, A, step
    <2> QED  BY <1>1, <1>2, <1>4, FoldSolved
  <1>6. \A t \in SUBSET (1 .. n) :
           g[t] = IF t = {} THEN Nothing ELSE CutStep(g[t \ {Max(t)}], s[Max(t)], kinds)
    <2> HIDE DEF n, A
    <2> QED  BY <1>5 DEF Solved
  <1>7. Solves(g)
    <2> HIDE DEF A, step
    <2> QED  BY <1>1, <1>5, <1>6 DEF Solved
  <1> HIDE DEF Solves
  <1>8. Solves(fold)
    BY <1>7
  <1>9. CutAfter(s, kinds) = Append(fold[1 .. n].done, fold[1 .. n].rest)
    BY <1>1 DEF CutAfter, FoldLeft, MapThenFoldSet, Solves, CutStep, Nothing
  <1> HIDE DEF fold
  <1>10. \A t \in SUBSET (1 .. n) :
           fold[t] = IF t = {} THEN Nothing ELSE CutStep(fold[t \ {Max(t)}], s[Max(t)], kinds)
    BY <1>1, <1>8 DEF Solves
  <1>11. Made(n, A, Nothing, step, fold[1 .. n]) # {}
    <2>1. Follows(fold, n, A, Nothing, step)
      <3> SUFFICES ASSUME NEW t \in SUBSET (1 .. n)
                   PROVE  /\ t = {} => fold[t] = Nothing
                          /\ t # {} /\ fold[t \ {Max(t)}] \in A =>
                               fold[t] = step[<<Max(t), fold[t \ {Max(t)}]>>]
        BY DEF Follows
      <3>1. t # {} => Max(t) \in 1 .. n
        BY <1>1, EndsOfNumbers
      <3> HIDE DEF n, A
      <3> QED  BY <1>10, <3>1
    <2> HIDE DEF n, A, step
    <2> QED  BY <1>1, <1>2, <1>4, <2>1, FoldMade
  <1>12. \A k \in 1 .. n, m \in A : step[<<k, m>>] = CutStep(m, s[k], kinds)
    <2> HIDE DEF n, A
    <2> QED  OBVIOUS
  <1>13. PICK made \in Made(n, A, Nothing, step, fold[1 .. n]) : TRUE
    BY <1>11
  <1>14. /\ made \in [0 .. n -> A] /\ made[0] = Nothing
         /\ made[n] = fold[1 .. n]
         /\ \A k \in 1 .. n : made[k] = CutStep(made[k - 1], s[k], kinds)
    <2> HIDE DEF n, A, step
    <2>1. /\ made \in [0 .. n -> A] /\ made[0] = Nothing
          /\ made[n] = fold[1 .. n]
          /\ \A k \in 1 .. n : made[k] = step[<<k, made[k - 1]>>]
      BY <1>13 DEF Made
    <2>2. \A k \in 1 .. n : k - 1 \in 0 .. n
      BY <1>1
    <2> QED  BY <1>12, <2>1, <2>2
  <1> QED  BY <1>9, <1>14

\* What Gathered does with one item.
GatherStep(made, item, between, size) ==
  LET candidate == Joined(made.rest, between, item) IN
  IF Len(candidate) <= size
  THEN [made EXCEPT !.rest = candidate]
  ELSE [done |-> Append(made.done, made.rest), rest |-> item]

\* The parts of what is being made, and what becomes of them.
LEMMA MakingParts ==
  ASSUME NEW L, NEW m \in Making(L)
  PROVE  /\ m.done \in Seq(L) /\ m.rest \in L
         /\ \A x \in L : [m EXCEPT !.rest = x] = [done |-> m.done, rest |-> x]
         /\ \A x \in L : [done |-> m.done, rest |-> x] \in Making(L)
         /\ \A x, y \in L : [done |-> Append(m.done, x), rest |-> y] \in Making(L)
  <1>1. m = [done |-> m.done, rest |-> m.rest] /\ m.done \in Seq(L) /\ m.rest \in L
    BY DEF Making
  <1>2. \A x \in L : [m EXCEPT !.rest = x] = [done |-> m.done, rest |-> x]
    BY <1>1
  <1>3. \A x \in L : Append(m.done, x) \in Seq(L)
    BY <1>1
  <1>4. \A q \in Seq(L), x \in L : [done |-> q, rest |-> x] \in Making(L)
    BY DEF Making
  <1> QED  BY <1>1, <1>2, <1>3, <1>4

\* What Gathered has made stays of its type.
LEMMA GatherStepTypes ==
  ASSUME NEW between \in Seq(Character), NEW size,
         NEW m \in Making(Seq(Character)), NEW c \in Seq(Character)
  PROVE  GatherStep(m, c, between, size) \in Making(Seq(Character))
  <1> DEFINE candidate == Joined(m.rest, between, c)
  <1>1. m.rest \in Seq(Character)
    BY MakingParts
  <1>2. candidate \in Seq(Character)
    BY <1>1 DEF Joined
  <1>3. GatherStep(m, c, between, size) = IF Len(candidate) <= size
                                          THEN [m EXCEPT !.rest = candidate]
                                          ELSE [done |-> Append(m.done, m.rest), rest |-> c]
    BY DEF GatherStep
  <1>4. /\ [m EXCEPT !.rest = candidate] \in Making(Seq(Character))
        /\ [done |-> Append(m.done, m.rest), rest |-> c] \in Making(Seq(Character))
    <2> HIDE DEF candidate
    <2>1. [m EXCEPT !.rest = candidate] = [done |-> m.done, rest |-> candidate]
      BY <1>2, MakingParts
    <2>2. [done |-> m.done, rest |-> candidate] \in Making(Seq(Character))
      BY <1>2, MakingParts
    <2>3. [done |-> Append(m.done, m.rest), rest |-> c] \in Making(Seq(Character))
      BY <1>1, MakingParts
    <2> QED  BY <2>1, <2>2, <2>3
  <1> HIDE DEF candidate
  <1> QED  BY <1>3, <1>4

\* Gathered, item by item.
LEMMA GatherRuns ==
  ASSUME NEW s \in Seq(Seq(Character)), NEW between \in Seq(Character), NEW size
  PROVE  \E made \in [0 .. Len(s) -> Making(Seq(Character))] :
           /\ made[0] = Nothing
           /\ \A k \in 1 .. Len(s) : made[k] = GatherStep(made[k - 1], s[k], between, size)
           /\ Gathered(s, between, size) =
                NonEmpty(Append(made[Len(s)].done, made[Len(s)].rest))
  <1> DEFINE n == Len(s)
             A == Making(Seq(Character))
             step == [x \in (1 .. n) \X A |-> GatherStep(x[2], s[x[1]], between, size)]
             Solves(h) ==
               h = [t \in SUBSET DOMAIN s |->
                      IF t = {} THEN Nothing ELSE GatherStep(h[t \ {Max(t)}], s[Max(t)], between, size)]
             fold == CHOOSE h : Solves(h)
  <1>1. n \in Nat /\ DOMAIN s = 1 .. n /\ \A k \in 1 .. n : s[k] \in Seq(Character)
    OBVIOUS
  <1>2. Nothing \in A
    BY DEF Making, Nothing
  <1>3. \A m \in A, c \in Seq(Character) : GatherStep(m, c, between, size) \in A
    BY GatherStepTypes
  <1>4. step \in [(1 .. n) \X A -> A]
    <2> HIDE DEF A
    <2> QED  BY <1>1, <1>3
  <1>5. PICK g : Solved(g, n, A, Nothing, step)
    <2> HIDE DEF n, A, step
    <2> QED  BY <1>1, <1>2, <1>4, FoldSolved
  <1>6. \A t \in SUBSET (1 .. n) :
           g[t] = IF t = {} THEN Nothing ELSE GatherStep(g[t \ {Max(t)}], s[Max(t)], between, size)
    <2> HIDE DEF n, A
    <2> QED  BY <1>5 DEF Solved
  <1>7. Solves(g)
    <2> HIDE DEF A, step
    <2> QED  BY <1>1, <1>5, <1>6 DEF Solved
  <1> HIDE DEF Solves
  <1>8. Solves(fold)
    BY <1>7
  <1>9. Gathered(s, between, size) = NonEmpty(Append(fold[1 .. n].done, fold[1 .. n].rest))
    BY <1>1 DEF Gathered, FoldLeft, MapThenFoldSet, Solves, GatherStep, Nothing
  <1> HIDE DEF fold
  <1>10. \A t \in SUBSET (1 .. n) :
           fold[t] = IF t = {} THEN Nothing ELSE GatherStep(fold[t \ {Max(t)}], s[Max(t)], between, size)
    BY <1>1, <1>8 DEF Solves
  <1>11. Made(n, A, Nothing, step, fold[1 .. n]) # {}
    <2>1. Follows(fold, n, A, Nothing, step)
      <3> SUFFICES ASSUME NEW t \in SUBSET (1 .. n)
                   PROVE  /\ t = {} => fold[t] = Nothing
                          /\ t # {} /\ fold[t \ {Max(t)}] \in A =>
                               fold[t] = step[<<Max(t), fold[t \ {Max(t)}]>>]
        BY DEF Follows
      <3>1. t # {} => Max(t) \in 1 .. n
        BY <1>1, EndsOfNumbers
      <3> HIDE DEF n, A
      <3> QED  BY <1>10, <3>1
    <2> HIDE DEF n, A, step
    <2> QED  BY <1>1, <1>2, <1>4, <2>1, FoldMade
  <1>12. \A k \in 1 .. n, m \in A : step[<<k, m>>] = GatherStep(m, s[k], between, size)
    <2> HIDE DEF n, A
    <2> QED  OBVIOUS
  <1>13. PICK made \in Made(n, A, Nothing, step, fold[1 .. n]) : TRUE
    BY <1>11
  <1>14. /\ made \in [0 .. n -> A] /\ made[0] = Nothing
         /\ made[n] = fold[1 .. n]
         /\ \A k \in 1 .. n : made[k] = GatherStep(made[k - 1], s[k], between, size)
    <2> HIDE DEF n, A, step
    <2>1. /\ made \in [0 .. n -> A] /\ made[0] = Nothing
          /\ made[n] = fold[1 .. n]
          /\ \A k \in 1 .. n : made[k] = step[<<k, made[k - 1]>>]
      BY <1>13 DEF Made
    <2>2. \A k \in 1 .. n : k - 1 \in 0 .. n
      BY <1>1
    <2> QED  BY <1>12, <2>1, <2>2
  <1> QED  BY <1>9, <1>14

\* What Paragraphs does with one line.
ParagraphStep(made, line) ==
  LET text == Trim(line) IN
  CASE text = <<>>     -> [done |-> Append(made.done, made.rest), rest |-> <<>>]
    [] text # <<>> /\ IsHeading(text)
                       -> [done |-> Append(made.done, made.rest), rest |-> text]
    [] OTHER           -> [made EXCEPT !.rest = Joined(@, <<Inserted>>, text)]

\* The three ways it goes.
LEMMA ParagraphSteps ==
  ASSUME NEW L, NEW m \in Making(L), NEW line,
         Joined(m.rest, <<Inserted>>, Trim(line)) \in L
  PROVE  \/ /\ Trim(line) = <<>>
            /\ ParagraphStep(m, line) = [done |-> Append(m.done, m.rest), rest |-> <<>>]
         \/ /\ Trim(line) # <<>>
            /\ ParagraphStep(m, line) = [done |-> Append(m.done, m.rest), rest |-> Trim(line)]
         \/ /\ Trim(line) # <<>>
            /\ ParagraphStep(m, line)
                 = [done |-> m.done, rest |-> Joined(m.rest, <<Inserted>>, Trim(line))]
  <1> DEFINE text == Trim(line)
             longer == Joined(m.rest, <<Inserted>>, text)
  <1>1. ParagraphStep(m, line)
          = CASE text = <<>>     -> [done |-> Append(m.done, m.rest), rest |-> <<>>]
              [] text # <<>> /\ IsHeading(text)
                                 -> [done |-> Append(m.done, m.rest), rest |-> text]
              [] OTHER           -> [m EXCEPT !.rest = longer]
    BY DEF ParagraphStep
  <1>2. [m EXCEPT !.rest = longer] = [done |-> m.done, rest |-> longer]
    BY MakingParts
  <1> HIDE DEF text, longer
  <1>3. CASE text = <<>>
    BY <1>1, <1>3 DEF text
  <1>4. CASE text # <<>> /\ IsHeading(text)
    BY <1>1, <1>4 DEF text
  <1>5. CASE text # <<>> /\ ~IsHeading(text)
    BY <1>1, <1>2, <1>5 DEF text, longer
  <1> QED  BY <1>3, <1>4, <1>5

\* What the pieces are joined with.
LEMMA NewlineIsSpace ==
  <<Inserted>> \in Spaces /\ <<Inserted, Inserted>> \in Spaces /\ <<>> \in Spaces
  <1>1. Inserted \in Character /\ Blank(Inserted)
    BY DEF Inserted, Character, Kinds, Blank
  <1>2. ASSUME NEW c \in Character, Blank(c)
        PROVE  <<c>> \in Spaces /\ <<c, c>> \in Spaces
    BY <1>2 DEF Spaces
  <1> QED  BY <1>1, <1>2 DEF Spaces

\* What Paragraphs has made stays of its type.
LEMMA ParagraphStepTypes ==
  ASSUME NEW m \in Making(Seq(Character)), NEW c \in Line
  PROVE  ParagraphStep(m, c) \in Making(Seq(Character))
  <1>1. m.rest \in Seq(Character) /\ Trim(c) \in Seq(Character) /\ <<>> \in Seq(Character)
        /\ <<Inserted>> \in Seq(Character)
    BY MakingParts, TrimKeeps, Lines, NewlineIsSpace DEF Spaces
  <1>2. Joined(m.rest, <<Inserted>>, Trim(c)) \in Seq(Character)
    BY <1>1 DEF Joined
  <1> QED  BY <1>1, <1>2, ParagraphSteps, MakingParts

\* Paragraphs, line by line.
LEMMA ParagraphRuns ==
  ASSUME NEW text, NEW s, s = CutAfter(text, {"newline"}), s \in Seq(Line)
  PROVE  \E made \in [0 .. Len(s) -> Making(Seq(Character))] :
           /\ made[0] = Nothing
           /\ \A k \in 1 .. Len(s) : made[k] = ParagraphStep(made[k - 1], s[k])
           /\ Paragraphs(text) = NonEmpty(Append(made[Len(s)].done, made[Len(s)].rest))
  <1> DEFINE n == Len(s)
             A == Making(Seq(Character))
             step == [x \in (1 .. n) \X A |-> ParagraphStep(x[2], s[x[1]])]
             Solves(h) ==
               h = [t \in SUBSET DOMAIN s |->
                      IF t = {} THEN Nothing ELSE ParagraphStep(h[t \ {Max(t)}], s[Max(t)])]
             fold == CHOOSE h : Solves(h)
  <1>1. n \in Nat /\ DOMAIN s = 1 .. n /\ \A k \in 1 .. n : s[k] \in Line
    OBVIOUS
  <1>2. Nothing \in A
    BY DEF Making, Nothing
  <1>3. \A m \in A, c \in Line : ParagraphStep(m, c) \in A
    BY ParagraphStepTypes
  <1>4. step \in [(1 .. n) \X A -> A]
    <2> HIDE DEF A
    <2> QED  BY <1>1, <1>3
  <1>5. PICK g : Solved(g, n, A, Nothing, step)
    <2> HIDE DEF n, A, step
    <2> QED  BY <1>1, <1>2, <1>4, FoldSolved
  <1>6. \A t \in SUBSET (1 .. n) :
           g[t] = IF t = {} THEN Nothing ELSE ParagraphStep(g[t \ {Max(t)}], s[Max(t)])
    <2> HIDE DEF n, A
    <2> QED  BY <1>5 DEF Solved
  <1>7. Solves(g)
    <2> HIDE DEF A, step
    <2> QED  BY <1>1, <1>5, <1>6 DEF Solved
  <1> HIDE DEF Solves
  <1>8. Solves(fold)
    BY <1>7
  <1>9. Paragraphs(text) = NonEmpty(Append(fold[1 .. n].done, fold[1 .. n].rest))
    BY <1>1 DEF Paragraphs, FoldLeft, MapThenFoldSet, Solves, ParagraphStep, Nothing
  <1> HIDE DEF fold
  <1>10. \A t \in SUBSET (1 .. n) :
           fold[t] = IF t = {} THEN Nothing ELSE ParagraphStep(fold[t \ {Max(t)}], s[Max(t)])
    BY <1>1, <1>8 DEF Solves
  <1>11. Made(n, A, Nothing, step, fold[1 .. n]) # {}
    <2>1. Follows(fold, n, A, Nothing, step)
      <3> SUFFICES ASSUME NEW t \in SUBSET (1 .. n)
                   PROVE  /\ t = {} => fold[t] = Nothing
                          /\ t # {} /\ fold[t \ {Max(t)}] \in A =>
                               fold[t] = step[<<Max(t), fold[t \ {Max(t)}]>>]
        BY DEF Follows
      <3>1. t # {} => Max(t) \in 1 .. n
        BY <1>1, EndsOfNumbers
      <3> HIDE DEF n, A
      <3> QED  BY <1>10, <3>1
    <2> HIDE DEF n, A, step
    <2> QED  BY <1>1, <1>2, <1>4, <2>1, FoldMade
  <1>12. \A k \in 1 .. n, m \in A : step[<<k, m>>] = ParagraphStep(m, s[k])
    <2> HIDE DEF n, A
    <2> QED  OBVIOUS
  <1>13. PICK made \in Made(n, A, Nothing, step, fold[1 .. n]) : TRUE
    BY <1>11
  <1>14. /\ made \in [0 .. n -> A] /\ made[0] = Nothing
         /\ made[n] = fold[1 .. n]
         /\ \A k \in 1 .. n : made[k] = ParagraphStep(made[k - 1], s[k])
    <2> HIDE DEF n, A, step
    <2>1. /\ made \in [0 .. n -> A] /\ made[0] = Nothing
          /\ made[n] = fold[1 .. n]
          /\ \A k \in 1 .. n : made[k] = step[<<k, made[k - 1]>>]
      BY <1>13 DEF Made
    <2>2. \A k \in 1 .. n : k - 1 \in 0 .. n
      BY <1>1
    <2> QED  BY <1>12, <2>1, <2>2
  <1> QED  BY <1>9, <1>14

-----------------------------------------------------------------------------
(* Cutting and gathering keep the order and lose nothing.                  *)

\* The parts of a sequence have the type of the whole.
LEMMA AppendParts ==
  ASSUME NEW L, NEW X, NEW qs \in Seq(X), NEW r, Append(qs, r) \in Seq(L)
  PROVE  qs \in Seq(L) /\ r \in L
  <1> DEFINE ps == Append(qs, r)
             n == Len(qs)
  <1>1. n \in Nat /\ DOMAIN qs = 1 .. n /\ Len(ps) = n + 1
    OBVIOUS
  <1>2. ps[n + 1] = r /\ \A k \in 1 .. n : ps[k] = qs[k]
    OBVIOUS
  <1>3. \A k \in 1 .. n + 1 : ps[k] \in L
    BY <1>1
  <1>4. qs = [k \in 1 .. n |-> qs[k]]
    OBVIOUS
  <1> HIDE DEF ps, n
  <1>5. r \in L
    BY <1>1, <1>2, <1>3
  <1>6. \A k \in 1 .. n : qs[k] \in L
    BY <1>1, <1>2, <1>3
  <1>7. qs \in [1 .. n -> L]
    BY <1>4, <1>6
  <1> QED  BY <1>1, <1>5, <1>7

\* A wider sort of lines.
LEMMA TilesWiden ==
  ASSUME NEW L, NEW M, L \subseteq M, NEW ps, NEW P, Tiles(ps, P, L)
  PROVE  Tiles(ps, P, M)
  <1>1. ps \in Seq(L)
    BY DEF Tiles
  <1>2. ps \in Seq(M)
    BY <1>1
  <1> QED  BY <1>2 DEF Tiles

\* The last line of all has no place that is not held.
LEMMA TilesLast ==
  ASSUME NEW L \in SUBSET Line, NEW qs \in Seq(L), NEW r \in L, NEW Q,
         Tiles(Append(qs, r), Q, L), NEW X, Earlier(Q, X)
  PROVE  Earlier(Places(r), X)
  <1>1. PICK P : Tiles(qs, P, L) /\ Q = P \cup Places(r) /\ Earlier(P, Places(r))
    BY TilesFront
  <1> QED  BY <1>1 DEF Earlier

\* Cutting after some kinds of characters loses none and keeps their order.
LEMMA CutTiles ==
  ASSUME NEW s \in Line, NEW kinds
  PROVE  Tiles(CutAfter(s, kinds), Places(s), Line)
  <1> DEFINE n == Len(s)
             items == [k \in 1 .. n |-> <<s[k]>>]
  <1>1. /\ s \in Seq(Character) /\ n \in Nat
        /\ \A k \in 1 .. n : s[k] \in Character
        /\ \A i, j \in 1 .. n : i < j /\ ~Blank(s[i]) /\ ~Blank(s[j]) => s[i].at < s[j].at
    BY Lines
  <1>2. PICK made \in [0 .. n -> Making(Seq(Character))] :
           /\ made[0] = Nothing
           /\ \A k \in 1 .. n : made[k] = CutStep(made[k - 1], s[k], kinds)
           /\ CutAfter(s, kinds) = Append(made[n].done, made[n].rest)
    BY <1>1, CutRuns
  <1>3. \A k \in 1 .. n : items[k] \in Line
                          /\ Places(items[k]) = IF Blank(s[k]) THEN {} ELSE {s[k].at}
    BY <1>1, ShortLines
  <1>4. items \in Seq(Line) /\ Len(items) = n
    <2>1. items \in [1 .. n -> Line]
      BY <1>3
    <2> HIDE DEF items
    <2> QED  BY <1>1, <2>1
  <1>5. \A k \in 1 .. n : items[k] = <<s[k]>>
    OBVIOUS
  <1> HIDE DEF items
  <1>6. Tiles(items, Places(s), Line)
    <2>1. ASSUME NEW p
          PROVE  p \in Places(s) <=> \E k \in 1 .. n : p \in Places(items[k])
      <3>1. p \in Places(s) <=> \E k \in 1 .. n : ~Blank(s[k]) /\ s[k].at = p
        BY <1>1, PlaceIn
      <3>2. \A k \in 1 .. n : p \in Places(items[k]) <=> ~Blank(s[k]) /\ s[k].at = p
        BY <1>3
      <3> QED  BY <3>1, <3>2
    <2>2. \A k, l \in 1 .. n : k < l => Earlier(Places(items[k]), Places(items[l]))
      <3> SUFFICES ASSUME NEW k \in 1 .. n, NEW l \in 1 .. n, k < l,
                          NEW p \in Places(items[k]), NEW q \in Places(items[l])
                   PROVE  p < q
        BY DEF Earlier
      <3>1. ~Blank(s[k]) /\ p = s[k].at /\ ~Blank(s[l]) /\ q = s[l].at
        BY <1>3
      <3> QED  BY <1>1, <3>1
    <2> QED  BY <1>4, <2>1, <2>2 DEF Tiles
  <1> DEFINE pieces == [k \in 0 .. n |-> Append(made[k].done, made[k].rest)]
  <1>7. pieces[0] = Append(Nothing.done, Nothing.rest)
    BY <1>1, <1>2
  <1>8. Tiles(pieces[0], {}, Line)
    BY <1>7, MakingStarts, ShortLines
  <1>9. ASSUME NEW k \in 1 .. n, NEW Q, Tiles(pieces[k - 1], Q, Line),
               Earlier(Q, Places(items[k]))
        PROVE  Tiles(pieces[k], Q \cup Places(items[k]), Line)
    <2> DEFINE m == made[k - 1]
               c == s[k]
               longer == Append(m.rest, c)
    <2>1. k - 1 \in 0 .. n /\ k \in 0 .. n
      BY <1>1
    <2>2. /\ m \in Making(Seq(Character)) /\ made[k] = CutStep(m, c, kinds)
          /\ pieces[k - 1] = Append(m.done, m.rest)
          /\ pieces[k] = Append(made[k].done, made[k].rest)
          /\ c \in Character /\ items[k] = <<c>>
      BY <1>1, <1>2, <1>5, <2>1
    <2> HIDE DEF m, c, pieces
    <2>3. m.done \in Seq(Line) /\ m.rest \in Line
      <3>1. Append(m.done, m.rest) \in Seq(Line)
        BY <1>9, <2>2 DEF Tiles
      <3>2. m.done \in Seq(Seq(Character))
        BY <2>2, MakingParts
      <3> QED  BY <3>1, <3>2, AppendParts
    <2>4. longer \in Line /\ Places(longer) = Places(m.rest) \cup Places(<<c>>)
      <3>1. Earlier(Places(m.rest), Places(<<c>>))
        BY <1>9, <2>2, <2>3, TilesLast
      <3>2. m.rest \o <<c>> = longer
        BY <2>2, <2>3, Lines
      <3> QED  BY <2>2, <2>3, <3>1, <3>2, LinesJoin, ShortLines
    <2>5. Tiles(Append(m.done, longer), Q \cup Places(<<c>>), Line)
      <3> HIDE DEF longer
      <3> QED  BY <1>9, <2>2, <2>3, <2>4, TilesExtend
    <2>6. CASE c.is \in kinds
      <3>1. made[k] = [done |-> Append(m.done, longer), rest |-> <<>>]
        BY <2>2, <2>6 DEF CutStep
      <3>2. pieces[k] = Append(Append(m.done, longer), <<>>)
        BY <2>2, <3>1
      <3>3. Earlier(Q \cup Places(<<c>>), Places(<<>>))
        BY ShortLines DEF Earlier
      <3>4. Tiles(Append(Append(m.done, longer), <<>>),
                  (Q \cup Places(<<c>>)) \cup Places(<<>>), Line)
        BY <2>5, <3>3, ShortLines, TilesAppend
      <3>5. (Q \cup Places(<<c>>)) \cup Places(<<>>) = Q \cup Places(<<c>>)
        BY ShortLines
      <3> QED  BY <2>2, <3>2, <3>4, <3>5
    <2>7. CASE c.is \notin kinds
      <3>1. made[k] = [m EXCEPT !.rest = longer]
        BY <2>2, <2>7 DEF CutStep
      <3>2. longer \in Seq(Character)
        BY <2>4, Lines
      <3>3. made[k] = [done |-> m.done, rest |-> longer]
        <4> HIDE DEF longer
        <4> QED  BY <2>2, <3>1, <3>2, MakingParts
      <3>4. pieces[k] = Append(m.done, longer)
        BY <2>2, <3>3
      <3> QED  BY <2>2, <2>5, <3>4
    <2> QED  BY <2>6, <2>7
  <1>10. pieces[n] = CutAfter(s, kinds)
    BY <1>1, <1>2
  <1> HIDE DEF pieces, n
  <1>11. Tiles(pieces[Len(items)], Places(s), Line)
    BY <1>4, <1>6, <1>8, <1>9, TilesByTaking
  <1> QED  BY <1>4, <1>10, <1>11

\* Gathering keeps lines of any sort that joining keeps.
LEMMA GatheredTiles ==
  ASSUME NEW L \in SUBSET Line, <<>> \in L, NEW items, NEW P, Tiles(items, P, L),
         NEW between \in Spaces, NEW size,
         \A a \in L, k \in 1 .. Len(items) :
           Earlier(Places(a), Places(items[k])) => Joined(a, between, items[k]) \in L
  PROVE  /\ Tiles(Gathered(items, between, size), P, L)
         /\ \A k \in 1 .. Len(Gathered(items, between, size)) :
              Gathered(items, between, size)[k] # <<>>
  <1> DEFINE n == Len(items)
  <1>1. /\ items \in Seq(L) /\ n \in Nat /\ between \in Seq(Character)
        /\ \A k \in 1 .. n : items[k] \in L /\ items[k] \in Line
    BY DEF Tiles, Spaces
  <1>2. items \in Seq(Seq(Character))
    <2>1. L \subseteq Seq(Character)
      BY Lines
    <2> QED  BY <1>1, <2>1
  <1>3. PICK made \in [0 .. n -> Making(Seq(Character))] :
           /\ made[0] = Nothing
           /\ \A k \in 1 .. n : made[k] = GatherStep(made[k - 1], items[k], between, size)
           /\ Gathered(items, between, size) = NonEmpty(Append(made[n].done, made[n].rest))
    BY <1>1, <1>2, GatherRuns
  <1> DEFINE pieces == [k \in 0 .. n |-> Append(made[k].done, made[k].rest)]
  <1>4. pieces[0] = Append(Nothing.done, Nothing.rest)
    BY <1>1, <1>3
  <1>5. Tiles(pieces[0], {}, L)
    BY <1>4, MakingStarts
  <1>6. ASSUME NEW k \in 1 .. n, NEW Q, Tiles(pieces[k - 1], Q, L),
               Earlier(Q, Places(items[k]))
        PROVE  Tiles(pieces[k], Q \cup Places(items[k]), L)
    <2> DEFINE m == made[k - 1]
               item == items[k]
               longer == Joined(m.rest, between, item)
    <2>1. k - 1 \in 0 .. n /\ k \in 0 .. n
      BY <1>1
    <2>2. /\ m \in Making(Seq(Character)) /\ made[k] = GatherStep(m, item, between, size)
          /\ pieces[k - 1] = Append(m.done, m.rest)
          /\ pieces[k] = Append(made[k].done, made[k].rest)
          /\ item \in L /\ item \in Line
      BY <1>1, <1>3, <2>1
    <2> HIDE DEF m, pieces
    <2>3. m.done \in Seq(L) /\ m.rest \in L /\ m.rest \in Line
      <3>1. Append(m.done, m.rest) \in Seq(L)
        BY <1>6, <2>2 DEF Tiles
      <3>2. m.done \in Seq(Seq(Character))
        BY <2>2, MakingParts
      <3> QED  BY <3>1, <3>2, AppendParts
    <2>4. Earlier(Places(m.rest), Places(item))
      <3>1. Tiles(Append(m.done, m.rest), Q, L) /\ Earlier(Q, Places(item))
        BY <1>6, <2>2
      <3> HIDE DEF item
      <3> QED  BY <2>3, <3>1, TilesLast
    <2>5. longer \in L /\ Places(longer) = Places(m.rest) \cup Places(item)
      BY <2>2, <2>3, <2>4, JoinedLines
    <2> HIDE DEF item
    <2>6. CASE Len(longer) <= size
      <3>1. made[k] = [m EXCEPT !.rest = longer]
        BY <2>2, <2>6 DEF GatherStep
      <3>2. longer \in Seq(Character)
        BY <2>5, Lines
      <3> HIDE DEF longer
      <3>3. made[k] = [done |-> m.done, rest |-> longer]
        BY <2>2, <3>1, <3>2, MakingParts
      <3>4. pieces[k] = Append(m.done, longer)
        BY <2>2, <3>3
      <3>5. Tiles(Append(m.done, longer), Q \cup Places(item), L)
        BY <1>6, <2>2, <2>3, <2>5, TilesExtend DEF item
      <3> QED  BY <3>4, <3>5 DEF item
    <2>7. CASE ~(Len(longer) <= size)
      <3>1. made[k] = [done |-> Append(m.done, m.rest), rest |-> item]
        BY <2>2, <2>7 DEF GatherStep
      <3>2. pieces[k] = Append(Append(m.done, m.rest), item)
        BY <2>2, <3>1
      <3>3. Tiles(Append(Append(m.done, m.rest), item), Q \cup Places(item), L)
        BY <1>6, <2>2, TilesAppend DEF item
      <3> QED  BY <3>2, <3>3 DEF item
    <2> QED  BY <2>6, <2>7
  <1>7. Gathered(items, between, size) = NonEmpty(pieces[n])
    BY <1>1, <1>3
  <1> HIDE DEF pieces, n
  <1>8. Tiles(items, P, Line)
    BY TilesWiden
  <1>9. Tiles(pieces[n], P, L)
    BY <1>5, <1>6, <1>8, TilesByTaking DEF n
  <1> QED  BY <1>7, <1>9, TilesFilter

\* Lines without blanks at their ends.
Whole == {s \in Line : Trimmed(s)}

\* What trimming makes, and what joining makes of it, has no blanks at its ends.
LEMMA TrimmedIsWhole ==
  /\ Whole \in SUBSET Line /\ <<>> \in Whole
  /\ \A s \in Line : Trim(s) \in Whole
  /\ \A a \in Whole, b \in Whole, between \in Spaces :
       b # <<>> /\ Earlier(Places(a), Places(b)) => Joined(a, between, b) \in Whole
  <1>1. <<>> \in Whole
    BY ShortLines DEF Whole, Trimmed
  <1>2. \A s \in Line : Trim(s) \in Whole
    BY TrimKeeps DEF Whole
  <1>3. ASSUME NEW a \in Whole, NEW b \in Whole, NEW between \in Spaces,
               b # <<>>, Earlier(Places(a), Places(b))
        PROVE  Joined(a, between, b) \in Whole
    BY <1>3, JoinedLines, JoinedTrimmed DEF Whole
  <1> QED  BY <1>1, <1>2, <1>3 DEF Whole

\* The paragraphs hold the text, in its order, and none of them is empty.
LEMMA ParagraphTiles ==
  ASSUME NEW s \in Line
  PROVE  /\ Tiles(Paragraphs(s), Places(s), Whole)
         /\ \A k \in 1 .. Len(Paragraphs(s)) : Paragraphs(s)[k] # <<>>
  <1>1. PICK lines : lines = CutAfter(s, {"newline"}) /\ Tiles(lines, Places(s), Line)
    BY CutTiles
  <1> DEFINE n == Len(lines)
  <1>2. /\ lines \in Seq(Line) /\ n \in Nat
        /\ \A k \in 1 .. n : lines[k] \in Line
    BY <1>1 DEF Tiles
  <1>3. PICK made \in [0 .. n -> Making(Seq(Character))] :
           /\ made[0] = Nothing
           /\ \A k \in 1 .. n : made[k] = ParagraphStep(made[k - 1], lines[k])
           /\ Paragraphs(s) = NonEmpty(Append(made[n].done, made[n].rest))
    BY <1>1, <1>2, ParagraphRuns
  <1> DEFINE pieces == [k \in 0 .. n |-> Append(made[k].done, made[k].rest)]
  <1>4. pieces[0] = Append(Nothing.done, Nothing.rest)
    BY <1>2, <1>3
  <1>5. Tiles(pieces[0], {}, Whole)
    BY <1>4, MakingStarts, TrimmedIsWhole
  <1>6. ASSUME NEW k \in 1 .. n, NEW Q, Tiles(pieces[k - 1], Q, Whole),
               Earlier(Q, Places(lines[k]))
        PROVE  Tiles(pieces[k], Q \cup Places(lines[k]), Whole)
    <2> DEFINE m == made[k - 1]
               line == lines[k]
               text == Trim(line)
               longer == Joined(m.rest, <<Inserted>>, text)
    <2>1. k - 1 \in 0 .. n /\ k \in 0 .. n
      BY <1>2
    <2>2. /\ m \in Making(Seq(Character)) /\ made[k] = ParagraphStep(m, line)
          /\ pieces[k - 1] = Append(m.done, m.rest)
          /\ pieces[k] = Append(made[k].done, made[k].rest)
          /\ line \in Line
      BY <1>2, <1>3, <2>1
    <2> HIDE DEF m, pieces
    <2>3. /\ text \in Whole /\ Places(text) = Places(line)
      BY <2>2, TrimmedIsWhole, TrimKeeps
    <2>4. m.done \in Seq(Whole) /\ m.rest \in Whole
      <3>1. Append(m.done, m.rest) \in Seq(Whole)
        BY <1>6, <2>2 DEF Tiles
      <3>2. m.done \in Seq(Seq(Character))
        BY <2>2, MakingParts
      <3> QED  BY <3>1, <3>2, AppendParts
    <2>5. Tiles(Append(m.done, m.rest), Q, Whole) /\ Earlier(Q, Places(text))
      BY <1>6, <2>2, <2>3
    <2> HIDE DEF text
    <2>6. Earlier(Places(m.rest), Places(text))
      BY <2>4, <2>5, TilesLast, TrimmedIsWhole
    <2>7. /\ longer \in Line /\ Places(longer) = Places(m.rest) \cup Places(text)
      BY <2>3, <2>4, <2>6, JoinedLines, NewlineIsSpace, TrimmedIsWhole
    <2>8. longer \in Seq(Character)
      BY <2>7, Lines
    <2>9. \/ /\ text = <<>>
             /\ made[k] = [done |-> Append(m.done, m.rest), rest |-> <<>>]
          \/ /\ text # <<>>
             /\ made[k] = [done |-> Append(m.done, m.rest), rest |-> text]
          \/ /\ text # <<>>
             /\ made[k] = [done |-> m.done, rest |-> longer]
      BY <2>2, <2>8, ParagraphSteps DEF text
    <2>10. CASE made[k] = [done |-> Append(m.done, m.rest), rest |-> text]
      <3>1. pieces[k] = Append(Append(m.done, m.rest), text)
        BY <2>2, <2>10
      <3>2. Tiles(Append(Append(m.done, m.rest), text), Q \cup Places(text), Whole)
        BY <2>3, <2>5, TilesAppend, TrimmedIsWhole
      <3> QED  BY <2>3, <3>1, <3>2
    <2>11. CASE text # <<>> /\ made[k] = [done |-> m.done, rest |-> longer]
      <3>1. longer \in Whole
        BY <2>3, <2>4, <2>6, <2>11, NewlineIsSpace, TrimmedIsWhole
      <3> HIDE DEF longer
      <3>2. pieces[k] = Append(m.done, longer)
        BY <2>2, <2>11
      <3>3. Tiles(Append(m.done, longer), Q \cup Places(text), Whole)
        BY <2>4, <2>5, <2>7, <3>1, TilesExtend, TrimmedIsWhole
      <3> QED  BY <2>3, <3>2, <3>3
    <2> QED  BY <2>9, <2>10, <2>11
  <1>7. Paragraphs(s) = NonEmpty(pieces[n])
    BY <1>2, <1>3
  <1> HIDE DEF pieces, n
  <1>8. Tiles(pieces[n], Places(s), Whole)
    BY <1>1, <1>5, <1>6, TilesByTaking, TrimmedIsWhole DEF n
  <1> QED  BY <1>7, <1>8, TilesFilter, TrimmedIsWhole

\* What split cuts up: the paragraphs put together, in their order.
LEMMA MergeTiles ==
  ASSUME NEW s \in Line, NEW size
  PROVE  /\ Tiles(MergeParagraphs(Paragraphs(s), size), Places(s), Whole)
         /\ \A k \in 1 .. Len(MergeParagraphs(Paragraphs(s), size)) :
              MergeParagraphs(Paragraphs(s), size)[k] # <<>>
  <1> DEFINE ps == Paragraphs(s)
  <1>1. Tiles(ps, Places(s), Whole) /\ \A k \in 1 .. Len(ps) : ps[k] # <<>>
    BY ParagraphTiles
  <1> HIDE DEF ps
  <1>2. \A k \in 1 .. Len(ps) : ps[k] \in Whole
    BY <1>1 DEF Tiles
  <1>3. \A a \in Whole, k \in 1 .. Len(ps) :
           Earlier(Places(a), Places(ps[k])) => Joined(a, <<Inserted, Inserted>>, ps[k]) \in Whole
    BY <1>1, <1>2, TrimmedIsWhole, NewlineIsSpace
  <1> QED
    BY <1>1, <1>3, GatheredTiles, TrimmedIsWhole, NewlineIsSpace DEF MergeParagraphs, ps

\* The sentences of a long block, put together.
LEMMA SentenceTiles ==
  ASSUME NEW s \in Line, NEW kinds, NEW size
  PROVE  Tiles(Gathered(CutAfter(s, kinds), <<>>, size), Places(s), Line)
  <1>1. Tiles(CutAfter(s, kinds), Places(s), Line)
    BY CutTiles
  <1>2. \A k \in 1 .. Len(CutAfter(s, kinds)) : CutAfter(s, kinds)[k] \in Line
    BY <1>1 DEF Tiles
  <1>3. \A a \in Line, k \in 1 .. Len(CutAfter(s, kinds)) :
           Earlier(Places(a), Places(CutAfter(s, kinds)[k]))
             => Joined(a, <<>>, CutAfter(s, kinds)[k]) \in Line
    BY <1>2, JoinedLines, NewlineIsSpace
  <1> QED  BY <1>1, <1>3, GatheredTiles, ShortLines, NewlineIsSpace

-----------------------------------------------------------------------------
(* Pieces that may overlap.                                                *)

\* P begins and ends no later than Q, for stretches of one text.
Leans(P, Q) == \A p \in P, q \in Q : p <= q \/ (p \in Q /\ q \in P)

Stretch(P, S) == \A p, q \in P, r \in S : p <= r /\ r <= q => r \in P

Share(P, Q, n) == IsFiniteSet(P \cap Q) /\ Cardinality(P \cap Q) <= n

\* The pieces ps, of at most size characters, hold the places P, each a stretch of them,
\* in their order, and no two share more than overlap.
Covers(ps, P, size, overlap) ==
  /\ ps \in Seq(Whole)
  /\ \A p : p \in P <=> \E k \in 1 .. Len(ps) : p \in Places(ps[k])
  /\ \A k \in 1 .. Len(ps) : Len(ps[k]) <= size /\ Stretch(Places(ps[k]), P)
  /\ \A k, l \in 1 .. Len(ps) : k < l =>
       Leans(Places(ps[k]), Places(ps[l])) /\ Share(Places(ps[k]), Places(ps[l]), overlap)

\* What comes before shares nothing.
LEMMA EarlierShares ==
  ASSUME NEW P \in SUBSET Nat, NEW Q \in SUBSET Nat, Earlier(P, Q), NEW n \in Nat
  PROVE  Leans(P, Q) /\ Share(P, Q, n)
  <1>1. Leans(P, Q)
    <2> SUFFICES ASSUME NEW p \in P, NEW q \in Q PROVE p <= q
      BY DEF Leans
    <2>1. p < q /\ p \in Nat /\ q \in Nat
      BY DEF Earlier
    <2> QED  BY <2>1
  <1>2. ASSUME NEW p \in P, p \in Q PROVE FALSE
    <2>1. p < p /\ p \in Nat
      BY <1>2 DEF Earlier
    <2> QED  BY <2>1
  <1>3. P \cap Q = {}
    BY <1>2
  <1>4. IsFiniteSet({}) /\ Cardinality({}) = 0
    BY FS_EmptySet
  <1>5. Share(P, Q, n)
    <2> DEFINE both == P \cap Q
    <2>1. both = {}
      BY <1>3
    <2> HIDE DEF both
    <2>2. IsFiniteSet(both) /\ Cardinality(both) = 0
      BY <1>4, <2>1
    <2>3. IsFiniteSet(both) /\ Cardinality(both) <= n
      BY <2>2
    <2> QED  BY <2>3 DEF Share, both
  <1> QED  BY <1>1, <1>5

\* Places are numbers.
LEMMA PlacesAreNumbers ==
  ASSUME NEW s \in Line
  PROVE  Places(s) \in SUBSET Nat
  BY Lines, PlaceIn

\* What is covered are places.
LEMMA CoversPlaces ==
  ASSUME NEW ps, NEW P, NEW size, NEW overlap, Covers(ps, P, size, overlap)
  PROVE  P \in SUBSET Nat
  <1>1. \A k \in 1 .. Len(ps) : ps[k] \in Line
    BY DEF Covers, Whole
  <1> QED  BY <1>1, PlacesAreNumbers DEF Covers

\* Pieces of what comes first, then pieces of what comes next.
LEMMA CoversJoin ==
  ASSUME NEW size, NEW overlap \in Nat, NEW ps, NEW P, Covers(ps, P, size, overlap),
         NEW qs, NEW Q, Covers(qs, Q, size, overlap), Earlier(P, Q)
  PROVE  Covers(ps \o qs, P \cup Q, size, overlap)
  <1> DEFINE all == ps \o qs
             m == Len(ps)
             n == Len(qs)
  <1>1. ps \in Seq(Whole) /\ qs \in Seq(Whole) /\ m \in Nat /\ n \in Nat
    BY DEF Covers
  <1>2. /\ all \in Seq(Whole) /\ Len(all) = m + n
        /\ \A k \in 1 .. m + n : all[k] = IF k <= m THEN ps[k] ELSE qs[k - m]
    BY <1>1
  <1> HIDE DEF all
  <1>3. \A k \in 1 .. m : k \in 1 .. m + n /\ all[k] = ps[k] /\ ps[k] \in Whole
    BY <1>1, <1>2
  <1>4. \A k \in 1 .. n : k + m \in 1 .. m + n /\ all[k + m] = qs[k] /\ qs[k] \in Whole
    <2> TAKE k \in 1 .. n
    <2>1. k + m \in 1 .. m + n /\ ~(k + m <= m) /\ (k + m) - m = k
      BY <1>1
    <2> QED  BY <1>1, <1>2, <2>1
  <1>5. \A k \in 1 .. m + n : \/ k \in 1 .. m
                              \/ k - m \in 1 .. n /\ all[k] = qs[k - m]
    <2> TAKE k \in 1 .. m + n
    <2>1. k \in 1 .. m \/ (k - m \in 1 .. n /\ ~(k <= m))
      BY <1>1
    <2> QED  BY <1>2, <2>1
  <1>6. /\ \A p : p \in P <=> \E k \in 1 .. m : p \in Places(ps[k])
        /\ \A p : p \in Q <=> \E k \in 1 .. n : p \in Places(qs[k])
    BY DEF Covers
  <1>7. P \in SUBSET Nat /\ Q \in SUBSET Nat
    BY CoversPlaces
  <1>8. ASSUME NEW p
        PROVE  p \in P \cup Q <=> \E k \in 1 .. Len(all) : p \in Places(all[k])
    <2>1. ASSUME p \in P PROVE \E k \in 1 .. Len(all) : p \in Places(all[k])
      BY <1>2, <1>3, <1>6, <2>1
    <2>2. ASSUME p \in Q PROVE \E k \in 1 .. Len(all) : p \in Places(all[k])
      <3>1. PICK k \in 1 .. n : p \in Places(qs[k])
        BY <1>6, <2>2
      <3>2. k + m \in 1 .. Len(all) /\ all[k + m] = qs[k]
        BY <1>2, <1>4
      <3> QED  BY <3>1, <3>2
    <2>3. ASSUME NEW k \in 1 .. Len(all), p \in Places(all[k]) PROVE p \in P \cup Q
      <3>1. CASE k \in 1 .. m
        BY <1>3, <1>6, <2>3, <3>1
      <3>2. CASE k - m \in 1 .. n /\ all[k] = qs[k - m]
        BY <1>6, <2>3, <3>2
      <3> QED  BY <1>2, <1>5, <3>1, <3>2
    <2> QED  BY <2>1, <2>2, <2>3
  <1>9. ASSUME NEW k \in 1 .. Len(all)
        PROVE  Len(all[k]) <= size /\ Stretch(Places(all[k]), P \cup Q)
    <2>1. CASE k \in 1 .. m
      <3>1. Len(ps[k]) <= size /\ Stretch(Places(ps[k]), P) /\ Places(ps[k]) \subseteq P
        BY <1>6, <2>1 DEF Covers
      <3>2. ASSUME NEW q \in Places(ps[k]), NEW r \in Q PROVE ~(r <= q)
        <4>1. q \in P /\ q \in Nat /\ r \in Nat
          BY <1>7, <3>1
        <4>2. q < r
          BY <4>1 DEF Earlier
        <4> QED  BY <4>1, <4>2
      <3> QED  BY <1>3, <2>1, <3>1, <3>2 DEF Stretch
    <2>2. CASE k - m \in 1 .. n /\ all[k] = qs[k - m]
      <3> DEFINE piece == qs[k - m]
      <3>1. Len(piece) <= size /\ Stretch(Places(piece), Q) /\ Places(piece) \subseteq Q
        BY <1>6, <2>2 DEF Covers
      <3> HIDE DEF piece
      <3>2. ASSUME NEW p \in Places(piece), NEW r \in P PROVE ~(p <= r)
        <4>1. p \in Q /\ p \in Nat /\ r \in Nat
          BY <1>7, <3>1
        <4>2. r < p
          BY <4>1 DEF Earlier
        <4> QED  BY <4>1, <4>2
      <3>3. Stretch(Places(piece), P \cup Q)
        BY <3>1, <3>2 DEF Stretch
      <3> QED  BY <2>2, <3>1, <3>3 DEF piece
    <2> QED  BY <1>2, <1>5, <2>1, <2>2
  <1>10. ASSUME NEW k \in 1 .. Len(all), NEW l \in 1 .. Len(all), k < l
         PROVE  /\ Leans(Places(all[k]), Places(all[l]))
                /\ Share(Places(all[k]), Places(all[l]), overlap)
    <2>1. CASE k \in 1 .. m /\ l \in 1 .. m
      BY <1>3, <1>10, <2>1 DEF Covers
    <2>2. CASE k \in 1 .. m /\ l - m \in 1 .. n /\ all[l] = qs[l - m]
      <3>1. Places(all[k]) \subseteq P /\ Places(all[l]) \subseteq Q
        BY <1>3, <1>6, <2>2
      <3>2. Earlier(Places(all[k]), Places(all[l]))
        BY <3>1 DEF Earlier
      <3> QED  BY <1>7, <3>1, <3>2, EarlierShares
    <2>3. CASE k - m \in 1 .. n /\ all[k] = qs[k - m] /\ l - m \in 1 .. n /\ all[l] = qs[l - m]
      <3>1. k - m < l - m
        BY <1>1, <1>2, <1>10
      <3> QED  BY <2>3, <3>1 DEF Covers
    <2>4. ~(k - m \in 1 .. n /\ l \in 1 .. m)
      BY <1>1, <1>2, <1>10
    <2> QED  BY <1>2, <1>5, <2>1, <2>2, <2>3, <2>4
  <1>11. Covers(all, P \cup Q, size, overlap)
    BY <1>2, <1>8, <1>9, <1>10 DEF Covers
  <1> QED  BY <1>11 DEF all

\* No pieces cover nothing.
LEMMA CoversNothing ==
  ASSUME NEW size, NEW overlap
  PROVE  Covers(<<>>, {}, size, overlap)
  BY DEF Covers

\* One piece that is not too long covers itself.
LEMMA CoversOne ==
  ASSUME NEW s \in Whole, NEW size, NEW overlap, Len(s) <= size
  PROVE  Covers(<<s>>, Places(s), size, overlap)
  <1>1. <<s>> \in Seq(Whole) /\ Len(<<s>>) = 1 /\ <<s>>[1] = s /\ 1 .. 1 = {1}
    OBVIOUS
  <1>2. Stretch(Places(s), Places(s))
    BY DEF Stretch
  <1>3. \A k, l \in 1 .. 1 : ~(k < l)
    OBVIOUS
  <1> DEFINE ps == <<s>>
  <1> HIDE DEF ps
  <1>4. Covers(ps, Places(s), size, overlap)
    BY <1>1, <1>2, <1>3 DEF Covers, ps
  <1> QED  BY <1>4 DEF ps

\* Empty pieces may be left out.
LEMMA CoversFilter ==
  ASSUME NEW ps, NEW P, NEW size, NEW overlap, Covers(ps, P, size, overlap)
  PROVE  /\ Covers(NonEmpty(ps), P, size, overlap)
         /\ \A k \in 1 .. Len(NonEmpty(ps)) : NonEmpty(ps)[k] # <<>>
  <1> DEFINE T == Range(ps) \ {<<>>}
             qs == NonEmpty(ps)
  <1>1. ps \in Seq(Whole) /\ DOMAIN ps = 1 .. Len(ps)
    BY DEF Covers
  <1>2. \A k \in 1 .. Len(ps) : ps[k] \in T <=> ps[k] # <<>>
    BY <1>1 DEF Range
  <1>3. <<>> \notin T
    OBVIOUS
  <1>4. qs = Filter(ps, T)
    BY DEF NonEmpty
  <1> HIDE DEF T, qs
  <1>5. /\ qs \in Seq(Whole)
        /\ \A k \in 1 .. Len(qs) : qs[k] \in T /\ \E p \in 1 .. Len(ps) : ps[p] = qs[k]
        /\ \A p \in 1 .. Len(ps) : ps[p] \in T => \E k \in 1 .. Len(qs) : qs[k] = ps[p]
        /\ \A k, l \in 1 .. Len(qs) : k < l => Precedes(ps, qs[k], qs[l])
    BY <1>1, <1>4, FilterKeeps
  <1>6. ASSUME NEW p
        PROVE  p \in P <=> \E k \in 1 .. Len(qs) : p \in Places(qs[k])
    <2>1. ASSUME p \in P PROVE \E k \in 1 .. Len(qs) : p \in Places(qs[k])
      <3>1. PICK i \in 1 .. Len(ps) : p \in Places(ps[i])
        BY <2>1 DEF Covers
      <3>2. ps[i] # <<>>
        BY <3>1, ShortLines
      <3> QED  BY <1>2, <1>5, <3>1, <3>2
    <2>2. ASSUME NEW k \in 1 .. Len(qs), p \in Places(qs[k]) PROVE p \in P
      BY <1>5, <2>2 DEF Covers
    <2> QED  BY <2>1, <2>2
  <1>7. ASSUME NEW k \in 1 .. Len(qs), NEW l \in 1 .. Len(qs), k < l
        PROVE  /\ Leans(Places(qs[k]), Places(qs[l]))
               /\ Share(Places(qs[k]), Places(qs[l]), overlap)
    <2>1. PICK i, j \in 1 .. Len(ps) : i < j /\ qs[k] = ps[i] /\ qs[l] = ps[j]
      BY <1>5, <1>7 DEF Precedes
    <2> QED  BY <2>1 DEF Covers
  <1>8. \A k \in 1 .. Len(qs) : Len(qs[k]) <= size /\ Stretch(Places(qs[k]), P)
    BY <1>5 DEF Covers
  <1>9. Covers(qs, P, size, overlap)
    BY <1>5, <1>6, <1>7, <1>8 DEF Covers
  <1>10. \A k \in 1 .. Len(qs) : qs[k] # <<>>
    BY <1>3, <1>5
  <1> QED  BY <1>9, <1>10 DEF qs

\* FlattenSeq puts sequences behind each other.
Flat(A, seqs, all) ==
  {flat \in [1 .. Len(seqs) -> Seq(A)] :
     /\ flat[1] = seqs[1]
     /\ \A i \in 2 .. Len(seqs) : flat[i] = flat[i - 1] \o seqs[i]
     /\ flat[Len(seqs)] = all}

\* FlattenSeq, sequence by sequence.
LEMMA Flattens ==
  ASSUME NEW A, NEW seqs \in Seq(Seq(A)), Len(seqs) # 0
  PROVE  Flat(A, seqs, FlattenSeq(seqs)) # {}
  <1> DEFINE n == Len(seqs)
             step == [x \in (1 .. n) \X Seq(A) |->
                        IF x[1] = 1 THEN seqs[x[1]] ELSE x[2] \o seqs[x[1]]]
             Solves(f) ==
               f = [i \in 1 .. n |-> IF i = 1 THEN seqs[i] ELSE f[i - 1] \o seqs[i]]
             flat == CHOOSE f : Solves(f)
  <1>1. n \in Nat \ {0} /\ \A i \in 1 .. n : seqs[i] \in Seq(A)
    OBVIOUS
  <1>2. step \in [(1 .. n) \X Seq(A) -> Seq(A)]
    <2>1. \A q \in Seq(A), i \in 1 .. n : q \o seqs[i] \in Seq(A)
      BY <1>1
    <2> HIDE DEF n
    <2> QED  BY <1>1, <2>1
  <1>3. \A i \in 1 .. n, q \in Seq(A) :
           step[<<i, q>>] = IF i = 1 THEN seqs[i] ELSE q \o seqs[i]
    <2> HIDE DEF n
    <2> QED  OBVIOUS
  <1> HIDE DEF step
  <1>4. PICK g : Solved(g, n, Seq(A), <<>>, step)
    <2> HIDE DEF n
    <2>1. <<>> \in Seq(A)
      OBVIOUS
    <2> QED  BY <1>1, <1>2, <2>1, FoldSolved
  <1>5. ASSUME NEW i \in 1 .. n
        PROVE  /\ g[1 .. i] \in Seq(A)
               /\ g[1 .. i] = IF i = 1 THEN seqs[i] ELSE g[1 .. (i - 1)] \o seqs[i]
    <2> HIDE DEF n
    <2>1. /\ 1 .. i \in SUBSET (1 .. n) /\ 1 .. i # {}
          /\ Max(1 .. i) = i /\ (1 .. i) \ {i} = 1 .. (i - 1)
      BY <1>1, UpTo
    <2>2. g[1 .. i] \in Seq(A) /\ g[1 .. (i - 1)] \in Seq(A)
          /\ g[1 .. i] = step[<<i, g[1 .. (i - 1)]>>]
      BY <1>4, <2>1 DEF Solved
    <2> QED  BY <1>3, <2>2
  <1> DEFINE h == [i \in 1 .. n |-> g[1 .. i]]
  <1>6. Solves(h)
    <2> HIDE DEF n
    <2>1. ASSUME NEW i \in 1 .. n
          PROVE  h[i] = IF i = 1 THEN seqs[i] ELSE h[i - 1] \o seqs[i]
      <3>1. CASE i = 1
        BY <1>5, <3>1
      <3>2. CASE i # 1
        <4>1. i - 1 \in 1 .. n
          BY <1>1, <3>2
        <4> QED  BY <1>5, <3>2, <4>1
      <3> QED  BY <3>1, <3>2
    <2>2. h = [i \in 1 .. n |-> h[i]]
      OBVIOUS
    <2> HIDE DEF h
    <2> QED  BY <2>1, <2>2
  <1> HIDE DEF Solves
  <1>7. Solves(flat)
    BY <1>6
  <1>8. FlattenSeq(seqs) = flat[n]
    BY <1>1 DEF FlattenSeq, Solves
  <1> HIDE DEF flat
  <1>9. flat = [i \in 1 .. n |-> IF i = 1 THEN seqs[i] ELSE flat[i - 1] \o seqs[i]]
    BY <1>7 DEF Solves
  <1> HIDE DEF n
  <1>10. \A i \in 1 .. n : flat[i] = IF i = 1 THEN seqs[i] ELSE flat[i - 1] \o seqs[i]
    BY <1>9
  <1>11. flat[1] = seqs[1] /\ \A i \in 2 .. n : flat[i] = flat[i - 1] \o seqs[i]
    <2>1. 1 \in 1 .. n /\ \A i \in 2 .. n : i \in 1 .. n /\ i # 1
      BY <1>1
    <2> QED  BY <1>10, <2>1
  <1>12. \A i \in 0 .. n : i # 0 => flat[i] \in Seq(A)
    <2> DEFINE Good == {i \in 0 .. n : i # 0 => flat[i] \in Seq(A)}
    <2>1. 0 \in Good
      BY <1>1
    <2>2. ASSUME NEW k \in 0 .. n - 1, k \in Good PROVE k + 1 \in Good
      <3>1. k + 1 \in 1 .. n /\ k + 1 \in 0 .. n /\ (k + 1) - 1 = k
        BY <1>1
      <3>2. CASE k = 0
        BY <1>1, <1>11, <3>1, <3>2
      <3>3. CASE k # 0
        <4>1. k + 1 \in 2 .. n
          BY <1>1, <3>3
        <4>2. flat[k + 1] = flat[k] \o seqs[k + 1]
          BY <1>11, <3>1, <4>1
        <4>3. flat[k] \in Seq(A) /\ seqs[k + 1] \in Seq(A)
          BY <1>1, <2>2, <3>1, <3>3
        <4>4. flat[k + 1] \in Seq(A)
          BY <4>2, <4>3
        <4> QED  BY <3>1, <4>4
      <3> QED  BY <3>2, <3>3
    <2> HIDE DEF Good
    <2>3. \A k \in 0 .. n : k \in Good
      BY <1>1, <2>1, <2>2, CountingUp
    <2> QED  BY <2>3 DEF Good
  <1>13. flat \in [1 .. n -> Seq(A)]
    <2>1. \A i \in 1 .. n : i \in 0 .. n /\ i # 0
      BY <1>1
    <2>2. flat = [i \in 1 .. n |-> flat[i]]
      BY <1>9, <1>10
    <2> QED  BY <1>12, <2>1, <2>2
  <1>14. flat \in Flat(A, seqs, FlattenSeq(seqs))
    BY <1>8, <1>11, <1>13 DEF n, Flat
  <1> QED  BY <1>14

\* Where every line of blocks is cut into pieces that cover it, all the pieces cover
\* all the blocks.
LEMMA CoversFlatten ==
  ASSUME NEW size, NEW overlap \in Nat, NEW blocks, NEW P, Tiles(blocks, P, Line),
         NEW groups \in Seq(Seq(Whole)), Len(groups) = Len(blocks),
         \A k \in 1 .. Len(blocks) : Covers(groups[k], Places(blocks[k]), size, overlap)
  PROVE  Covers(FlattenSeq(groups), P, size, overlap)
  <1> DEFINE n == Len(blocks)
             Taken(k) == UNION {Places(blocks[i]) : i \in 1 .. k}
  <1>1. /\ n \in Nat /\ groups \in Seq(Seq(Whole)) /\ Len(groups) = n
        /\ \A p : p \in P <=> \E k \in 1 .. n : p \in Places(blocks[k])
        /\ \A k, l \in 1 .. n : k < l => Earlier(Places(blocks[k]), Places(blocks[l]))
    BY DEF Tiles
  <1>2. \A k, p : p \in Taken(k) <=> \E i \in 1 .. k : p \in Places(blocks[i])
    OBVIOUS
  <1>3. Taken(n) = P
    BY <1>1, <1>2
  <1>4. CASE n = 0
    <2>1. FlattenSeq(groups) = <<>> /\ P = {}
      BY <1>1, <1>4 DEF FlattenSeq
    <2> QED  BY <2>1, CoversNothing
  <1>5. CASE n # 0
    <2>0. PICK flat \in Flat(Whole, groups, FlattenSeq(groups)) : TRUE
      BY <1>1, <1>5, Flattens
    <2>1. /\ flat[1] = groups[1]
          /\ \A i \in 2 .. n : flat[i] = flat[i - 1] \o groups[i]
          /\ FlattenSeq(groups) = flat[n]
      BY <1>1, <2>0 DEF Flat
    <2> DEFINE Good == {k \in 0 .. n : k # 0 => Covers(flat[k], Taken(k), size, overlap)}
    <2>2. 0 \in Good
      BY <1>1
    <2>3. ASSUME NEW k \in 0 .. n - 1, k \in Good PROVE k + 1 \in Good
      <3>1. k + 1 \in 1 .. n /\ k + 1 \in 0 .. n /\ (k + 1) - 1 = k
            /\ \A i \in 1 .. k : i \in 1 .. n /\ i < k + 1
        BY <1>1
      <3>2. Covers(groups[k + 1], Places(blocks[k + 1]), size, overlap)
        BY <3>1
      <3>3. Taken(k + 1) = Taken(k) \cup Places(blocks[k + 1])
        <4>1. \A i : i \in 1 .. k + 1 <=> i \in 1 .. k \/ i = k + 1
          BY <3>1
        <4> HIDE DEF Taken
        <4>2. \A p : p \in Taken(k + 1) <=> p \in Taken(k) \/ p \in Places(blocks[k + 1])
          BY <1>2, <4>1
        <4> QED  BY <4>2
      <3>4. Earlier(Taken(k), Places(blocks[k + 1]))
        <4>1. \A i \in 1 .. k : Earlier(Places(blocks[i]), Places(blocks[k + 1]))
          BY <1>1, <3>1
        <4> QED  BY <4>1, <1>2 DEF Earlier
      <3>5. CASE k = 0
        <4>1. Taken(k) = {}
          BY <1>2, <3>5
        <4> HIDE DEF Taken
        <4>2. Taken(k + 1) = Places(blocks[k + 1])
          BY <3>3, <4>1
        <4>3. flat[k + 1] = groups[k + 1]
          BY <2>1, <3>5
        <4>4. \A f, S : f = groups[k + 1] /\ S = Places(blocks[k + 1]) =>
                   Covers(f, S, size, overlap)
          BY <3>2, Zenon
        <4> DEFINE all == flat[k + 1]
                   places == Taken(k + 1)
        <4>5. all = groups[k + 1] /\ places = Places(blocks[k + 1])
          BY <4>2, <4>3
        <4> HIDE DEF all, places
        <4>6. Covers(all, places, size, overlap)
          BY <4>4, <4>5, Zenon
        <4> USE DEF all, places
        <4> QED  BY <3>1, <4>6
      <3>6. CASE k # 0
        <4>1. k + 1 \in 2 .. n
          BY <1>1, <3>6
        <4>2. flat[k + 1] = flat[k] \o groups[k + 1]
          BY <2>1, <3>1, <4>1
        <4>3. Covers(flat[k], Taken(k), size, overlap)
          BY <2>3, <3>6
        <4> HIDE DEF Taken
        <4>4. Covers(flat[k] \o groups[k + 1], Taken(k) \cup Places(blocks[k + 1]), size, overlap)
          BY <3>2, <3>4, <4>3, CoversJoin
        <4>5. \A f, S : f = flat[k] \o groups[k + 1] /\ S = Taken(k) \cup Places(blocks[k + 1]) =>
                   Covers(f, S, size, overlap)
          BY <4>4, Zenon
        <4> DEFINE all == flat[k + 1]
                   places == Taken(k + 1)
        <4>6. all = flat[k] \o groups[k + 1] /\ places = Taken(k) \cup Places(blocks[k + 1])
          BY <3>3, <4>2
        <4> HIDE DEF all, places
        <4>7. Covers(all, places, size, overlap)
          BY <4>5, <4>6, Zenon
        <4> USE DEF all, places
        <4> QED  BY <3>1, <4>7
      <3> QED  BY <3>5, <3>6
    <2> HIDE DEF Good
    <2>4. \A k \in 0 .. n : k \in Good
      BY <1>1, <2>2, <2>3, CountingUp
    <2>5. n \in Good
      BY <1>1, <2>4
    <2>6. Covers(flat[n], Taken(n), size, overlap)
      BY <1>5, <2>5 DEF Good
    <2> QED  BY <1>3, <2>1, <2>6
  <1> QED  BY <1>4, <1>5

-----------------------------------------------------------------------------
(* Windows.                                                                *)

\* No more places are held by a stretch of a line than it has characters.
LEMMA PlacesFew ==
  ASSUME NEW s \in Line, NEW a \in Nat \ {0}, NEW b \in 0 .. Len(s), NEW n \in Nat,
         b - a + 1 <= n, NEW P, \A p \in P : \E i \in a .. b : s[i].at = p
  PROVE  IsFiniteSet(P) /\ Cardinality(P) <= n
  <1> DEFINE I == a .. b
             f == [i \in I |-> s[i].at]
             T == {f[i] : i \in I}
  <1>1. a \in Int /\ b \in Int
    BY Lines
  <1>2. IsFiniteSet(I) /\ Cardinality(I) = IF a > b THEN 0 ELSE b - a + 1
    BY <1>1, FS_Interval
  <1>3. Cardinality(I) <= n /\ Cardinality(I) \in Nat
    BY <1>1, <1>2, FS_CardinalityType
  <1>4. P \subseteq T
    OBVIOUS
  <1> HIDE DEF I
  <1>5. f \in [I -> T] /\ \A t \in T : \E i \in I : f[i] = t
    OBVIOUS
  <1> HIDE DEF f, T
  <1>6. f \in Surjection(I, T)
    BY <1>5 DEF Surjection
  <1>7. IsFiniteSet(T) /\ Cardinality(T) <= Cardinality(I)
    BY <1>2, <1>6, FS_Surjection
  <1>8. IsFiniteSet(P) /\ Cardinality(P) <= Cardinality(T)
    BY <1>4, <1>7, FS_Subset
  <1>9. Cardinality(P) \in Nat /\ Cardinality(T) \in Nat
    BY <1>7, <1>8, FS_CardinalityType
  <1> QED  BY <1>3, <1>7, <1>8, <1>9

\* Where a character is, is where no other is.
LEMMA PlaceOfOne ==
  ASSUME NEW s \in Line, NEW i \in 1 .. Len(s), NEW j \in 1 .. Len(s),
         ~Blank(s[i]), ~Blank(s[j])
  PROVE  /\ s[i].at \in Nat /\ s[j].at \in Nat
         /\ s[i].at <= s[j].at <=> i <= j
  <1>1. s[i].at \in Nat /\ s[j].at \in Nat
    BY Lines
  <1>2. i < j => s[i].at < s[j].at
    BY Lines
  <1>3. j < i => s[j].at < s[i].at
    BY Lines
  <1>4. i = j => s[i].at = s[j].at
    OBVIOUS
  <1>5. i \in Int /\ j \in Int
    OBVIOUS
  <1> QED  BY <1>1, <1>2, <1>3, <1>4, <1>5

\* Stretches of a line from from[k] to upto[k], both of which grow with k.
Rising(from, upto, n, length, size, overlap) ==
  /\ from \in [1 .. n -> Nat \ {0}] /\ upto \in [1 .. n -> 0 .. length]
  /\ \A k \in 1 .. n : upto[k] - from[k] + 1 <= size
  /\ \A k, l \in 1 .. n : k < l =>
       from[k] <= from[l] /\ upto[k] <= upto[l] /\ upto[k] - from[l] + 1 <= overlap
  /\ \A i \in 1 .. length : \E k \in 1 .. n : i \in from[k] .. upto[k]

\* Stretches that rise and reach every character cover the line, trimmed or not.
LEMMA StretchesCover ==
  ASSUME NEW s \in Line, NEW n \in Nat, NEW from, NEW upto, NEW size \in Nat,
         NEW overlap \in Nat, Rising(from, upto, n, Len(s), size, overlap)
  PROVE  Covers([k \in 1 .. n |-> Trim(SubSeq(s, from[k], upto[k]))], Places(s), size, overlap)
  <1> DEFINE ps == [k \in 1 .. n |-> Trim(SubSeq(s, from[k], upto[k]))]
  <1>1. \A k \in 1 .. n : from[k] \in Nat \ {0} /\ upto[k] \in 0 .. Len(s) /\ upto[k] \in Nat
    BY Lines DEF Rising
  <1>2. Len(s) \in Nat /\ s \in Seq(Character)
    BY Lines
  <1>3. ASSUME NEW k \in 1 .. n
        PROVE  /\ ps[k] \in Whole /\ Len(ps[k]) <= size
               /\ \A p : p \in Places(ps[k]) <=>
                    \E i \in from[k] .. upto[k] : ~Blank(s[i]) /\ s[i].at = p
    <2> DEFINE a == from[k]
               b == upto[k]
               t == SubSeq(s, a, b)
    <2>1. a \in Nat \ {0} /\ b \in 0 .. Len(s) /\ b - a + 1 <= size /\ b \in Nat
      BY <1>1 DEF Rising
    <2>2. ps[k] = Trim(t)
      OBVIOUS
    <2> HIDE DEF a, b, ps
    <2>3. /\ t \in Line /\ Len(t) = IF a <= b THEN b - a + 1 ELSE 0
          /\ \A p : p \in Places(t) <=> \E i \in a .. b : ~Blank(s[i]) /\ s[i].at = p
      BY <2>1, SubLines
    <2>4. Len(t) <= size /\ Len(t) \in Nat
      BY <2>1, <2>3
    <2> HIDE DEF t
    <2>5. /\ Trim(t) \in Whole /\ Places(Trim(t)) = Places(t)
          /\ Len(Trim(t)) <= Len(t) /\ Trim(t) \in Line
      BY <2>3, TrimKeeps, TrimmedIsWhole
    <2>6. Len(Trim(t)) <= size
      <3>1. Len(Trim(t)) \in Nat
        BY <2>5, Lines
      <3> QED  BY <2>4, <2>5, <3>1
    <2>7. \A p : p \in Places(ps[k]) <=> \E i \in a .. b : ~Blank(s[i]) /\ s[i].at = p
      BY <2>2, <2>3, <2>5
    <2> QED  BY <2>2, <2>5, <2>6, <2>7 DEF a, b
  <1>4. ps \in Seq(Whole) /\ Len(ps) = n
    <2>1. DOMAIN ps = 1 .. n
      OBVIOUS
    <2>2. ps = [k \in 1 .. n |-> ps[k]]
      OBVIOUS
    <2> HIDE DEF ps
    <2>3. ps \in [1 .. n -> Whole]
      BY <1>3, <2>2
    <2> QED  BY <2>3
  <1> HIDE DEF ps
  <1>5. \A k \in 1 .. n : \A i : i \in from[k] .. upto[k] => i \in 1 .. Len(s)
    BY <1>1, <1>2
  <1>6. ASSUME NEW p
        PROVE  p \in Places(s) <=> \E k \in 1 .. Len(ps) : p \in Places(ps[k])
    <2>1. p \in Places(s) <=> \E i \in 1 .. Len(s) : ~Blank(s[i]) /\ s[i].at = p
      BY <1>2, PlaceIn
    <2>2. \A i \in 1 .. Len(s) : \E k \in 1 .. n : i \in from[k] .. upto[k]
      BY DEF Rising
    <2> QED  BY <1>3, <1>4, <1>5, <2>1, <2>2
  <1>7. ASSUME NEW k \in 1 .. n
        PROVE  Stretch(Places(ps[k]), Places(s))
    <2> SUFFICES ASSUME NEW p \in Places(ps[k]), NEW q \in Places(ps[k]),
                        NEW r \in Places(s), p <= r, r <= q
                 PROVE  r \in Places(ps[k])
      BY DEF Stretch
    <2>1. PICK i \in from[k] .. upto[k] : ~Blank(s[i]) /\ s[i].at = p
      BY <1>3
    <2>2. PICK j \in from[k] .. upto[k] : ~Blank(s[j]) /\ s[j].at = q
      BY <1>3
    <2>3. PICK m \in 1 .. Len(s) : ~Blank(s[m]) /\ s[m].at = r
      BY <1>2, PlaceIn
    <2>4. i \in 1 .. Len(s) /\ j \in 1 .. Len(s)
      BY <1>5
    <2>5. i <= m /\ m <= j
      BY <2>1, <2>2, <2>3, <2>4, PlaceOfOne
    <2>6. m \in from[k] .. upto[k]
      BY <1>1, <2>4, <2>5
    <2> QED  BY <1>3, <2>3, <2>6
  <1>8. ASSUME NEW k \in 1 .. n, NEW l \in 1 .. n, k < l
        PROVE  Leans(Places(ps[k]), Places(ps[l]))
    <2>0. from[k] <= from[l] /\ upto[k] <= upto[l]
      BY <1>8 DEF Rising
    <2> SUFFICES ASSUME NEW p \in Places(ps[k]), NEW q \in Places(ps[l])
                 PROVE  p <= q \/ (p \in Places(ps[l]) /\ q \in Places(ps[k]))
      BY DEF Leans
    <2>1. PICK i \in from[k] .. upto[k] : ~Blank(s[i]) /\ s[i].at = p
      BY <1>3
    <2>2. PICK j \in from[l] .. upto[l] : ~Blank(s[j]) /\ s[j].at = q
      BY <1>3
    <2>3. i \in 1 .. Len(s) /\ j \in 1 .. Len(s)
      BY <1>5
    <2>4. CASE i <= j
      BY <2>1, <2>2, <2>3, <2>4, PlaceOfOne
    <2>5. CASE ~(i <= j)
      <3>1. i \in from[l] .. upto[l] /\ j \in from[k] .. upto[k]
        BY <1>1, <2>0, <2>5
      <3> QED  BY <1>3, <2>1, <2>2, <3>1
    <2> QED  BY <2>4, <2>5
  <1>9. ASSUME NEW k \in 1 .. n, NEW l \in 1 .. n, k < l
        PROVE  Share(Places(ps[k]), Places(ps[l]), overlap)
    <2> DEFINE both == Places(ps[k]) \cap Places(ps[l])
    <2>1. upto[k] - from[l] + 1 <= overlap
      BY <1>9 DEF Rising
    <2>2. ASSUME NEW p \in both PROVE \E i \in from[l] .. upto[k] : s[i].at = p
      <3>1. PICK i \in from[k] .. upto[k] : ~Blank(s[i]) /\ s[i].at = p
        BY <1>3
      <3>2. PICK j \in from[l] .. upto[l] : ~Blank(s[j]) /\ s[j].at = p
        BY <1>3
      <3>3. i \in 1 .. Len(s) /\ j \in 1 .. Len(s)
        BY <1>5
      <3>4. s[i].at \in Nat
        BY <3>3, Lines
      <3>5. j <= i
        BY <3>1, <3>2, <3>3, <3>4, PlaceOfOne
      <3>6. i \in from[l] .. upto[k]
        BY <1>1, <3>5
      <3> QED  BY <3>1, <3>6
    <2>3. from[l] \in Nat \ {0} /\ upto[k] \in 0 .. Len(s)
      BY <1>1
    <2> HIDE DEF both
    <2>4. IsFiniteSet(both) /\ Cardinality(both) <= overlap
      BY <2>1, <2>2, <2>3, PlacesFew
    <2> QED  BY <2>4 DEF both, Share
  <1>10. Covers(ps, Places(s), size, overlap)
    BY <1>3, <1>4, <1>6, <1>7, <1>8, <1>9 DEF Covers
  <1> QED  BY <1>10 DEF ps

\* The larger and the smaller of two numbers.
LEMMA OfTwo ==
  ASSUME NEW a \in Int, NEW b \in Int
  PROVE  /\ Max({a, b}) \in {a, b} /\ Max({a, b}) >= a /\ Max({a, b}) >= b
         /\ Min({a, b}) \in {a, b} /\ Min({a, b}) <= a /\ Min({a, b}) <= b
  <1>1. \E m \in {a, b} : \A k \in {a, b} : m >= k
    <2>1. CASE a >= b
      BY <2>1
    <2>2. CASE b >= a
      BY <2>2
    <2> QED  BY <2>1, <2>2
  <1>2. \E m \in {a, b} : \A k \in {a, b} : m <= k
    <2>1. CASE a >= b
      BY <2>1
    <2>2. CASE b >= a
      BY <2>2
    <2> QED  BY <2>1, <2>2
  <1>3. Max({a, b}) \in {a, b} /\ \A k \in {a, b} : Max({a, b}) >= k
    BY <1>1 DEF Max
  <1>4. Min({a, b}) \in {a, b} /\ \A k \in {a, b} : Min({a, b}) <= k
    BY <1>2 DEF Min
  <1> QED  BY <1>3, <1>4

\* Rounding a quotient up.
LEMMA RoundedUp ==
  ASSUME NEW a \in Nat, NEW d \in Nat \ {0}
  PROVE  /\ (a + d - 1) \div d \in Nat
         /\ a <= ((a + d - 1) \div d) * d
  OBVIOUS

\* Steps of one length follow each other.
LEMMA Multiples ==
  ASSUME NEW d \in Nat \ {0}, NEW k \in Nat, NEW l \in Nat
  PROVE  /\ k * d \in Nat
         /\ k < l => k * d + d <= l * d
  OBVIOUS

\* Every character is in a window, and windows share what the step leaves of them.
LEMMA WindowsCover ==
  ASSUME NEW s \in Line, NEW size \in Nat \ {0}, NEW overlap \in Nat
  PROVE  Covers(Windows(s, size, overlap), Places(s), size, overlap)
  <1> DEFINE shared == Min({overlap, size - 1})
             step == Max({size - shared, 1})
             much == Max({0, Len(s) - size})
             q == (much + step - 1) \div step
             count == 1 + q
             from == [k \in 1 .. count |-> (k - 1) * step + 1]
             upto == [k \in 1 .. count |-> Min({(k - 1) * step + size, Len(s)})]
  <1>1. shared \in 0 .. size - 1 /\ shared <= overlap
    <2>1. overlap \in Int /\ size - 1 \in Int /\ size - 1 >= 0
      OBVIOUS
    <2>2. shared \in {overlap, size - 1} /\ shared <= overlap /\ shared <= size - 1
      BY <2>1, OfTwo, Zenon
    <2> HIDE DEF shared
    <2> QED  BY <2>1, <2>2
  <1> HIDE DEF shared
  <1>2. step = size - shared /\ step \in 1 .. size
    <2>1. size - shared >= 1 /\ size - shared \in Int /\ size - shared <= size
      BY <1>1
    <2>2. step \in {size - shared, 1} /\ step >= size - shared
      <3>1. size - shared \in Int /\ 1 \in Int
        BY <2>1
      <3> QED  BY <3>1, OfTwo, Zenon
    <2> HIDE DEF step
    <2> QED  BY <1>1, <2>1, <2>2
  <1> HIDE DEF step
  <1>3. Len(s) \in Nat
    BY Lines
  <1>4. much \in Nat /\ much >= Len(s) - size
    <2>1. Len(s) - size \in Int
      BY <1>3
    <2> QED  BY <2>1, OfTwo
  <1> HIDE DEF much
  <1>5. q \in Nat /\ much <= q * step
    BY <1>2, <1>4, RoundedUp
  <1> HIDE DEF q
  <1>6. count \in Nat \ {0} /\ count - 1 = q
    BY <1>5
  <1> HIDE DEF count
  <1>7. \A k \in 1 .. count : (k - 1) * step \in Nat
    BY <1>2, <1>6, Multiples
  <1>8. \A k, l \in 1 .. count : k < l => (k - 1) * step + step <= (l - 1) * step
    <2> TAKE k, l \in 1 .. count
    <2>1. k - 1 \in Nat /\ l - 1 \in Nat /\ (k < l => k - 1 < l - 1)
      BY <1>6
    <2> QED  BY <1>2, <2>1, Multiples
  <1> DEFINE begin == [k \in 1 .. count |-> (k - 1) * step]
  <1>9. /\ \A k \in 1 .. count : begin[k] = (k - 1) * step /\ begin[k] \in Nat
        /\ \A k, l \in 1 .. count : k < l => begin[k] + step <= begin[l]
        /\ begin[1] = 0 /\ Len(s) - size <= begin[count]
    <2>1. 1 \in 1 .. count /\ count \in 1 .. count
      BY <1>6
    <2>2. (1 - 1) * step = 0
      BY <1>2
    <2>3. Len(s) - size <= q * step
      <3>1. q * step \in Nat
        BY <1>2, <1>5, Multiples
      <3> QED  BY <1>3, <1>4, <1>5, <3>1
    <2> QED  BY <1>6, <1>7, <1>8, <2>1, <2>2, <2>3
  <1>10. from = [k \in 1 .. count |-> begin[k] + 1]
         /\ upto = [k \in 1 .. count |-> Min({begin[k] + size, Len(s)})]
    OBVIOUS
  <1>11. Windows(s, size, overlap) = [k \in 1 .. count |-> Trim(SubSeq(s, from[k], upto[k]))]
    BY DEF Windows, shared, step, much, q, count
  <1> HIDE DEF begin, from, upto
  <1>12. ASSUME NEW k \in 1 .. count
         PROVE  /\ from[k] = begin[k] + 1 /\ upto[k] \in {begin[k] + size, Len(s)}
                /\ upto[k] <= begin[k] + size /\ upto[k] <= Len(s)
    <2>1. begin[k] + size \in Int /\ Len(s) \in Int
      BY <1>3, <1>9
    <2>2. from[k] = begin[k] + 1 /\ upto[k] = Min({begin[k] + size, Len(s)})
      BY <1>10
    <2> DEFINE b == begin[k] + size
    <2>3. Min({b, Len(s)}) \in {b, Len(s)} /\ Min({b, Len(s)}) <= b /\ Min({b, Len(s)}) <= Len(s)
      BY <2>1, OfTwo, Zenon
    <2>4. upto[k] \in {b, Len(s)} /\ upto[k] <= b /\ upto[k] <= Len(s)
      <3> HIDE DEF b
      <3> QED  BY <2>2, <2>3, Zenon DEF b
    <2> QED  BY <2>2, <2>4
  <1>13. \A k \in 1 .. count : from[k] \in Nat \ {0} /\ upto[k] \in 0 .. Len(s)
    BY <1>3, <1>9, <1>12
  <1>14. from \in [1 .. count -> Nat \ {0}] /\ upto \in [1 .. count -> 0 .. Len(s)]
    <2>1. from = [k \in 1 .. count |-> from[k]] /\ upto = [k \in 1 .. count |-> upto[k]]
      BY <1>10
    <2> QED  BY <1>13, <2>1
  <1>15. ASSUME NEW k \in 1 .. count PROVE upto[k] - from[k] + 1 <= size
    <2> DEFINE b == begin[k]
               u == upto[k]
               f == from[k]
    <2>1. b \in Nat /\ u \in Int /\ f = b + 1 /\ u <= b + size
      BY <1>9, <1>12, <1>13
    <2> HIDE DEF b, u, f
    <2>2. u - f + 1 <= size
      BY <2>1
    <2> QED  BY <2>2 DEF u, f
  <1>16. ASSUME NEW k \in 1 .. count, NEW l \in 1 .. count, k < l
         PROVE  from[k] <= from[l] /\ upto[k] <= upto[l] /\ upto[k] - from[l] + 1 <= overlap
    <2>1. begin[k] + step <= begin[l] /\ begin[k] \in Nat /\ begin[l] \in Nat
      BY <1>9, <1>16
    <2>2. /\ from[k] = begin[k] + 1 /\ from[l] = begin[l] + 1
          /\ upto[k] <= begin[k] + size /\ upto[k] <= Len(s)
          /\ upto[l] \in {begin[l] + size, Len(s)}
          /\ upto[k] \in Nat /\ upto[l] \in Nat
      BY <1>3, <1>12, <1>13
    <2>3. /\ size \in Nat /\ shared \in Nat /\ step \in Nat /\ step = size - shared
          /\ shared <= overlap
      BY <1>1, <1>2
    <2> DEFINE b == begin[k]
               c == begin[l]
               u == upto[k]
               v == upto[l]
               f == from[k]
               g == from[l]
    <2> SUFFICES f <= g /\ u <= v /\ u - g + 1 <= overlap
      OBVIOUS
    <2>4. /\ b \in Nat /\ c \in Nat /\ b + step <= c /\ u \in Nat /\ v \in Nat
          /\ u <= b + size /\ u <= Len(s) /\ v \in {c + size, Len(s)}
          /\ f = b + 1 /\ g = c + 1
      BY <2>1, <2>2
    <2> HIDE DEF b, c, u, v, f, g
    <2> QED  BY <1>1, <1>3, <2>3, <2>4
  <1>17. ASSUME NEW i \in 1 .. Len(s)
         PROVE  \E k \in 1 .. count : i \in from[k] .. upto[k]
    <2> DEFINE T == {k \in 1 .. count : i <= begin[k] + size}
    <2>1. T \in SUBSET Nat /\ count \in T
      <3>1. count \in 1 .. count /\ i <= Len(s)
        BY <1>3, <1>6
      <3>2. i <= begin[count] + size
        BY <1>3, <1>9, <3>1
      <3> QED  BY <3>1, <3>2
    <2>2. PICK k \in T : \A m \in T : k <= m
      BY <2>1, LeastNumber
    <2>3. k \in 1 .. count /\ i <= begin[k] + size /\ begin[k] \in Nat
      BY <1>9, <2>2
    <2>4. begin[k] + 1 <= i
      <3>1. CASE k = 1
        BY <1>9, <3>1
      <3>2. CASE k # 1
        <4>1. k - 1 \in 1 .. count /\ ~(k <= k - 1) /\ k - 1 < k
          BY <1>6, <2>3, <3>2
        <4>2. ~(i <= begin[k - 1] + size)
          BY <2>2, <4>1
        <4>3. begin[k - 1] + step <= begin[k] /\ begin[k - 1] \in Nat
          BY <1>9, <2>3, <4>1
        <4> QED
          <5>1. begin[k - 1] + size < i
            BY <4>2, <4>3
          <5> SUFFICES begin[k] <= begin[k - 1] + step
            BY <1>2, <2>3, <4>3, <5>1
          <5>2. (k - 1) * step = (k - 1 - 1) * step + step
            BY <1>2, <2>3
          <5> QED  BY <1>9, <2>3, <4>1, <5>2
      <3> QED  BY <3>1, <3>2
    <2>5. i <= upto[k] /\ from[k] <= i
      BY <1>3, <1>12, <2>3, <2>4
    <2> QED  BY <1>13, <2>3, <2>5
  <1>18. Rising(from, upto, count, Len(s), size, overlap)
    BY <1>14, <1>15, <1>16, <1>17 DEF Rising
  <1> QED  BY <1>6, <1>11, <1>18, StretchesCover

-----------------------------------------------------------------------------
(* Splitting.                                                              *)

\* The same, for groups that are given as a function.
LEMMA CoversPieces ==
  ASSUME NEW size, NEW overlap \in Nat, NEW pieces, NEW P, Tiles(pieces, P, Line),
         NEW groups, groups = [k \in DOMAIN pieces |-> groups[k]],
         \A k \in 1 .. Len(pieces) : Covers(groups[k], Places(pieces[k]), size, overlap)
  PROVE  Covers(FlattenSeq(groups), P, size, overlap)
  <1> DEFINE n == Len(pieces)
  <1>1. pieces \in Seq(Line) /\ n \in Nat /\ DOMAIN pieces = 1 .. n
    BY DEF Tiles
  <1> HIDE DEF n
  <1>2. \A k \in 1 .. n : groups[k] \in Seq(Whole)
    BY DEF Covers, n
  <1>3. groups \in [1 .. n -> Seq(Whole)]
    BY <1>1, <1>2
  <1>4. groups \in Seq(Seq(Whole)) /\ Len(groups) = n
    BY <1>1, <1>3
  <1> QED  BY <1>4, CoversFlatten DEF n

\* splitLongBlock: sentences put together, windows where one is too long.
LEMMA LongBlockCovers ==
  ASSUME NEW block \in Line, NEW size \in Nat \ {0}, NEW overlap \in Nat
  PROVE  Covers(SplitLongBlock(block, size, overlap), Places(block), size, overlap)
  <1> DEFINE pieces == Gathered(CutAfter(block, {"stop", "newline"}), <<>>, size)
             groups == [k \in DOMAIN pieces |->
                          IF Len(pieces[k]) <= size THEN <<Trim(pieces[k])>>
                                                    ELSE Windows(pieces[k], size, overlap)]
  <1>1. Tiles(pieces, Places(block), Line)
    BY SentenceTiles
  <1>2. SplitLongBlock(block, size, overlap) = FlattenSeq(groups)
    BY DEF SplitLongBlock
  <1> HIDE DEF pieces
  <1>3. DOMAIN pieces = 1 .. Len(pieces) /\ \A k \in 1 .. Len(pieces) : pieces[k] \in Line
    BY <1>1 DEF Tiles
  <1>4. ASSUME NEW k \in 1 .. Len(pieces)
        PROVE  Covers(groups[k], Places(pieces[k]), size, overlap)
    <2> DEFINE s == pieces[k]
    <2>1. s \in Line
      BY <1>3
    <2>2. groups[k] = IF Len(s) <= size THEN <<Trim(s)>> ELSE Windows(s, size, overlap)
      BY <1>3
    <2> HIDE DEF s, groups
    <2>3. CASE Len(s) <= size
      <3>1. Trim(s) \in Whole /\ Trim(s) \in Line /\ Places(Trim(s)) = Places(s)
            /\ Len(Trim(s)) <= Len(s)
        BY <2>1, TrimKeeps, TrimmedIsWhole
      <3>2. Len(Trim(s)) \in Nat /\ Len(s) \in Nat
        BY <2>1, <3>1, Lines
      <3>3. Len(Trim(s)) <= size
        BY <2>3, <3>1, <3>2
      <3>4. Covers(<<Trim(s)>>, Places(Trim(s)), size, overlap)
        BY <3>1, <3>3, CoversOne
      <3>5. Covers(<<Trim(s)>>, Places(s), size, overlap)
        BY <3>1, <3>4, Zenon
      <3>6. groups[k] = <<Trim(s)>>
        BY <2>2, <2>3
      <3> QED  BY <3>5, <3>6 DEF s
    <2>4. CASE ~(Len(s) <= size)
      <3>1. Covers(Windows(s, size, overlap), Places(s), size, overlap)
        BY <2>1, WindowsCover
      <3>2. groups[k] = Windows(s, size, overlap)
        BY <2>2, <2>4
      <3> QED  BY <3>1, <3>2 DEF s
    <2> QED  BY <2>3, <2>4
  <1>5. groups = [k \in DOMAIN pieces |-> groups[k]]
    OBVIOUS
  <1> HIDE DEF groups
  <1>6. Covers(FlattenSeq(groups), Places(block), size, overlap)
    BY <1>1, <1>4, <1>5, CoversPieces
  <1> QED  BY <1>2, <1>6

\* split, from the text to the pieces, with the size and overlap it settles on.
LEMMA SplitCovers ==
  ASSUME NEW text \in Line, NEW options, options.size \in Int, options.overlap \in Int
  PROVE  /\ SizeOf(options) \in Nat \ {0} /\ Max({options.overlap, 0}) \in Nat
         /\ Covers(Split(text, options), Places(text), SizeOf(options), Max({options.overlap, 0}))
         /\ \A k \in 1 .. Len(Split(text, options)) : Split(text, options)[k] # <<>>
  <1> DEFINE size == SizeOf(options)
             overlap == Max({options.overlap, 0})
             blocks == MergeParagraphs(Paragraphs(Trim(text)), size)
             groups == [k \in DOMAIN blocks |->
                          IF Len(blocks[k]) <= size THEN <<blocks[k]>>
                                                    ELSE SplitLongBlock(blocks[k], size, overlap)]
  <1>1. size \in Nat \ {0}
    <2>1. MinSize \in Int /\ MinSize >= 1
      BY MinSizeAssumption
    <2>2. size \in {options.size, MinSize} /\ size >= MinSize
      BY <2>1, OfTwo, Zenon DEF SizeOf
    <2> HIDE DEF size
    <2> QED  BY <2>1, <2>2
  <1>2. overlap \in Nat
    <2>1. 0 \in Int
      OBVIOUS
    <2>2. overlap \in {options.overlap, 0} /\ overlap >= 0
      BY <2>1, OfTwo, Zenon
    <2> HIDE DEF overlap
    <2> QED  BY <2>2
  <1>3. Split(text, options) = NonEmpty(FlattenSeq(groups))
    BY DEF Split
  <1> HIDE DEF size, overlap
  <1>4. Trim(text) \in Line /\ Places(Trim(text)) = Places(text)
    BY TrimKeeps
  <1>5. Tiles(blocks, Places(text), Whole)
    <2> DEFINE s == Trim(text)
    <2>1. s \in Line
      BY <1>4
    <2> HIDE DEF s
    <2>2. Tiles(MergeParagraphs(Paragraphs(s), size), Places(s), Whole)
      BY <2>1, MergeTiles
    <2>3. Tiles(blocks, Places(Trim(text)), Whole)
      BY <2>2, Zenon DEF s
    <2> HIDE DEF blocks
    <2> QED  BY <1>4, <2>3, Zenon
  <1> HIDE DEF blocks
  <1>6. Tiles(blocks, Places(text), Line)
    BY <1>5, TilesWiden, TrimmedIsWhole
  <1>7. /\ DOMAIN blocks = 1 .. Len(blocks)
        /\ \A k \in 1 .. Len(blocks) : blocks[k] \in Whole /\ blocks[k] \in Line
    BY <1>5, TrimmedIsWhole DEF Tiles
  <1>8. ASSUME NEW k \in 1 .. Len(blocks)
        PROVE  Covers(groups[k], Places(blocks[k]), size, overlap)
    <2> DEFINE s == blocks[k]
    <2>1. s \in Line /\ s \in Whole
      BY <1>7
    <2>2. groups[k] = IF Len(s) <= size THEN <<s>> ELSE SplitLongBlock(s, size, overlap)
      BY <1>7
    <2> HIDE DEF s, groups
    <2>3. CASE Len(s) <= size
      <3>1. Covers(<<s>>, Places(s), size, overlap)
        BY <2>1, <2>3, CoversOne
      <3>2. groups[k] = <<s>>
        BY <2>2, <2>3
      <3> QED  BY <3>1, <3>2 DEF s
    <2>4. CASE ~(Len(s) <= size)
      <3>1. Covers(SplitLongBlock(s, size, overlap), Places(s), size, overlap)
        BY <1>1, <1>2, <2>1, LongBlockCovers
      <3>2. groups[k] = SplitLongBlock(s, size, overlap)
        BY <2>2, <2>4
      <3> QED  BY <3>1, <3>2 DEF s
    <2> QED  BY <2>3, <2>4
  <1>9. groups = [k \in DOMAIN blocks |-> groups[k]]
    OBVIOUS
  <1> HIDE DEF groups
  <1>10. Covers(FlattenSeq(groups), Places(text), size, overlap)
    BY <1>2, <1>6, <1>8, <1>9, CoversPieces
  <1> DEFINE all == NonEmpty(FlattenSeq(groups))
  <1>11. Covers(all, Places(text), size, overlap) /\ \A k \in 1 .. Len(all) : all[k] # <<>>
    BY <1>10, CoversFilter
  <1> HIDE DEF all
  <1>12. Split(text, options) = all
    BY <1>3 DEF all
  <1> QED  BY <1>1, <1>2, <1>11, <1>12 DEF size, overlap

\* A text is a line.
LEMMA ReadableIsLine ==
  ASSUME NEW s \in Readable
  PROVE  s \in Line /\ Len(s) \in Nat /\ Places(s) \in SUBSET (1 .. Len(s))
  <1>1. s \in Seq(Character) /\ Len(s) \in Nat /\ DOMAIN s = 1 .. Len(s)
        /\ \A i \in 1 .. Len(s) : s[i].at = i
    BY DEF Readable
  <1>2. s \in Line
    BY <1>1 DEF Line
  <1>3. Places(s) \in SUBSET (1 .. Len(s))
    BY <1>1, PlaceIn
  <1> QED  BY <1>1, <1>2, <1>3

\* For every text, size and overlap asked for, and whatever the least size: the pieces
\* of ChunkService.split hold all of the text but blanks, each is a stretch of it without
\* a gap, trimmed, not empty and no longer than the size; they come in the order of the
\* text, and neighbours share no more than the overlap.
THEOREM SplitHolds ==
  ASSUME NEW text \in Readable,
         NEW options, options.size \in Int, options.overlap \in Int
  PROVE  Holds(Split(text, options), text, options)
  <1> DEFINE ps == Split(text, options)
             P == Places(text)
             size == SizeOf(options)
             overlap == Max({options.overlap, 0})
  <1>1. text \in Line /\ Len(text) \in Nat /\ P \in SUBSET (1 .. Len(text))
    BY ReadableIsLine
  <1>2. Covers(ps, P, size, overlap) /\ \A k \in 1 .. Len(ps) : ps[k] # <<>>
    BY <1>1, SplitCovers
  <1> HIDE DEF ps, size, overlap
  <1>3. /\ ps \in Seq(Whole) /\ DOMAIN ps = 1 .. Len(ps) /\ Len(ps) \in Nat
        /\ \A p : p \in P <=> \E k \in 1 .. Len(ps) : p \in Places(ps[k])
    BY <1>2 DEF Covers
  <1>4. ASSUME NEW k \in 1 .. Len(ps)
        PROVE  /\ Len(ps[k]) <= size /\ ps[k] = Trim(ps[k]) /\ ps[k] # <<>>
               /\ Places(ps[k]) \in SUBSET (1 .. Len(text)) /\ Places(ps[k]) # {}
               /\ Places(ps[k]) \subseteq P /\ Stretch(Places(ps[k]), P)
    <2>1. ps[k] \in Whole
      BY <1>3
    <2>2. ps[k] \in Line /\ Trimmed(ps[k])
      BY <2>1 DEF Whole
    <2>3. Trim(ps[k]) = ps[k] /\ Places(ps[k]) # {}
      BY <1>2, <2>2, TrimKeeps
    <2>4. Places(ps[k]) \subseteq P
      BY <1>3
    <2>5. Len(ps[k]) <= size /\ Stretch(Places(ps[k]), P)
      BY <1>2 DEF Covers
    <2> QED  BY <1>1, <1>2, <2>3, <2>4, <2>5
  <1>5. UNION {Places(ps[k]) : k \in DOMAIN ps} = P
    BY <1>3
  <1>6. ASSUME NEW k \in DOMAIN ps
        PROVE  Places(ps[k]) = P \cap Min(Places(ps[k])) .. Max(Places(ps[k]))
    <2> DEFINE Q == Places(ps[k])
               a == Min(Q)
               b == Max(Q)
    <2>1. Q \in SUBSET (1 .. Len(text)) /\ Q # {} /\ Q \subseteq P /\ Stretch(Q, P)
      BY <1>3, <1>4, <1>6
    <2> HIDE DEF Q
    <2>2. a \in Q /\ b \in Q /\ \A i \in Q : a <= i /\ i <= b
      BY <1>1, <2>1, EndsOfNumbers
    <2> HIDE DEF a, b
    <2>3. a \in Nat /\ b \in Nat /\ \A i \in P : i \in Nat
      BY <1>1, <2>1, <2>2
    <2>4. \A i \in P : i \in Q <=> i \in a .. b
      BY <2>1, <2>2, <2>3 DEF Stretch
    <2>5. Q = P \cap a .. b
      BY <2>1, <2>4
    <2> QED  BY <2>5 DEF Q, a, b
  <1>7. ASSUME NEW k \in DOMAIN ps, k > 1
        PROVE  /\ Min(Places(ps[k - 1])) <= Min(Places(ps[k]))
               /\ Max(Places(ps[k - 1])) <= Max(Places(ps[k]))
               /\ Cardinality(Places(ps[k - 1]) \cap Places(ps[k])) <= overlap
    <2> DEFINE Q == Places(ps[k - 1])
               R == Places(ps[k])
    <2>0. k - 1 \in 1 .. Len(ps) /\ k \in 1 .. Len(ps) /\ k - 1 < k
      BY <1>3, <1>7
    <2>1. /\ Q \in SUBSET (1 .. Len(text)) /\ Q # {}
          /\ R \in SUBSET (1 .. Len(text)) /\ R # {}
      BY <1>4, <2>0
    <2>2. Leans(Q, R) /\ Share(Q, R, overlap)
      BY <1>2, <2>0 DEF Covers
    <2> HIDE DEF Q, R
    <2>3. Max(Q) \in Q /\ Min(Q) \in Q /\ \A i \in Q : Min(Q) <= i /\ i <= Max(Q)
      BY <1>1, <2>1, EndsOfNumbers
    <2>4. Max(R) \in R /\ Min(R) \in R /\ \A i \in R : Min(R) <= i /\ i <= Max(R)
      BY <1>1, <2>1, EndsOfNumbers
    <2>5. Min(Q) <= Min(R) /\ Max(Q) <= Max(R)
      BY <2>2, <2>3, <2>4 DEF Leans
    <2>6. Cardinality(Q \cap R) <= overlap
      BY <2>2 DEF Share
    <2> QED  BY <2>5, <2>6 DEF Q, R
  <1>8. \A k \in DOMAIN ps : Len(ps[k]) <= size /\ ps[k] = Trim(ps[k]) /\ ps[k] # <<>>
    BY <1>3, <1>4
  <1>9. Holds(ps, text, options)
    <2>1. /\ UNION {Places(ps[k]) : k \in DOMAIN ps} = Places(text)
          /\ \A k \in DOMAIN ps :
               Places(ps[k]) = Places(text) \cap Min(Places(ps[k])) .. Max(Places(ps[k]))
      BY <1>5, <1>6
    <2>2. /\ \A k \in DOMAIN ps :
               Len(ps[k]) <= SizeOf(options) /\ ps[k] = Trim(ps[k]) /\ ps[k] # <<>>
          /\ \A k \in DOMAIN ps : k > 1 =>
               /\ Min(Places(ps[k - 1])) <= Min(Places(ps[k]))
               /\ Max(Places(ps[k - 1])) <= Max(Places(ps[k]))
               /\ Cardinality(Places(ps[k - 1]) \cap Places(ps[k]))
                    <= Max({options.overlap, 0})
      BY <1>7, <1>8 DEF size, overlap
    <2> QED  BY <2>1, <2>2, Zenon DEF Holds
  <1> QED  BY <1>9 DEF ps

-----------------------------------------------------------------------------
(* Ready documents hold their text.                                        *)

\* As many rows as pieces, and a row for every piece: one row for each.
LEMMA OneRowEach ==
  ASSUME NEW rows, NEW n \in Nat, Indexed(rows, n), NEW piece \in 0 .. n - 1
  PROVE  Cardinality({c \in rows : c.piece = piece}) = 1
  <1> DEFINE T == 0 .. n - 1
             f == [c \in rows |-> c.piece]
  <1>1. {c.piece : c \in rows} = T /\ IsFiniteSet(rows) /\ Cardinality(rows) = n
    BY DEF Indexed
  <1>2. Cardinality(T) = n
    <2>1. 0 \in Int /\ n - 1 \in Int
      OBVIOUS
    <2>2. Cardinality(T) = IF 0 > n - 1 THEN 0 ELSE n - 1 - 0 + 1
      BY <2>1, FS_Interval
    <2> HIDE DEF T
    <2> QED  BY <2>2
  <1>3. (\A c \in rows : c.piece \in T) /\ \A t \in T : \E c \in rows : c.piece = t
    BY <1>1
  <1>4. piece \in T
    OBVIOUS
  <1> HIDE DEF T
  <1>5. f \in Surjection(rows, T) /\ \A c \in rows : f[c] = c.piece
    BY <1>3 DEF Surjection
  <1> HIDE DEF f
  <1>6. f \in Injection(rows, T)
    BY <1>1, <1>2, <1>5, FS_Surjection
  <1>7. PICK c \in rows : c.piece = piece
    BY <1>3, <1>4
  <1>8. ASSUME NEW e \in rows, e.piece = piece PROVE e = c
    BY <1>5, <1>6, <1>7, <1>8 DEF Injection, IsInjective
  <1>9. {e \in rows : e.piece = piece} = {c}
    BY <1>7, <1>8
  <1> QED  BY <1>9, FS_Singleton

\* No text is torn.
LEMMA NoneTorn == Torn = {}
  <1>1. ASSUME NEW text \in Texts, NEW options \in Asked
        PROVE  Holds(Split(text, options), text, options)
    <2>1. text \in Readable
      BY TextsAssumption
    <2>2. options.size \in Int /\ options.overlap \in Int
      BY AskedAssumption
    <2> QED  BY <2>1, <2>2, SplitHolds
  <1> QED  BY <1>1 DEF Torn

\* What the searches find of a document that says ready: ingestDocument has left one row
\* for every piece of its file, and the pieces lose nothing of it, whatever the files, the
\* options of split, the attempts, failures and ends of the process.
THEOREM ReadyAlwaysHoldsText == Spec => []ReadyHoldsText
PROOF
  <1>1. ReadyIsIndexed => ReadyHoldsText
    <2> SUFFICES ASSUME ReadyIsIndexed, NEW d \in Docs,
                        doc[d].status = "ready", d \notin touched
                 PROVE  \A piece \in 0 .. Pieces[d] - 1 :
                          Cardinality({c \in ChunksOf(d) : c.piece = piece}) = 1
      BY NoneTorn DEF ReadyHoldsText
    <2>1. Indexed(ChunksOf(d), Pieces[d])
      BY DEF ReadyIsIndexed
    <2>2. Pieces[d] \in Nat
      BY PiecesAssumption
    <2> QED  BY <2>1, <2>2, OneRowEach
  <1> QED
    BY <1>1, ReadyAlwaysIndexed, PTL

=============================================================================
