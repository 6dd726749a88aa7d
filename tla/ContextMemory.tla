------------------------------ MODULE ContextMemory ------------------------------
(***************************************************************************)
(* ContextMemoryService: long-term memories are rows of the database and      *)
(* vectors of Qdrant.  A vector is written, and deleted, by a call nobody     *)
(* awaits after the request has been answered; a search asks the vectors,    *)
(* then the rows, then perhaps the words, and awaits each.                   *)
(*                                                                         *)
(* An action is what runs up to the next await together with the operation   *)
(* awaited before it.  A user has at most one conversation, named by its owner. *)
(***************************************************************************)
EXTENDS Recall

CONSTANTS
  Users, Admins,
  Owners,            \* the users who have a conversation
  Requests,          \* slots of requests; a forgetting one holds its slot until
                     \* the vector is deleted
  Proposals,         \* how many vectors a search asks for, max(2 * limit, 10)
  Null,
  NewRows,           \* the memories requests create
  Searches,          \* who searches for what: [user, scope, asks], asks with a question
  Expirable,         \* the ids of memories that have an expiresAt
  MaxMemories,       \* bound: how many memories are created
  MaxFaults          \* bound: failing operations and ends of the process

Ids == 1 .. MaxMemories
Scopes == {"USER", "CONVERSATION", "GLOBAL"}
Row == [owner : Users, scope : Scopes, source : Owners \cup {Null},
        words : BOOLEAN, forgotten : BOOLEAN]

ASSUME ContextMemoryAssumption ==
  /\ Admins \cup Owners \subseteq Users
  /\ Null \notin Users
  /\ Proposals \in Nat \ {0}
  /\ NewRows \subseteq {row \in Row : ~row.forgotten}
  /\ Searches \subseteq [user : Users, scope : Scopes \cup {"any"}, asks : BOOLEAN]
  /\ {MaxMemories, MaxFaults} \subseteq Nat

VARIABLES
  memory,      \* the rows, by id
  expired,     \* those whose expiresAt has passed
  vectors,     \* the ids that have a vector
  indexing,    \* the ids being indexed
  request,     \* every slot's request
  open,        \* whose conversation exists
  beside,      \* history: whose last deletion came while it was being indexed
  lost,        \* history: whose indexing or last deletion failed
  faults

history == <<beside, lost>>
vars == <<memory, expired, vectors, indexing, request, open, history, faults>>

\* row: what is to be created; hidden: history of a search, the memories it must not
\* read when it begins.
Points == {"idle", "check", "create", "update", "delete",
           "propose", "rows", "words", "answered"}
Request == [pc : Points, user : Users \cup {Null}, id : Nat, row : Row \cup {Null},
            scope : Scopes \cup {"any"}, asks : BOOLEAN, hits : Seq(Ids),
            result : Seq(Ids), hidden : SUBSET Ids]

Idle == [pc |-> "idle", user |-> Null, id |-> 0, row |-> Null, scope |-> "any",
         asks |-> FALSE, hits |-> <<>>, result |-> <<>>, hidden |-> {}]

Init ==
  /\ memory = <<>> /\ expired = {} /\ vectors = {}
  /\ indexing = {}
  /\ request = [r \in Requests |-> Idle]
  /\ open = Owners
  /\ beside = {} /\ lost = {}
  /\ faults = 0

Free(r) == request[r].pc \in {"idle", "answered"}
GoesOn(r, pc) == request' = [request EXCEPT ![r].pc = pc]
Ends(r) == request' = [request EXCEPT ![r] = Idle]
Fault == faults < MaxFaults /\ faults' = faults + 1

storeVars == <<memory, expired, vectors, open>>

-----------------------------------------------------------------------------
(* createMemory.                                                           *)

\* assertCanCreate; a refused request changes nothing.
MayCreate(u, row) ==
  \/ u \in Admins
  \/ row.scope = "USER" /\ row.owner = u
  \/ row.scope = "CONVERSATION" /\ row.source # Null

CreateMemory(r, u, row) ==
  /\ Free(r)
  /\ MayCreate(u, row)
  /\ LET asked == u \notin Admins /\ row.scope = "CONVERSATION" IN
       request' = [request EXCEPT ![r] =
         [Idle EXCEPT !.row = row, !.pc = IF asked THEN "check" ELSE "create",
                      !.user = IF asked THEN u ELSE Null]]
  /\ UNCHANGED <<storeVars, indexing, history, faults>>

\* The conversation exists and is the user's own.
Checked(r) ==
  /\ request[r].pc = "check"
  /\ IF request[r].row.source \in open \cap {request[r].user}
     THEN request' = [request EXCEPT ![r].pc = "create", ![r].user = Null]
     ELSE Ends(r)
  /\ UNCHANGED <<storeVars, indexing, history, faults>>

\* Mutant: the id is guessed instead of read off the created row.
CreateRowGuessed(r) ==
  /\ request[r].pc = "create"
  /\ Len(memory) < MaxMemories
  /\ memory' = Append(memory, request[r].row)
  /\ indexing' = indexing \cup {Len(memory') + 1}
  /\ Ends(r)
  /\ UNCHANGED <<expired, vectors, open, history, faults>>

\* The database refuses a row whose conversation is gone.
CreateRow(r) ==
  /\ request[r].pc = "create"
  /\ Len(memory) < MaxMemories
  /\ IF request[r].row.source \in open \cup {Null}
     THEN /\ memory' = Append(memory, request[r].row)
          /\ indexing' = indexing \cup {Len(memory) + 1}
     ELSE UNCHANGED <<memory, indexing>>
  /\ Ends(r)
  /\ UNCHANGED <<expired, vectors, open, history, faults>>

\* indexMemoryVector, which nobody awaits and nothing repeats: the content is
\* embedded, then the vector upserted.
UpsertMemory(i) ==
  /\ i \in indexing
  /\ indexing' = indexing \ {i}
  /\ vectors' = vectors \cup {i}
  /\ UNCHANGED <<memory, expired, request, open, history, faults>>

IndexFails(i) ==
  /\ i \in indexing
  /\ Fault
  /\ indexing' = indexing \ {i}
  /\ lost' = lost \cup {i}
  /\ UNCHANGED <<storeVars, request, beside>>

-----------------------------------------------------------------------------
(* forgetMemory.                                                           *)

\* assertCanForget.
MayForget(u, i) ==
  \/ u \in Admins
  \/ memory[i].scope = "USER" /\ memory[i].owner = u

\* Mutant: the right to forget is checked when the memory is updated, and its
\* vector deleted in any case.
ForgetMemoryUnasked(r, u, i) ==
  /\ Free(r)
  /\ i \in DOMAIN memory
  /\ request' = [request EXCEPT ![r] =
       [Idle EXCEPT !.pc = IF MayForget(u, i) THEN "update" ELSE "delete",
                    !.id = i]]
  /\ UNCHANGED <<storeVars, indexing, history, faults>>

\* The memory is looked up; it may have been forgotten before.
ForgetMemory(r, u, i) ==
  /\ Free(r)
  /\ i \in DOMAIN memory
  /\ MayForget(u, i)
  /\ request' = [request EXCEPT ![r] = [Idle EXCEPT !.pc = "update", !.id = i]]
  /\ UNCHANGED <<storeVars, indexing, history, faults>>

\* Mutant: the vector is left to the searches, which skip it.
ForgottenOnly(r) ==
  /\ request[r].pc = "update"
  /\ memory' = [memory EXCEPT ![request[r].id].forgotten = TRUE]
  /\ Ends(r)
  /\ UNCHANGED <<expired, vectors, indexing, open, history, faults>>

Forgotten(r) ==
  /\ request[r].pc = "update"
  /\ memory' = [memory EXCEPT ![request[r].id].forgotten = TRUE]
  /\ GoesOn(r, "delete")
  /\ UNCHANGED <<expired, vectors, indexing, open, history, faults>>

\* deleteMemory, which nobody awaits.  A memory may be forgotten once more, which
\* makes up for what came before.
DeleteMemory(r) ==
  LET i == request[r].id IN
  /\ request[r].pc = "delete"
  /\ vectors' = vectors \ {i}
  /\ beside' = IF i \in indexing THEN beside \cup {i} ELSE beside \ {i}
  /\ lost' = lost \ {i}
  /\ Ends(r)
  /\ UNCHANGED <<memory, expired, indexing, open, faults>>

-----------------------------------------------------------------------------
(* searchMemories, as Recall gives it, of rows read at different times.     *)

\* The rows as the user of request q sees them; without a question every memory
\* has its words.
View(q) ==
  [hits |-> q.hits, admin |-> q.user \in Admins, scope |-> q.scope,
   rows |-> [i \in DOMAIN memory |->
     [scope |-> memory[i].scope,
      mine |-> q.user = IF memory[i].scope = "CONVERSATION" THEN memory[i].source
                                                            ELSE memory[i].owner,
      live |-> ~memory[i].forgotten /\ i \notin expired,
      words |-> memory[i].words \/ ~q.asks,
      importance |-> 0, tokens |-> 0]]]

SearchMemories(r, search) ==
  /\ Free(r)
  /\ LET q == [Idle EXCEPT !.pc = IF search.asks THEN "propose" ELSE "words",
                            !.user = search.user, !.scope = search.scope, !.asks = search.asks]
     IN request' = [request EXCEPT ![r] =
          [q EXCEPT !.hidden = DOMAIN memory \ Readable(View(q))]]
  /\ UNCHANGED <<storeVars, indexing, history, faults>>

\* The vectors nearest to the question, of anybody's memories.
Propose(r) ==
  /\ request[r].pc = "propose"
  /\ \E nearest \in kSubset(Min({Proposals, Cardinality(vectors)}), vectors) :
       \E hits \in SetToSeqs(nearest) :
         request' = [request EXCEPT ![r].hits = hits,
                                    ![r].pc = IF hits = <<>> THEN "words" ELSE "rows"]
  /\ UNCHANGED <<storeVars, indexing, history, faults>>

Answer(r, ids) ==
  request' = [request EXCEPT ![r] = [Idle EXCEPT !.pc = "answered", !.result = ids]]

\* Mutant: the rows of what was proposed are read by their ids.
ReadRowsById(r) ==
  /\ request[r].pc = "rows"
  /\ Answer(r, FirstOf(request[r].hits))
  /\ UNCHANGED <<storeVars, indexing, history, faults>>

\* Mutant: the words are searched only when nothing was proposed.
ReadRowsOnly(r) ==
  /\ request[r].pc = "rows"
  /\ Answer(r, ByVector(View(request[r])))
  /\ UNCHANGED <<storeVars, indexing, history, faults>>

ReadRows(r) ==
  /\ request[r].pc = "rows"
  /\ LET found == ByVector(View(request[r])) IN
       IF found # <<>> THEN Answer(r, found) ELSE GoesOn(r, "words")
  /\ UNCHANGED <<storeVars, indexing, history, faults>>

ReadWords(r) ==
  /\ request[r].pc = "words"
  /\ Answer(r, ByWords(View(request[r])))
  /\ UNCHANGED <<storeVars, indexing, history, faults>>

\* Whatever fails before, the words are searched.
SearchFails(r) ==
  /\ request[r].pc \in {"propose", "rows"}
  /\ Fault
  /\ GoesOn(r, "words")
  /\ UNCHANGED <<storeVars, indexing, history>>

-----------------------------------------------------------------------------
(* What else may happen.                                                   *)

\* A database or Qdrant operation is rejected; a deletion is not repeated.
RequestFails(r) ==
  /\ request[r].pc \in {"check", "create", "update", "delete", "words"}
  /\ Fault
  /\ lost' = IF request[r].pc = "delete" THEN lost \cup {request[r].id} ELSE lost
  /\ Ends(r)
  /\ UNCHANGED <<storeVars, indexing, beside>>

Expire(i) ==
  /\ i \in (Expirable \cap DOMAIN memory) \ expired
  /\ expired' = expired \cup {i}
  /\ UNCHANGED <<memory, vectors, indexing, request, open, history, faults>>

\* The memories of a removed conversation stay, without a source (SetNull).
RemoveConversation(u) ==
  /\ u \in open
  /\ open' = open \ {u}
  /\ memory' = [i \in DOMAIN memory |->
       [memory[i] EXCEPT !.source = IF @ = u THEN Null ELSE @]]
  /\ UNCHANGED <<expired, vectors, indexing, request, history, faults>>

Crash ==
  /\ Fault
  /\ lost' = lost \cup indexing
       \cup {request[r].id : r \in {q \in Requests : request[q].pc = "delete"}}
  /\ indexing' = {}
  /\ request' = [r \in Requests |-> Idle]
  /\ UNCHANGED <<storeVars, beside>>

Step(r) ==
  \/ Checked(r) \/ CreateRow(r) \/ Forgotten(r) \/ DeleteMemory(r)
  \/ Propose(r) \/ ReadRows(r) \/ ReadWords(r) \/ SearchFails(r) \/ RequestFails(r)

Next ==
  \/ \E r \in Requests :
       \/ Step(r)
       \/ \E search \in Searches : SearchMemories(r, search)
       \/ \E u \in Users :
            \/ \E row \in NewRows : CreateMemory(r, u, row)
            \/ \E i \in DOMAIN memory : ForgetMemory(r, u, i)
  \/ \E i \in Ids : UpsertMemory(i) \/ IndexFails(i) \/ Expire(i)
  \/ \E u \in Owners : RemoveConversation(u)
  \/ Crash

Spec == Init /\ [][Next]_vars

-----------------------------------------------------------------------------
(* Properties.                                                             *)

TypeOK ==
  /\ memory \in Seq(Row) /\ Len(memory) <= MaxMemories
  /\ expired \subseteq DOMAIN memory
  /\ vectors \subseteq DOMAIN memory
  /\ indexing \subseteq DOMAIN memory
  /\ request \in [Requests -> Request]
  /\ open \subseteq Owners
  /\ beside \subseteq DOMAIN memory
  /\ lost \subseteq DOMAIN memory
  /\ faults \in 0 .. MaxFaults

Deleting == {request[r].id : r \in {q \in Requests : request[q].pc = "delete"}}

\* The vector of a forgotten memory, which would take the place of others in
\* every search, is gone once its deletion is, unless that came while the memory was
\* being indexed, or something failed (void deleteMemory, line 119).
ForgottenIsUnindexed ==
  \A i \in DOMAIN memory :
    (memory[i].forgotten /\ i \in vectors) => i \in Deleting \cup beside \cup lost

\* A memory nobody has forgotten is found by its vector, once it is indexed and
\* unless that failed: no other request, refused or not, takes it away.
LiveIsIndexed ==
  \A i \in DOMAIN memory :
    ~memory[i].forgotten => i \in vectors \cup indexing \cup lost

Answers(r) == request[r].pc \in {"rows", "words"} /\ request'[r].pc = "answered"

\* What a user could not read when a search began (forgotten, expired, of others)
\* is not in its answer, though the vector store proposes it.
NothingHiddenFound ==
  [][\A r \in Requests : Answers(r) =>
       ToSet(request'[r].result) \cap request[r].hidden = {}]_request

\* A search answers nothing only when it may read no memory with its words, whatever
\* the store proposed in vain and whichever operation failed before.
SearchFinds ==
  [][\A r \in Requests : Answers(r) /\ request'[r].result = <<>> =>
       Worded(View(request[r])) = {}]_request

\* What makes them inductive.  A request to forget knows a memory, which is forgotten
\* when its vector is to be deleted, and what a search must not read stays so, of a
\* user there is; a memory that is forgotten while it is being indexed will get a vector.
Knows(q) ==
  /\ q.pc \in {"check", "create"} => q.row \in Row /\ ~q.row.forgotten
  /\ q.pc \in {"update", "delete"} => q.id \in DOMAIN memory
  /\ q.pc = "delete" => memory[q.id].forgotten
  /\ q.pc \in {"propose", "rows", "words"} =>
       /\ q.user \in Users
       /\ q.hidden \subseteq DOMAIN memory \ Readable(View(q))

ForgottenIsDealtWith ==
  \A i \in DOMAIN memory :
    (memory[i].forgotten /\ i \in vectors \cup indexing) => i \in Deleting \cup beside \cup lost

MemoryInv ==
  /\ TypeOK
  /\ \A r \in Requests : Knows(request[r])
  /\ ForgottenIsDealtWith
  /\ LiveIsIndexed
=============================================================================
