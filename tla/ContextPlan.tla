------------------------------ MODULE ContextPlan ------------------------------
(***************************************************************************)
(* What of a conversation is sent to the model: ContextStage builds a plan  *)
(* (buildPlan), PromptStage and RagStage add their blocks to it and plan    *)
(* again (enrichPlan), each time pruning (ContextPruningService) and then   *)
(* choosing under the token budget (TokenBudgetManager).                    *)
(*                                                                         *)
(* The question is any one in the bounds: what its blocks weigh, how far the*)
(* summary reaches, which blocks there are, what the search of the knowledge*)
(* bases and that of the memories read (Retrieval, Recall).  Texts are      *)
(* abstracted to their estimated tokens, a message's being those after its  *)
(* thinking is taken off (every plan is made of pruned blocks).  Ratios are *)
(* integer percent and twelfths: the floating-point floors of the code agree*)
(* with them for the budget it uses (8192 - 2048) and for every one below   *)
(* 180.                                                                    *)
(***************************************************************************)
EXTENDS Retrieval, Recall

CONSTANTS
  Available,      \* availableForContext: maxTokens - reservedForResponse
  BasePriority,   \* the priority every message block starts with, 100
  Questions       \* the requests planned for, as below

ASSUME AvailableAssumption == Available \in Nat
ASSUME BasePriorityAssumption == BasePriority \in Nat

Fixed == {"system", "policy", "prompt"}              \* FIXED_BLOCK_TYPES
Categories == <<"summary", "message", "rag", "tool", "memory">>
Flexible == {"summary", "message", "rag", "tool", "memory"}

\* n: the id of a message; for the other types the rank of a block among those
\* of its type (memories by importance, chunks as retrieved), which have one
\* priority otherwise.  The block made of currentUserMessage has no message id:
\* n is 0.
Block == [type : Fixed \cup Flexible, n : Nat, tokens : Nat, keep : BOOLEAN]

\* What a question brings: the blocks of buildPlan but the memories, that of the
\* prompt if there is one, the reads of the two searches, and the id up to which
\* its summary covers the messages (0 for none):
\* [blocks, prompt, recall, search, upto].

\* The memories recalled, in the order of their priorities.
MemoryBlocks(q) ==
  LET memories == Weighed(q.recall)
  IN  {[type |-> "memory", n |-> i, tokens |-> q.recall.rows[memories[i]].tokens,
        keep |-> FALSE] : i \in 1 .. Len(memories)}

\* The blocks RagStage adds are what the search finds, in its order.
RagBlocks(q) ==
  LET found == Found(q.search)
  IN  {[type |-> "rag", n |-> i, tokens |-> q.search.rows[found[i]], keep |-> FALSE] :
         i \in 1 .. Len(found)}

PlanBlocks(q) == q.blocks \cup MemoryBlocks(q)          \* buildBlocks
AllBlocks(q) == PlanBlocks(q) \cup q.prompt \cup RagBlocks(q)

\* A block that may be left out is known by its type and its n, and blocks of some
\* types come from elsewhere.
ASSUME QuestionsAssumption ==
  \A q \in Questions :
    /\ AllBlocks(q) \subseteq Block /\ IsFiniteSet(AllBlocks(q))
    /\ \A b \in q.blocks : b.type \notin {"prompt", "memory", "rag"}
    /\ \A a, b \in q.blocks :
         a.type \in Flexible /\ ~a.keep /\ ~b.keep /\ a.type = b.type /\ a.n = b.n => a = b
    /\ \A b \in q.prompt : b.type = "prompt"           \* createPromptBlock
    /\ Proposed(q.search) \subseteq Nat /\ IsFiniteSet(Proposed(q.search))
    /\ \A c \in DOMAIN q.search.points : q.search.points[c] \in Nat

VARIABLES
  question,   \* the request being planned for
  stage,      \* the stage that comes next
  priority,   \* block.priority, which pruning lowers in place
  given,      \* the blocks the last plan chose from
  selected,   \* plan.selectedBlocks
  plans       \* how many plans have been made (history)

planVars == <<question, stage, priority, given, selected, plans>>

Stages == {"context", "prompt", "rag", "done"}

PlanTypeOK ==
  /\ question \in Questions
  /\ stage \in Stages
  /\ priority \in [AllBlocks(question) -> Nat]
  /\ given \subseteq AllBlocks(question)
  /\ selected \subseteq given
  /\ plans \in Nat

PlanInit ==
  /\ question \in Questions
  /\ stage = "context"
  /\ priority = [b \in AllBlocks(question) |-> BasePriority]
  /\ given = {}
  /\ selected = {}
  /\ plans = 0

-----------------------------------------------------------------------------
(* ContextPruningService.                                                  *)

\* shouldDropAsSummarized.
Covered(b) == b.type = "message" /\ ~b.keep /\ b.n \in 1 .. question.upto

\* lowerOlderMessagePriority: by how many newer messages there are.
Adjustable(blocks) == {b \in blocks : b.type = "message" /\ ~b.keep /\ b.n > 0}

\* Mutant: by how many older ones.
PenaltyNewer(b, blocks) == Cardinality({c \in Adjustable(blocks) : c.n < b.n})

Penalty(b, blocks) == Cardinality({c \in Adjustable(blocks) : c.n > b.n})

Lowered(blocks) ==
  [b \in DOMAIN priority |->
     IF b \notin Adjustable(blocks) THEN priority[b]
     ELSE IF priority[b] > Penalty(b, blocks) THEN priority[b] - Penalty(b, blocks)
     ELSE 0]

-----------------------------------------------------------------------------
(* TokenBudgetManager.                                                     *)

\* Mutant: mustKeep is not looked at.
PinnedByType(b) == b.type \in Fixed

Pinned(b) == b.keep \/ b.type \in Fixed              \* isPinnedBlock

Tokens(blocks) == MapThenSumSet(LAMBDA b : b.tokens, blocks)

\* CATEGORY_RATIOS
Ratio == [summary |-> 20, message |-> 35, rag |-> 25, tool |-> 10, memory |-> 10]

\* buildCategoryCaps: what the categories without candidates leave is released
\* to messages and retrieved chunks, as 35 to 25.
BaseCap(c) == (Available * Ratio[c]) \div 100

Freed(empty, c) == IF c \in empty THEN BaseCap(c) ELSE 0

Released(empty) ==
  Freed(empty, "summary") + Freed(empty, "message") + Freed(empty, "rag")
    + Freed(empty, "tool") + Freed(empty, "memory")

Share(c) == IF c = "message" THEN 7 ELSE IF c = "rag" THEN 5 ELSE 0

Cap(empty, c) ==
  (IF c \in empty THEN 0 ELSE BaseCap(c)) + (Released(empty) * Share(c)) \div 12

Candidates(blocks, c) == {b \in blocks : b.type = c /\ ~Pinned(b)}

EmptyOf(blocks) == {c \in Flexible : Candidates(blocks, c) = {}}

\* The order in which the blocks of a category are considered.
Before(p, a, b) == \/ p[a] > p[b]
                   \/ p[a] = p[b] /\ a.n < b.n

\* Mutant: the cap of the category is all that is looked at.
ConsiderInCategory(acc, b, cap) ==
  IF acc.category + b.tokens <= cap
    THEN [selected |-> acc.selected \cup {b},
          used     |-> acc.used + b.tokens,
          category |-> acc.category + b.tokens]
    ELSE acc

\* Mutant: the cap is to be undercut.
ConsiderBelow(acc, b, cap) ==
  IF acc.category + b.tokens < cap /\ acc.used + b.tokens <= Available
    THEN [selected |-> acc.selected \cup {b},
          used     |-> acc.used + b.tokens,
          category |-> acc.category + b.tokens]
    ELSE acc

\* One block is considered, and taken if it fits.
Consider(acc, b, cap) ==
  IF acc.category + b.tokens <= cap /\ acc.used + b.tokens <= Available
    THEN [selected |-> acc.selected \cup {b},
          used     |-> acc.used + b.tokens,
          category |-> acc.category + b.tokens]
    ELSE acc

Sorted(blocks, p, c) ==
  LET candidates == Candidates(blocks, c)
  IN  Ranked(candidates, {pair \in candidates \X candidates : Before(p, pair[1], pair[2])})

Choose(acc, blocks, p, c) ==
  FoldLeft(LAMBDA a, b : Consider(a, b, Cap(EmptyOf(blocks), c)),
           [acc EXCEPT !.category = 0], Sorted(blocks, p, c))

\* plan: the flexible blocks selected beside the pinned ones, category after
\* category, and all of them.
Filled(blocks, p) ==
  LET start == [selected |-> {}, category |-> 0,
                used |-> Tokens({b \in blocks : Pinned(b)})]
  IN  FoldLeft(LAMBDA acc, c : Choose(acc, blocks, p, c), start, Categories).selected

Chosen(blocks, p) == {b \in blocks : Pinned(b)} \cup Filled(blocks, p)

-----------------------------------------------------------------------------
(* ContextEngineService and the stages.                                    *)

\* pruneForBudget and plan, on these blocks.
Plan(blocks) ==
  LET kept == {b \in blocks : ~Covered(b)}
  IN  /\ priority' = Lowered(kept)
      /\ given' = kept
      /\ selected' = kept \cap Chosen(kept, priority')
      /\ plans' = plans + 1

\* buildPlan.
ContextStage ==
  /\ stage = "context"
  /\ Plan(PlanBlocks(question))
  /\ stage' = "prompt"
  /\ UNCHANGED question

\* enrichPlan, which returns the plan it was given if there is nothing to add.
EnrichPlan(extra) ==
  IF extra = {} THEN UNCHANGED <<priority, given, selected, plans>>
                ELSE Plan(selected \cup extra)

PromptStage ==
  /\ stage = "prompt"
  /\ EnrichPlan(question.prompt)
  /\ stage' = "rag"
  /\ UNCHANGED question

RagStage ==
  /\ stage = "rag"
  /\ EnrichPlan(RagBlocks(question))
  /\ stage' = "done"
  /\ UNCHANGED question

PlanNext == ContextStage \/ PromptStage \/ RagStage

PlanSpec == PlanInit /\ [][PlanNext]_planVars

-----------------------------------------------------------------------------
(* Properties.                                                             *)

\* What must be kept is in every plan, however little is left for it: the
\* question, the isolation policy and, once it is in, the prompt.
MustKeepIsKept ==
  /\ plans > 0 => {b \in question.blocks : b.keep} \subseteq selected
  /\ stage \in {"rag", "done"} => question.prompt \subseteq selected

\* What is selected fits into what is available, unless the pinned blocks alone
\* do not, and then nothing else is selected; and no category takes more than
\* the caps of all of them allow it.
WithinBudget ==
  LET flexible == {b \in selected : ~Pinned(b)}
  IN  /\ flexible # {} => Tokens(selected) <= Available
      /\ \A c \in Flexible :
           Tokens(Candidates(selected, c)) <= Cap(EmptyOf(given), c)

\* Nothing is dropped that still fits: the plan uses what it has.
NothingFitsAnymore ==
  \A b \in given \ selected :
    \/ Tokens(Candidates(selected, b.type)) + b.tokens > Cap(EmptyOf(given), b.type)
    \/ Tokens(selected) + b.tokens > Available

\* Recent messages come first: an older message is sent in place of a newer one
\* only where the newer one was too long.  As far as priorities reach: every
\* plan lowers them once more, the second oldest by two less than there are, and
\* they stop at 0.
OlderOnlyIfShorter ==
  LET messages == Adjustable(AllBlocks(question))
  IN  plans * Cardinality(messages) < BasePriority + 2 * plans =>
        \A old, new \in messages \ {b \in messages : Covered(b)} :
          plans > 0 /\ old.n < new.n /\ old \in selected /\ new \notin selected =>
            old.tokens < new.tokens

\* The best of what the knowledge bases hold comes first, from the search to the
\* plan: a chunk is sent in place of one with a higher score only where that one
\* was too long, or had no word of the question beside others that have.
BestChunksFirst ==
  LET s == question.search
      found == Found(s)
      Sent(c) == \E i \in 1 .. Len(found) :
                   found[i] = c /\ \E b \in selected : b.type = "rag" /\ b.n = i
  IN  stage = "done" =>
        \A c \in Proposed(s) \cap DOMAIN s.rows, d \in Proposed(s) :
          Sent(d) /\ Score(s, c) > Score(s, d) /\ ~Sent(c) =>
            \/ s.rows[c] > s.rows[d]
            \/ c \notin s.hits /\ Score(s, c) < AloneFrom

\* A chunk both searches find may score less than if the words alone had found
\* it: TLC refutes that being found twice never hurts.
FoundTwiceNeverHurts ==
  \A c \in DOMAIN question.search.points \cap question.search.hits :
    Score(question.search, c) >= HitBase

\* Where they do not reach, the oldest come first: TLC refutes this.
OlderNeverBeforeNewer ==
  \A old, new \in {b \in Adjustable(AllBlocks(question)) : ~Covered(b)} :
    plans > 0 /\ old.n < new.n /\ old \in selected /\ new \notin selected =>
      old.tokens < new.tokens
=============================================================================
