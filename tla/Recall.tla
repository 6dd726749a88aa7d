--------------------------------- MODULE Recall ---------------------------------
(***************************************************************************)
(* ContextMemoryService.searchMemories, as a plan asks for the memories of a *)
(* question: by their vectors, and by the words of the question when that    *)
(* finds none the user may read.                                            *)
(*                                                                         *)
(* A recall is what its reads returned: hits are the ids the vector store    *)
(* proposes, nearest first (<<>> when embedding or searching fails); rows    *)
(* maps the ids of memories to their rows (without any when the database     *)
(* fails); admin is the user's role; scope the one asked for, or "any".  The  *)
(* store knows neither owners nor removals, so hits may be of anybody's       *)
(* memories, and of some without row.                                       *)
(***************************************************************************)
EXTENDS Ranking, SequencesExt, FiniteSetsExt

CONSTANT MemoryLimit                  \* the limit of a search, 10

ASSUME MemoryLimitAssumption == MemoryLimit \in Nat \ {0}

\* mine: the user owns the memory or, for a conversation's, the conversation;
\* live: neither forgotten nor expired; words: it contains the question.
Memory == [scope : {"USER", "CONVERSATION", "GLOBAL"}, mine : BOOLEAN, live : BOOLEAN,
           words : BOOLEAN, importance : Nat, tokens : Nat]

\* buildSearchWhere; s.scope is the scope asked for.
Readable(s) ==
  {i \in DOMAIN s.rows :
     /\ s.rows[i].live
     /\ s.scope \in {"any", s.rows[i].scope}
     /\ s.admin \/ s.rows[i].scope = "GLOBAL" \/ s.rows[i].mine}

FirstOf(seq) == Cut(seq, MemoryLimit)

\* The proposed ones the user may read, nearest first.
ByVector(s) == FirstOf(Filter(s.hits, Readable(s)))

\* Those with the words, the most important first and, of those that tie, the newest;
\* a greater id stands for a later update.
Worded(s) == {i \in Readable(s) : s.rows[i].words}

MoreImportant(s) ==
  {pair \in Worded(s) \X Worded(s) :
     LET i == pair[1]  j == pair[2] IN
     \/ s.rows[i].importance > s.rows[j].importance
     \/ s.rows[i].importance = s.rows[j].importance /\ i > j}

ByWords(s) == FirstOf(Ranked(Worded(s), MoreImportant(s)))

Recalled(s) == IF ByVector(s) # <<>> THEN ByVector(s) ELSE ByWords(s)

\* toContextBlocks: a memory's priority grows with every fourth point of its
\* importance; this is the order of the plan, which keeps that of equals.
Weight(s, i) == s.rows[i].importance \div 4

Weighed(s) ==
  LET found == Recalled(s)
      places == 1 .. Len(found)
      order == Ranked(places, {pair \in places \X places :
        LET i == pair[1]  j == pair[2] IN
        \/ Weight(s, found[i]) > Weight(s, found[j])
        \/ Weight(s, found[i]) = Weight(s, found[j]) /\ i < j})
  IN  [k \in places |-> found[order[k]]]
=============================================================================
