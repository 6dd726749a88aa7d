------------------------------- MODULE Retrieval -------------------------------
(***************************************************************************)
(* RetrievalService.search: the chunks found by their vectors and those     *)
(* found by the words of the question are merged, filtered and cut to the   *)
(* best few, and their rows are read.                                      *)
(*                                                                         *)
(* A search is what its reads returned: points maps the chunks the vector   *)
(* store proposes to their scores, hits are those the keyword search        *)
(* returned, rows maps the chunks that still exist when they are read to    *)
(* the tokens of their blocks.  Scores are percent.  How keywords are made  *)
(* and matched is left out; chunks that tie are ordered by their ids, where *)
(* the code has the order of Qdrant's, or of the keyword search's answer.   *)
(***************************************************************************)
EXTENDS Ranking, SequencesExt, FiniteSetsExt

CONSTANT TopK                         \* RAG_TOP_K

ASSUME TopKAssumption == TopK \in Nat

Threshold == 55                       \* RAG_SCORE_THRESHOLD
HitBase   == 72                       \* RAG_KEYWORD_BASE_SCORE
Boost     == 12                       \* RAG_HYBRID_BOOST
AloneFrom == 68                       \* what a chunk without hit needs beside hits

\* mergeHybridScores.
Proposed(s) == DOMAIN s.points \cup s.hits

Score(s, c) ==
  CASE c \notin DOMAIN s.points -> HitBase
    [] c \in DOMAIN s.points \cap s.hits ->
         IF s.points[c] + Boost > 100 THEN 100 ELSE s.points[c] + Boost
    [] OTHER -> s.points[c]

Passing(s) == {c \in Proposed(s) : Score(s, c) >= Threshold}

\* Beside hits, chunks that only their vector proposes must be close.
Filtered(s) ==
  {c \in Passing(s) :
     Passing(s) \cap s.hits # {} => c \in s.hits \/ Score(s, c) >= AloneFrom}

\* The order of the sort, which is stable: vectors first in the map it sorts.
Ahead(s, c, d) ==
  \/ Score(s, c) > Score(s, d)
  \/ /\ Score(s, c) = Score(s, d)
     /\ \/ c \in DOMAIN s.points /\ d \notin DOMAIN s.points
        \/ (c \in DOMAIN s.points <=> d \in DOMAIN s.points) /\ c < d

\* The best few in that order.
Order(s) == {pair \in Filtered(s) \X Filtered(s) : Ahead(s, pair[1], pair[2])}

TopRanked(s) == Cut(Ranked(Filtered(s), Order(s)), TopK)

\* Mutant: in the order in which the rows are read.
FoundAsRead(s) == Ascending(ToSet(TopRanked(s)) \cap DOMAIN s.rows)

\* search: the best few, less those whose row is gone.
Found(s) == Filter(TopRanked(s), DOMAIN s.rows)
=============================================================================
