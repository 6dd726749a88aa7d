------------------------------ MODULE MCContextPlan ------------------------------
(***************************************************************************)
(* Instances of ContextPlan for TLC: a history of Count messages, each short*)
(* or long, the latest of the user's anywhere in it, a summary that may     *)
(* cover some of it, memories, a prompt and retrieved chunks or none.       *)
(***************************************************************************)
EXTENDS ContextPlan, TLC

CONSTANTS Count, Short, Long

Of(type, n, tokens) == [type |-> type, n |-> n, tokens |-> tokens, keep |-> FALSE]
Kept(block) == [block EXCEPT !.keep = TRUE]

Policy == Kept(Of("policy", 0, 3))

History(sizes, asked) ==
  {IF i = asked THEN Kept(Of("message", i, sizes[i])) ELSE Of("message", i, sizes[i]) :
     i \in 1 .. Count}

\* The question as its own block, where its text is not that of the message.
Question(tokens) == {Kept(Of("message", 0, tokens))}

NoSearch == [points |-> <<>>, hits |-> {}, rows |-> <<>>]

NoRecall == [hits |-> <<>>, rows |-> <<>>, admin |-> FALSE, scope |-> "any"]

Row(scope, mine, live, words, importance, tokens) ==
  [scope |-> scope, mine |-> mine, live |-> live, words |-> words,
   importance |-> importance, tokens |-> tokens]

TwoMemories ==
  [hits |-> <<2, 1>>, admin |-> FALSE, scope |-> "any",
   rows |-> <<Row("USER", TRUE, TRUE, FALSE, 8, 3), Row("GLOBAL", FALSE, TRUE, TRUE, 4, 2)>>]

\* Any history under any budget left by the other blocks; one chunk or none.
Histories ==
  {[blocks |-> {Policy} \cup summary \cup asking
                 \cup History(sizes, asked),
    prompt |-> prompt, upto |-> upto, recall |-> recall, search |-> search] :
     sizes \in [1 .. Count -> {Short, Long}],
     asked \in Count - 1 .. Count,
     upto \in {0, 1},
     summary \in {{}, {Of("summary", 0, 6)}},
     recall \in {NoRecall, TwoMemories},
     asking \in {{}, Question(Long)},
     prompt \in {{}, {Of("prompt", 0, 6)}, {Of("prompt", 0, 24)}},
     search \in {NoSearch, [points |-> 1 :> 60, hits |-> {}, rows |-> 1 :> 5],
                 [points |-> <<60, 70>>, hits |-> {}, rows |-> <<5, 5>>]}}

\* Any search over three chunks, one of which may be gone.
Searches ==
  {[blocks |-> {Policy, Kept(Of("message", 1, Long))}, prompt |-> {}, upto |-> 0,
    recall |-> NoRecall, search |-> [points |-> points, hits |-> hits, rows |-> rows]] :
     points \in UNION {[chunks -> {40, 50, 60, 70}] : chunks \in SUBSET (1 .. 3)},
     hits \in SUBSET (1 .. 3),
     rows \in {<<5, 5, 9>>, <<9, 5, 5>>, 2 :> 5 @@ 3 :> 9}}

\* Any recall of three memories, some proposed in some order: the user's, forgotten
\* or not, with the words or not; anybody's; and the conversation's of another.
Recalls ==
  {[blocks |-> {Policy, Kept(Of("message", 1, Long))}, prompt |-> {}, upto |-> 0,
    recall |-> [hits |-> hits, rows |-> <<first, second, third>>, admin |-> admin,
              scope |-> "any"],
    search |-> NoSearch] :
     hits \in {<<>>, <<1>>, <<4, 3>>, <<2, 1>>, <<3, 2, 1>>},
     first \in {Row("USER", TRUE, live, words, 5, 3) : live, words \in BOOLEAN},
     second \in {Row("GLOBAL", FALSE, TRUE, words, importance, 2) :
                   words \in BOOLEAN, importance \in {4, 9}},
     third \in {Row("CONVERSATION", FALSE, TRUE, words, 6, 2) : words \in BOOLEAN},
     admin \in BOOLEAN}

MCQuestions == Histories \cup Searches \cup Recalls
=============================================================================
