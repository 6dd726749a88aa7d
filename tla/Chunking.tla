-------------------------------- MODULE Chunking --------------------------------
(***************************************************************************)
(* ChunkService.split: a text is cut into paragraphs, short ones are put      *)
(* together, long ones are cut after sentences and, where a sentence is still *)
(* too long, into windows that overlap.                                      *)
(*                                                                         *)
(* A character is its place in the text and its kind: a blank, a newline, the *)
(* end of a sentence, the number that makes a line a heading, or any other.   *)
(* Newlines that split inserts are at no place.                              *)
(***************************************************************************)
EXTENDS Integers, Ranking, SequencesExt, FiniteSetsExt

CONSTANT MinSize                       \* no piece is asked to be shorter, 200

ASSUME MinSizeAssumption == MinSize \in Nat \ {0}

Kinds == {"letter", "stop", "number", "blank", "newline"}
Character == [at : Nat, is : Kinds]
Inserted == [at |-> 0, is |-> "newline"]

\* A text: its characters are where they are.
Readable == {s \in Seq(Character) : \A i \in DOMAIN s : s[i].at = i}

Blank(c) == c.is \in {"blank", "newline"}

\* trim
Trim(s) ==
  LET ink == {i \in DOMAIN s : ~Blank(s[i])} IN
  IF ink = {} THEN <<>> ELSE SubSeq(s, Min(ink), Max(ink))

\* s cut after the characters of these kinds, which end what they cut off.
CutAfter(s, kinds) ==
  LET step(cut, c) == IF c.is \in kinds
                      THEN [done |-> Append(cut.done, Append(cut.rest, c)), rest |-> <<>>]
                      ELSE [cut EXCEPT !.rest = Append(@, c)]
      all == FoldLeft(step, [done |-> <<>>, rest |-> <<>>], s)
  IN  Append(all.done, all.rest)

NonEmpty(pieces) == Filter(pieces, Range(pieces) \ {<<>>})

Joined(a, between, b) == IF a = <<>> THEN b ELSE a \o between \o b

\* Items put together, in their order, as long as they fit in size; an item that
\* does not fit is left whole.
Gathered(items, between, size) ==
  LET step(put, item) ==
        LET candidate == Joined(put.rest, between, item) IN
        IF Len(candidate) <= size
        THEN [put EXCEPT !.rest = candidate]
        ELSE [done |-> Append(put.done, put.rest), rest |-> item]
      all == FoldLeft(step, [done |-> <<>>, rest |-> <<>>], items)
  IN  NonEmpty(Append(all.done, all.rest))

IsHeading(line) == line[1].is = "number"

\* splitParagraphs: a blank line ends a paragraph, a heading begins one.
Paragraphs(s) ==
  LET lines == CutAfter(s, {"newline"})
      step(cut, line) ==
        LET text == Trim(line) IN
        CASE text = <<>>     -> [done |-> Append(cut.done, cut.rest), rest |-> <<>>]
          [] text # <<>> /\ IsHeading(text)
                             -> [done |-> Append(cut.done, cut.rest), rest |-> text]
          [] OTHER           -> [cut EXCEPT !.rest = Joined(@, <<Inserted>>, text)]
      all == FoldLeft(step, [done |-> <<>>, rest |-> <<>>], lines)
  IN  NonEmpty(Append(all.done, all.rest))

\* mergeParagraphs
MergeParagraphs(paragraphs, size) == Gathered(paragraphs, <<Inserted, Inserted>>, size)

\* Mutant: the overlap is taken off the length of a window.
WindowsApart(s, size, overlap) ==
  LET shared == Min({overlap, size - 1})
      count == 1 + Max({0, Len(s) - size + size - 1}) \div size
  IN  [k \in 1 .. count |->
         Trim(SubSeq(s, (k - 1) * size + 1, Min({k * size - shared, Len(s)})))]

\* splitByWindow: a window begins step characters after the one before; the
\* first that reaches the end is the last.
Windows(s, size, overlap) ==
  LET step == Max({size - Min({overlap, size - 1}), 1})
      count == 1 + (Max({0, Len(s) - size}) + step - 1) \div step
  IN  [k \in 1 .. count |->
         Trim(SubSeq(s, (k - 1) * step + 1, Min({(k - 1) * step + size, Len(s)})))]

\* splitLongBlock
SplitLongBlock(block, size, overlap) ==
  LET pieces == Gathered(CutAfter(block, {"stop", "newline"}), <<>>, size)
  IN  FlattenSeq([k \in DOMAIN pieces |->
        IF Len(pieces[k]) <= size THEN <<Trim(pieces[k])>>
                                  ELSE Windows(pieces[k], size, overlap)])

\* split; options are the size and the overlap asked for.
SizeOf(options) == Max({options.size, MinSize})

Split(text, options) ==
  LET size == SizeOf(options)
      overlap == Max({options.overlap, 0})
      blocks == MergeParagraphs(Paragraphs(Trim(text)), size)
  IN  NonEmpty(FlattenSeq([k \in DOMAIN blocks |->
        IF Len(blocks[k]) <= size THEN <<blocks[k]>>
                                  ELSE SplitLongBlock(blocks[k], size, overlap)]))

-----------------------------------------------------------------------------
(* What a splitting promises of a text.                                    *)

Places(s) == {s[i].at : i \in {j \in DOMAIN s : ~Blank(s[j])}}

\* Every piece fits and, but for blanks, is a stretch of the text without a gap;
\* the pieces come in the order of the text, hold all of it, and two neighbours
\* share no more than the overlap.
Holds(pieces, text, options) ==
  /\ UNION {Places(pieces[k]) : k \in DOMAIN pieces} = Places(text)
  /\ \A k \in DOMAIN pieces :
       /\ Len(pieces[k]) <= SizeOf(options)
       /\ pieces[k] = Trim(pieces[k]) /\ pieces[k] # <<>>
       /\ Places(pieces[k])
            = Places(text) \cap Min(Places(pieces[k])) .. Max(Places(pieces[k]))
       /\ k > 1 =>
            /\ Min(Places(pieces[k - 1])) <= Min(Places(pieces[k]))
            /\ Max(Places(pieces[k - 1])) <= Max(Places(pieces[k]))
            /\ Cardinality(Places(pieces[k - 1]) \cap Places(pieces[k]))
                 <= Max({options.overlap, 0})
=============================================================================
