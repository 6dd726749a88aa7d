--------------------------- MODULE MCDocumentIngest ---------------------------
(***************************************************************************)
(* Instances of DocumentText for TLC: documents of three pages, one of which *)
(* is blank, that make two pieces, and every short text to be split.        *)
(***************************************************************************)
EXTENDS DocumentText

CONSTANT MaxLength                     \* bound: the length of texts

Text(kinds) == [i \in DOMAIN kinds |-> [at |-> i, is |-> kinds[i]]]

MCTexts == {Text(kinds) : kinds \in UNION {[1 .. n -> Kinds] : n \in 0 .. MaxLength}}

MCOptions == [size : {0, MinSize + 1, MinSize + 2}, overlap : {-1, 0, 1, MinSize + 2}]

MCDefault == [size |-> MinSize + 2, overlap |-> 1]

MCFile ==
  [d \in Docs |-> <<Text(<<"number", "letter">>), Text(<<"blank">>), Text(<<"letter", "stop">>)>>]

MCPieces == [d \in Docs |-> 2]

=============================================================================
