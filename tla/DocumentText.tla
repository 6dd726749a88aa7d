------------------------------ MODULE DocumentText ------------------------------
(***************************************************************************)
(* The files that DocumentIngest ingests and ChunkService splits: a file is *)
(* the texts of its pages, one for a format that knows no pages, and the    *)
(* pieces of a document are those of its pages, behind each other.          *)
(***************************************************************************)
EXTENDS DocumentIngest, Chunking

CONSTANTS
  Texts,         \* the texts that a page may have
  Asked,         \* the options that split may be given
  File,          \* the file of each document
  Default        \* the options when none are given, as by ingestDocument

PiecesOf(pages) == FlattenSeq([i \in DOMAIN pages |-> Split(pages[i], Default)])

ASSUME TextsAssumption == Texts \subseteq Readable
ASSUME AskedAssumption == \A options \in Asked : options.size \in Int /\ options.overlap \in Int
ASSUME FileAssumption ==
  /\ File \in [Docs -> Seq(Texts)] /\ Default \in Asked
  /\ Pieces = [d \in Docs |-> Len(PiecesOf(File[d]))]

\* The texts that are not held by their pieces.
Torn == {pair \in Texts \X Asked : ~Holds(Split(pair[1], pair[2]), pair[1], pair[2])}

\* The chunks of a ready document are the pieces of its file, each once and whatever
\* attempt made it; and the pieces of a text hold it: none of it is lost, none is
\* too long, neighbours overlap as they should (ChunkService.split).
ReadyHoldsText ==
  \A d \in Docs : doc[d].status = "ready" /\ d \notin touched =>
    /\ \A piece \in 0 .. Pieces[d] - 1 :
         Cardinality({c \in ChunksOf(d) : c.piece = piece}) = 1
    /\ Torn = {}
=============================================================================
