------------------------------ MODULE Chunker ------------------------------
(***************************************************************************)
(* TextChunker (servers/file_processing/chunker.py): one text is cut into  *)
(* chunks, one pass of the loop at a time.                                 *)
(*                                                                         *)
(* The text is a sequence of units and a chunk a run of them.  Under       *)
(* "fixed" a unit is a character: a letter, a space or a line break.  Under *)
(* the other strategies it is a piece (a sentence, a paragraph, a section) *)
(* and known by its length; a piece of length 0 is blank.  Offsets count   *)
(* from 0, and the chunk [from, to) holds the units from .. to - 1; its    *)
(* size is the length of its text before strip() takes white space off.    *)
(*                                                                         *)
(* The size and the overlap come from the client, which may ask for a size *)
(* of 0 and for any overlap; negative sizes are left out.                  *)
(***************************************************************************)
EXTENDS Integers, Sequences, FiniteSets

CONSTANTS
  Sizes,       (* pairs of chunk_size and chunk_overlap                     *)
  CharTexts,   (* the texts cut by "fixed"                                  *)
  PieceTexts   (* the texts cut into pieces: their lengths                  *)

Chars == {"x", " ", "\n"}
Fixed == {"fixed", "unknown"}   \* any other name falls back to "fixed"
Grouping == {"sentence", "paragraph", "markdown"}

ASSUME ChunkerAssumption ==
  /\ Sizes \subseteq Nat \X Int
  /\ CharTexts \subseteq Seq(Chars) /\ PieceTexts \subseteq Seq(Nat)

VARIABLES
  chunkSize, overlap, strategy, text,
  pos,     (* fixed: where the next chunk begins; else: the next piece     *)
  first,   (* the first piece of current_sentences, current_paras, ...     *)
  size,    (* current_len                                                  *)
  chunks,  (* the chunks so far                                            *)
  turn,    (* history: flips with every pass of _chunk_fixed               *)
  done     (* the chunks have been returned                                *)

vars == <<chunkSize, overlap, strategy, text, pos, first, size, chunks, turn, done>>

At(i) == text[i + 1]
Blank(i) == IF strategy \in Fixed THEN At(i) \in {" ", "\n"} ELSE At(i) = 0
Holds(c, i) == c.from <= i /\ i < c.to

Init ==
  /\ \E s \in Sizes : chunkSize = s[1] /\ overlap = s[2]
  /\ \/ strategy \in Fixed /\ text \in CharTexts
     \/ strategy \in Grouping /\ text \in PieceTexts
  /\ pos = 0 /\ first = 0 /\ size = 0
  /\ chunks = <<>> /\ turn = FALSE /\ done = FALSE

Add(from, to, n) == Append(chunks, [from |-> from, to |-> to, size |-> n])

-----------------------------------------------------------------------------
(* _chunk_fixed                                                            *)

\* The chunk that begins at pos ends at end: a whole chunk further, or at its
\* last space when there is text left and the space is in the second half.
Cut(end) ==
  LET full == IF pos + chunkSize < Len(text) THEN pos + chunkSize ELSE Len(text)
      Space(s) == At(s) = " "
      LastSpace(s) == Space(s) /\ \A r \in s + 1 .. full - 1 : ~Space(r)
      cuts == {s \in pos .. full - 1 : LastSpace(s) /\ 2 * (s - pos) > chunkSize}
  IN  IF full < Len(text) /\ cuts # {} THEN end \in cuts ELSE end = full

\* Mutant: the overlap is taken back whenever it leads into the text.
AdvanceBack(end) == IF end - overlap < 0 THEN end ELSE end - overlap

\* Where the next chunk begins: overlap back, unless that is no progress.
Advance(end) == IF end - overlap <= pos THEN end ELSE end - overlap

FixedStep ==
  /\ strategy \in Fixed /\ pos < Len(text)
  /\ \E end \in pos .. Len(text) :
       /\ Cut(end)
       /\ chunks' = IF \A i \in pos .. end - 1 : Blank(i) THEN chunks ELSE Add(pos, end, end - pos)
       /\ pos' = Advance(end)
  /\ turn' = ~turn
  /\ UNCHANGED <<chunkSize, overlap, strategy, text, first, size, done>>

FixedReturn ==
  /\ strategy \in Fixed /\ pos >= Len(text) /\ ~done
  /\ done' = TRUE
  /\ UNCHANGED <<chunkSize, overlap, strategy, text, pos, first, size, chunks, turn>>

-----------------------------------------------------------------------------
(* _chunk_sentence, _chunk_paragraph, _chunk_markdown                      *)

\* Only sentences are kept when blank; paragraphs and sections are skipped.
Skipped(n) == strategy # "sentence" /\ n = 0

\* The pieces that a full group hands on to the next one: the last two
\* sentences, when it had more than one.
KeptFrom == IF strategy = "sentence" /\ pos - first > 1 THEN pos - 2 ELSE pos

KeptSize == IF KeptFrom = pos THEN 0 ELSE At(pos - 2) + At(pos - 1)

\* The length of the separators that join() puts between the pieces from .. to - 1,
\* which current_len does not count: a space, or an empty line.
Separators(from, to) ==
  LET pieces == {i \in from .. to - 1 : ~Skipped(At(i))} IN
  (IF strategy = "sentence" THEN 1 ELSE 2) * (Cardinality(pieces) - 1)

AddGroup == Add(first, pos, size + Separators(first, pos))

\* current_sentences (current_paras, current_sections) is not empty.
Current == IF strategy = "sentence" THEN first < pos ELSE size > 0

TakePiece ==
  LET n == At(pos) IN
  /\ strategy \in Grouping /\ pos < Len(text)
  /\ IF size + n > chunkSize /\ Current /\ ~Skipped(n)
     THEN /\ chunks' = IF size = 0 THEN chunks ELSE AddGroup
          /\ first' = KeptFrom
          /\ size' = KeptSize + n
     ELSE size' = size + n /\ UNCHANGED <<first, chunks>>
  /\ pos' = pos + 1
  /\ UNCHANGED <<chunkSize, overlap, strategy, text, turn, done>>

\* Mutant: only full groups become chunks.
GroupReturnFull ==
  /\ strategy \in Grouping /\ pos = Len(text) /\ ~done
  /\ done' = TRUE
  /\ UNCHANGED <<chunkSize, overlap, strategy, text, pos, first, size, chunks, turn>>

\* After the last piece the group that is left becomes a chunk.
GroupReturn ==
  /\ strategy \in Grouping /\ pos = Len(text) /\ ~done
  /\ chunks' = IF size = 0 THEN chunks ELSE AddGroup
  /\ done' = TRUE
  /\ UNCHANGED <<chunkSize, overlap, strategy, text, pos, first, size, turn>>

Next == FixedStep \/ FixedReturn \/ TakePiece \/ GroupReturn

Spec == Init /\ [][Next]_vars

-----------------------------------------------------------------------------
(* Properties                                                              *)

\* Type invariant.  A chunk is a run of units of the text.
TypeOK ==
  /\ chunkSize \in Nat /\ overlap \in Int
  /\ \/ strategy \in Fixed /\ text \in Seq(Chars)
     \/ strategy \in Grouping /\ text \in Seq(Nat)
  /\ pos \in Nat /\ first \in 0 .. pos /\ size \in Nat
  /\ turn \in BOOLEAN /\ done \in BOOLEAN
  /\ chunks \in Seq([from : Nat, to : Nat, size : Int])
  /\ \A c \in DOMAIN chunks : chunks[c].from < chunks[c].to /\ chunks[c].to <= Len(text)

\* What the loop is through with.
Handled == IF strategy \in Fixed \/ done THEN pos ELSE first

\* A negative overlap of "fixed" asks for gaps between the chunks.
Gapless == strategy \in Grouping \/ overlap >= 0

\* Unless gaps are asked for, nothing but white space is left out: every other
\* unit the loop is through with is in a chunk, at the end every one of the
\* text.  No chunk is white space only, and none begins before the one ahead of
\* it.  (chunk)
ChunksTile ==
  /\ Gapless =>
       \A i \in 0 .. Handled - 1 : Blank(i) \/ \E c \in DOMAIN chunks : Holds(chunks[c], i)
  /\ done => Handled >= Len(text) /\ (Gapless => Handled = Len(text))
  /\ \A c \in DOMAIN chunks : \E i \in chunks[c].from .. chunks[c].to - 1 : ~Blank(i)
  /\ \A c, d \in DOMAIN chunks : c < d => chunks[c].from <= chunks[d].from

\* The size of a chunk, but for the separators of a group, keeps to what was
\* asked for.  "fixed" has no exception, and a chunk reaches at most overlap into
\* the next; a group is larger only when one piece alone is, or two sentences
\* that were handed on and the next one.  (chunk)
ChunksBounded ==
  /\ strategy \in Fixed =>
       /\ \A c \in DOMAIN chunks : chunks[c].size <= chunkSize
       /\ \A c, d \in DOMAIN chunks : c < d => chunks[c].to - chunks[d].from <= overlap
  /\ strategy \in Grouping =>
       \A c \in DOMAIN chunks :
         LET from == chunks[c].from
             to == chunks[c].to
         IN  \/ chunks[c].size <= chunkSize + Separators(from, to)
             \/ strategy = "sentence" /\ to - from <= 3
             \/ /\ strategy \in {"paragraph", "markdown"}
                /\ \A i, j \in from .. to - 1 : Blank(i) \/ Blank(j) \/ i = j

\* Chunks of no size that overlap, or do not, leave the loop where it is.
Stalled == strategy \in Fixed /\ chunkSize = 0 /\ overlap >= 0 /\ text # <<>>

\* Every pass gets further in the text, so the loops end: an overlap as large as
\* the chunk, or a cut at a space, does not bring the position back.  Only when
\* "fixed" is asked for chunks of size 0 without gaps no pass ever does.  (chunk)
EachPassAdvances ==
  [][ IF Stalled THEN pos' = pos /\ ~done' ELSE pos' > pos \/ done' ]_vars
=============================================================================
