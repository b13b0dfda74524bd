--------------------------- MODULE ToolboxProofs ---------------------------
(***************************************************************************)
(* Proofs about the parts MCToolbox drives, one section for each, for every *)
(* value of their constants.  A theorem is about the specification of the  *)
(* part itself, not of the behaviours that drive one part at a time.       *)
(* Sections that share lemmas: induction and folds, which come before the  *)
(* servers whose code loops over a list.                                   *)
(***************************************************************************)
EXTENDS MCToolbox, SequenceTheorems, FiniteSetTheorems, FunctionTheorems, WellFoundedInduction, TLAPS

-----------------------------------------------------------------------------
(* Chunker: nothing is left out, chunks keep to their bounds               *)

Whites(from, to) == \A i \in from .. to - 1 : Blank(i)
OnePiece(from, to) == \A i, j \in from .. to - 1 : Blank(i) \/ Blank(j) \/ i = j

\* A size within the bounds of a group of the pieces from .. to - 1.
Fits(n, from, to) ==
  \/ n <= chunkSize
  \/ strategy = "sentence" /\ to - from <= 3
  \/ strategy \in {"paragraph", "markdown"} /\ OnePiece(from, to)

\* The size of a chunk: that of a group has the separators on top.
SizeOK(n, from, to) ==
  /\ strategy \in Fixed => n <= chunkSize
  /\ strategy \in Grouping => Fits(n - Separators(from, to), from, to)

\* What is known of one chunk.
ChunkOK(c) ==
  /\ c.from < c.to /\ c.to <= Len(text)
  /\ ~Whites(c.from, c.to)
  /\ SizeOK(c.size, c.from, c.to)
  /\ strategy \in Fixed => c.from < pos /\ c.to - pos <= overlap
  /\ strategy \in Grouping => c.from <= first

\* Of two chunks, the earlier and the later.
PairOK(c, d) ==
  /\ c.from <= d.from
  /\ strategy \in Fixed => c.to - d.from <= overlap

Covered == Gapless => \A i \in 0 .. Handled - 1 : Blank(i) \/ \E c \in DOMAIN chunks : Holds(chunks[c], i)

\* The inductive invariant: the chunks lie behind the position, which is in the
\* text unless there are gaps and at its beginning when the loop is stalled, and
\* the group in hand has the size that is counted for it.
IInv ==
  /\ TypeOK
  /\ Gapless => pos <= Len(text)
  /\ Stalled => pos = 0 /\ ~done
  /\ done => Handled >= Len(text)
  /\ Covered
  /\ \A c \in DOMAIN chunks : ChunkOK(chunks[c])
  /\ \A c, d \in DOMAIN chunks : c < d => PairOK(chunks[c], chunks[d])
  /\ strategy \in Grouping => /\ Fits(size, first, pos)
                              /\ size = 0 <=> Whites(first, pos)

-----------------------------------------------------------------------------
(* Facts about one step                                                    *)

Chunk == [from : Nat, to : Nat, size : Int]

\* A chunk that the step adds, unless it is white space only, is there with the
\* others after the step.
LEMMA Adding ==
  ASSUME chunks \in Seq(Chunk), NEW from \in Nat, NEW to \in Nat, NEW n \in Int, NEW white \in BOOLEAN,
         chunks' = IF white THEN chunks ELSE Add(from, to, n)
  PROVE  /\ chunks' \in Seq(Chunk)
         /\ DOMAIN chunks' = IF white THEN DOMAIN chunks ELSE DOMAIN chunks \cup {Len(chunks) + 1}
         /\ \A c \in DOMAIN chunks : c < Len(chunks) + 1 /\ chunks'[c] = chunks[c]
         /\ ~white => chunks'[Len(chunks) + 1] = [from |-> from, to |-> to, size |-> n]
<1>1. CASE white
  BY <1>1
<1>2. CASE ~white
  <2> DEFINE x == [from |-> from, to |-> to, size |-> n]
  <2>1. x \in Chunk /\ chunks' = Append(chunks, x)
    BY <1>2 DEF Add, Chunk
  <2> HIDE DEF x
  <2>2. /\ Append(chunks, x) \in Seq(Chunk)
        /\ DOMAIN Append(chunks, x) = DOMAIN chunks \cup {Len(chunks) + 1}
        /\ \A c \in DOMAIN chunks : c < Len(chunks) + 1 /\ Append(chunks, x)[c] = chunks[c]
        /\ Append(chunks, x)[Len(chunks) + 1] = x
    BY <2>1
  <2> QED  BY <1>2, <2>1, <2>2 DEF x
<1> QED  BY <1>1, <1>2

\* The text stays, and with it which units are blank.
LEMMA BlankStays ==
  ASSUME text' = text, strategy' = strategy
  PROVE  \A i : Blank(i)' <=> Blank(i)
  BY DEF Blank, At

\* How many separators there are between the pieces is a number, ...
LEMMA SeparatorsType ==
  ASSUME NEW from \in Nat, NEW to \in Nat
  PROVE  Separators(from, to) \in Int
<1> DEFINE pieces == {i \in from .. to - 1 : ~Skipped(At(i))}
<1>1. IsFiniteSet(from .. to - 1) /\ pieces \subseteq from .. to - 1
  BY FS_Interval
<1>2. Cardinality(pieces) \in Nat
  BY <1>1, FS_Subset, FS_CardinalityType
<1> HIDE DEF pieces
<1>3. (IF strategy = "sentence" THEN 1 ELSE 2) * (Cardinality(pieces) - 1) \in Int
  BY <1>2
<1> QED  BY <1>3 DEF Separators, pieces

\* ... and stays with the text.
LEMMA SizesStay ==
  ASSUME text' = text, strategy' = strategy, chunkSize' = chunkSize
  PROVE  \A n, a, b : SizeOK(n, a, b)' <=> SizeOK(n, a, b)
<1>1. \A i : (Blank(i)' <=> Blank(i)) /\ (Skipped(At(i))' <=> Skipped(At(i)))
  BY BlankStays DEF Skipped, At
<1>2. \A a, b : OnePiece(a, b)' <=> OnePiece(a, b)
  BY <1>1 DEF OnePiece
<1>3. ASSUME NEW a, NEW b
      PROVE  Separators(a, b)' = Separators(a, b)
  BY <1>1 DEF Separators
<1> QED  BY <1>2, <1>3 DEF SizeOK, Fits

\* What holds of the old chunks and of the one added holds of all; what was
\* covered stays so, and what the new chunk holds is covered.
LEMMA Extending ==
  ASSUME IInv, text' = text, strategy' = strategy, chunkSize' = chunkSize, overlap' = overlap,
         first' \in Nat, first <= first', pos' \in Nat, pos <= pos',
         NEW from \in Nat, NEW to \in Nat, NEW n \in Int,
         chunks' = IF Whites(from, to) THEN chunks ELSE Add(from, to, n),
         ~Whites(from, to) => /\ from < to /\ to <= Len(text) /\ SizeOK(n, from, to)
                              /\ strategy \in Fixed => from < pos' /\ to - pos' <= overlap
                              /\ strategy \in Grouping => from <= first',
         \A c \in DOMAIN chunks : PairOK(chunks[c], [from |-> from, to |-> to, size |-> n])
  PROVE  /\ chunks' \in Seq(Chunk)
         /\ \A c \in DOMAIN chunks' : ChunkOK(chunks[c])'
         /\ \A c, d \in DOMAIN chunks' : c < d => PairOK(chunks[c], chunks[d])'
         /\ \A i \in from .. to - 1 : Blank(i)' \/ \E c \in DOMAIN chunks' : Holds(chunks[c], i)'
         /\ Gapless =>
              \A i \in 0 .. Handled - 1 : Blank(i)' \/ \E c \in DOMAIN chunks' : Holds(chunks[c], i)'
<1>1. chunks \in Seq(Chunk)
  BY DEF IInv, TypeOK, Chunk
<1>2. Whites(from, to) \in BOOLEAN
  BY DEF Whites
<1> DEFINE x == [from |-> from, to |-> to, size |-> n]
<1>3. /\ chunks' \in Seq(Chunk)
      /\ DOMAIN chunks' = IF Whites(from, to) THEN DOMAIN chunks ELSE DOMAIN chunks \cup {Len(chunks) + 1}
      /\ \A c \in DOMAIN chunks : c < Len(chunks) + 1 /\ chunks'[c] = chunks[c]
      /\ ~Whites(from, to) => chunks'[Len(chunks) + 1] = x
  BY <1>1, <1>2, Adding, Zenon
<1>4. \A i : Blank(i)' <=> Blank(i)
  BY BlankStays
<1>5. /\ \A c \in DOMAIN chunks : ChunkOK(chunks[c])
      /\ \A c, d \in DOMAIN chunks : c < d => PairOK(chunks[c], chunks[d])
      /\ Covered /\ pos \in Nat /\ first \in Nat /\ Len(text) \in Nat
  BY DEF IInv, TypeOK
<1>6. \A c \in DOMAIN chunks : chunks[c] \in Chunk
  BY <1>1
<1>7. overlap \in Int
  BY DEF IInv, TypeOK
<1>8. ASSUME NEW c \in DOMAIN chunks'
      PROVE  ChunkOK(chunks[c])'
  <2>1. \/ c \in DOMAIN chunks /\ chunks'[c] = chunks[c]
        \/ c = Len(chunks) + 1 /\ ~Whites(from, to) /\ chunks'[c] = x
    BY <1>3
  <2>2. CASE c \in DOMAIN chunks /\ chunks'[c] = chunks[c]
    <3>1. /\ ChunkOK(chunks[c]) /\ chunks[c] \in Chunk
      BY <1>5, <1>6, <2>2
    <3>2. \A a, b : Whites(a, b)' <=> Whites(a, b)
      BY <1>4 DEF Whites
    <3>3. \A m, a, b : SizeOK(m, a, b)' <=> SizeOK(m, a, b)
      BY SizesStay
    <3> QED  BY <1>5, <1>7, <2>2, <3>1, <3>2, <3>3 DEF ChunkOK, Chunk
  <2>3. CASE c = Len(chunks) + 1 /\ ~Whites(from, to) /\ chunks'[c] = x
    <3>1. \A a, b : Whites(a, b)' <=> Whites(a, b)
      BY <1>4 DEF Whites
    <3>2. \A m, a, b : SizeOK(m, a, b)' <=> SizeOK(m, a, b)
      BY SizesStay
    <3> QED  BY <2>3, <3>1, <3>2 DEF ChunkOK
  <2> QED  BY <2>1, <2>2, <2>3
<1>9. ASSUME NEW c \in DOMAIN chunks', NEW d \in DOMAIN chunks', c < d
      PROVE  PairOK(chunks[c], chunks[d])'
  <2>1. c \in DOMAIN chunks /\ chunks'[c] = chunks[c]
    BY <1>1, <1>3, <1>9
  <2>2. CASE d \in DOMAIN chunks
    BY <1>3, <1>5, <1>9, <2>1, <2>2 DEF PairOK
  <2>3. CASE d \notin DOMAIN chunks
    <3>1. chunks'[d] = x /\ PairOK(chunks[c], x)
      BY <1>3, <2>1, <2>3
    <3> QED  BY <2>1, <3>1 DEF PairOK
  <2> QED  BY <2>2, <2>3
<1>10. ASSUME NEW i \in from .. to - 1
       PROVE  Blank(i)' \/ \E c \in DOMAIN chunks' : Holds(chunks[c], i)'
  <2>1. CASE Whites(from, to)
    BY <1>4, <2>1 DEF Whites
  <2>2. CASE ~Whites(from, to)
    <3>1. Len(chunks) + 1 \in DOMAIN chunks' /\ chunks'[Len(chunks) + 1] = x
      BY <1>3, <2>2
    <3>2. Holds(x, i)
      BY DEF Holds
    <3> QED  BY <3>1, <3>2 DEF Holds
  <2> QED  BY <2>1, <2>2
<1>11. ASSUME Gapless, NEW i \in 0 .. Handled - 1
       PROVE  Blank(i)' \/ \E c \in DOMAIN chunks' : Holds(chunks[c], i)'
  <2>1. Blank(i) \/ \E c \in DOMAIN chunks : Holds(chunks[c], i)
    BY <1>5, <1>11 DEF Covered
  <2>2. ASSUME NEW c \in DOMAIN chunks, Holds(chunks[c], i)
        PROVE  c \in DOMAIN chunks' /\ Holds(chunks[c], i)'
    BY <1>3, <2>2 DEF Holds
  <2> QED  BY <1>4, <2>1, <2>2
<1> QED  BY <1>3, <1>8, <1>9, <1>10, <1>11

-----------------------------------------------------------------------------
(* The initial states and the steps                                        *)

\* The invariant holds in the beginning.
LEMMA InitIInv == Init => IInv
<1> SUFFICES ASSUME Init PROVE IInv
  OBVIOUS
<1>1. TypeOK
  <2>1. \/ strategy \in Fixed /\ text \in Seq(Chars)
        \/ strategy \in Grouping /\ text \in Seq(Nat)
    BY ChunkerAssumption DEF Init
  <2>2. chunkSize \in Nat /\ overlap \in Int
    BY ChunkerAssumption DEF Init
  <2>3. turn = FALSE /\ chunks = <<>> /\ pos = 0 /\ first = 0 /\ size = 0 /\ done = FALSE
    BY DEF Init
  <2>4. /\ chunks \in Seq([from : Nat, to : Nat, size : Int])
        /\ \A c \in DOMAIN chunks : chunks[c].from < chunks[c].to /\ chunks[c].to <= Len(text)
    BY <2>3
  <2>5. pos \in Nat /\ first \in 0 .. pos /\ size \in Nat
    BY <2>3
  <2>6. turn \in BOOLEAN /\ done \in BOOLEAN
    BY <2>3
  <2> QED  BY <2>1, <2>2, <2>4, <2>5, <2>6 DEF TypeOK
<1>2. Handled = 0 /\ chunks = <<>> /\ ~done /\ pos = 0 /\ Len(text) \in Nat
  BY <1>1 DEF Init, Handled, TypeOK
<1>3. strategy \in Grouping => Fits(size, first, pos) /\ (size = 0 <=> Whites(first, pos))
  BY <1>1 DEF Init, Fits, Whites, TypeOK
<1> QED  BY <1>1, <1>2, <1>3 DEF IInv, Covered

\* What _chunk_fixed cuts off keeps to the size, and is empty for size 0 only.
LEMMA CutFits ==
  ASSUME TypeOK, pos < Len(text), NEW end \in pos .. Len(text), Cut(end)
  PROVE  end - pos <= chunkSize /\ (chunkSize # 0 => pos < end)
<1> DEFINE full == IF pos + chunkSize < Len(text) THEN pos + chunkSize ELSE Len(text)
        cuts == {s \in pos .. full - 1 :
                   /\ At(s) = " " /\ \A r \in s + 1 .. full - 1 : ~(At(r) = " ")
                   /\ 2 * (s - pos) > chunkSize}
<1>1. end = full \/ end \in cuts
  BY DEF Cut
<1>2. pos \in Nat /\ Len(text) \in Nat
  BY DEF TypeOK
<1>3. chunkSize \in Nat
  BY DEF TypeOK
<1>4. full \in Nat /\ full <= pos + chunkSize /\ (chunkSize # 0 => pos < full)
  BY <1>2, <1>3
<1>5. end <= full
  <2>1. CASE end \in cuts
    <3>1. end \in pos .. full - 1
      BY <2>1
    <3> HIDE DEF full, cuts
    <3> QED  BY <1>2, <1>4, <3>1
  <2>2. CASE end = full
    <3> HIDE DEF full, cuts
    <3> QED  BY <1>4, <2>2
  <2> QED  BY <1>1, <2>1, <2>2
<1>6. chunkSize # 0 => pos < end
  <2>1. CASE end \in cuts
    <3>1. end \in pos .. full - 1 /\ 2 * (end - pos) > chunkSize
      BY <2>1
    <3> HIDE DEF full, cuts
    <3> QED  BY <1>2, <1>3, <1>4, <3>1
  <2>2. CASE end = full
    <3> HIDE DEF full, cuts
    <3> QED  BY <1>4, <2>2
  <2> QED  BY <1>1, <2>1, <2>2
<1> HIDE DEF full, cuts
<1> QED  BY <1>2, <1>3, <1>4, <1>5, <1>6

\* A pass of the fixed strategy keeps it.
LEMMA FixedKeeps ==
  ASSUME IInv, FixedStep
  PROVE  IInv' /\ IF Stalled THEN pos' = pos /\ ~done' ELSE pos' > pos
<1>1. PICK end \in pos .. Len(text) :
        /\ Cut(end)
        /\ chunks' = IF Whites(pos, end) THEN chunks ELSE Add(pos, end, end - pos)
        /\ pos' = Advance(end)
  BY DEF FixedStep, Whites
<1>2. /\ strategy \in Fixed /\ strategy \notin Grouping /\ pos < Len(text)
      /\ UNCHANGED <<chunkSize, overlap, strategy, text, first, size, done>> /\ turn' = ~turn
  BY DEF FixedStep, Fixed, Grouping
<1>3. /\ TypeOK /\ pos \in Nat /\ end \in Nat /\ Len(text) \in Nat /\ first \in 0 .. pos
      /\ overlap \in Int /\ chunkSize \in Nat
  BY DEF IInv, TypeOK
<1>4. /\ end - pos \in Nat /\ end - pos <= chunkSize /\ pos <= end /\ end <= Len(text)
      /\ chunkSize # 0 => pos < end
  BY <1>1, <1>2, <1>3, CutFits
<1>5. /\ pos' \in Nat /\ pos <= pos' /\ (pos < end => pos < pos')
      /\ overlap < 0 => pos < pos'
      /\ chunkSize = 0 /\ overlap >= 0 => pos' = pos
      /\ overlap >= 0 => pos' <= end
      /\ pos < end => end - pos' <= overlap
  BY <1>1, <1>3, <1>4 DEF Advance
<1>6. \A c \in DOMAIN chunks : PairOK(chunks[c], [from |-> pos, to |-> end, size |-> end - pos])
  <2>1. \A c \in DOMAIN chunks : chunks[c] \in Chunk /\ chunks[c].from < pos /\ chunks[c].to - pos <= overlap
    <3>1. chunks \in Seq(Chunk) /\ \A c \in DOMAIN chunks : ChunkOK(chunks[c])
      BY DEF IInv, TypeOK, Chunk
    <3> QED  BY <1>2, <3>1 DEF ChunkOK
  <2> QED  BY <1>3, <2>1 DEF PairOK, Chunk
<1>7. SizeOK(end - pos, pos, end) /\ (~Whites(pos, end) => pos < end)
  BY <1>2, <1>3, <1>4 DEF SizeOK, Whites
<1>8. /\ chunks' \in Seq(Chunk)
      /\ \A c \in DOMAIN chunks' : ChunkOK(chunks[c])'
      /\ \A c, d \in DOMAIN chunks' : c < d => PairOK(chunks[c], chunks[d])'
      /\ \A i \in pos .. end - 1 : Blank(i)' \/ \E c \in DOMAIN chunks' : Holds(chunks[c], i)'
      /\ Gapless =>
           \A i \in 0 .. Handled - 1 : Blank(i)' \/ \E c \in DOMAIN chunks' : Holds(chunks[c], i)'
  <2>1. first' \in Nat /\ first <= first' /\ pos <= pos'
    BY <1>2, <1>3, <1>5
  <2> QED  BY <1>1, <1>2, <1>3, <1>4, <1>5, <1>6, <1>7, <2>1, Extending
<1>9. Handled = pos /\ Handled' = pos'
  BY <1>2 DEF Handled
<1>10. /\ (Gapless' <=> Gapless) /\ (Gapless <=> overlap >= 0)
       /\ (Stalled' <=> Stalled) /\ (Stalled <=> chunkSize = 0 /\ overlap >= 0)
  BY <1>2, <1>3 DEF Gapless, Stalled
<1>11. Covered'
  <2> SUFFICES ASSUME Gapless PROVE Covered'
    BY <1>10 DEF Covered
  <2>1. \A p, q, e \in Nat : q <= e => \A i \in 0 .. q - 1 : i \in 0 .. p - 1 \/ i \in p .. e - 1
    OBVIOUS
  <2>2. \A i \in 0 .. pos' - 1 : i \in 0 .. pos - 1 \/ i \in pos .. end - 1
    <3>1. pos' <= end
      BY <1>5, <1>10
    <3> QED  BY <1>3, <1>5, <2>1, <3>1, Zenon
  <2> QED  BY <1>8, <1>9, <2>2 DEF Covered
<1>12. TypeOK'
  <2>1. pos' \in Nat /\ first' \in 0 .. pos'
    BY <1>2, <1>3, <1>5
  <2>2. \A c \in DOMAIN chunks' : chunks'[c].from < chunks'[c].to /\ chunks'[c].to <= Len(text')
    BY <1>8 DEF ChunkOK
  <2>3. turn' \in BOOLEAN
    BY <1>2
  <2> QED  BY <1>2, <1>3, <1>8, <2>1, <2>2, <2>3 DEF TypeOK, Chunk
<1>13. ~done /\ ~done' /\ (Stalled => pos = 0)
  BY <1>2, <1>3, <1>9 DEF IInv
<1>14. (Gapless => pos <= Len(text))' /\ (Stalled => pos = 0 /\ ~done)'
  BY <1>2, <1>3, <1>4, <1>5, <1>10, <1>13
<1>15. IF Stalled THEN pos' = pos /\ ~done' ELSE pos' > pos
  BY <1>3, <1>4, <1>5, <1>10, <1>13
<1> QED  BY <1>2, <1>8, <1>11, <1>12, <1>13, <1>14, <1>15 DEF IInv

\* Intervals, cut in two.
LEMMA Halves ==
  \A p, q, e \in Nat : q <= e => \A i \in 0 .. q - 1 : i \in 0 .. p - 1 \/ i \in p .. e - 1
  OBVIOUS

\* A group that is closed at pos, and the next one begun at KeptFrom.
LEMMA GroupCloses ==
  ASSUME IInv, strategy \in Grouping, ~done, UNCHANGED <<chunkSize, overlap, strategy, text>>,
         first' \in Nat, first <= first', first' <= pos, pos' \in Nat, pos <= pos',
         chunks' = IF size = 0 THEN chunks ELSE AddGroup
  PROVE  /\ chunks' \in Seq(Chunk)
         /\ \A c \in DOMAIN chunks' : ChunkOK(chunks[c])'
         /\ \A c, d \in DOMAIN chunks' : c < d => PairOK(chunks[c], chunks[d])'
         /\ \A i \in 0 .. pos - 1 : Blank(i)' \/ \E c \in DOMAIN chunks' : Holds(chunks[c], i)'
<1>1. strategy \notin Fixed /\ Gapless
  BY DEF Fixed, Grouping, Gapless
<1>2. /\ pos \in Nat /\ pos <= Len(text) /\ first \in Nat /\ first <= pos /\ size \in Nat
      /\ Len(text) \in Nat /\ chunks \in Seq(Chunk)
  BY <1>1 DEF IInv, TypeOK, Chunk
<1>3. Fits(size, first, pos) /\ (size = 0 <=> Whites(first, pos))
  BY DEF IInv
<1> DEFINE n == size + Separators(first, pos)
<1>10. Separators(first, pos) \in Int /\ n \in Int /\ n - Separators(first, pos) = size
  <2>1. Separators(first, pos) \in Int
    BY <1>2, SeparatorsType
  <2>2. \A s \in Int : size + s \in Int /\ size + s - s = size
    BY <1>2
  <2> QED  BY <2>1, <2>2
<1>4. chunks' = IF Whites(first, pos) THEN chunks ELSE Add(first, pos, n)
  BY <1>3 DEF AddGroup
<1>11. SizeOK(n, first, pos)
  BY <1>1, <1>3, <1>10 DEF SizeOK
<1> HIDE DEF n
<1>5. ~Whites(first, pos) => first < pos
  BY <1>2 DEF Whites
<1>6. \A c \in DOMAIN chunks : PairOK(chunks[c], [from |-> first, to |-> pos, size |-> n])
  <2>1. \A c \in DOMAIN chunks : chunks[c] \in Chunk /\ chunks[c].from <= first
    <3>1. \A c \in DOMAIN chunks : ChunkOK(chunks[c])
      BY DEF IInv
    <3> QED  BY <1>2, <3>1 DEF ChunkOK
  <2> QED  BY <1>1, <2>1 DEF PairOK
<1>7. /\ chunks' \in Seq(Chunk)
      /\ \A c \in DOMAIN chunks' : ChunkOK(chunks[c])'
      /\ \A c, d \in DOMAIN chunks' : c < d => PairOK(chunks[c], chunks[d])'
      /\ \A i \in first .. pos - 1 : Blank(i)' \/ \E c \in DOMAIN chunks' : Holds(chunks[c], i)'
      /\ \A i \in 0 .. Handled - 1 : Blank(i)' \/ \E c \in DOMAIN chunks' : Holds(chunks[c], i)'
  BY <1>1, <1>2, <1>4, <1>5, <1>6, <1>10, <1>11, Extending
<1>8. Handled = first
  BY <1>1 DEF Handled
<1>9. \A i \in 0 .. pos - 1 : i \in 0 .. first - 1 \/ i \in first .. pos - 1
  BY <1>2, Halves
<1> QED  BY <1>7, <1>8, <1>9

\* The type invariant after a step, from what the step does.
LEMMA Typing ==
  ASSUME IInv, UNCHANGED <<chunkSize, overlap, strategy, text, turn>>, pos' \in Nat, first' \in 0 .. pos', size' \in Nat,
         done' \in BOOLEAN, chunks' \in Seq(Chunk), \A c \in DOMAIN chunks' : ChunkOK(chunks[c])'
  PROVE  TypeOK'
<1>1. \A c \in DOMAIN chunks' : chunks'[c].from < chunks'[c].to /\ chunks'[c].to <= Len(text')
  BY DEF ChunkOK
<1> QED  BY <1>1 DEF IInv, TypeOK, Chunk

\* Taking a piece keeps it.
LEMMA TakeKeeps ==
  ASSUME IInv, TakePiece
  PROVE  IInv' /\ pos' > pos
<1> DEFINE n == At(pos)
           closes == size + n > chunkSize /\ Current /\ ~Skipped(n)
<1>1. /\ strategy \in Grouping /\ strategy \notin Fixed /\ strategy' \in Grouping /\ strategy' \notin Fixed
      /\ UNCHANGED <<chunkSize, overlap, strategy, text, turn, done>> /\ pos < Len(text) /\ pos' = pos + 1
      /\ ~Stalled /\ ~Stalled'
  BY DEF TakePiece, Fixed, Grouping, Stalled
<1>2. /\ pos \in Nat /\ first \in Nat /\ first <= pos /\ size \in Nat /\ Len(text) \in Nat /\ chunks \in Seq(Chunk)
      /\ text \in Seq(Nat) /\ chunkSize \in Nat /\ pos' <= Len(text)
  BY <1>1 DEF IInv, TypeOK, Chunk
<1>3. \A i \in 0 .. pos : At(i) \in Nat
  BY <1>1, <1>2 DEF At
<1>4. ~done
  <2>1. done => Handled = pos
    BY DEF Handled
  <2> QED  BY <1>1, <1>2, <2>1 DEF IInv
<1>5. Handled = first /\ Handled' = first'
  BY <1>1, <1>4 DEF Handled
<1>6. /\ \A i : Blank(i) <=> At(i) = 0
      /\ \A i : Blank(i)' <=> At(i) = 0
  BY <1>1 DEF Blank, At
<1>7. /\ Fits(size, first, pos)
      /\ size = 0 <=> Whites(first, pos)
      /\ \A c \in DOMAIN chunks : ChunkOK(chunks[c])
  BY <1>1 DEF IInv
<1>8. CASE closes
  <2>1. /\ chunks' = IF size = 0 THEN chunks ELSE AddGroup
        /\ first' = KeptFrom /\ size' = KeptSize + n
    BY <1>8 DEF TakePiece
  <2>2. /\ first' \in Nat /\ first <= first' /\ first' <= pos
        /\ first' = pos \/ (strategy = "sentence" /\ first' = pos - 2 /\ 2 <= pos)
    BY <1>2, <2>1 DEF KeptFrom
  <2>3. /\ chunks' \in Seq(Chunk)
        /\ \A c \in DOMAIN chunks' : ChunkOK(chunks[c])'
        /\ \A c, d \in DOMAIN chunks' : c < d => PairOK(chunks[c], chunks[d])'
        /\ \A i \in 0 .. pos - 1 : Blank(i)' \/ \E c \in DOMAIN chunks' : Holds(chunks[c], i)'
    BY <1>1, <1>2, <1>4, <2>1, <2>2, GroupCloses
  <2>4. size' \in Nat /\ (size' = 0 <=> \A i \in first' .. pos : At(i) = 0)
    <3>1. CASE first' = pos
      <4>1. KeptSize = 0
        BY <2>1, <3>1 DEF KeptSize
      <4> QED  BY <1>2, <1>3, <2>1, <3>1, <4>1
    <3>2. CASE first' = pos - 2 /\ 2 <= pos
      <4>1. KeptSize = At(pos - 2) + At(pos - 1)
        BY <1>2, <2>1, <3>2 DEF KeptSize
      <4>2. At(pos - 2) \in Nat /\ At(pos - 1) \in Nat /\ n \in Nat
        BY <1>2, <1>3, <3>2
      <4>3. \A i \in first' .. pos : i = pos - 2 \/ i = pos - 1 \/ i = pos
        BY <1>2, <3>2
      <4>4. {pos - 2, pos - 1, pos} \subseteq first' .. pos
        BY <1>2, <3>2
      <4> HIDE DEF n
      <4>5. size' = At(pos - 2) + At(pos - 1) + n
        BY <2>1, <4>1
      <4>6. size' = 0 <=> At(pos - 2) = 0 /\ At(pos - 1) = 0 /\ n = 0
        BY <4>2, <4>5
      <4>7. (\A i \in first' .. pos : At(i) = 0) <=> At(pos - 2) = 0 /\ At(pos - 1) = 0 /\ At(pos) = 0
        BY <4>3, <4>4
      <4>8. size' \in Nat
        BY <4>2, <4>5
      <4> QED  BY <4>6, <4>7, <4>8 DEF n
    <3> QED  BY <2>2, <3>1, <3>2
  <2>5. Fits(size, first, pos)'
    <3>1. CASE strategy = "sentence"
      <4>1. pos' - first' <= 3
        <5>1. CASE first' = pos
          BY <1>1, <1>2, <5>1
        <5>2. CASE first' = pos - 2
          BY <1>1, <1>2, <5>2
        <5> QED  BY <2>2, <5>1, <5>2
      <4> QED  BY <1>1, <3>1, <4>1 DEF Fits
    <3>2. CASE strategy # "sentence"
      <4>1. strategy' \in {"paragraph", "markdown"} /\ first' = pos
        BY <1>1, <2>2, <3>2 DEF Grouping
      <4>2. OnePiece(first, pos)'
        BY <1>1, <1>2, <4>1 DEF OnePiece
      <4> QED  BY <4>1, <4>2 DEF Fits
    <3> QED  BY <3>1, <3>2
  <2>6. (size = 0 <=> Whites(first, pos))'
    BY <1>1, <1>2, <1>6, <2>4 DEF Whites
  <2>7. Covered'
    <3>1. \A p, q \in Nat : q <= p => \A i \in 0 .. q - 1 : i \in 0 .. p - 1
      OBVIOUS
    <3>2. \A i \in 0 .. first' - 1 : i \in 0 .. pos - 1
      BY <1>2, <2>2, <3>1, Zenon
    <3> QED  BY <1>5, <2>3, <3>2 DEF Covered
  <2>8. TypeOK'
    <3>1. pos' \in Nat /\ first' \in 0 .. pos'
      BY <1>1, <1>2, <2>2
    <3>2. done' \in BOOLEAN
      BY <1>1 DEF IInv, TypeOK
    <3> QED  BY <1>1, <2>3, <2>4, <3>1, <3>2, Typing
  <2> QED  BY <1>1, <1>2, <1>4, <2>3, <2>5, <2>6, <2>7, <2>8 DEF IInv
<1>9. CASE ~closes
  <2>1. UNCHANGED <<first, chunks>> /\ size' = size + n
    BY <1>9 DEF TakePiece
  <2>2. n \in Nat
    BY <1>2, <1>3
  <2>3. /\ \A c \in DOMAIN chunks' : ChunkOK(chunks[c])'
        /\ \A c, d \in DOMAIN chunks' : c < d => PairOK(chunks[c], chunks[d])'
        /\ Covered'
    <3>1. \A i : Blank(i)' <=> Blank(i)
      BY <1>6
    <3>2. /\ \A a, b : Whites(a, b)' <=> Whites(a, b)
          /\ \A m, a, b : SizeOK(m, a, b)' <=> SizeOK(m, a, b)
      BY <1>1, <3>1, SizesStay DEF Whites
    <3>3. \A c \in DOMAIN chunks' : ChunkOK(chunks[c])'
      BY <1>1, <1>7, <2>1, <3>2 DEF ChunkOK
    <3>4. \A c, d \in DOMAIN chunks' : c < d => PairOK(chunks[c], chunks[d])'
      BY <1>1, <2>1 DEF IInv, PairOK
    <3>5. Covered'
      BY <1>1, <1>5, <2>1, <3>1 DEF IInv, Covered, Holds, Gapless
    <3> QED  BY <3>3, <3>4, <3>5
  <2>4. size' \in Nat /\ (size' = 0 <=> size = 0 /\ At(pos) = 0)
    BY <1>2, <2>1, <2>2
  <2>5. \A i \in first .. pos : i \in first .. pos - 1 \/ i = pos
    BY <1>2
  <2>6. (size = 0 <=> Whites(first, pos))'
    <3>1. Whites(first, pos)' <=> \A i \in first .. pos : At(i) = 0
      BY <1>1, <1>2, <1>6, <2>1 DEF Whites
    <3>2. Whites(first, pos) <=> \A i \in first .. pos - 1 : At(i) = 0
      BY <1>6 DEF Whites
    <3>3. pos \in first .. pos /\ first .. pos - 1 \subseteq first .. pos
      BY <1>2
    <3> QED  BY <1>7, <2>4, <2>5, <3>1, <3>2, <3>3
  <2>7. Fits(size, first, pos)'
    <3>1. CASE size + n <= chunkSize
      BY <1>1, <2>1, <3>1 DEF Fits
    <3>2. CASE ~(size + n <= chunkSize) /\ strategy = "sentence"
      <4>1. ~Current
        BY <1>2, <1>9, <2>2, <3>2 DEF Skipped
      <4>2. first = pos
        BY <1>2, <3>2, <4>1 DEF Current
      <4> QED  BY <1>1, <1>2, <2>1, <3>2, <4>2 DEF Fits
    <3>3. CASE ~(size + n <= chunkSize) /\ strategy # "sentence"
      <4>1. ~Current \/ Skipped(n)
        BY <1>2, <1>9, <2>2, <3>3
      <4>2. strategy \in {"paragraph", "markdown"} /\ strategy' \in {"paragraph", "markdown"}
        BY <1>1, <3>3 DEF Grouping
      <4>3. OnePiece(first, pos)' <=> \A i, j \in first .. pos : At(i) = 0 \/ At(j) = 0 \/ i = j
        BY <1>1, <1>2, <1>6, <2>1 DEF OnePiece
      <4>4. CASE size = 0
        <5>1. \A i \in first .. pos - 1 : At(i) = 0
          BY <1>6, <1>7, <4>4 DEF Whites
        <5> QED  BY <2>5, <4>2, <4>3, <5>1 DEF Fits
      <4>5. CASE n = 0
        <5>1. \/ size <= chunkSize
              \/ \A i, j \in first .. pos - 1 : At(i) = 0 \/ At(j) = 0 \/ i = j
          BY <1>6, <1>7, <3>3 DEF Fits, OnePiece
        <5>2. ~(size <= chunkSize)
          BY <1>2, <3>3, <4>5
        <5> QED  BY <2>5, <4>2, <4>3, <4>5, <5>1, <5>2 DEF Fits
      <4>6. size = 0 \/ n = 0
        BY <1>2, <3>3, <4>1 DEF Current, Skipped
      <4> QED  BY <4>4, <4>5, <4>6
    <3> QED  BY <3>1, <3>2, <3>3
  <2>8. TypeOK'
    <3>1. pos' \in Nat /\ first' \in 0 .. pos' /\ chunks' \in Seq(Chunk)
      BY <1>1, <1>2, <2>1
    <3>2. done' \in BOOLEAN
      BY <1>1 DEF IInv, TypeOK
    <3> QED  BY <1>1, <2>3, <2>4, <3>1, <3>2, Typing
  <2> QED  BY <1>1, <1>2, <1>4, <2>3, <2>6, <2>7, <2>8 DEF IInv
<1> QED  BY <1>8, <1>9

\* The last chunk of pieces keeps it.
LEMMA GroupReturnKeeps ==
  ASSUME IInv, GroupReturn
  PROVE  IInv'
<1>1. /\ strategy \in Grouping /\ strategy \notin Fixed /\ ~done /\ done' /\ pos = Len(text)
      /\ UNCHANGED <<chunkSize, overlap, strategy, text, pos, first, size, turn>> /\ ~Stalled'
      /\ chunks' = IF size = 0 THEN chunks ELSE AddGroup
  BY DEF GroupReturn, Fixed, Grouping, Stalled
<1>2. /\ pos \in Nat /\ first \in Nat /\ first <= pos /\ size \in Nat
  BY DEF IInv, TypeOK
<1>3. /\ chunks' \in Seq(Chunk)
      /\ \A c \in DOMAIN chunks' : ChunkOK(chunks[c])'
      /\ \A c, d \in DOMAIN chunks' : c < d => PairOK(chunks[c], chunks[d])'
      /\ \A i \in 0 .. pos - 1 : Blank(i)' \/ \E c \in DOMAIN chunks' : Holds(chunks[c], i)'
  BY <1>1, <1>2, GroupCloses
<1>4. Handled' = pos
  BY <1>1 DEF Handled
<1>5. Covered' /\ Handled' = Len(text')
  BY <1>1, <1>3, <1>4 DEF Covered
<1>6. (Fits(size, first, pos) /\ (size = 0 <=> Whites(first, pos)))'
  BY <1>1 DEF IInv, Fits, Whites, OnePiece, Blank, At
<1>7. TypeOK'
  <2>1. pos' \in Nat /\ first' \in 0 .. pos' /\ size' \in Nat
    BY <1>1, <1>2
  <2>2. done' \in BOOLEAN
    BY DEF GroupReturn
  <2> QED  BY <1>1, <1>3, <2>1, <2>2, Typing
<1> QED  BY <1>1, <1>3, <1>5, <1>6, <1>7 DEF IInv

\* The end of the fixed strategy keeps it.
LEMMA FixedReturnKeeps ==
  ASSUME IInv, FixedReturn
  PROVE  IInv'
<1>1. /\ strategy \in Fixed /\ strategy' \notin Grouping /\ pos >= Len(text)
      /\ UNCHANGED <<chunkSize, overlap, strategy, text, pos, first, size, chunks, turn>>
  BY DEF FixedReturn, Fixed, Grouping
<1>2. pos \in Nat /\ Len(text) \in Nat
  BY DEF IInv, TypeOK
<1>3. Handled = pos /\ Handled' = pos /\ (Gapless' <=> Gapless)
  BY <1>1 DEF Handled, Gapless
<1>8. ~Stalled'
  <2>1. Stalled' <=> Stalled
    BY <1>1 DEF Stalled
  <2>2. Stalled => pos = 0 /\ Len(text) # 0
    BY DEF Stalled, IInv, TypeOK
  <2> QED  BY <1>1, <1>2, <2>1, <2>2
<1>4. \A i : Blank(i)' <=> Blank(i)
  BY <1>1, BlankStays
<1>5. Covered'
  BY <1>1, <1>3, <1>4 DEF IInv, Covered, Holds
<1>6. /\ \A c \in DOMAIN chunks' : ChunkOK(chunks[c])'
      /\ \A c, d \in DOMAIN chunks' : c < d => PairOK(chunks[c], chunks[d])'
  <2>1. /\ \A a, b : Whites(a, b)' <=> Whites(a, b)
        /\ \A n, a, b : SizeOK(n, a, b)' <=> SizeOK(n, a, b)
    BY <1>1, <1>4, SizesStay DEF Whites
  <2> QED  BY <1>1, <2>1 DEF IInv, ChunkOK, PairOK
<1>7. TypeOK'
  <2>1. done' \in BOOLEAN
    BY DEF FixedReturn
  <2> QED  BY <1>1, <2>1 DEF IInv, TypeOK
<1> QED  BY <1>1, <1>3, <1>5, <1>6, <1>7, <1>8 DEF IInv

\* Standing still keeps it.
LEMMA Stuttering ==
  ASSUME IInv, UNCHANGED vars
  PROVE  IInv'
<1>1. UNCHANGED <<chunkSize, overlap, strategy, text, pos, first, size, chunks, turn, done>>
  BY DEF vars
<1>2. \A i : Blank(i)' <=> Blank(i)
  BY <1>1, BlankStays
<1>3. TypeOK'
  BY <1>1 DEF IInv, TypeOK
<1>4. Handled' = Handled /\ (Gapless' <=> Gapless) /\ (Stalled' <=> Stalled)
  BY <1>1 DEF Handled, Gapless, Stalled
<1>5. /\ (done => Handled >= Len(text))' /\ Covered'
      /\ (Gapless => pos <= Len(text))' /\ (Stalled => pos = 0 /\ ~done)'
  BY <1>1, <1>2, <1>4 DEF IInv, Covered, Holds
<1>6. \A a, b, n : /\ Whites(a, b)' <=> Whites(a, b)
                   /\ Fits(n, a, b)' <=> Fits(n, a, b)
                   /\ SizeOK(n, a, b)' <=> SizeOK(n, a, b)
  BY <1>1, <1>2, SizesStay DEF Whites, OnePiece, Fits
<1>7. /\ \A c \in DOMAIN chunks' : ChunkOK(chunks[c])'
      /\ \A c, d \in DOMAIN chunks' : c < d => PairOK(chunks[c], chunks[d])'
  BY <1>1, <1>6 DEF IInv, ChunkOK, PairOK
<1>8. (strategy \in Grouping => Fits(size, first, pos) /\ (size = 0 <=> Whites(first, pos)))'
  BY <1>1, <1>6 DEF IInv
<1> QED  BY <1>3, <1>5, <1>7, <1>8 DEF IInv

\* Every step keeps it.
LEMMA NextKeeps == IInv /\ [Next]_vars => IInv'
  BY FixedKeeps, FixedReturnKeeps, TakeKeeps, GroupReturnKeeps, Stuttering DEF Next

\* IInv holds in every state.
LEMMA Invariance == Spec => []IInv
  BY InitIInv, NextKeeps, PTL DEF Spec

-----------------------------------------------------------------------------
(* The theorems                                                            *)

\* Every chunk is a run of units of the text, whatever the chunk size from 0, the
\* overlap and the text are.
THEOREM TypeCorrect == Spec => []TypeOK
<1>1. IInv => TypeOK
  BY DEF IInv
<1> QED  BY <1>1, Invariance, PTL

\* The chunks leave nothing but white space out, unless a negative overlap asks
\* for gaps, and come in order.
THEOREM Tiling == Spec => []ChunksTile
<1>1. IInv => ChunksTile
  <2> SUFFICES ASSUME IInv PROVE ChunksTile
    OBVIOUS
  <2>1. done => Handled >= Len(text) /\ (Gapless => Handled = Len(text))
    <3>1. done => Handled = pos
      BY DEF Handled
    <3>2. pos \in Nat /\ Len(text) \in Nat
      BY DEF IInv, TypeOK
    <3> QED  BY <3>1, <3>2 DEF IInv
  <2> QED  BY <2>1 DEF IInv, ChunksTile, Covered, ChunkOK, PairOK, Whites
<1> QED  BY <1>1, Invariance, PTL

\* No chunk is longer than the size allows, with the separators of a group on
\* top, nor reaches further into the next than the overlap.
THEOREM Bounded == Spec => []ChunksBounded
<1>1. IInv => ChunksBounded
  <2> SUFFICES ASSUME IInv PROVE ChunksBounded
    OBVIOUS
  <2>1. \A c \in DOMAIN chunks : chunks[c] \in Chunk /\ ChunkOK(chunks[c]) /\ chunkSize \in Nat
    <3>1. chunks \in Seq(Chunk)
      BY DEF IInv, TypeOK, Chunk
    <3> QED  BY <3>1 DEF IInv, TypeOK
  <2>2. ASSUME NEW c \in DOMAIN chunks, strategy \in Grouping
        PROVE  \/ chunks[c].size <= chunkSize + Separators(chunks[c].from, chunks[c].to)
               \/ strategy = "sentence" /\ chunks[c].to - chunks[c].from <= 3
               \/ strategy \in {"paragraph", "markdown"} /\ OnePiece(chunks[c].from, chunks[c].to)
    <3> DEFINE s == Separators(chunks[c].from, chunks[c].to)
    <3>1. chunks[c].from \in Nat /\ chunks[c].to \in Nat /\ chunks[c].size \in Int
      BY <2>1 DEF Chunk
    <3>2. s \in Int
      BY <3>1, SeparatorsType
    <3>3. Fits(chunks[c].size - s, chunks[c].from, chunks[c].to)
      BY <2>1, <2>2 DEF ChunkOK, SizeOK
    <3> HIDE DEF s
    <3>4. chunks[c].size - s <= chunkSize => chunks[c].size <= chunkSize + s
      BY <2>1, <3>1, <3>2
    <3> QED  BY <3>3, <3>4 DEF Fits, s
  <2>3. strategy \in Fixed => \A c \in DOMAIN chunks : chunks[c].size <= chunkSize
    BY <2>1 DEF ChunkOK, SizeOK
  <2> QED  BY <2>2, <2>3 DEF IInv, ChunksBounded, PairOK, OnePiece
<1> QED  BY <1>1, Invariance, PTL

\* Every pass of the loop gets further in the text, also when the overlap is as
\* large as the chunk or larger; none does when "fixed" is asked for size 0
\* without gaps.
THEOREM Advancing == Spec => EachPassAdvances
<1> DEFINE Further == IF Stalled THEN pos' = pos /\ ~done' ELSE pos' > pos \/ done'
<1>1. IInv /\ [Next]_vars => [Further]_vars
  <2>1. IInv /\ FixedStep => Further
    BY FixedKeeps
  <2>2. IInv /\ TakePiece => Further
    BY TakeKeeps DEF TakePiece, Stalled, Fixed, Grouping
  <2>3. IInv /\ FixedReturn => Further
    <3> SUFFICES ASSUME IInv, FixedReturn PROVE Further
      OBVIOUS
    <3>1. Stalled => pos = 0 /\ Len(text) \in Nat \ {0}
      BY DEF IInv, Stalled, TypeOK
    <3> QED  BY <3>1 DEF FixedReturn
  <2>4. IInv /\ GroupReturn => Further
    BY DEF GroupReturn, Stalled, Fixed, Grouping
  <2> QED  BY <2>1, <2>2, <2>3, <2>4 DEF Next
<1> QED  BY <1>1, Invariance, PTL DEF Spec, EachPassAdvances

-----------------------------------------------------------------------------
(* SQL safety and database_query: only reads run                           *)

\* What the definitions of DB say, with the recursion unfolded once.
Judged(q, Reads(_)) ==
  /\ q \in DOMAIN Parse
  /\ Parse[q] # <<>>
  /\ \A st \in Range(Parse[q]) :
       IF st.type = "Explain" THEN ~st.analyze /\ Reads(st.rest) ELSE DB!PlainRead(st)

\* What an EXPLAIN explains is a script.
LEMMA RestIsScript ==
  ASSUME NEW q \in DOMAIN Parse, NEW st \in Range(Parse[q]), st.type = "Explain"
  PROVE  st.rest \in Scripts
BY SqlAssumption

\* validate_read_only is defined: the recursion through EXPLAIN has a solution,
\* the largest one, however scripts explain each other.
LEMMA ReadOnlyUnfolds ==
  \A q \in Scripts : DB!ValidateReadOnly[q] <=> Judged(q, LAMBDA r : DB!ValidateReadOnly[r])
<1> DEFINE Good(X) == {q \in Scripts : Judged(q, LAMBDA r : r \in X)}
           Fix == UNION {X \in SUBSET Scripts : X \subseteq Good(X)}
           f == [q \in Scripts |-> q \in Fix]
           Rec(g) == [q \in Scripts |->
                        /\ q \in DOMAIN Parse
                        /\ Parse[q] # <<>>
                        /\ \A st \in DB!Range(Parse[q]) :
                             IF st.type = "Explain" THEN ~st.analyze /\ g[st.rest]
                                                    ELSE DB!PlainRead(st)]
<1>1. ASSUME NEW X, NEW Y, X \subseteq Y PROVE Good(X) \subseteq Good(Y)
  BY <1>1 DEF Judged
<1>2. Fix \subseteq Good(Fix)
  <2> SUFFICES ASSUME NEW q \in Fix PROVE q \in Good(Fix)
    OBVIOUS
  <2>1. PICK X \in SUBSET Scripts : X \subseteq Good(X) /\ q \in X
    OBVIOUS
  <2>2. X \subseteq Fix
    BY <2>1
  <2>3. Good(X) \subseteq Good(Fix)
    <3> HIDE DEF Fix, Good
    <3> QED
      BY <1>1, <2>2
  <2>4. QED
    BY <2>1, <2>3
<1>3. Good(Fix) \subseteq Fix
  <2>1. Good(Fix) \in SUBSET Scripts
    OBVIOUS
  <2>2. Good(Fix) \subseteq Good(Good(Fix))
    <3> HIDE DEF Fix, Good
    <3> QED
      BY <1>1, <1>2
  <2>3. QED
    BY <2>1, <2>2
<1>4. f = Rec(f)
  <2> SUFFICES ASSUME NEW q \in Scripts PROVE f[q] = Rec(f)[q]
    OBVIOUS
  <2>1. f[q] <=> q \in Good(Fix)
    BY <1>2, <1>3
  <2>2. q \in Good(Fix) <=> Rec(f)[q]
    <3> HIDE DEF Fix
    <3> QED
      BY RestIsScript DEF Judged, Range, DB!Range
  <2>3. f[q] \in BOOLEAN /\ Rec(f)[q] \in BOOLEAN
    OBVIOUS
  <2>4. QED
    BY <2>1, <2>2, <2>3
<1>5. DB!ValidateReadOnly = CHOOSE g : g = Rec(g)
  BY DEF DB!ValidateReadOnly
<1>6. DB!ValidateReadOnly = Rec(DB!ValidateReadOnly)
  <2> HIDE DEF f, Rec
  <2> QED
    BY <1>4, <1>5
<1>7. QED
  BY <1>6 DEF Judged, Range, DB!Range

\* What a statement that is run does, when Does(r) is what the script r does.
Acts(st, Does(_)) ==
  IF st.type # "Explain"
  THEN (st.nodes \cup st.funcs) \cap Acting
  ELSE IF st.analyze THEN Does(st.rest) ELSE {}

\* What a script does is defined: the recursion through EXPLAIN ANALYZE has a
\* solution, the effects that are reached in finitely many steps.
LEMMA EffectsUnfold ==
  \A q \in DOMAIN Parse :
    DB!Effects[q] = UNION {Acts(st, LAMBDA r : DB!Effects[r]) : st \in Range(Parse[q])}
<1> DEFINE Of(X, q) == {e \in Acting : <<q, e>> \in X}
           Does(X, q) == UNION {Acts(st, LAMBDA r : Of(X, r)) : st \in Range(Parse[q])}
           Pairs == (DOMAIN Parse) \X Acting
           Good(X) == {p \in Pairs : p[2] \in Does(X, p[1])}
           Fix == UNION {X \in SUBSET Pairs : X \subseteq Good(X)}
           f == [q \in Scripts |-> Of(Fix, q)]
           Rec(g) == [q \in Scripts |->
             IF q \notin DOMAIN Parse THEN {}
             ELSE UNION {IF st.type # "Explain"
                           THEN (st.nodes \cup st.funcs) \cap Acting
                           ELSE IF st.analyze THEN g[st.rest] ELSE {} : st \in DB!Range(Parse[q])}]
<1>1. ASSUME NEW X, NEW Y, X \subseteq Y PROVE Good(X) \subseteq Good(Y)
  <2>1. ASSUME NEW q PROVE Of(X, q) \subseteq Of(Y, q)
    BY <1>1
  <2>2. ASSUME NEW q PROVE Does(X, q) \subseteq Does(Y, q)
    <3> HIDE DEF Of
    <3> SUFFICES ASSUME NEW st \in Range(Parse[q])
                 PROVE  Acts(st, LAMBDA r : Of(X, r)) \subseteq Acts(st, LAMBDA r : Of(Y, r))
      OBVIOUS
    <3> QED
      BY <2>1 DEF Acts
  <2>3. QED
    <3> HIDE DEF Does
    <3> QED
      BY <2>2
<1>2. Fix \subseteq Good(Fix)
  <2> HIDE DEF Good
  <2> SUFFICES ASSUME NEW p \in Fix PROVE p \in Good(Fix)
    OBVIOUS
  <2>1. PICK X \in SUBSET Pairs : X \subseteq Good(X) /\ p \in X
    OBVIOUS
  <2>2. X \subseteq Fix
    BY <2>1
  <2>3. Good(X) \subseteq Good(Fix)
    <3> HIDE DEF Fix
    <3> QED
      BY <1>1, <2>2
  <2>4. QED
    BY <2>1, <2>3
<1>3. Good(Fix) \subseteq Fix
  <2>1. Good(Fix) \in SUBSET Pairs
    <3> HIDE DEF Does
    <3> QED
      OBVIOUS
  <2>2. Good(Fix) \subseteq Good(Good(Fix))
    <3> HIDE DEF Fix, Good
    <3> QED
      BY <1>1, <1>2
  <2>3. QED
    <3> HIDE DEF Good
    <3> QED
      BY <2>1, <2>2
<1>4. f = Rec(f)
  <2> SUFFICES ASSUME NEW q \in Scripts PROVE f[q] = Rec(f)[q]
    <3> HIDE DEF Fix, Of
    <3> QED
      OBVIOUS
  <2> HIDE DEF Fix
  <2>1. CASE q \in DOMAIN Parse
    <3>1. ASSUME NEW st \in Range(Parse[q])
          PROVE  Acts(st, LAMBDA r : Of(Fix, r)) = Acts(st, LAMBDA r : f[r])
      <4> HIDE DEF Of
      <4> QED
        BY <2>1, RestIsScript DEF Acts
    <3>2. Rec(f)[q] = UNION {Acts(st, LAMBDA r : f[r]) : st \in Range(Parse[q])}
      <4> HIDE DEF f
      <4> QED
        BY <2>1 DEF Acts, Range, DB!Range
    <3>3. Rec(f)[q] = Does(Fix, q)
      <4> HIDE DEF f, Of
      <4> QED
        BY <3>1, <3>2
    <3>4. Does(Fix, q) \subseteq Acting
      <4>1. ASSUME NEW st \in Range(Parse[q]) PROVE Acts(st, LAMBDA r : Of(Fix, r)) \subseteq Acting
        BY DEF Acts
      <4>2. QED
        <5> HIDE DEF Of
        <5> QED
          BY <4>1
    <3>5. ASSUME NEW e \in Acting PROVE e \in f[q] <=> e \in Does(Fix, q)
      <4>1. e \in f[q] <=> <<q, e>> \in Fix
        OBVIOUS
      <4>2. <<q, e>> \in Fix <=> <<q, e>> \in Good(Fix)
        <5> HIDE DEF Good
        <5> QED
          BY <1>2, <1>3
      <4>3. <<q, e>> \in Good(Fix) <=> e \in Does(Fix, q)
        <5>1. <<q, e>> \in Pairs
          BY <2>1
        <5>2. <<q, e>>[1] = q /\ <<q, e>>[2] = e
          OBVIOUS
        <5>3. QED
          <6> HIDE DEF Does, Pairs
          <6> QED
            BY <5>1, <5>2
      <4>4. QED
        BY <4>1, <4>2, <4>3
    <3>6. f[q] \subseteq Acting
      OBVIOUS
    <3>7. QED
      <4> HIDE DEF f, Does, Rec
      <4> QED
        BY <3>3, <3>4, <3>5, <3>6
  <2>2. CASE q \notin DOMAIN Parse
    <3>1. Fix \subseteq Pairs
      BY DEF Fix
    <3>2. f[q] = {}
      <4>1. \A e : <<q, e>> \notin Fix
        BY <2>2, <3>1
      <4>2. QED
        BY <4>1
    <3>3. Rec(f)[q] = {}
      BY <2>2
    <3>4. QED
      BY <3>2, <3>3
  <2>3. QED
    BY <2>1, <2>2
<1>5. DB!Effects = CHOOSE g : g = Rec(g)
  BY DEF DB!Effects
<1>6. DB!Effects = Rec(DB!Effects)
  <2> HIDE DEF f, Rec
  <2> QED
    BY <1>4, <1>5
<1>7. SUFFICES ASSUME NEW q \in DOMAIN Parse
               PROVE  DB!Effects[q] = UNION {Acts(st, LAMBDA r : DB!Effects[r]) : st \in Range(Parse[q])}
  OBVIOUS
<1>8. q \in Scripts
  BY SqlAssumption
<1>9. QED
  BY <1>6, <1>8 DEF Acts, Range, DB!Range

\* What validate_read_only accepts has no effect that its lists know.
LEMMA AcceptedHasNoEffect ==
  \A q \in Scripts : DB!ValidateReadOnly[q] => DB!Effects[q] \subseteq DB!Overlooked
<1> SUFFICES ASSUME NEW q \in Scripts, DB!ValidateReadOnly[q] PROVE DB!Effects[q] \subseteq DB!Overlooked
  OBVIOUS
<1>1. Judged(q, LAMBDA r : DB!ValidateReadOnly[r])
  BY ReadOnlyUnfolds
<1>2. ASSUME NEW st \in Range(Parse[q]) PROVE Acts(st, LAMBDA r : DB!Effects[r]) \subseteq DB!Overlooked
  <2>1. Parse[q] # <<>> /\ q \in DOMAIN Parse
    BY <1>1 DEF Judged
  <2>2. /\ st.nodes \cap DB!DeniedFunctions = {}
        /\ st.funcs \cap DB!DeniedNodes = {}
    BY <2>1, SqlAssumption DEF DeniedNodes, DB!DeniedNodes, DeniedFunctions, DB!DeniedFunctions,
                               WriteStatements, DB!WriteStatements
  <2>3. CASE st.type = "Explain"
    BY <1>1, <2>3 DEF Judged, Acts
  <2>4. CASE st.type # "Explain"
    BY <1>1, <2>2, <2>4 DEF Judged, Acts, DB!PlainRead, DB!Overlooked
  <2>5. QED
    BY <2>3, <2>4
<1>3. q \in DOMAIN Parse
  BY <1>1 DEF Judged
<1>4. UNION {Acts(st, LAMBDA r : DB!Effects[r]) : st \in Range(Parse[q])} \subseteq DB!Overlooked
  BY <1>2
<1>5. QED
  BY <1>3, <1>4, EffectsUnfold

\* Nothing has run at first.
LEMMA OnlyReadsInit == DB!Init => OnlyReadsRun
BY DEF DB!Init, OnlyReadsRun, DB!OnlyReadsRun

\* Every action that runs SQL runs a read, or has been told to write (app_execute).
LEMMA OnlyReadsNext == OnlyReadsRun /\ [DB!Next]_(DB!vars) => OnlyReadsRun'
<1> SUFFICES ASSUME OnlyReadsRun, [DB!Next]_(DB!vars) PROVE OnlyReadsRun'
  OBVIOUS
<1> USE DEF OnlyReadsRun, DB!OnlyReadsRun
<1>1. ASSUME NEW k \in Conns \cup {None}, DB!Configure(k) PROVE OnlyReadsRun'
  BY <1>1 DEF DB!Configure
<1>2. ASSUME NEW c \in Calls, NEW f \in DB!QueryTools, DB!Call(c, f) PROVE OnlyReadsRun'
  BY <1>2 DEF DB!Call
<1>3. ASSUME NEW c, NEW todo, NEW read, DB!Inspecting(c, todo, read) PROVE OnlyReadsRun'
  BY <1>3 DEF DB!Inspecting, DB!ValidateIdentifier
<1>4. ASSUME NEW c \in Calls, DB!TablesArrive(c) \/ DB!ColumnsArrive(c) PROVE OnlyReadsRun'
  BY <1>3, <1>4 DEF DB!TablesArrive, DB!ColumnsArrive
<1>5. ASSUME NEW c \in Calls, DB!Fails(c) PROVE OnlyReadsRun'
  BY <1>5 DEF DB!Fails
<1>6. ASSUME NEW c \in Calls, NEW q \in Scripts, DB!Generate(c, q) PROVE OnlyReadsRun'
  BY <1>6, AcceptedHasNoEffect DEF DB!Generate, DB!Valid
<1>7. ASSUME NEW k \in Conns, NEW q \in Scripts, DB!AppFetch(k, q) PROVE OnlyReadsRun'
  BY <1>7, AcceptedHasNoEffect DEF DB!AppFetch, DB!FetchRuns
<1>8. ASSUME NEW k \in Conns, NEW q \in Scripts, DB!AppExecute(k, q) PROVE OnlyReadsRun'
  BY <1>8 DEF DB!AppExecute
<1>9. ASSUME NEW k \in Conns, NEW names, DB!VectorSearch(k, names) PROVE OnlyReadsRun'
  BY <1>9 DEF DB!VectorSearch, DB!ValidateIdentifier
<1>10. CASE UNCHANGED DB!vars
  BY <1>10 DEF DB!vars
<1>11. QED
  BY <1>1, <1>2, <1>4, <1>5, <1>6, <1>7, <1>8, <1>9, <1>10 DEF DB!Next

\* What the tools run has no effect that is on the lists, whatever the scripts
\* are and however deep EXPLAIN is nested, and the names that go into SQL are
\* identifiers.  (validate_read_only, validate_identifier)
THEOREM ReadsOnly == DB!Spec => []OnlyReadsRun
<1>1. QED
  BY OnlyReadsInit, OnlyReadsNext, PTL DEF DB!Spec

-----------------------------------------------------------------------------
(* database_query: the schema of the connection                            *)

\* The schema of a connection, with all its tables.
Whole(k) == [of |-> k, tables |-> Tables[k]]
Schemas == {DB!NoSchema} \cup {Whole(k) : k \in Conns}
DBCall == [tool : DB!QueryTools \cup {None}, on : Conns \cup {None}, todo : Seq(STRING),
           read : Seq(STRING), schema : Schemas]

\* The types of the state.
DBTyped ==
  /\ conn \in Conns \cup {None}
  /\ cache \in {None} \cup {Whole(k) : k \in Conns}
  /\ pc \in [Calls -> {"new", "tables", "columns", "llm", "answered", "raised"}]
  /\ call \in [Calls -> DBCall]
  /\ overtaken \in BOOLEAN

\* The inductive invariant: what an inspection has read and has yet to read are
\* the tables of its connection, which is the current one unless the call was
\* under way in a configure().
SchemaInv ==
  /\ DBTyped
  /\ cache # None => overtaken \/ cache.of = conn
  /\ \A c \in Calls :
       /\ pc[c] \in {"tables", "columns"} =>
            call[c].on \in Conns /\ (c \notin moved => call[c].on = conn)
       /\ pc[c] = "columns" =>
            call[c].todo # <<>> /\ call[c].read \o call[c].todo = Tables[call[c].on]
       /\ pc[c] = "llm" /\ c \notin moved /\ ~overtaken => call[c].schema.of = conn

\* Taking the first of what is to be read to the end of what was read changes
\* nothing of the whole.
LEMMA Shifting ==
  ASSUME NEW S, NEW r \in Seq(S), NEW t \in Seq(S), t # <<>>
  PROVE  /\ Head(t) \in S /\ Tail(t) \in Seq(S) /\ Append(r, Head(t)) \in Seq(S)
         /\ Append(r, Head(t)) \o Tail(t) = r \o t
<1>1. Head(t) \in S /\ Tail(t) \in Seq(S)
  OBVIOUS
<1>2. t = <<Head(t)>> \o Tail(t)
  BY ConcatProperties
<1>3. Append(r, Head(t)) = r \o <<Head(t)>>
  BY <1>1, AppendIsConcat
<1>4. (r \o <<Head(t)>>) \o Tail(t) = r \o (<<Head(t)>> \o Tail(t))
  BY <1>1, ConcatAssociative
<1>5. QED
  BY <1>1, <1>2, <1>3, <1>4

\* A call that has not begun is a call.
LEMMA FreshTyped == DB!Fresh \in DBCall
<1>1. <<>> \in Seq(STRING)
  OBVIOUS
<1>2. QED
  BY <1>1 DEF DB!Fresh, DBCall, Schemas

\* No call is under way at first.
LEMMA SchemaInit == DB!Init => SchemaInv
<1> SUFFICES ASSUME DB!Init PROVE SchemaInv
  OBVIOUS
<1>1. QED
  BY FreshTyped DEF DB!Init, SchemaInv, DBTyped

\* A call goes on with a schema it knows whole.
LEMMA Continuing ==
  ASSUME SchemaInv, NEW c \in Calls, NEW r \in DBCall, NEW s \in Schemas, DB!Continue(c, r, s)
  PROVE  /\ pc' \in [Calls -> {"new", "tables", "columns", "llm", "answered", "raised"}]
         /\ call' \in [Calls -> DBCall]
         /\ \A d \in Calls \ {c} : pc'[d] = pc[d] /\ call'[d] = call[d]
         /\ pc'[c] \in {"llm", "answered"} /\ call'[c].schema = s
<1>1. [r EXCEPT !.schema = s] \in DBCall /\ [r EXCEPT !.schema = s].schema = s
  BY DEF DBCall
<1>2. QED
  BY <1>1 DEF DB!Continue, SchemaInv, DBTyped

\* A call takes the schema that is kept, or begins an inspection of the current
\* connection.
LEMMA SchemaCall ==
  ASSUME SchemaInv, NEW c \in Calls, NEW f \in DB!QueryTools, DB!Call(c, f)
  PROVE  SchemaInv'
<1> DEFINE r == [DB!Fresh EXCEPT !.tool = f]
<1>1. r \in DBCall /\ [r EXCEPT !.on = conn] \in DBCall /\ [r EXCEPT !.on = conn].on = conn
  <2>1. conn \in Conns \cup {None}
    BY DEF SchemaInv, DBTyped
  <2>2. r \in DBCall
    BY FreshTyped DEF DBCall
  <2>3. QED
    <3> HIDE DEF r
    <3> QED
      BY <2>1, <2>2 DEF DBCall
<1> HIDE DEF r
<1>2. ASSUME NEW s \in Schemas, DB!Continue(c, r, s), overtaken \/ s.of = conn PROVE SchemaInv'
  <2>1. UNCHANGED <<conn, cache, overtaken, moved>>
    BY DEF DB!Call
  <2>2. /\ pc' \in [Calls -> {"new", "tables", "columns", "llm", "answered", "raised"}]
        /\ call' \in [Calls -> DBCall]
        /\ \A d \in Calls \ {c} : pc'[d] = pc[d] /\ call'[d] = call[d]
        /\ pc'[c] \in {"llm", "answered"} /\ call'[c].schema = s
    BY <1>1, <1>2, Continuing
  <2>3. QED
    BY <1>2, <2>1, <2>2 DEF SchemaInv, DBTyped
<1>3. CASE cache # None
  <2>1. DB!Continue(c, r, cache)
    BY <1>3 DEF DB!Call, r
  <2>2. cache \in Schemas /\ (overtaken \/ cache.of = conn)
    BY <1>3 DEF SchemaInv, DBTyped, Schemas
  <2>3. QED
    BY <1>2, <2>1, <2>2
<1>4. CASE cache = None /\ conn = None
  <2>1. DB!Continue(c, r, DB!NoSchema)
    BY <1>4 DEF DB!Call, r
  <2>2. DB!NoSchema \in Schemas /\ DB!NoSchema.of = conn
    BY <1>4 DEF Schemas, DB!NoSchema
  <2>3. QED
    BY <1>2, <2>1, <2>2
<1>5. CASE cache = None /\ conn # None
  <2>1. /\ pc' = [pc EXCEPT ![c] = "tables"] /\ call' = [call EXCEPT ![c] = [r EXCEPT !.on = conn]]
        /\ UNCHANGED <<conn, cache, overtaken, moved>>
    BY <1>5 DEF DB!Call, r
  <2>2. QED
    BY <1>1, <1>5, <2>1 DEF SchemaInv, DBTyped
<1>6. QED
  BY <1>3, <1>4, <1>5

\* Between two queries of an inspection, read and todo are together the tables.
LEMMA SchemaInspecting ==
  ASSUME SchemaInv, NEW c \in Calls, pc[c] \in {"tables", "columns"},
         NEW todo \in Seq(STRING), NEW read \in Seq(STRING),
         read \o todo = Tables[call[c].on],
         DB!Inspecting(c, todo, read), UNCHANGED <<conn, moved>>
  PROVE  SchemaInv'
<1> DEFINE r == [call[c] EXCEPT !.todo = todo, !.read = read]
           s == Whole(r.on)
<1>1. call[c] \in DBCall /\ call[c].on \in Conns /\ (c \notin moved => call[c].on = conn)
  BY DEF SchemaInv, DBTyped
<1>2. r \in DBCall /\ r.on = call[c].on /\ r.todo = todo /\ r.read = read
  BY <1>1 DEF DBCall
<1>3. s \in Schemas /\ s.of = r.on
  BY <1>1, <1>2 DEF Schemas, Whole
<1>4. CASE todo = <<>>
  <2>1. read = Tables[r.on]
    BY <1>2, <1>4, ConcatEmptySeq
  <2>2. s = [of |-> r.on, tables |-> read]
    BY <2>1 DEF Whole
  <2>3. cache' = s /\ DB!Continue(c, r, s) /\ overtaken' = (overtaken \/ conn # r.on)
    BY <1>4, <2>2 DEF DB!Inspecting
  <2>4. /\ pc' \in [Calls -> {"new", "tables", "columns", "llm", "answered", "raised"}]
        /\ call' \in [Calls -> DBCall]
        /\ \A d \in Calls \ {c} : pc'[d] = pc[d] /\ call'[d] = call[d]
        /\ pc'[c] \in {"llm", "answered"} /\ call'[c].schema = s
    BY <1>2, <1>3, <2>3, Continuing
  <2>5. cache' \in {Whole(k) : k \in Conns}
    BY <1>1, <1>2, <2>3
  <2> HIDE DEF r, s
  <2>6. DBTyped'
    BY <2>3, <2>4, <2>5 DEF SchemaInv, DBTyped
  <2>7. QED
    BY <1>1, <1>2, <1>3, <2>3, <2>4, <2>6 DEF SchemaInv
<1>5. CASE todo # <<>>
  <2>1. UNCHANGED <<cache, overtaken>> /\ call' = [call EXCEPT ![c] = r]
        /\ (pc' = [pc EXCEPT ![c] = "columns"] \/ pc' = [pc EXCEPT ![c] = "raised"])
    BY <1>5 DEF DB!Inspecting
  <2> HIDE DEF r, s
  <2>2. DBTyped'
    BY <1>2, <2>1 DEF SchemaInv, DBTyped
  <2>3. QED
    BY <1>1, <1>2, <1>5, <2>1, <2>2 DEF SchemaInv, DBTyped
<1>6. QED
  BY <1>4, <1>5

\* Every action keeps what calls know of their connections.
LEMMA SchemaNext == SchemaInv /\ [DB!Next]_(DB!vars) => SchemaInv'
<1> SUFFICES ASSUME SchemaInv, [DB!Next]_(DB!vars) PROVE SchemaInv'
  OBVIOUS
<1>1. ASSUME NEW k \in Conns \cup {None}, DB!Configure(k) PROVE SchemaInv'
  BY <1>1 DEF DB!Configure, DB!ConfigureCache, SchemaInv, DBTyped
<1>2. ASSUME NEW c \in Calls, NEW f \in DB!QueryTools, DB!Call(c, f) PROVE SchemaInv'
  BY <1>2, SchemaCall
<1>3. ASSUME NEW c \in Calls, DB!TablesArrive(c) PROVE SchemaInv'
  <2>1. pc[c] = "tables" /\ call[c].on \in Conns
    BY <1>3 DEF DB!TablesArrive, SchemaInv
  <2>2. Tables[call[c].on] \in Seq(STRING) /\ <<>> \in Seq(STRING)
    BY <2>1, SqlAssumption
  <2>3. <<>> \o Tables[call[c].on] = Tables[call[c].on]
    BY <2>2, ConcatEmptySeq
  <2>4. QED
    BY <1>3, <2>1, <2>2, <2>3, SchemaInspecting DEF DB!TablesArrive
<1>4. ASSUME NEW c \in Calls, DB!ColumnsArrive(c) PROVE SchemaInv'
  <2>1. /\ pc[c] = "columns" /\ call[c].todo \in Seq(STRING) /\ call[c].read \in Seq(STRING)
        /\ call[c].todo # <<>> /\ call[c].read \o call[c].todo = Tables[call[c].on]
    BY <1>4 DEF DB!ColumnsArrive, SchemaInv, DBTyped, DBCall
  <2>2. /\ Tail(call[c].todo) \in Seq(STRING)
        /\ Append(call[c].read, Head(call[c].todo)) \in Seq(STRING)
        /\ Append(call[c].read, Head(call[c].todo)) \o Tail(call[c].todo) = Tables[call[c].on]
    <3> DEFINE t == call[c].todo
               r == call[c].read
    <3>1. t \in Seq(STRING) /\ r \in Seq(STRING) /\ t # <<>> /\ r \o t = Tables[call[c].on]
      BY <2>1
    <3> HIDE DEF t, r
    <3>2. Tail(t) \in Seq(STRING) /\ Append(r, Head(t)) \in Seq(STRING)
          /\ Append(r, Head(t)) \o Tail(t) = Tables[call[c].on]
      BY <3>1, Shifting
    <3>3. QED
      BY <3>2 DEF t, r
  <2>3. QED
    BY <1>4, <2>1, <2>2, SchemaInspecting DEF DB!ColumnsArrive
<1>5. ASSUME NEW c \in Calls, DB!Fails(c) PROVE SchemaInv'
  BY <1>5 DEF DB!Fails, SchemaInv, DBTyped
<1>6. ASSUME NEW c \in Calls, NEW q \in Scripts, DB!Generate(c, q) PROVE SchemaInv'
  BY <1>6 DEF DB!Generate, SchemaInv, DBTyped
<1>7. ASSUME UNCHANGED <<conn, cache, pc, call, overtaken, moved>> PROVE SchemaInv'
  BY <1>7 DEF SchemaInv, DBTyped
<1>8. QED
  BY <1>1, <1>2, <1>3, <1>4, <1>5, <1>6, <1>7
  DEF DB!Next, DB!vars, DB!AppFetch, DB!AppExecute, DB!VectorSearch

\* A query is written for the schema, whole, of the connection it runs on,
\* unless configure() came between.  (get_schema, query_database, configure)
THEOREM SchemaIsCurrent == DB!Spec => []SchemaOfConnection
<1>1. SchemaInv => SchemaOfConnection
  <2> SUFFICES ASSUME SchemaInv PROVE DB!SchemaOfConnection
    BY DEF SchemaOfConnection
  <2>1. ASSUME NEW x \in Schemas, x # DB!NoSchema PROVE x.tables = Tables[x.of]
    BY <2>1 DEF Schemas, Whole
  <2>2. \A c \in Calls : call[c].schema \in Schemas
    BY DEF SchemaInv, DBTyped, DBCall
  <2>3. cache # None => cache.tables = Tables[cache.of]
    BY DEF SchemaInv, DBTyped, Whole
  <2>4. QED
    BY <2>1, <2>2, <2>3 DEF SchemaInv, DB!SchemaOfConnection
<1>2. QED
  BY <1>1, SchemaInit, SchemaNext, PTL DEF DB!Spec

-----------------------------------------------------------------------------
(* gemini_embedding: what is compared is comparable                        *)

\* Spaces, items, and what a call under way carries.
Spaces == [client : Clients, dims : Dimensions]
Items == [id : Ids, text : Phrases, vector : [text : Phrases, space : Spaces]]
Jobs ==
  [tool : {"index_text"}, text : Phrases, id : Ids, top_k : {0}, space : Spaces]
    \cup [tool : {"search"}, text : Phrases, id : {None}, top_k : TopKs, space : Spaces]
    \cup [tool : {"similarity"}, text : {None}, id : {None}, top_k : {0}, space : Spaces]

\* The inductive invariant: an id is in the store once, with the vector of its
\* text, and what is current was made in the space of now.
IndexInv ==
  /\ embedder \in Clients /\ dims \in Dimensions
  /\ store \in Seq(Items)
  /\ at \in [Calls -> {"idle", "embedding"}] /\ job \in [Calls -> Jobs \cup {None}]
  /\ \A i \in 1 .. Len(store) :
       /\ store[i].vector.text = store[i].text
       /\ \A j \in 1 .. Len(store) : store[i].id = store[j].id => i = j
       /\ store[i].id \in current => store[i].vector.space = Index!EmbeddingSpace
  /\ \A c \in Calls : at[c] = "embedding" =>
       /\ job[c] \in Jobs
       /\ c \in current => job[c].space = Index!EmbeddingSpace

\* What is embedded now is in a space.
LEMMA NowIsASpace == embedder \in Clients /\ dims \in Dimensions => Index!EmbeddingSpace \in Spaces
BY DEF Index!EmbeddingSpace, Spaces

\* The store is empty at first.
LEMMA IndexInit == Index!Init => IndexInv
BY DEF Index!Init, IndexInv

\* Adding an item keeps the others and puts it where its id stands, or last.
LEMMA StoreAdds ==
  ASSUME NEW s \in Seq(Items), NEW item \in Items,
         \A i, j \in 1 .. Len(s) : s[i].id = s[j].id => i = j
  PROVE  LET t == Index!Add(s, item) IN
         /\ t \in Seq(Items)
         /\ \A i \in 1 .. Len(t) : t[i] = item \/ (t[i].id # item.id /\ \E k \in 1 .. Len(s) : t[i] = s[k])
         /\ \A i, j \in 1 .. Len(t) : t[i].id = t[j].id => i = j
<1> DEFINE t == Index!Add(s, item)
<1>1. CASE \E i \in DOMAIN s : s[i].id = item.id
  <2>1. t = [i \in 1 .. Len(s) |-> IF s[i].id = item.id THEN item ELSE s[i]]
    BY <1>1 DEF Index!Add
  <2>2. t \in Seq(Items) /\ Len(t) = Len(s)
    <3>1. \A i \in 1 .. Len(s) : s[i] \in Items
      OBVIOUS
    <3> HIDE DEF t
    <3>2. \A i \in 1 .. Len(s) : t[i] \in Items
      BY <2>1, <3>1
    <3>3. QED
      BY <2>1, <3>2, IsASeq
  <2> HIDE DEF t
  <2>3. \A i \in 1 .. Len(s) : t[i] = IF s[i].id = item.id THEN item ELSE s[i]
    BY <2>1
  <2>4. \A i \in 1 .. Len(s) : t[i].id = s[i].id
    BY <2>3
  <2>5. QED
    BY <2>2, <2>3, <2>4 DEF t
<1>2. CASE ~ \E i \in DOMAIN s : s[i].id = item.id
  <2>1. t = Append(s, item)
    BY <1>2 DEF Index!Add
  <2>2. \A i \in 1 .. Len(s) : s[i].id # item.id
    BY <1>2
  <2>3. t \in Seq(Items) /\ Len(t) = Len(s) + 1 /\ t[Len(s) + 1] = item
        /\ \A i \in 1 .. Len(s) : t[i] = s[i]
    BY <2>1, AppendProperties
  <2> HIDE DEF t
  <2>4. \A i \in 1 .. Len(t) : i \in 1 .. Len(s) \/ i = Len(s) + 1
    BY <2>3
  <2>5. QED
    BY <2>2, <2>3, <2>4 DEF t
<1>3. QED
  BY <1>1, <1>2

\* A call that ends leaves the others as they are.
LEMMA IndexDone ==
  ASSUME IndexInv, NEW c \in Calls, NEW still, Index!Done(c, still)
  PROVE  /\ at' \in [Calls -> {"idle", "embedding"}] /\ job' \in [Calls -> Jobs \cup {None}]
         /\ at'[c] = "idle" /\ current' = still \ {c}
         /\ \A d \in Calls \ {c} : at'[d] = at[d] /\ job'[d] = job[d]
BY DEF Index!Done, IndexInv

\* index_text puts the text and its own vector in the store, whenever the vector comes.
LEMMA IndexIndexes == ASSUME IndexInv, NEW c \in Calls, Index!Index(c) PROVE IndexInv'
<1> DEFINE item == [id |-> job[c].id, text |-> job[c].text, vector |-> Index!Vector(c)]
           t == Index!Add(store, item)
           still == (current \ {item.id}) \cup (IF c \in current THEN {item.id} ELSE {})
<1>1. /\ job[c] \in Jobs /\ job[c].tool = "index_text"
      /\ c \in current => job[c].space = Index!EmbeddingSpace
  BY DEF Index!Index, IndexInv
<1>2. job[c].id \in Ids /\ job[c].text \in Phrases /\ job[c].space \in Spaces
  BY <1>1 DEF Jobs
<1>3. item \in Items /\ item.id = job[c].id /\ item.vector.text = item.text
      /\ item.vector.space = job[c].space
  BY <1>2 DEF Items, Index!Vector
<1> HIDE DEF item
<1>4. /\ t \in Seq(Items)
      /\ \A i \in 1 .. Len(t) : t[i] = item \/ (t[i].id # item.id /\ \E k \in 1 .. Len(store) : t[i] = store[k])
      /\ \A i, j \in 1 .. Len(t) : t[i].id = t[j].id => i = j
  BY <1>3, StoreAdds DEF IndexInv
<1> HIDE DEF t
<1>5. store' = t /\ Index!Done(c, still) /\ UNCHANGED <<embedder, dims>>
  BY DEF Index!Index, item, t
<1>6. current' = still \ {c}
  BY <1>5, IndexDone
<1>7. ASSUME NEW i \in 1 .. Len(t)
      PROVE  /\ t[i].vector.text = t[i].text
             /\ t[i].id \in current' => t[i].vector.space = Index!EmbeddingSpace
  <2>1. CASE t[i] = item
    <3>1. item.id # c
      BY <1>2, <1>3, MCToolboxAssumption
    <3>2. item.id \in current' => c \in current
      BY <1>6
    <3>3. QED
      BY <1>1, <1>3, <2>1, <3>2
  <2>2. ASSUME t[i].id # item.id, NEW k \in 1 .. Len(store), t[i] = store[k]
        PROVE  /\ t[i].vector.text = t[i].text
               /\ t[i].id \in current' => t[i].vector.space = Index!EmbeddingSpace
    <3>1. t[i].id \in current' => t[i].id \in current
      BY <1>6, <2>2
    <3>2. /\ store[k].vector.text = store[k].text
          /\ store[k].id \in current => store[k].vector.space = Index!EmbeddingSpace
      BY DEF IndexInv
    <3>3. QED
      BY <2>2, <3>1, <3>2
  <2>3. QED
    BY <1>4, <2>1, <2>2
<1>8. Index!EmbeddingSpace' = Index!EmbeddingSpace
  BY <1>5 DEF Index!EmbeddingSpace
<1>9. ASSUME NEW d \in Calls, at'[d] = "embedding"
      PROVE  job'[d] \in Jobs /\ (d \in current' => job'[d].space = Index!EmbeddingSpace)
  <2>1. d # c /\ at[d] = "embedding" /\ job'[d] = job[d]
    BY <1>5, <1>9, IndexDone
  <2>2. d # item.id
    BY <1>2, <1>3, MCToolboxAssumption
  <2>3. d \in current' => d \in current
    BY <1>6, <2>2
  <2>4. QED
    BY <2>1, <2>3 DEF IndexInv
<1>10. /\ at' \in [Calls -> {"idle", "embedding"}] /\ job' \in [Calls -> Jobs \cup {None}]
       /\ embedder' \in Clients /\ dims' \in Dimensions
  <2>1. embedder' \in Clients /\ dims' \in Dimensions
    BY <1>5 DEF IndexInv
  <2>2. QED
    BY <1>5, <2>1, IndexDone
<1>11. QED
  BY <1>4, <1>5, <1>7, <1>8, <1>9, <1>10 DEF IndexInv

\* A call that ends without an item leaves the store as it is.
LEMMA IndexEnds ==
  ASSUME IndexInv, NEW c \in Calls, Index!Done(c, current), UNCHANGED <<embedder, dims, store>>
  PROVE  IndexInv'
<1>1. /\ at' \in [Calls -> {"idle", "embedding"}] /\ job' \in [Calls -> Jobs \cup {None}]
      /\ at'[c] = "idle" /\ current' = current \ {c}
      /\ \A d \in Calls \ {c} : at'[d] = at[d] /\ job'[d] = job[d]
  BY IndexDone
<1>2. Index!EmbeddingSpace' = Index!EmbeddingSpace
  BY DEF Index!EmbeddingSpace
<1>3. QED
  BY <1>1, <1>2 DEF IndexInv

\* A call that begins is in the space of now.
LEMMA IndexCalls ==
  ASSUME IndexInv, NEW c \in Calls, NEW f, NEW t, NEW i, NEW k, Index!Call(c, f, t, i, k),
         [tool |-> f, text |-> t, id |-> i, top_k |-> k, space |-> Index!EmbeddingSpace] \in Jobs
  PROVE  IndexInv'
<1> DEFINE r == [tool |-> f, text |-> t, id |-> i, top_k |-> k, space |-> Index!EmbeddingSpace]
<1>1. r \in Jobs /\ r.space = Index!EmbeddingSpace
  OBVIOUS
<1>2. UNCHANGED <<embedder, dims, store>> /\ Index!EmbeddingSpace' = Index!EmbeddingSpace
  BY DEF Index!Call, Index!EmbeddingSpace
<1>3. CASE UNCHANGED <<at, job, current>>
  BY <1>2, <1>3 DEF IndexInv
<1>4. CASE at' = [at EXCEPT ![c] = "embedding"] /\ job' = [job EXCEPT ![c] = r] /\ current' = current \cup {c}
  <2>1. ASSUME NEW n \in 1 .. Len(store) PROVE store[n].id # c
    <3>1. store[n] \in Items
      BY DEF IndexInv
    <3>2. QED
      BY <3>1, MCToolboxAssumption DEF Items
  <2> HIDE DEF r
  <2>2. QED
    BY <1>1, <1>2, <1>4, <2>1 DEF IndexInv
<1>5. QED
  BY <1>3, <1>4 DEF Index!Call

\* Every action keeps items and calls comparable.
LEMMA IndexNext == IndexInv /\ [Index!Next]_(Index!vars) => IndexInv'
<1> SUFFICES ASSUME IndexInv, [Index!Next]_(Index!vars) PROVE IndexInv'
  OBVIOUS
<1>1. ASSUME NEW cl \in Clients, NEW d \in Dimensions, Index!Configure(cl, d) PROVE IndexInv'
  BY <1>1 DEF Index!Configure, IndexInv, Index!EmbeddingSpace
<1>2. ASSUME Index!ConfigureStore \/ Index!ClearIndex PROVE IndexInv'
  <2>1. /\ store' \in Stores \cup {<<>>} /\ current' = current \ Ids
        /\ UNCHANGED <<embedder, dims, at, job>>
    BY <1>2 DEF Index!ConfigureStore, Index!ClearIndex
  <2>2. /\ store' \in Seq(Items)
        /\ \A i \in 1 .. Len(store') :
             /\ store'[i].vector.text = store'[i].text
             /\ \A j \in 1 .. Len(store') : store'[i].id = store'[j].id => i = j
             /\ store'[i].id \notin current'
    <3>1. CASE store' = <<>>
      <4>1. Len(store') = 0 /\ store' \in Seq(Items)
        BY <3>1
      <4> QED  BY <4>1
    <3>2. CASE store' \in Stores
      <4>1. /\ store' \in Seq(Items)
            /\ \A i, j \in 1 .. Len(store') : store'[i].id = store'[j].id => i = j
            /\ \A i \in 1 .. Len(store') : store'[i].vector.text = store'[i].text
        BY <3>2, StoresAssumption DEF Items, Spaces
      <4>2. \A i \in 1 .. Len(store') : store'[i].id \in Ids
        <5>1. store' \in Seq(Items)
          BY <4>1
        <5>2. \A i \in 1 .. Len(store') : store'[i] \in Items
          BY <5>1
        <5> QED  BY <5>2 DEF Items
      <4> QED  BY <2>1, <4>1, <4>2
    <3> QED  BY <2>1, <3>1, <3>2
  <2>3. Index!EmbeddingSpace' = Index!EmbeddingSpace
    BY <2>1 DEF Index!EmbeddingSpace
  <2>4. QED
    BY <2>1, <2>2, <2>3 DEF IndexInv
<1>3. Index!EmbeddingSpace \in Spaces
  BY NowIsASpace DEF IndexInv
<1>4. ASSUME NEW c \in Calls, NEW t \in Phrases, NEW i \in Ids, Index!Call(c, "index_text", t, i, 0)
      PROVE  IndexInv'
  BY <1>3, <1>4, IndexCalls DEF Jobs
<1>5. ASSUME NEW c \in Calls, NEW t \in Phrases, NEW k \in TopKs, Index!Call(c, "search", t, None, k)
      PROVE  IndexInv'
  BY <1>3, <1>5, IndexCalls DEF Jobs
<1>6. ASSUME NEW c \in Calls, Index!Call(c, "similarity", None, None, 0) PROVE IndexInv'
  BY <1>3, <1>6, IndexCalls DEF Jobs
<1>7. ASSUME NEW c \in Calls, Index!Answer(c) \/ Index!End(c) PROVE IndexInv'
  BY <1>7, IndexEnds DEF Index!Answer, Index!End
<1>8. CASE UNCHANGED Index!vars
  BY <1>8 DEF Index!vars, IndexInv, Index!EmbeddingSpace
<1>9. QED
  BY <1>1, <1>2, <1>4, <1>5, <1>6, <1>7, <1>8, IndexIndexes DEF Index!Next

\* However calls overlap, an id is in the store once with the vector of its own
\* text, and items are comparable with what is embedded now unless configure()
\* came after them.  (index_text, configure)
THEOREM ItemsAreComparable == Index!Spec => []SameSpace
<1>1. IndexInv => SameSpace
  <2> SUFFICES ASSUME IndexInv PROVE Index!SameSpace
    BY DEF SameSpace
  <2>1. DOMAIN store = 1 .. Len(store)
    BY DEF IndexInv
  <2>2. QED
    BY <2>1 DEF IndexInv, Index!SameSpace, Index!EmbeddingSpace
<1>2. QED
  BY <1>1, IndexInit, IndexNext, PTL DEF Index!Spec

-----------------------------------------------------------------------------
(* HTTP gateway: the bind and the lists of the SDK                         *)

SettingsFields == {"outcome", "host", "port", "resource", "issuer", "deploy", "hosts", "origins",
                   "public", "protected", "sdkhosts", "sdkorigins"}

\* What is true of the settings s that were resolved from the request r and not altered.
Faithful(r, s) ==
  /\ s.sdkhosts = Http!ListOr(Http!Configured(r, r.hostsflag, r.hosts), r.hosts,
                              Http!Defaults(s.host))
  /\ s.sdkorigins = Http!ListOr(Http!Configured(r, r.originsflag, r.origins), r.origins,
                                IF s.deploy THEN {} ELSE Http!Defaults(s.host))
  /\ s.deploy => Http!Configured(r, r.hostsflag, r.hosts) /\ r.hosts # Http!NoList

\* What is true of them whatever was altered: nobody can alter the bind.
Bound(r, s) ==
  /\ s.deploy = ~Http!IsLoopbackBind(s.host)
  /\ s.deploy => r.public /\ {r.issuer, r.resource} \cap Http!Open = {}

\* The inductive invariant: settings that were resolved are as the request has
\* them, and a server runs only on settings and keys that were looked at.
HttpInv ==
  /\ settings.outcome \in {"none", "settings", "serves", "token", "refused"}
  /\ settings.outcome \in {"settings", "serves"} =>
       /\ DOMAIN settings = SettingsFields
       /\ Bound(request, settings)
       /\ altered = {} => Faithful(request, settings)
  /\ settings.outcome = "serves" => ~Http!KeysWrong(request) /\ ~Http!Invalid(settings)

\* Settings that are resolved and not refused are guarded and faithful.
\* (HttpSettings.from_env, resolve)
LEMMA Resolving ==
  ASSUME NEW r
  PROVE  LET s == Http!Resolve(r) IN
         /\ s.outcome \in {"settings", "refused"}
         /\ s.outcome = "settings" => DOMAIN s = SettingsFields /\ Bound(r, s) /\ Faithful(r, s)
<1> DEFINE host == Http!NormalizeBindHost([r.host EXCEPT !.name = Http!Or(@, "127.0.0.1")])
           deploy == ~Http!IsLoopbackBind(host)
           named == Http!Configured(r, r.hostsflag, r.hosts)
           hosts == Http!ListOr(named, r.hosts, IF deploy THEN {} ELSE Http!Defaults(host))
           origins == Http!ListOr(Http!Configured(r, r.originsflag, r.origins), r.origins,
                                  IF deploy THEN {} ELSE Http!Defaults(host))
           resource == IF r.resource \notin Http!Open THEN r.resource
                       ELSE IF host.brackets THEN "not a url" ELSE "of the bind"
           issuer == IF r.issuer \in Http!Open THEN "local" ELSE r.issuer
           port == Http!Or(r.port, "8000")
           made == [outcome |-> "settings", host |-> host, port |-> port, resource |-> resource,
                    issuer |-> issuer, deploy |-> deploy, hosts |-> hosts, origins |-> origins,
                    public |-> r.public, protected |-> TRUE, sdkhosts |-> hosts,
                    sdkorigins |-> origins]
           s == Http!Resolve(r)
<1>1. \/ s = made /\ ~(deploy /\ ~r.public) /\ ~(deploy /\ {r.issuer, r.resource} \cap Http!Open # {})
                  /\ ~(deploy /\ Http!NotExact(named, r.hosts))
      \/ \E why : s = Http!Refuse(why)
  BY DEF Http!Resolve
<1>2. ASSUME NEW why PROVE Http!Refuse(why).outcome = "refused"
  BY DEF Http!Refuse
<1> HIDE DEF s, host, port, resource, issuer
<1>3. CASE s = made /\ ~(deploy /\ ~r.public) /\ ~(deploy /\ {r.issuer, r.resource} \cap Http!Open # {})
                    /\ ~(deploy /\ Http!NotExact(named, r.hosts))
  <2>1. /\ made.outcome = "settings" /\ made.host = host /\ made.deploy = deploy
        /\ made.sdkhosts = hosts /\ made.sdkorigins = origins
        /\ DOMAIN made = SettingsFields
    BY DEF SettingsFields
  <2>2. Bound(r, s)
    BY <1>3, <2>1 DEF Bound
  <2>3. deploy => named /\ r.hosts # Http!NoList
    BY <1>3 DEF Http!NotExact
  <2>4. Faithful(r, s)
    BY <1>3, <2>1, <2>3 DEF Faithful, Http!ListOr
  <2>5. QED
    BY <1>3, <2>1, <2>2, <2>4 DEF s
<1>4. QED
  BY <1>1, <1>2, <1>3 DEF s

\* Nothing is resolved at first.
LEMMA HttpInit == Http!Init => HttpInv
BY DEF Http!Init, HttpInv

\* Every action keeps the bind guarded, also when settings are altered afterwards.
LEMMA HttpNext == HttpInv /\ [Http!Next]_(Http!vars) => HttpInv'
<1> SUFFICES ASSUME HttpInv, [Http!Next]_(Http!vars) PROVE HttpInv'
  OBVIOUS
<1>1. CASE Http!Configure
  <2>1. settings' = Http!Resolve(request) /\ UNCHANGED <<request, altered>>
    BY <1>1 DEF Http!Configure
  <2>2. QED
    BY <2>1, Resolving DEF HttpInv
<1>2. ASSUME NEW field \in {"hosts", "sdkhosts", "sdkorigins", "protected"}, NEW value,
             Http!Alter(field, value)
      PROVE  HttpInv'
  <2>1. /\ settings.outcome = "settings" /\ settings' = [settings EXCEPT ![field] = value]
        /\ altered' # {} /\ request' = request
    BY <1>2 DEF Http!Alter
  <2>2. /\ DOMAIN settings' = SettingsFields /\ settings'.outcome = "settings"
        /\ settings'.deploy = settings.deploy /\ settings'.host = settings.host
    BY <2>1 DEF HttpInv, SettingsFields
  <2>3. QED
    BY <2>1, <2>2 DEF HttpInv, Bound
<1>3. CASE Http!PrintDemoToken
  <2>1. settings'.outcome \in {"refused", "token"}
    BY <1>3 DEF Http!PrintDemoToken, Http!Refuse, HttpInv, SettingsFields
  <2>2. QED
    BY <2>1 DEF HttpInv
<1>4. CASE Http!Serve
  <2>1. UNCHANGED <<request, altered>> /\ settings.outcome = "settings"
    BY <1>4 DEF Http!Serve
  <2>2. CASE Http!KeysWrong(request) \/ Http!Invalid(settings)
    <3>1. settings'.outcome = "refused"
      BY <1>4, <2>2 DEF Http!Serve, Http!Refuse
    <3>2. QED
      BY <3>1 DEF HttpInv
  <2>3. CASE ~(Http!KeysWrong(request) \/ Http!Invalid(settings))
    <3>1. settings' = [settings EXCEPT !.outcome = "serves"]
      BY <1>4, <2>3 DEF Http!Serve
    <3>2. DOMAIN settings' = SettingsFields /\ \A f \in SettingsFields \ {"outcome"} : settings'[f] = settings[f]
      BY <2>1, <3>1 DEF HttpInv
    <3>3. settings'.outcome = "serves"
      BY <2>1, <3>1 DEF HttpInv, SettingsFields
    <3>4. /\ settings'.host = settings.host /\ settings'.port = settings.port
          /\ settings'.resource = settings.resource /\ settings'.issuer = settings.issuer
          /\ settings'.deploy = settings.deploy /\ settings'.hosts = settings.hosts
          /\ settings'.origins = settings.origins /\ settings'.public = settings.public
          /\ settings'.protected = settings.protected
          /\ settings'.sdkhosts = settings.sdkhosts /\ settings'.sdkorigins = settings.sdkorigins
      BY <3>2 DEF SettingsFields
    <3>5. ~Http!Invalid(settings')
      BY <2>3, <3>4 DEF Http!Invalid
    <3>6. Bound(request, settings') /\ (altered = {} => Faithful(request, settings'))
      BY <2>1, <3>4 DEF HttpInv, Bound, Faithful
    <3>7. ~Http!KeysWrong(request')
      BY <2>1, <2>3
    <3>8. QED
      BY <2>1, <3>2, <3>3, <3>5, <3>6, <3>7 DEF HttpInv
  <2>4. QED
    BY <2>2, <2>3
<1>5. CASE UNCHANGED Http!vars
  BY <1>5 DEF Http!vars, HttpInv
<1>6. QED
  BY <1>1, <1>2, <1>3, <1>4, <1>5 DEF Http!Next

\* A server that others can reach was opened on purpose and knows its issuer,
\* its resource and its hosts.
THEOREM GuardedBinds == Http!Spec => []BindIsGuarded
<1>1. HttpInv => BindIsGuarded
  BY DEF HttpInv, BindIsGuarded, Http!BindIsGuarded, Http!Serves, Http!Reachable, Bound,
         Http!Invalid, Http!KeysWrong, Http!IsLoopbackBind
<1>2. QED
  BY <1>1, HttpInit, HttpNext, PTL DEF Http!Spec

\* Lists of hosts and origins that nobody altered reach the SDK as they were
\* configured, which a list of the keywords is when its flag comes with it.
THEOREM ListsKept == Http!Spec => []ListsAreKept
<1>1. HttpInv => ListsAreKept
  BY DEF HttpInv, ListsAreKept, Http!ListsAreKept, Http!Serves, Http!Reachable, Bound, Faithful,
         Http!IsLoopbackBind, Http!ListOr, Http!Configured, Http!Unset, Http!NoList
<1>2. QED
  BY <1>1, HttpInit, HttpNext, PTL DEF Http!Spec

-----------------------------------------------------------------------------
(* Addresses: checked connections are public                               *)

\* What a name can resolve to.
Answers == Lookups \cup {Net!Unresolved}

\* The inductive invariant: what a call was checked on was not refused.
NetInv ==
  /\ dns \in [Hosts \ {""} -> Answers]
  /\ calls = [c \in Calls |-> calls[c]]
  /\ \A c \in Calls :
       /\ calls[c].stage = "checked" => calls[c].checked \in Answers /\ ~Net!Refuses(calls[c].checked)
       /\ calls[c].stage = "connected" /\ (calls[c].user = "scraper" \/ calls[c].steady) =>
            Net!Reached(calls[c].to) \subseteq Global \cap Unicast

\* An answer that is not refused has an address, and each of its addresses is public.
LEMMA Passing ==
  ASSUME NEW a \in Answers, ~Net!Refuses(a)
  PROVE  /\ Head(a) \in Net!Range(a)
         /\ \A ip \in Net!Range(a) : Net!Reached(ip) \subseteq Global \cap Unicast
<1>1. a \in Seq(STRING) /\ a # <<>>
  BY AddressAssumption DEF Answers, Net!Refuses
<1>2. DOMAIN a = 1 .. Len(a) /\ 1 \in DOMAIN a /\ Head(a) = a[1]
  BY <1>1
<1>3. ASSUME NEW ip \in Net!Range(a) PROVE Net!Reached(ip) \subseteq Global \cap Unicast
  BY <1>3, AddressAssumption DEF Net!Refuses, Net!IsForbidden, Net!Reached, Net!Range
<1>4. QED
  BY <1>2, <1>3 DEF Net!Range

\* No request is under way at first.
LEMMA NetInit == Net!Init => NetInv
<1> SUFFICES ASSUME Net!Init PROVE NetInv
  OBVIOUS
<1>1. dns \in [Hosts \ {""} -> Answers]
  BY DEF Net!Init, Answers
<1>2. calls = [c \in Calls |-> calls[c]] /\ \A c \in Calls : calls[c].stage = "idle"
  BY DEF Net!Init, Net!Idle
<1>3. QED
  BY <1>1, <1>2 DEF NetInv

\* A call connects to an address that no check refused, unless it goes by the
\* name and the name has changed.
LEMMA NetConnects ==
  ASSUME NetInv, NEW c \in Calls, calls[c].stage = "checked", NEW ip, Net!Connects(c, ip),
         UNCHANGED dns,
         calls[c].user = "scraper" => ip \in Net!Range(calls[c].checked),
         dns[calls[c].host] = calls[c].checked => ip \in Net!Range(calls[c].checked),
         calls[c].user \in {"scraper", "webhook"}
  PROVE  NetInv'
<1> DEFINE new == [stage |-> "connected", user |-> calls[c].user, to |-> ip,
                   steady |-> dns[calls[c].host] = calls[c].checked]
<1>1. calls' = [calls EXCEPT ![c] = new]
  BY DEF Net!Connects
<1>2. new.stage = "connected" /\ new.user = calls[c].user /\ new.to = ip
      /\ (new.steady <=> dns[calls[c].host] = calls[c].checked)
  OBVIOUS
<1>3. ip \in Net!Range(calls[c].checked) => Net!Reached(ip) \subseteq Global \cap Unicast
  BY Passing DEF NetInv
<1> HIDE DEF new
<1>4. QED
  BY <1>1, <1>2, <1>3 DEF NetInv

\* Every action keeps requests under way checked.
LEMMA NetNext == NetInv /\ [Net!Next]_(Net!vars) => NetInv'
<1> SUFFICES ASSUME NetInv, [Net!Next]_(Net!vars) PROVE NetInv'
  OBVIOUS
<1>1. ASSUME NEW h \in Hosts \ {""}, NEW a \in Answers, Net!DnsChanges(h, a) PROVE NetInv'
  BY <1>1 DEF Net!DnsChanges, NetInv
<1>2. ASSUME NEW c \in Calls, NEW u, NEW s, NEW h \in Hosts, Net!ResolvePublicIp(c, u, s, h)
      PROVE  NetInv'
  <2> DEFINE refused == [stage |-> "refused"]
             checked == [stage |-> "checked", user |-> u, host |-> h, checked |-> dns[h]]
  <2>1. /\ UNCHANGED dns
        /\ \/ calls' = [calls EXCEPT ![c] = refused]
           \/ h # "" /\ ~Net!Refuses(dns[h]) /\ calls' = [calls EXCEPT ![c] = checked]
    BY <1>2 DEF Net!ResolvePublicIp
  <2>2. refused.stage = "refused" /\ checked.stage = "checked" /\ checked.checked = dns[h]
    OBVIOUS
  <2>3. h # "" => dns[h] \in Answers
    BY DEF NetInv
  <2> HIDE DEF refused, checked
  <2>4. QED
    BY <2>1, <2>2, <2>3 DEF NetInv
<1>3. ASSUME NEW c \in Calls, Net!ConnectPinned(c) PROVE NetInv'
  <2>1. Head(calls[c].checked) \in Net!Range(calls[c].checked)
    BY <1>3, Passing DEF Net!ConnectPinned, NetInv
  <2>2. QED
    BY <1>3, <2>1, NetConnects DEF Net!ConnectPinned
<1>4. ASSUME NEW c \in Calls, Net!ConnectByName(c) PROVE NetInv'
  <2>1. PICK ip \in Net!Range(dns[calls[c].host]) : Net!Connects(c, ip)
    BY <1>4 DEF Net!ConnectByName
  <2>2. QED
    BY <1>4, <2>1, NetConnects DEF Net!ConnectByName
<1>5. ASSUME NEW c \in Calls, Net!End(c) PROVE NetInv'
  BY <1>5 DEF Net!End, Net!Idle, NetInv
<1>6. CASE UNCHANGED Net!vars
  BY <1>6 DEF Net!vars, NetInv
<1>7. QED
  BY <1>1, <1>2, <1>3, <1>4, <1>5, <1>6 DEF Net!Next, Answers

\* The scraper connects to public unicast addresses, whatever names resolve to
\* after the check, and the webhook too as long as they stay.
\* (resolve_public_ip, _safe_get, _notify)
THEOREM PublicOnly == Net!Spec => []ConnectionsArePublic
<1>1. NetInv => ConnectionsArePublic
  BY DEF NetInv, ConnectionsArePublic, Net!ConnectionsArePublic
<1>2. QED
  BY <1>1, NetInit, NetNext, PTL DEF Net!Spec

-----------------------------------------------------------------------------
(* Redis cache: hits are recent                                            *)

\* What is kept under a key.
CacheEntries == [value : Nat, age : Nat]

\* The inductive invariant: an entry of Redis is younger than its ttl, or has
\* just been stored, and as long as no command has failed it is the last write
\* of its key.  What is in memory may be old.
CacheInv ==
  /\ writes \in Nat /\ broken \in BOOLEAN
  /\ latest \in [CacheKeys -> Nat]
  /\ redis \in [CacheKeys -> CacheEntries]
  /\ memory \in [Procs -> [CacheKeys -> CacheEntries]]
  /\ \A k \in CacheKeys :
       /\ redis[k].age <= TTL
       /\ ~broken /\ redis[k].value # Cache!Absent => redis[k].value = latest[k]
  /\ HitsAreRecent

\* The stores are empty at first.
LEMMA CacheInit == Cache!Init => CacheInv
<1> SUFFICES ASSUME Cache!Init PROVE CacheInv
  OBVIOUS
<1>1. Cache!NoEntry \in CacheEntries /\ Cache!NoEntry.age = 0 /\ Cache!NoEntry.value = Cache!Absent
  BY DEF Cache!NoEntry, CacheEntries, Cache!Absent
<1>2. redis \in [CacheKeys -> CacheEntries] /\ memory \in [Procs -> [CacheKeys -> CacheEntries]]
  BY <1>1 DEF Cache!Init, Cache!Empty
<1>3. \A k \in CacheKeys : redis[k].age <= TTL /\ redis[k].value = Cache!Absent
  BY <1>1, TTLAssumption DEF Cache!Init, Cache!Empty
<1>4. writes \in Nat /\ broken \in BOOLEAN /\ latest \in [CacheKeys -> Nat]
  BY DEF Cache!Init, Cache!Absent
<1>5. HitsAreRecent
  BY DEF Cache!Init, HitsAreRecent, Cache!HitsAreRecent, Cache!NoAnswer
<1>6. QED
  BY <1>2, <1>3, <1>4, <1>5 DEF CacheInv

\* After a put, the stores hold entries, and Redis only entries of the two kinds.
LEMMA Putting ==
  ASSUME CacheInv, NEW p \in Procs, NEW k \in CacheKeys, NEW path, NEW effect \in BOOLEAN,
         NEW e \in CacheEntries, e.age <= TTL, Cache!Put(p, k, e, path, effect),
         Cache!Outcome(p, path, effect), broken' \in BOOLEAN,
         \A j \in CacheKeys \ {k} : latest'[j] = latest[j],
         e.value # Cache!Absent => e.value = latest'[k]
  PROVE  /\ redis' \in [CacheKeys -> CacheEntries]
         /\ memory' \in [Procs -> [CacheKeys -> CacheEntries]]
         /\ \A j \in CacheKeys :
              /\ redis'[j].age <= TTL
              /\ ~broken' /\ redis'[j].value # Cache!Absent => redis'[j].value = latest'[j]
<1>1. redis' \in [CacheKeys -> CacheEntries] /\ memory' \in [Procs -> [CacheKeys -> CacheEntries]]
  BY DEF Cache!Put, CacheInv
<1>2. ~broken' => ~broken /\ effect
  BY DEF Cache!Outcome, CacheInv
<1>3. ASSUME NEW j \in CacheKeys
      PROVE  /\ redis'[j].age <= TTL
             /\ ~broken' /\ redis'[j].value # Cache!Absent => redis'[j].value = latest'[j]
  <2>1. CASE j = k /\ effect
    BY <2>1 DEF Cache!Put, CacheInv
  <2>2. CASE j # k
    BY <1>2, <2>2 DEF Cache!Put, CacheInv
  <2>3. CASE ~effect
    BY <1>2, <2>3 DEF Cache!Put, CacheInv
  <2>4. QED
    BY <2>1, <2>2, <2>3
<1>4. QED
  BY <1>1, <1>3

\* Every action keeps Redis young and, as long as no command fails, up to date.
LEMMA CacheNext == CacheInv /\ [Cache!Next]_(Cache!vars) => CacheInv'
<1> SUFFICES ASSUME CacheInv, [Cache!Next]_(Cache!vars) PROVE CacheInv'
  OBVIOUS
<1>n. /\ Cache!NoEntry \in CacheEntries /\ Cache!NoEntry.age = 0 /\ Cache!NoEntry.value = Cache!Absent
      /\ Cache!Empty \in [CacheKeys -> CacheEntries] /\ Cache!Absent \in Nat /\ 0 <= TTL
  BY TTLAssumption DEF Cache!NoEntry, CacheEntries, Cache!Absent, Cache!Empty
<1>1. ASSUME NEW p \in Procs, NEW path \in {"redis", "memory", "raise"}, NEW effect \in BOOLEAN,
             NEW k \in CacheKeys, Cache!Set(p, k, path, effect)
      PROVE  CacheInv'
  <2> DEFINE e == [value |-> writes + 1, age |-> 0]
  <2>1. e \in CacheEntries /\ e.value = writes + 1 /\ e.age = 0
    BY DEF CacheInv, CacheEntries
  <2>2. /\ Cache!Put(p, k, e, path, effect) /\ Cache!Outcome(p, path, effect)
        /\ writes' = writes + 1 /\ latest' = [latest EXCEPT ![k] = writes + 1] /\ UNCHANGED hit
    BY <1>1 DEF Cache!Set
  <2> HIDE DEF e
  <2>3. broken' \in BOOLEAN
    BY <2>2 DEF Cache!Outcome
  <2>4. latest' \in [CacheKeys -> Nat] /\ writes' \in Nat /\ e.age <= TTL
        /\ (\A j \in CacheKeys \ {k} : latest'[j] = latest[j])
        /\ (e.value # Cache!Absent => e.value = latest'[k])
    BY <1>n, <2>1, <2>2 DEF CacheInv
  <2>5. HitsAreRecent'
    BY <2>2 DEF CacheInv, HitsAreRecent, Cache!HitsAreRecent
  <2>6. QED
    BY <2>1, <2>2, <2>3, <2>4, <2>5, Putting DEF CacheInv
<1>2. ASSUME NEW p \in Procs, NEW path \in {"redis", "memory", "raise"}, NEW effect \in BOOLEAN,
             NEW k \in CacheKeys, Cache!Delete(p, k, path, effect)
      PROVE  CacheInv'
  <2>2. /\ Cache!Put(p, k, Cache!NoEntry, path, effect) /\ Cache!Outcome(p, path, effect)
        /\ writes' = writes /\ latest' = [latest EXCEPT ![k] = Cache!Absent] /\ UNCHANGED hit
    BY <1>2 DEF Cache!Delete
  <2>3. broken' \in BOOLEAN
    BY <2>2 DEF Cache!Outcome
  <2>4. latest' \in [CacheKeys -> Nat] /\ writes' \in Nat /\ Cache!NoEntry.age <= TTL
        /\ (\A j \in CacheKeys \ {k} : latest'[j] = latest[j])
    BY <1>n, <2>2 DEF CacheInv
  <2>5. HitsAreRecent'
    BY <2>2 DEF CacheInv, HitsAreRecent, Cache!HitsAreRecent
  <2>6. QED
    BY <1>n, <2>2, <2>3, <2>4, <2>5, Putting DEF CacheInv
<1>3. ASSUME NEW p \in Procs, NEW path \in {"redis", "memory", "raise"}, NEW effect \in BOOLEAN,
             NEW k \in CacheKeys, Cache!Get(p, k, path, effect)
      PROVE  CacheInv'
  <2> DEFINE e == IF path = "redis" THEN redis[k] ELSE Cache!Live(memory[p][k])
             a == [value |-> e.value, age |-> e.age, latest |-> latest[k], sure |-> ~broken']
  <2>1. /\ Cache!Outcome(p, path, effect)
        /\ memory' = (IF path = "memory" THEN [memory EXCEPT ![p][k] = e] ELSE memory)
        /\ hit' = (IF path = "raise" THEN hit ELSE a)
        /\ UNCHANGED <<redis, writes, latest>>
    BY <1>3 DEF Cache!Get
  <2>2. e \in CacheEntries /\ (e.value # Cache!Absent => e.age <= TTL)
    BY <1>n DEF CacheInv, Cache!Live
  <2>3. broken' \in BOOLEAN /\ (~broken' => ~broken /\ path = "redis")
    BY <2>1 DEF Cache!Outcome, CacheInv
  <2>4. ~broken' => e = redis[k]
    BY <2>3
  <2>5. a.value = e.value /\ a.age = e.age /\ a.latest = latest[k] /\ (a.sure <=> ~broken')
    BY <2>3
  <2> HIDE DEF e, a
  <2>6. HitsAreRecent'
    BY <2>1, <2>2, <2>3, <2>4, <2>5 DEF CacheInv, HitsAreRecent, Cache!HitsAreRecent
  <2>7. memory' \in [Procs -> [CacheKeys -> CacheEntries]]
    BY <2>1, <2>2 DEF CacheInv
  <2>8. QED
    BY <2>1, <2>3, <2>6, <2>7 DEF CacheInv
<1>4. ASSUME NEW p \in Procs, NEW path \in {"redis", "memory", "raise"}, NEW effect \in BOOLEAN,
             Cache!Clear(p, path, effect)
      PROVE  CacheInv'
  <2>1. /\ broken' = (broken \/ path # "redis") /\ UNCHANGED <<redis, writes, latest, hit>>
        /\ memory' = (IF path = "memory" THEN [memory EXCEPT ![p] = Cache!Empty] ELSE memory)
    BY <1>4 DEF Cache!Clear, Cache!Outcome
  <2>2. memory' \in [Procs -> [CacheKeys -> CacheEntries]]
    BY <1>n, <2>1 DEF CacheInv
  <2>3. HitsAreRecent'
    BY <2>1 DEF CacheInv, HitsAreRecent, Cache!HitsAreRecent
  <2>4. QED
    BY <2>1, <2>2, <2>3 DEF CacheInv
<1>5. ASSUME NEW p \in Procs, NEW path \in {"redis", "memory", "raise"}, NEW effect \in BOOLEAN,
             Cache!ClearListed(p, path, effect)
      PROVE  CacheInv'
  <2>1. /\ broken' = (broken \/ path # "redis") /\ (path = "redis" => effect)
        /\ UNCHANGED <<writes, hit>>
        /\ memory' = (IF path = "memory" THEN [memory EXCEPT ![p] = Cache!Empty] ELSE memory)
        /\ redis' = [j \in CacheKeys |-> IF effect /\ j \in clearing[p] THEN Cache!NoEntry ELSE redis[j]]
        /\ latest' = [j \in CacheKeys |-> IF j \in clearing[p] THEN Cache!Absent ELSE latest[j]]
    BY <1>5 DEF Cache!ClearListed, Cache!Outcome
  <2>2. memory' \in [Procs -> [CacheKeys -> CacheEntries]]
    BY <1>n, <2>1 DEF CacheInv
  <2>3. HitsAreRecent'
    BY <2>1 DEF CacheInv, HitsAreRecent, Cache!HitsAreRecent
  <2>4. redis' \in [CacheKeys -> CacheEntries] /\ latest' \in [CacheKeys -> Nat]
    BY <1>n, <2>1 DEF CacheInv
  <2>5. \A j \in CacheKeys :
          /\ redis'[j].age <= TTL
          /\ ~broken' /\ redis'[j].value # Cache!Absent => redis'[j].value = latest'[j]
    BY <1>n, <2>1 DEF CacheInv
  <2>6. QED
    BY <2>1, <2>2, <2>3, <2>4, <2>5 DEF CacheInv
<1>6. CASE Cache!Tick
  <2>1. /\ redis' = [k \in CacheKeys |->
              IF redis[k] = Cache!NoEntry \/ redis[k].age + 1 >= TTL THEN Cache!NoEntry
              ELSE [redis[k] EXCEPT !.age = @ + 1]]
        /\ memory' = [p \in Procs |-> [k \in CacheKeys |->
              IF memory[p][k] = Cache!NoEntry THEN Cache!NoEntry
              ELSE [memory[p][k] EXCEPT !.age = IF @ > TTL THEN @ ELSE @ + 1]]]
        /\ UNCHANGED <<writes, latest, broken, hit>>
    BY <1>6 DEF Cache!Tick
  <2>2. ASSUME NEW e \in CacheEntries, NEW n \in Nat
        PROVE  /\ [e EXCEPT !.age = n] \in CacheEntries
               /\ [e EXCEPT !.age = n].age = n /\ [e EXCEPT !.age = n].value = e.value
    BY DEF CacheEntries
  <2>3. ASSUME NEW p \in Procs, NEW k \in CacheKeys
        PROVE  (IF memory[p][k] = Cache!NoEntry THEN Cache!NoEntry
                ELSE [memory[p][k] EXCEPT !.age = IF @ > TTL THEN @ ELSE @ + 1]) \in CacheEntries
    <3> DEFINE e == memory[p][k]
    <3>1. e \in CacheEntries /\ e.age \in Nat
      BY DEF CacheInv, CacheEntries
    <3> HIDE DEF e
    <3>2. [e EXCEPT !.age = IF @ > TTL THEN @ ELSE @ + 1] \in CacheEntries
      BY <3>1, <2>2
    <3>3. QED
      BY <1>n, <3>2 DEF e
  <2>4. memory' \in [Procs -> [CacheKeys -> CacheEntries]]
    BY <2>1, <2>3
  <2>5. ASSUME NEW k \in CacheKeys
        PROVE  /\ redis'[k] \in CacheEntries /\ redis'[k].age <= TTL
               /\ ~broken' /\ redis'[k].value # Cache!Absent => redis'[k].value = latest'[k]
    <3> DEFINE e == redis[k]
    <3>1. e \in CacheEntries /\ e.age \in Nat
      BY DEF CacheInv, CacheEntries
    <3>2. redis'[k] = IF e = Cache!NoEntry \/ e.age + 1 >= TTL THEN Cache!NoEntry
                      ELSE [e EXCEPT !.age = @ + 1]
      BY <2>1
    <3>3. ~broken /\ e.value # Cache!Absent => e.value = latest[k]
      BY DEF CacheInv
    <3> HIDE DEF e
    <3>4. CASE redis'[k] = Cache!NoEntry
      BY <1>n, <3>4
    <3>5. CASE redis'[k] = [e EXCEPT !.age = e.age + 1] /\ e.age + 1 < TTL
      <4>1. e.age + 1 \in Nat
        BY <3>1
      <4>2. /\ redis'[k] \in CacheEntries /\ redis'[k].age = e.age + 1 /\ redis'[k].value = e.value
        BY <2>2, <3>1, <3>5, <4>1
      <4>3. QED
        BY <2>1, <3>1, <3>3, <3>5, <4>2, TTLAssumption
    <3>6. QED
      BY <3>1, <3>2, <3>4, <3>5, TTLAssumption
  <2>6. redis' \in [CacheKeys -> CacheEntries]
    BY <2>1, <2>5
  <2>7. HitsAreRecent'
    BY <2>1 DEF CacheInv, HitsAreRecent, Cache!HitsAreRecent
  <2>8. QED
    BY <2>1, <2>4, <2>5, <2>6, <2>7 DEF CacheInv
<1>7. CASE UNCHANGED Cache!vars
  BY <1>7 DEF Cache!vars, CacheInv, HitsAreRecent, Cache!HitsAreRecent
<1>8. QED
  BY <1>1, <1>2, <1>3, <1>4, <1>5, <1>6, <1>7 DEF Cache!Next

\* However connections break and processes fall back to their memories, a hit
\* is no older than the ttl, and as long as no command has failed it is the
\* last write of its key.  (RedisCache.get, set, delete, clear)
THEOREM RecentHits == Cache!Spec => []HitsAreRecent
<1>1. CacheInv => HitsAreRecent
  BY DEF CacheInv
<1>2. QED
  BY <1>1, CacheInit, CacheNext, PTL DEF Cache!Spec

-----------------------------------------------------------------------------
(* Induction, and folds from the left                                      *)

\* Induction over the natural numbers, for a set instead of a property: no set
\* of numbers that has 0 and with every number the next one leaves one out.
LEMMA NatInductionSet ==
  ASSUME NEW S, 0 \in S, \A n \in Nat : n \in S => n + 1 \in S
  PROVE  Nat \subseteq S
<1>1. SUFFICES ASSUME Nat \ S # {} PROVE FALSE
  OBVIOUS
<1> DEFINE T == Nat \ S
<1>2. \E x \in T : \A y \in T : <<y, x>> \notin OpToRel(<, Nat)
  BY <1>1, WFMin, NatLessThanWellFounded, T \subseteq Nat
<1>3. PICK x \in T : \A y \in T : <<y, x>> \notin OpToRel(<, Nat)
  BY <1>2
<1>4. x \in Nat /\ x # 0 /\ x - 1 \in Nat
  OBVIOUS
<1>5. <<x - 1, x>> \in OpToRel(<, Nat)
  BY <1>4 DEF OpToRel
<1>6. x - 1 \notin T
  <2> HIDE DEF T
  <2> QED
    BY <1>3, <1>5
<1>7. x = (x - 1) + 1
  BY <1>4
<1>8. QED
  BY <1>4, <1>6, <1>7

-----------------------------------------------------------------------------
(* calendar                                                                *)

\* f takes sets apart, element after element in the order of pick, and puts
\* their elements together by h.
Folds(f, D, base, pick, h) ==
  \A t \in SUBSET D : f[t] = IF t = {} THEN base ELSE h[<<pick[t], f[t \ {pick[t]}]>>]

Picks(pick, D) == \A t \in SUBSET D : t # {} => pick[t] \in t
StaysIn(h, D, B) == \A x \in D, y \in B : h[<<x, y>>] \in B

\* Folds exist: the function that takes a set apart element after element, in
\* the order of pick, and puts its elements together by h is there for every
\* finite set.
LEMMA FoldExists ==
  ASSUME NEW D, IsFiniteSet(D), NEW B, NEW base \in B, NEW pick, NEW h,
         Picks(pick, D), StaysIn(h, D, B)
  PROVE  \E f \in [SUBSET D -> B] : Folds(f, D, base, pick, h)
<1> DEFINE Step(f, t) == IF t = {} THEN base ELSE h[<<pick[t], f[t \ {pick[t]}]>>]
           S == {n \in Nat : \E f \in [SUBSET D -> B] :
                   \A t \in SUBSET D : Cardinality(t) <= n => f[t] = Step(f, t)}
<1>1. ASSUME NEW t \in SUBSET D
      PROVE  /\ IsFiniteSet(t) /\ Cardinality(t) \in Nat /\ (Cardinality(t) = 0 <=> t = {})
             /\ t # {} => /\ t \ {pick[t]} \in SUBSET D
                          /\ Cardinality(t \ {pick[t]}) = Cardinality(t) - 1
  BY FS_Subset, FS_CardinalityType, FS_EmptySet, FS_RemoveElement DEF Picks
<1>2. ASSUME NEW f \in [SUBSET D -> B], NEW t \in SUBSET D PROVE Step(f, t) \in B
  BY <1>1 DEF Picks, StaysIn
<1>3. 0 \in S
  <2> DEFINE f == [t \in SUBSET D |-> base]
  <2>1. f \in [SUBSET D -> B]
    OBVIOUS
  <2>2. ASSUME NEW t \in SUBSET D, Cardinality(t) <= 0 PROVE f[t] = Step(f, t)
    <3>1. Cardinality(t) \in Nat /\ (Cardinality(t) = 0 <=> t = {})
      BY <1>1
    <3>2. t = {}
      BY <2>2, <3>1
    <3>3. QED
      BY <3>2
  <2> HIDE DEF f, Step
  <2>3. QED
    BY <2>1, <2>2
<1>4. ASSUME NEW n \in Nat, n \in S PROVE n + 1 \in S
  <2>1. PICK f \in [SUBSET D -> B] : \A t \in SUBSET D : Cardinality(t) <= n => f[t] = Step(f, t)
    BY <1>4
  <2> DEFINE g == [t \in SUBSET D |-> Step(f, t)]
  <2>2. g \in [SUBSET D -> B]
    <3> HIDE DEF Step
    <3> QED
      BY <1>2
  <2>3. ASSUME NEW t \in SUBSET D, Cardinality(t) <= n + 1 PROVE g[t] = Step(g, t)
    <3>1. CASE t = {}
      BY <3>1
    <3>2. CASE t # {}
      <4> DEFINE r == t \ {pick[t]}
      <4>1. r \in SUBSET D /\ Cardinality(r) <= n
        <5>1. Cardinality(r) = Cardinality(t) - 1 /\ Cardinality(t) \in Nat /\ r \in SUBSET D
          BY <1>1, <3>2
        <5> HIDE DEF r
        <5>2. QED
          BY <2>3, <5>1
      <4>2. f[r] = Step(f, r) /\ g[r] = Step(f, r)
        <5> HIDE DEF Step, r
        <5> QED
          BY <2>1, <4>1
      <4>3. g[t] = h[<<pick[t], f[r]>>]
        BY <3>2
      <4> HIDE DEF g, r
      <4>4. QED
        BY <3>2, <4>2, <4>3 DEF r
    <3>3. QED
      BY <3>1, <3>2
  <2> HIDE DEF g, Step
  <2>4. QED
    BY <2>2, <2>3
<1>5. Cardinality(D) \in S
  <2> HIDE DEF S
  <2> QED
    BY <1>3, <1>4, NatInductionSet, FS_CardinalityType
<1>6. PICK f \in [SUBSET D -> B] : \A t \in SUBSET D : Cardinality(t) <= Cardinality(D) => f[t] = Step(f, t)
  BY <1>5
<1>7. ASSUME NEW t \in SUBSET D PROVE Cardinality(t) <= Cardinality(D)
  BY FS_Subset
<1>8. QED
  BY <1>6, <1>7 DEF Folds

\* A set of the first n numbers has a largest one.
LEMMA Largest ==
  ASSUME NEW n \in Nat, NEW t \in SUBSET (1 .. n), t # {}
  PROVE  Max(t) \in t /\ \A i \in t : i <= Max(t)
<1> DEFINE T == {d \in Nat : n - d \in t}
<1>1. PICK i \in t : TRUE
  OBVIOUS
<1>2. n - i \in T
  OBVIOUS
<1>3. PICK d \in T : \A e \in T : <<e, d>> \notin OpToRel(<, Nat)
  BY <1>2, WFMin, NatLessThanWellFounded, T \subseteq Nat
<1>4. ASSUME NEW j \in t PROVE j <= n - d
  <2>1. n - j \in T
    OBVIOUS
  <2>2. d \in Nat /\ n - j \in Nat /\ ~(n - j < d)
    BY <1>3, <2>1 DEF OpToRel
  <2>3. QED
    BY <2>2
<1>5. n - d \in t
  OBVIOUS
<1>6. \E x \in t : \A y \in t : x >= y
  BY <1>4, <1>5
<1>7. QED
  BY <1>6 DEF Max

\* And a smallest one.
LEMMA Smallest ==
  ASSUME NEW n \in Nat, NEW t \in SUBSET (1 .. n), t # {}
  PROVE  Min(t) \in t /\ \A i \in t : Min(t) <= i
<1>1. t \subseteq Nat
  OBVIOUS
<1>2. PICK d \in t : \A e \in t : <<e, d>> \notin OpToRel(<, Nat)
  BY <1>1, WFMin, NatLessThanWellFounded
<1>3. ASSUME NEW j \in t PROVE d <= j
  <2>1. j \in Nat /\ d \in Nat
    BY <1>1, <1>2
  <2>2. ~(j < d)
    BY <1>2, <2>1 DEF OpToRel
  <2>3. QED
    BY <2>1, <2>2
<1>4. \E x \in t : \A y \in t : x =< y
  BY <1>3
<1>5. QED
  BY <1>4 DEF Min

\* The largest of the first k numbers is k, and the others are the first k - 1.
LEMMA FirstNumbers ==
  ASSUME NEW n \in Nat, NEW k \in 1 .. n
  PROVE  /\ 1 .. k \in SUBSET (1 .. n) /\ 1 .. k # {}
         /\ Max(1 .. k) = k /\ (1 .. k) \ {k} = 1 .. (k - 1)
<1>1. 1 .. k \in SUBSET (1 .. n) /\ k \in 1 .. k
  OBVIOUS
<1>2. Max(1 .. k) \in 1 .. k /\ k <= Max(1 .. k)
  BY <1>1, Largest
<1>3. QED
  BY <1>1, <1>2

\* f is a fold from the left over n things: it takes sets of their numbers
\* apart, the largest first.
FoldsLeft(f, n, B, base, h) ==
  /\ f \in [SUBSET (1 .. n) -> B] /\ f[{}] = base
  /\ \A t \in SUBSET (1 .. n) : t # {} =>
       Max(t) \in t /\ f[t \ {Max(t)}] \in B /\ f[t] = h[<<Max(t), f[t \ {Max(t)}]>>]

\* There are folds from the left.
LEMMA FoldLeftExists ==
  ASSUME NEW n \in Nat, NEW B, NEW base \in B, NEW h, StaysIn(h, 1 .. n, B)
  PROVE  \E f : FoldsLeft(f, n, B, base, h)
<1> DEFINE D == 1 .. n
           pick == [t \in SUBSET D |-> Max(t)]
<1>1. IsFiniteSet(D)
  BY FS_Interval
<1>2. Picks(pick, D)
  BY Largest DEF Picks
<1>3. PICK f \in [SUBSET D -> B] : Folds(f, D, base, pick, h)
  <2>1. StaysIn(h, D, B)
    OBVIOUS
  <2> HIDE DEF D, pick
  <2>2. QED
    BY <1>1, <1>2, <2>1, FoldExists
<1>4. ASSUME NEW t \in SUBSET D, t # {}
      PROVE  Max(t) \in t /\ f[t \ {Max(t)}] \in B /\ f[t] = h[<<Max(t), f[t \ {Max(t)}]>>]
  <2>1. pick[t] = Max(t) /\ Max(t) \in t
    BY <1>2, <1>4 DEF Picks
  <2>2. t \ {Max(t)} \in SUBSET D
    OBVIOUS
  <2> HIDE DEF D, pick
  <2>3. QED
    BY <1>3, <1>4, <2>1, <2>2 DEF Folds
<1>5. f[{}] = base
  BY <1>3 DEF Folds
<1>6. QED
  BY <1>4, <1>5 DEF FoldsLeft

\* What f makes of a set it makes, by h, of the set without its largest number.
Unfolds(f, n, B, base, h) ==
  /\ f[{}] = base
  /\ \A t \in SUBSET (1 .. n) :
       t # {} /\ f[t \ {Max(t)}] \in B => f[t] = h[<<Max(t), f[t \ {Max(t)}]>>]

\* P[k] is what a fold from the left has made of the first k things.
Runs(P, n, B, base, h) ==
  /\ P \in [0 .. n -> B] /\ P[0] = base
  /\ \A k \in 1 .. n : P[k] = h[<<k, P[k - 1]>>]

\* A fold goes through the things one by one.
LEMMA FoldRuns ==
  ASSUME NEW n \in Nat, NEW B, NEW base \in B, NEW h, StaysIn(h, 1 .. n, B), NEW it, Unfolds(it, n, B, base, h)
  PROVE  \E P : Runs(P, n, B, base, h) /\ P[n] = it[1 .. n]
<1> DEFINE P == [k \in 0 .. n |-> it[1 .. k]]
<1>1. P[0] = base /\ P[n] = it[1 .. n]
  <2>1. 1 .. 0 = {} /\ 0 \in 0 .. n /\ n \in 0 .. n
    OBVIOUS
  <2>2. QED
    BY <2>1 DEF Unfolds
<1>2. ASSUME NEW k \in 1 .. n, P[k - 1] \in B PROVE P[k] = h[<<k, P[k - 1]>>] /\ P[k] \in B
  <2>1. /\ 1 .. k \in SUBSET (1 .. n) /\ 1 .. k # {}
        /\ Max(1 .. k) = k /\ (1 .. k) \ {k} = 1 .. (k - 1)
    BY FirstNumbers
  <2>2. P[k] = it[1 .. k] /\ P[k - 1] = it[1 .. (k - 1)]
    OBVIOUS
  <2>3. P[k] = h[<<k, P[k - 1]>>]
    <3> HIDE DEF P
    <3> QED
      BY <1>2, <2>1, <2>2 DEF Unfolds
  <2> HIDE DEF P
  <2>4. QED
    BY <1>2, <2>3 DEF StaysIn
<1>3. \A k \in 0 .. n : P[k] \in B
  <2> DEFINE S == {k \in Nat : k <= n => P[k] \in B}
  <2> HIDE DEF P
  <2>1. 0 \in S
    BY <1>1
  <2>2. ASSUME NEW k \in Nat, k \in S PROVE k + 1 \in S
    <3>1. CASE k + 1 <= n
      <4> DEFINE j == k + 1
      <4>1. j - 1 = k /\ j \in 1 .. n /\ j \in Nat
        BY <3>1
      <4>2. P[j - 1] \in B
        BY <2>2, <4>1
      <4> HIDE DEF j
      <4>3. P[j] \in B
        BY <1>2, <4>1, <4>2
      <4>4. QED
        BY <4>1, <4>3 DEF j
    <3>2. CASE ~(k + 1 <= n)
      BY <3>2
    <3>3. QED
      BY <3>1, <3>2
  <2> HIDE DEF S
  <2>3. Nat \subseteq S
    BY <2>1, <2>2, NatInductionSet
  <2>4. QED
    BY <2>3 DEF S
<1>4. P \in [0 .. n -> B]
  BY <1>3
<1>5. \A k \in 1 .. n : P[k] = h[<<k, P[k - 1]>>]
  <2> HIDE DEF P
  <2> QED
    BY <1>2, <1>3
<1> HIDE DEF P
<1>6. QED
  BY <1>1, <1>4, <1>5 DEF Runs

-----------------------------------------------------------------------------
(* calendar: no event is lost                                              *)

\* The calendar counts as this module does.
LEMMA EventCount == ASSUME NEW S PROVE Booking!Cardinality(S) = Cardinality(S)
BY DEF Booking!Cardinality, Cardinality, Booking!IsFiniteSet, IsFiniteSet

\* The inductive invariant: the ids in use are numbers up to the counter, and
\* as many as were not deleted.
EventsInv ==
  /\ eventCounter \in Nat /\ deleted \in Nat
  /\ IsFiniteSet(DOMAIN events) /\ DOMAIN events \subseteq 1 .. eventCounter
  /\ Cardinality(DOMAIN events) = eventCounter - deleted

\* There is no event at first.
LEMMA EventsInit == Booking!Init => EventsInv
<1> SUFFICES ASSUME Booking!Init PROVE EventsInv
  OBVIOUS
<1>1. DOMAIN events = {}
  BY DEF Booking!Init
<1>2. QED
  BY <1>1, FS_EmptySet DEF Booking!Init, EventsInv

\* A new event has an id that none has had (create_event), and a deletion takes
\* one away (delete_event).
LEMMA EventsNext == EventsInv /\ [Booking!Next]_(Booking!vars) => EventsInv'
<1> SUFFICES ASSUME EventsInv, [Booking!Next]_(Booking!vars) PROVE EventsInv'
  OBVIOUS
<1> USE DEF EventsInv
<1>1. ASSUME NEW b \in Bookings, NEW cal \in Calendars, Booking!CreateEvent(b, cal)
      PROVE  EventsInv'
  <2>1. DOMAIN events' = DOMAIN events \cup {eventCounter + 1} /\ eventCounter' = eventCounter + 1
    BY <1>1 DEF Booking!CreateEvent, Booking!NewId
  <2>2. eventCounter + 1 \notin DOMAIN events
    OBVIOUS
  <2>3. /\ IsFiniteSet(DOMAIN events \cup {eventCounter + 1})
        /\ Cardinality(DOMAIN events \cup {eventCounter + 1}) = Cardinality(DOMAIN events) + 1
    BY <2>2, FS_AddElement
  <2>4. QED
    BY <1>1, <2>1, <2>3 DEF Booking!CreateEvent
<1>2. ASSUME NEW id, Booking!DeleteEvent(id) PROVE EventsInv'
  <2>1. id \in DOMAIN events /\ DOMAIN events' = DOMAIN events \ {id}
    BY <1>2 DEF Booking!DeleteEvent, Booking!Restrict
  <2>2. /\ IsFiniteSet(DOMAIN events \ {id})
        /\ Cardinality(DOMAIN events \ {id}) = Cardinality(DOMAIN events) - 1
    BY <2>1, FS_RemoveElement
  <2>3. eventCounter' = eventCounter /\ deleted' = deleted + 1
    BY <1>2 DEF Booking!DeleteEvent
  <2>4. QED
    BY <2>1, <2>2, <2>3
<1>3. ASSUME NEW r, NEW d, NEW cal, Booking!FindSlots(r, d, cal) PROVE EventsInv'
  BY <1>3 DEF Booking!FindSlots
<1>4. CASE UNCHANGED Booking!vars
  BY <1>4 DEF Booking!vars
<1>5. QED
  BY <1>1, <1>2, <1>3, <1>4 DEF Booking!Next

\* However creations and deletions follow one another, every event that was
\* created and not deleted is there under an id of its own.  (create_event,
\* delete_event)
THEOREM NothingIsLost == Booking!Spec => []NoEventLost
<1>1. EventsInv => NoEventLost
  BY EventCount DEF EventsInv, NoEventLost, Booking!NoEventLost
<1>2. QED
  BY <1>1, EventsInit, EventsNext, PTL DEF Booking!Spec

-----------------------------------------------------------------------------
(* calendar: the slots are exact                                           *)

\* What is free in the rest of a search that has come to t.
Busy == [start : Int, end : Int, calendar : Calendars]
GridFrom(t, day) == IF day = Booking!DayOf(t) THEN t ELSE Booking!Opens(day)
Slots(t, end, busy, d) ==
  {u \in t .. end - 1 :
     /\ Booking!Working(u)
     /\ u >= GridFrom(t, Booking!DayOf(u)) /\ (u - GridFrom(t, Booking!DayOf(u))) % d = 0
     /\ u + d <= Booking!Closes(Booking!DayOf(u))
     /\ \A b \in busy : b.end <= u \/ u + d <= b.start}

\* A time is in its day, later times are in the same day or in later ones, and
\* the hours of a day are in it.
LEMMA InItsDay ==
  ASSUME NEW t \in Int
  PROVE  /\ Booking!DayOf(t) \in Int
         /\ Booking!DayOf(t) * Day <= t /\ t < Booking!DayOf(t) * Day + Day
  BY CalendarAssumption, SMT DEF Booking!DayOf

LEMMA Product ==
  ASSUME NEW a \in Int, NEW b \in Int, a < b
  PROVE  a * Day + Day <= b * Day /\ a * Day \in Int /\ b * Day \in Int
<1>1. b = a + 1 + (b - a - 1) /\ b - a - 1 \in Nat
  OBVIOUS
<1> DEFINE c == b - a - 1
<1>2. (a + 1 + c) * Day = a * Day + Day + c * Day /\ c * Day >= 0
  BY CalendarAssumption, SMT
<1>3. QED
  BY <1>1, <1>2, CalendarAssumption

LEMMA DayIs ==
  ASSUME NEW t \in Int, NEW n \in Int, n * Day <= t, t < n * Day + Day
  PROVE  Booking!DayOf(t) = n
<1> DEFINE m == Booking!DayOf(t)
<1>1. m \in Int /\ m * Day <= t /\ t < m * Day + Day
  BY InItsDay
<1> HIDE DEF m
<1>2. ~(m < n)
  BY <1>1, Product, CalendarAssumption
<1>3. ~(n < m)
  BY <1>1, Product, CalendarAssumption
<1>4. QED
  BY <1>1, <1>2, <1>3 DEF m

\* The remainder of a division is what is left when multiples are taken away.
LEMMA Remainder ==
  ASSUME NEW d \in Nat \ {0}, NEW x \in Int
  PROVE  /\ x % d \in 0 .. d - 1 /\ x \div d \in Int /\ x = d * (x \div d) + (x % d)
  BY SMT

LEMMA RemainderIs ==
  ASSUME NEW d \in Nat \ {0}, NEW n \in Int, NEW r \in 0 .. d - 1
  PROVE  (d * n + r) % d = r
<1> DEFINE x == d * n + r
           m == x \div d
           s == x % d
<1>1. x \in Int
  OBVIOUS
<1>2. s \in 0 .. d - 1 /\ m \in Int /\ x = d * m + s
  <2> HIDE DEF x
  <2> QED
    BY <1>1, Remainder
<1> HIDE DEF m, s
<1>3. m = n
  <2> DEFINE k == m - n
  <2>1. k \in Int /\ m = n + k
    BY <1>2
  <2> HIDE DEF k
  <2>2. d * (n + k) = d * n + d * k /\ d * k \in Int
    BY <2>1, SMT
  <2>3. d * k = r - s
    BY <1>2, <2>1, <2>2
  <2>4. k >= 1 => d * k >= d
    BY <2>1, SMT
  <2>5. k <= -1 => d * k <= -d
    BY <2>1, SMT
  <2>6. k = 0
    BY <1>2, <2>1, <2>3, <2>4, <2>5
  <2>7. QED
    BY <2>1, <2>6
<1>4. QED
  BY <1>2, <1>3 DEF s

\* A grid of steps d that is past its first point begins one step later.
LEMMA OneStepOn ==
  ASSUME NEW d \in Nat \ {0}, NEW x \in Nat, x # 0
  PROVE  x % d = 0 <=> x >= d /\ (x - d) % d = 0
<1> DEFINE n == x \div d
           r == x % d
<1>1. r \in 0 .. d - 1 /\ n \in Int /\ x = d * n + r
  BY Remainder
<1> HIDE DEF n, r
<1>2. x - d = d * (n - 1) + r /\ n - 1 \in Int
  BY <1>1, SMT
<1>3. (x - d) % d = r
  BY <1>1, <1>2, RemainderIs
<1>4. r = 0 => x >= d
  <2>1. n >= 1 => d * n >= d
    BY <1>1, SMT
  <2>2. n <= 0 => d * n <= 0
    BY <1>1, SMT
  <2>3. QED
    BY <1>1, <2>1, <2>2
<1>5. QED
  BY <1>3, <1>4 DEF r

\* The larger of two numbers is one of them, and neither is larger.
LEMMA LargerOfTwo ==
  ASSUME NEW a \in Int, NEW b \in Int
  PROVE  Booking!Max({a, b}) = IF a >= b THEN a ELSE b
<1> DEFINE m == IF a >= b THEN a ELSE b
<1>1. m \in {a, b} /\ \A y \in {a, b} : m >= y
  OBVIOUS
<1>2. \A x \in {a, b} : (\A y \in {a, b} : x >= y) => x = m
  OBVIOUS
<1> HIDE DEF m
<1>3. m = CHOOSE x \in {a, b} : \A y \in {a, b} : x >= y
  BY <1>1, <1>2
<1>4. QED
  BY <1>3 DEF Booking!Max, m

\* The hours of day n.
LEMMA HoursOf ==
  ASSUME NEW n \in Int
  PROVE  /\ n * Day \in Int /\ (n + 1) * Day = n * Day + Day
         /\ Booking!Opens(n) \in Int /\ Booking!Closes(n) \in Int
         /\ n * Day <= Booking!Opens(n) /\ Booking!Opens(n) < n * Day + Day
         /\ n * Day <= Booking!Closes(n) /\ Booking!Closes(n) < n * Day + Day
         /\ Booking!DayOf(Booking!Opens(n)) = n
<1>1. n * Day \in Int /\ (n + 1) * Day = n * Day + Day
  BY CalendarAssumption, SMT
<1> DEFINE p == n * Day
<1>2. p \in Int /\ StartHour \in Int /\ EndHour \in Int /\ Day \in Int
  BY <1>1, CalendarAssumption
<1>3. Booking!Opens(n) = p + StartHour /\ Booking!Closes(n) = p + EndHour
  BY DEF Booking!Opens, Booking!Closes
<1> HIDE DEF p
<1>4. /\ Booking!Opens(n) \in Int /\ Booking!Closes(n) \in Int
      /\ p <= Booking!Opens(n) /\ Booking!Opens(n) < p + Day
      /\ p <= Booking!Closes(n) /\ Booking!Closes(n) < p + Day
  BY <1>2, <1>3, CalendarAssumption
<1>5. Booking!DayOf(Booking!Opens(n)) = n
  BY <1>4, DayIs DEF p
<1>6. QED
  BY <1>1, <1>4, <1>5 DEF p

\* Where a search that has come to t looks next.
NextTime(t, d) ==
  IF Booking!Working(t) /\ t + d <= Booking!Closes(Booking!DayOf(t))
  THEN t + d ELSE Booking!Opens(Booking!DayOf(t) + 1)

\* It is later, and within two days.
LEMMA NextIsLater ==
  ASSUME NEW t \in Int, NEW d \in Nat \ {0}
  PROVE  NextTime(t, d) \in Int /\ NextTime(t, d) > t /\ NextTime(t, d) < t + 2 * Day
<1> DEFINE n == Booking!DayOf(t)
           o == Booking!Opens(n + 1)
           c == Booking!Closes(n)
           p == n * Day
<1>1. n \in Int /\ p <= t /\ t < p + Day
  BY InItsDay
<1>2. /\ p \in Int /\ (n + 1) * Day = p + Day
      /\ c \in Int /\ c < p + Day
  BY <1>1, HoursOf
<1>3. o \in Int /\ p + Day <= o /\ o < p + Day + Day
  <2> DEFINE m == n + 1
  <2>1. m \in Int /\ m * Day = p + Day
    BY <1>1, <1>2
  <2>2. Booking!Opens(m) \in Int /\ m * Day <= Booking!Opens(m) /\ Booking!Opens(m) < m * Day + Day
    BY <2>1, HoursOf
  <2> HIDE DEF p
  <2>3. QED
    BY <2>1, <2>2
<1>4. NextTime(t, d) = IF Booking!Working(t) /\ t + d <= c THEN t + d ELSE o
  BY DEF NextTime
<1> HIDE DEF p, o, c, n
<1>5. Day \in Nat /\ 2 * Day = Day + Day
  BY CalendarAssumption
<1>6. QED
  BY <1>1, <1>2, <1>3, <1>4, <1>5

\* A search that has come to t: the slot at t, if it is one and free, and what
\* the search finds from the time it looks at next.
LEMMA SlotsUnfold ==
  ASSUME NEW t \in Int, NEW end \in Int, NEW busy \in SUBSET Busy, NEW d \in Nat \ {0}
  PROVE  Slots(t, end, busy, d) =
           IF t >= end THEN {}
           ELSE IF Booking!Working(t) /\ t + d <= Booking!Closes(Booking!DayOf(t))
                THEN (IF \E b \in busy : Booking!Overlaps(t, t + d, b) THEN {} ELSE {t})
                       \cup Slots(t + d, end, busy, d)
           ELSE Slots(Booking!Opens(Booking!DayOf(t) + 1), end, busy, d)
<1> DEFINE n == Booking!DayOf(t)
           p == n * Day
           Free(u) == \A b \in busy : b.end <= u \/ u + d <= b.start
<1>1. n \in Int /\ p \in Int /\ p <= t /\ t < p + Day
  BY InItsDay, HoursOf
<1>2. Free(t) <=> ~\E b \in busy : Booking!Overlaps(t, t + d, b)
  <2>1. \A b \in busy : b.start \in Int /\ b.end \in Int
    BY DEF Busy
  <2>2. QED
    BY <2>1 DEF Booking!Overlaps
<1>3. CASE t >= end
  BY <1>3 DEF Slots
<1>4. CASE t < end /\ Booking!Working(t) /\ t + d <= Booking!Closes(n)
  <2> DEFINE s == t + d
  <2>1. s \in Int /\ t < s /\ s < p + Day /\ Booking!DayOf(s) = n
    <3> DEFINE c == Booking!Closes(n)
    <3>1. c \in Int /\ c < p + Day /\ t + d <= c /\ Day \in Int
      BY <1>1, <1>4, HoursOf, CalendarAssumption
    <3> HIDE DEF c, p
    <3>2. s \in Int /\ t < s /\ p <= s /\ s < p + Day
      BY <1>1, <3>1
    <3> USE DEF p
    <3>3. QED
      BY <1>1, <3>2, DayIs
  <2>2. ASSUME NEW u \in Int PROVE u \in Slots(s, end, busy, d) => u \in Slots(t, end, busy, d)
    <3> DEFINE m == Booking!DayOf(u)
    <3>1. SUFFICES ASSUME u \in Slots(s, end, busy, d) PROVE u \in Slots(t, end, busy, d)
      OBVIOUS
    <3>2. u \in s .. end - 1 /\ Booking!Working(u) /\ u + d <= Booking!Closes(m) /\ Free(u)
      BY <3>1 DEF Slots
    <3>3. u >= GridFrom(s, m) /\ (u - GridFrom(s, m)) % d = 0
      BY <3>1 DEF Slots
    <3>4. u >= GridFrom(t, m) /\ (u - GridFrom(t, m)) % d = 0
      <4>1. CASE m = n
        <5>1. GridFrom(s, m) = s /\ GridFrom(t, m) = t
          BY <2>1, <4>1 DEF GridFrom
        <5> DEFINE x == u - t
        <5>2. x \in Nat /\ x # 0 /\ x >= d /\ x - d = u - s /\ u >= t
          BY <2>1, <3>2
        <5>3. x % d = 0
          BY <3>3, <5>1, <5>2, OneStepOn
        <5>4. QED
          BY <5>1, <5>2, <5>3
      <4>2. CASE m # n
        BY <2>1, <3>3, <4>2 DEF GridFrom
      <4>3. QED
        BY <4>1, <4>2
    <3>5. u \in t .. end - 1
      BY <2>1, <3>2
    <3>6. QED
      BY <3>2, <3>4, <3>5 DEF Slots
  <2>3. ASSUME NEW u \in Int, u \in Slots(t, end, busy, d), u # t PROVE u \in Slots(s, end, busy, d)
    <3> DEFINE m == Booking!DayOf(u)
    <3>1. u \in t .. end - 1 /\ Booking!Working(u) /\ u + d <= Booking!Closes(m) /\ Free(u)
      BY <2>3 DEF Slots
    <3>2. u >= GridFrom(t, m) /\ (u - GridFrom(t, m)) % d = 0
      BY <2>3 DEF Slots
    <3>3. u >= s /\ u >= GridFrom(s, m) /\ (u - GridFrom(s, m)) % d = 0
      <4>1. CASE m = n
        <5>1. GridFrom(s, m) = s /\ GridFrom(t, m) = t
          BY <2>1, <4>1 DEF GridFrom
        <5> DEFINE x == u - t
        <5>2. x \in Nat /\ x # 0
          BY <2>3, <3>1
        <5>3. x >= d /\ (x - d) % d = 0
          BY <3>2, <5>1, <5>2, OneStepOn
        <5>4. x - d = u - s /\ u >= s
          BY <2>1, <5>2, <5>3
        <5>5. QED
          BY <5>1, <5>3, <5>4
      <4>2. CASE m # n
        <5>1. GridFrom(s, m) = Booking!Opens(m) /\ GridFrom(t, m) = Booking!Opens(m)
          BY <2>1, <4>2 DEF GridFrom
        <5>2. m \in Int /\ m * Day <= u /\ u < m * Day + Day
          BY InItsDay
        <5>3. ~(m < n)
          <6> DEFINE q == m * Day
          <6>1. m < n => q + Day <= p /\ q \in Int
            BY <1>1, <5>2, Product
          <6>2. q <= u /\ u < q + Day /\ t <= u /\ Day \in Int
            BY <3>1, <5>2, CalendarAssumption
          <6> HIDE DEF q, p
          <6>3. QED
            BY <1>1, <6>1, <6>2
        <5>4. n < m
          BY <1>1, <4>2, <5>2, <5>3
        <5>5. p + Day <= m * Day /\ m * Day \in Int
          BY <1>1, <5>2, <5>4, Product
        <5> DEFINE q == m * Day
        <5>6. q \in Int /\ p + Day <= q /\ q <= u /\ Day \in Int
          BY <5>2, <5>5, CalendarAssumption
        <5> HIDE DEF q, p
        <5>7. u >= s
          BY <1>1, <2>1, <5>6
        <5>8. QED
          BY <3>2, <5>1, <5>7
      <4>3. QED
        BY <4>1, <4>2
    <3>4. u \in s .. end - 1
      BY <2>1, <3>1, <3>3
    <3>5. QED
      BY <3>1, <3>3, <3>4 DEF Slots
  <2>4. t \in Slots(t, end, busy, d) <=> Free(t)
    <3>1. GridFrom(t, n) = t /\ t \in t .. end - 1 /\ t - t = 0
      BY <1>4 DEF GridFrom
    <3>2. 0 % d = 0
      BY SMT
    <3>3. QED
      BY <1>4, <3>1, <3>2 DEF Slots
  <2>5. t \notin Slots(s, end, busy, d) /\ \A u : u \in Slots(s, end, busy, d) \/ u \in Slots(t, end, busy, d) => u \in Int
    BY <2>1 DEF Slots
  <2>6. Slots(t, end, busy, d)
          = (IF \E b \in busy : Booking!Overlaps(t, t + d, b) THEN {} ELSE {t}) \cup Slots(s, end, busy, d)
    BY <1>2, <2>2, <2>3, <2>4, <2>5
  <2>7. QED
    BY <1>4, <2>6
<1>5. CASE t < end /\ ~(Booking!Working(t) /\ t + d <= Booking!Closes(n))
  <2> DEFINE s == Booking!Opens(n + 1)
  <2>1. n + 1 \in Int /\ (n + 1) * Day = p + Day
    BY <1>1, HoursOf
  <2>2. s \in Int /\ p + Day <= s /\ s < p + Day + Day /\ Booking!DayOf(s) = n + 1 /\ t < s
    <3> DEFINE k == n + 1
    <3>1. /\ Booking!Opens(k) \in Int /\ k * Day <= Booking!Opens(k)
          /\ Booking!Opens(k) < k * Day + Day /\ Booking!DayOf(Booking!Opens(k)) = k
      BY <2>1, HoursOf
    <3>2. k * Day = p + Day
      BY <2>1
    <3> HIDE DEF p
    <3>3. QED
      BY <1>1, <3>1, <3>2, CalendarAssumption
  <2>3. ASSUME NEW u \in Int, u >= t, Booking!Working(u), u + d <= Booking!Closes(Booking!DayOf(u)),
               u >= GridFrom(t, Booking!DayOf(u)) \/ u >= s
        PROVE  /\ GridFrom(t, Booking!DayOf(u)) = GridFrom(s, Booking!DayOf(u))
               /\ u >= GridFrom(t, Booking!DayOf(u)) => u >= s
    <3> DEFINE m == Booking!DayOf(u)
               q == m * Day
    <3>1. m \in Int /\ q \in Int /\ q <= u /\ u < q + Day
      BY InItsDay, HoursOf
    <3>2. m # n
      <4>1. SUFFICES ASSUME m = n PROVE FALSE
        OBVIOUS
      <4>2. Booking!Working(t)
        BY <2>3, <4>1 DEF Booking!Working
      <4>3. Booking!Closes(n) \in Int
        BY <1>1, HoursOf
      <4>4. t + d <= Booking!Closes(n)
        BY <2>3, <4>1, <4>3
      <4>5. QED
        BY <1>5, <4>2, <4>4
    <3>3. ~(m < n)
      <4>1. m < n => q + Day <= p
        BY <1>1, <3>1, Product
      <4> HIDE DEF q, p
      <4>2. QED
        BY <1>1, <2>3, <3>1, <4>1, CalendarAssumption
    <3>4. GridFrom(t, m) = Booking!Opens(m)
      BY <3>2 DEF GridFrom
    <3>5. m >= n + 1
      BY <1>1, <3>1, <3>2, <3>3
    <3>6. CASE m = n + 1
      <4>1. Booking!Opens(m) = s /\ GridFrom(s, m) = s
        BY <2>2, <3>6 DEF GridFrom
      <4>2. QED
        BY <3>4, <4>1
    <3>7. CASE m # n + 1
      <4>1. GridFrom(s, m) = Booking!Opens(m)
        BY <2>2, <3>7 DEF GridFrom
      <4>2. n + 1 < m /\ (n + 1) * Day + Day <= q
        BY <1>1, <2>1, <3>1, <3>5, <3>7, Product
      <4>3. p + Day + Day <= q
        BY <2>1, <4>2
      <4> HIDE DEF q, p, s
      <4>4. u >= s
        BY <1>1, <2>2, <3>1, <4>3, CalendarAssumption
      <4>5. QED
        BY <3>4, <4>1, <4>4
    <3>8. QED
      BY <3>6, <3>7
  <2>4. ASSUME NEW u \in Int PROVE u \in Slots(t, end, busy, d) <=> u \in Slots(s, end, busy, d)
    <3>1. ASSUME u \in Slots(t, end, busy, d) PROVE u \in Slots(s, end, busy, d)
      <4>1. /\ u \in t .. end - 1 /\ Booking!Working(u) /\ u + d <= Booking!Closes(Booking!DayOf(u))
            /\ u >= GridFrom(t, Booking!DayOf(u)) /\ (u - GridFrom(t, Booking!DayOf(u))) % d = 0 /\ Free(u)
        BY <3>1 DEF Slots
      <4>2. GridFrom(t, Booking!DayOf(u)) = GridFrom(s, Booking!DayOf(u)) /\ u >= s
        BY <2>3, <4>1
      <4>3. u \in s .. end - 1
        BY <2>2, <4>1, <4>2
      <4> HIDE DEF s
      <4>4. QED
        BY <4>1, <4>2, <4>3 DEF Slots
    <3>2. ASSUME u \in Slots(s, end, busy, d) PROVE u \in Slots(t, end, busy, d)
      <4>1. /\ u \in s .. end - 1 /\ Booking!Working(u) /\ u + d <= Booking!Closes(Booking!DayOf(u))
            /\ u >= GridFrom(s, Booking!DayOf(u)) /\ (u - GridFrom(s, Booking!DayOf(u))) % d = 0 /\ Free(u)
        <5> HIDE DEF s
        <5> QED
          BY <3>2 DEF Slots
      <4>2. u >= t /\ u >= s /\ u \in t .. end - 1
        BY <2>2, <4>1
      <4>3. GridFrom(t, Booking!DayOf(u)) = GridFrom(s, Booking!DayOf(u))
        BY <2>3, <4>1, <4>2
      <4>4. QED
        BY <4>1, <4>2, <4>3 DEF Slots
    <3>3. QED
      BY <3>1, <3>2
  <2>5. \A u : u \in Slots(s, end, busy, d) \/ u \in Slots(t, end, busy, d) => u \in Int
    BY <2>2 DEF Slots
  <2>6. Slots(t, end, busy, d) = Slots(s, end, busy, d)
    BY <2>4, <2>5
  <2>7. QED
    BY <1>5, <2>6
<1>6. QED
  BY <1>1, <1>3, <1>4, <1>5

\* find_free_slots finds what is free from the start, or from the opening of its day.
LEMMA FindsSlots ==
  ASSUME NEW start \in Int, NEW end \in Int, NEW busy \in SUBSET Busy, NEW d \in Nat \ {0}
  PROVE  Booking!FindFreeSlots(start, end, busy, d)
           = Slots(Booking!Max({start, Booking!Opens(Booking!DayOf(start))}), end, busy, d)
<1> DEFINE last == Booking!Max({start, end}) + 2 * Day
           D == start .. last
           earliest == Booking!Max({start, Booking!Opens(Booking!DayOf(start))})
           Here(t) == IF \E b \in busy : Booking!Overlaps(t, t + d, b) THEN {} ELSE {t}
           Rec(f) == [t \in D |->
                        IF t >= end THEN {}
                        ELSE IF Booking!Working(t) /\ t + d <= Booking!Closes(Booking!DayOf(t))
                             THEN Here(t) \cup f[t + d]
                        ELSE f[Booking!Opens(Booking!DayOf(t) + 1)]]
           it == CHOOSE f : f = Rec(f)
<1>1. Booking!FindFreeSlots(start, end, busy, d) = it[earliest]
  BY DEF Booking!FindFreeSlots
<1>2. Day \in Nat \ {0} /\ 2 * Day \in Nat /\ 2 * Day = Day + Day
  BY CalendarAssumption
<1>3. last \in Int /\ start + 2 * Day <= last /\ end + 2 * Day <= last
  <2>1. Booking!Max({start, end}) = IF start >= end THEN start ELSE end
    BY LargerOfTwo
  <2>2. QED
    BY <1>2, <2>1
<1>4. earliest \in D
  <2> DEFINE n == Booking!DayOf(start)
             o == Booking!Opens(n)
             p == n * Day
  <2>1. n \in Int /\ p <= start /\ p \in Int /\ o \in Int /\ o < p + Day
    BY InItsDay, HoursOf
  <2>2. earliest = IF start >= o THEN start ELSE o
    BY <2>1, LargerOfTwo
  <2> HIDE DEF p, o, earliest, last
  <2>3. earliest \in Int /\ start <= earliest /\ earliest <= start + Day
    BY <1>2, <2>1, <2>2
  <2>4. QED
    BY <1>2, <1>3, <2>3
<1> DEFINE next(t) == NextTime(t, d)
<1> HIDE DEF last
<1>5. ASSUME NEW t \in D, t < end PROVE next(t) \in D /\ next(t) > t
  <2>1. t \in Int
    BY <1>3
  <2>2. next(t) \in Int /\ next(t) > t /\ next(t) < t + 2 * Day
    BY <2>1, NextIsLater
  <2> DEFINE s == next(t)
             w == 2 * Day
  <2>3. s \in Int /\ s > t /\ s < t + w /\ w \in Int /\ end + w <= last
    BY <1>2, <1>3, <2>2
  <2> HIDE DEF s, w
  <2>4. s \in D /\ s > t
    BY <1>3, <1>5, <2>1, <2>3
  <2>5. QED
    BY <2>4 DEF s
<1>6. ASSUME NEW f, NEW t \in D
      PROVE  Rec(f)[t] = IF t >= end THEN {}
                         ELSE IF Booking!Working(t) /\ t + d <= Booking!Closes(Booking!DayOf(t))
                              THEN Here(t) \cup f[next(t)] ELSE f[next(t)]
  BY DEF NextTime
<1>7. ASSUME NEW t \in D
      PROVE  Slots(t, end, busy, d)
               = IF t >= end THEN {}
                 ELSE IF Booking!Working(t) /\ t + d <= Booking!Closes(Booking!DayOf(t))
                      THEN Here(t) \cup Slots(next(t), end, busy, d) ELSE Slots(next(t), end, busy, d)
  <2>1. t \in Int
    BY <1>3
  <2> HIDE DEF D
  <2>2. QED
    BY <2>1, SlotsUnfold DEF NextTime
<1> HIDE DEF next, Here, D
<1>8. it = Rec(it)
  <2> DEFINE f == [t \in D |-> Slots(t, end, busy, d)]
             r == Rec(f)
  <2>1. ASSUME NEW t \in D PROVE f[t] = r[t]
    <3>1. t < end => f[next(t)] = Slots(next(t), end, busy, d)
      BY <1>5
    <3>2. t \in Int
      BY <1>3 DEF D
    <3>3. f[t] = Slots(t, end, busy, d)
      OBVIOUS
    <3>4. Rec(f)[t] = IF t >= end THEN {}
                      ELSE IF Booking!Working(t) /\ t + d <= Booking!Closes(Booking!DayOf(t))
                           THEN Here(t) \cup f[next(t)] ELSE f[next(t)]
      <4> HIDE DEF f, Rec
      <4> QED
        BY <1>6
    <3> HIDE DEF f, Rec
    <3>5. QED
      BY <1>7, <3>1, <3>2, <3>3, <3>4
  <2>2. f = [t \in D |-> f[t]] /\ r = [t \in D |-> r[t]]
    OBVIOUS
  <2> HIDE DEF f, r
  <2>3. f = r
    BY <2>1, <2>2
  <2>4. f = Rec(f)
    BY <2>3 DEF r
  <2> HIDE DEF Rec
  <2>5. QED
    BY <2>4
<1>9. ASSUME NEW t \in D
      PROVE  it[t] = IF t >= end THEN {}
                     ELSE IF Booking!Working(t) /\ t + d <= Booking!Closes(Booking!DayOf(t))
                          THEN Here(t) \cup it[next(t)] ELSE it[next(t)]
  <2> HIDE DEF it, Rec
  <2> QED
    BY <1>6, <1>8
<1> HIDE DEF it
<1> DEFINE S == {n \in Nat : \A t \in D : last - t <= n => it[t] = Slots(t, end, busy, d)}
<1>10. ASSUME NEW n \in Nat, \A t \in D : last - t < n => it[t] = Slots(t, end, busy, d),
              NEW t \in D, last - t <= n
       PROVE  it[t] = Slots(t, end, busy, d)
  <2>1. t \in Int /\ last \in Int
    BY <1>3 DEF D
  <2>2. CASE t >= end
    BY <1>7, <1>9, <2>2
  <2>3. CASE t < end
    <3>1. next(t) \in D /\ next(t) > t
      BY <1>5, <2>3
    <3>2. next(t) \in Int
      BY <1>3, <3>1 DEF D
    <3>3. last - next(t) < n
      BY <1>10, <2>1, <3>1, <3>2
    <3>4. it[next(t)] = Slots(next(t), end, busy, d)
      BY <1>10, <3>1, <3>3
    <3>5. QED
      BY <1>7, <1>9, <2>1, <2>3, <3>4
  <2>4. QED
    BY <2>1, <2>2, <2>3
<1>11. 0 \in S
  <2>1. \A t \in D : t \in Int /\ t <= last
    BY <1>3 DEF D
  <2>2. \A t \in D : ~(last - t < 0)
    BY <1>3, <2>1
  <2>3. \A t \in D : last - t <= 0 => it[t] = Slots(t, end, busy, d)
    BY <1>10, <2>2
  <2>4. QED
    BY <2>3
<1>12. ASSUME NEW n \in Nat, n \in S PROVE n + 1 \in S
  <2>1. \A t \in D : t \in Int
    BY <1>3 DEF D
  <2>2. \A t \in D : last - t < n + 1 => last - t <= n
    BY <1>3, <2>1
  <2>3. \A t \in D : last - t < n + 1 => it[t] = Slots(t, end, busy, d)
    BY <1>12, <2>2
  <2>4. \A t \in D : last - t <= n + 1 => it[t] = Slots(t, end, busy, d)
    BY <1>10, <2>3
  <2>5. QED
    BY <2>4
<1>13. Nat \subseteq S
  <2> HIDE DEF S
  <2> QED
    BY <1>11, <1>12, NatInductionSet
<1>14. last - earliest \in Nat
  BY <1>3, <1>4 DEF D
<1>15. it[earliest] = Slots(earliest, end, busy, d)
  <2>1. last - earliest \in S
    BY <1>13, <1>14
  <2> HIDE DEF earliest
  <2>2. last - earliest <= last - earliest
    BY <1>14
  <2>3. QED
    BY <1>4, <2>1, <2>2
<1>16. QED
  BY <1>1, <1>15

\* The slots that should be found: those of the grid in the range beside the
\* events.  The grid of the first day begins where the range does.
SlotsFound(start, end, busy, d) ==
  LET begin(m) == IF m = Booking!DayOf(start) THEN Booking!Max({start, Booking!Opens(m)})
                  ELSE Booking!Opens(m)
  IN  {t \in start .. end - 1 :
         /\ Booking!DayOf(t) % 7 \in WorkingDays
         /\ t >= begin(Booking!DayOf(t)) /\ (t - begin(Booking!DayOf(t))) % d = 0
         /\ t + d <= Booking!Closes(Booking!DayOf(t))
         /\ \A b \in busy : b.end <= t \/ t + d <= b.start}

\* They are what is free from the opening of the first day.  (find_free_slots)
LEMMA SlotsInRange ==
  ASSUME NEW start \in Int, NEW end \in Int, NEW busy \in SUBSET Busy, NEW d \in Nat \ {0}
  PROVE  Booking!FindFreeSlots(start, end, busy, d) = SlotsFound(start, end, busy, d)
<1> DEFINE n == Booking!DayOf(start)
           o == Booking!Opens(n)
           p == n * Day
           e == Booking!Max({start, o})
           begin(m) == IF m = n THEN Booking!Max({start, Booking!Opens(m)}) ELSE Booking!Opens(m)
           T == {t \in start .. end - 1 :
                   /\ Booking!DayOf(t) % 7 \in WorkingDays
                   /\ t >= begin(Booking!DayOf(t)) /\ (t - begin(Booking!DayOf(t))) % d = 0
                   /\ t + d <= Booking!Closes(Booking!DayOf(t))
                   /\ \A b \in busy : b.end <= t \/ t + d <= b.start}
<1>1. n \in Int /\ p \in Int /\ p <= start /\ start < p + Day /\ o \in Int /\ p <= o /\ o < p + Day
  BY InItsDay, HoursOf
<1>2. e = (IF start >= o THEN start ELSE o)
  BY <1>1, LargerOfTwo
<1>3. e \in Int /\ e >= start /\ p <= e /\ e < p + Day
  <2> HIDE DEF p, o, e
  <2> QED
    BY <1>1, <1>2
<1>4. Booking!DayOf(e) = n
  <2> HIDE DEF e, n
  <2> QED
    BY <1>1, <1>3, DayIs DEF p
<1>5. \A m : GridFrom(e, m) = begin(m)
  BY <1>4 DEF GridFrom
<1>6. ASSUME NEW t \in Int, t >= start, t >= begin(Booking!DayOf(t)) PROVE t >= e
  <2> DEFINE m == Booking!DayOf(t)
             q == m * Day
  <2>1. m \in Int /\ q \in Int /\ q <= t /\ t < q + Day
    BY InItsDay, HoursOf
  <2>2. CASE m = n
    BY <1>6, <2>2
  <2>3. CASE m # n
    <3>1. m < n => q + Day <= p
      BY <1>1, <2>1, Product
    <3>2. n < m => p + Day <= q
      BY <1>1, <2>1, Product
    <3> HIDE DEF q, p, e
    <3>3. ~(m < n)
      BY <1>1, <1>6, <2>1, <3>1, CalendarAssumption
    <3>4. n < m
      <4> HIDE DEF m, n
      <4> QED
        BY <1>1, <2>1, <2>3, <3>3
    <3>5. QED
      BY <1>1, <1>3, <2>1, <3>2, <3>4, CalendarAssumption
  <2>4. QED
    BY <2>2, <2>3
<1> DEFINE Good(t) == /\ Booking!Working(t)
                      /\ (t - begin(Booking!DayOf(t))) % d = 0
                      /\ t + d <= Booking!Closes(Booking!DayOf(t))
                      /\ \A b \in busy : b.end <= t \/ t + d <= b.start
<1>7. \A t : t \in Slots(e, end, busy, d) <=> t \in e .. end - 1 /\ t >= begin(Booking!DayOf(t)) /\ Good(t)
  <2> HIDE DEF e, begin
  <2> QED
    BY <1>5 DEF Slots
<1>8. \A t : t \in T <=> t \in start .. end - 1 /\ t >= begin(Booking!DayOf(t)) /\ Good(t)
  <2> HIDE DEF e, begin
  <2> QED
    BY DEF Booking!Working
<1>9. \A t : t \in e .. end - 1 /\ t >= begin(Booking!DayOf(t))
              <=> t \in start .. end - 1 /\ t >= begin(Booking!DayOf(t))
  <2> HIDE DEF e, begin
  <2> QED
    BY <1>3, <1>6
<1>10. Slots(e, end, busy, d) = T
  <2> HIDE DEF e, begin, Good, T
  <2> QED
    BY <1>7, <1>8, <1>9
<1>11. Booking!FindFreeSlots(start, end, busy, d) = Slots(e, end, busy, d)
  BY FindsSlots
<1>12. T = SlotsFound(start, end, busy, d)
  BY Zenon DEF SlotsFound
<1>13. QED
  <2> HIDE DEF T
  <2> QED
    BY <1>10, <1>11, <1>12

\* The inductive invariant: events have times, and the last offer is exact.
SlotsInv == (\A id \in DOMAIN events : events[id] \in Busy) /\ SlotsAreExact

\* What a search takes for busy are events with times, and what it offers is
\* exact.  (find_free_slots)
LEMMA OfferIsExact ==
  ASSUME SlotsInv, NEW r \in Ranges, NEW duration \in Durations, NEW cal \in Calendars,
         Booking!FindSlots(r, duration, cal)
  PROVE  SlotsAreExact'
<1> DEFINE d == IF duration = 0 THEN DefaultDuration ELSE duration
           busy == Booking!ListEvents(r[1], r[2], cal)
           start == r[1]
           end == r[2]
<1>1. d \in Nat \ {0} /\ start \in Int /\ end \in Int
  BY CalendarAssumption
<1>2. busy \in SUBSET Busy
  <2>1. /\ Booking!MockEvents(r[1], r[2], cal) \subseteq DOMAIN events
        /\ Booking!GoogleEvents(r[1], r[2], cal) \subseteq DOMAIN events
    BY DEF Booking!MockEvents, Booking!GoogleEvents
  <2>2. QED
    BY <2>1 DEF Booking!ListEvents, SlotsInv
<1>3. offer' = [slots |-> Booking!FindFreeSlots(start, end, busy, d), busy |-> busy,
                start |-> start, end |-> end, duration |-> d]
  BY DEF Booking!FindSlots
<1> HIDE DEF d, busy, start, end
<1>4. /\ offer'.slots = Booking!FindFreeSlots(start, end, busy, d) /\ offer'.busy = busy
      /\ offer'.start = start /\ offer'.end = end /\ offer'.duration = d
  BY <1>3
<1>5. Booking!FindFreeSlots(start, end, busy, d) = SlotsFound(start, end, busy, d)
  BY <1>1, <1>2, SlotsInRange
<1>6. offer'.slots = SlotsFound(offer'.start, offer'.end, offer'.busy, offer'.duration)
  BY <1>4, <1>5
<1>7. QED
  BY <1>6, Zenon DEF SlotsFound, SlotsAreExact, Booking!SlotsAreExact

LEMMA SlotsNext ==
  ASSUME SlotsInv, [Booking!Next]_(Booking!vars)
  PROVE  SlotsInv'
<1>1. ASSUME NEW b \in Bookings, NEW cal \in Calendars, Booking!CreateEvent(b, cal) PROVE SlotsInv'
  <2>1. b[1] \in Int /\ b[2] \in Int
    BY CalendarAssumption
  <2>2. \A id \in DOMAIN events' : events'[id] \in Busy
    BY <1>1, <2>1 DEF Booking!CreateEvent, SlotsInv, Busy
  <2>3. SlotsAreExact'
    BY <1>1 DEF Booking!CreateEvent, SlotsInv, SlotsAreExact, Booking!SlotsAreExact
  <2>4. QED
    BY <2>2, <2>3 DEF SlotsInv
<1>2. ASSUME NEW id, Booking!DeleteEvent(id) PROVE SlotsInv'
  <2>1. \A other \in DOMAIN events' : events'[other] \in Busy
    BY <1>2 DEF Booking!DeleteEvent, Booking!Restrict, SlotsInv
  <2>2. SlotsAreExact'
    BY <1>2 DEF Booking!DeleteEvent, SlotsInv, SlotsAreExact, Booking!SlotsAreExact
  <2>3. QED
    BY <2>1, <2>2 DEF SlotsInv
<1>3. ASSUME NEW r \in Ranges, NEW d \in Durations, NEW cal \in Calendars, Booking!FindSlots(r, d, cal)
      PROVE  SlotsInv'
  <2>1. \A id \in DOMAIN events' : events'[id] \in Busy
    BY <1>3 DEF Booking!FindSlots, SlotsInv
  <2>2. SlotsAreExact'
    BY <1>3, OfferIsExact
  <2>3. QED
    BY <2>1, <2>2 DEF SlotsInv
<1>4. CASE UNCHANGED Booking!vars
  BY <1>4 DEF Booking!vars, SlotsInv, SlotsAreExact, Booking!SlotsAreExact
<1>5. QED
  BY <1>1, <1>2, <1>3, <1>4 DEF Booking!Next

\* What find_free_slots offers are exactly the slots of the grid of working
\* hours in the range that are beside the events it was given.
THEOREM ExactSlots == Booking!Spec => []SlotsAreExact
<1>1. Booking!Init => SlotsInv
  BY DEF Booking!Init, SlotsInv, SlotsAreExact, Booking!SlotsAreExact
<1>2. SlotsInv /\ [Booking!Next]_(Booking!vars) => SlotsInv'
  BY SlotsNext
<1>3. SlotsInv => SlotsAreExact
  BY DEF SlotsInv
<1>4. QED
  BY <1>1, <1>2, <1>3, PTL DEF Booking!Spec

-----------------------------------------------------------------------------
(* gemini_embedding: search returns the best                               *)

\* i comes before j in a list by falling score.
Before(score, i, j) == score[i] > score[j] \/ (score[i] = score[j] /\ i < j)
Sorts(p, score, m) ==
  /\ p \in [1 .. m -> 1 .. m]
  /\ \A a, b \in 1 .. m : a < b => Before(score, p[a], p[b])

\* Every list of numbers can be sorted.
LEMMA Sorting ==
  ASSUME NEW n \in Nat, NEW score \in [1 .. n -> Int]
  PROVE  \E p : Sorts(p, score, n)
<1> DEFINE S == {m \in Nat : m <= n => \E p : Sorts(p, score, m)}
<1>1. 0 \in S
  <2> DEFINE p == [a \in 1 .. 0 |-> a]
  <2>1. Sorts(p, score, 0)
    BY DEF Sorts
  <2>2. QED
    BY <2>1
<1>2. ASSUME NEW m \in Nat, m \in S PROVE m + 1 \in S
  <2> SUFFICES ASSUME m + 1 <= n PROVE \E p : Sorts(p, score, m + 1)
    OBVIOUS
  <2> DEFINE new == m + 1
  <2>1. PICK p : Sorts(p, score, m)
    BY <1>2
  <2>2. p \in [1 .. m -> 1 .. m] /\ \A a, b \in 1 .. m : a < b => Before(score, p[a], p[b])
    BY <2>1 DEF Sorts
  <2>3. new \in 1 .. n /\ score[new] \in Int /\ \A a \in 1 .. m : p[a] \in 1 .. m /\ p[a] \in 1 .. n /\ score[p[a]] \in Int
    BY <2>2
  <2> DEFINE high == {a \in 1 .. m : score[p[a]] >= score[new]}
             at0 == IF high = {} THEN 1 ELSE Max(high) + 1
  <2>4. at0 \in 1 .. new /\ (\A a \in 1 .. m : a < at0 => score[p[a]] >= score[new])
                         /\ (\A a \in 1 .. m : a >= at0 => score[p[a]] < score[new])
    <3>1. CASE high = {}
      <4>1. at0 = 1 /\ 1 \in 1 .. new /\ \A a \in 1 .. m : ~(a < 1) /\ a >= 1
        BY <3>1
      <4>2. \A a \in 1 .. m : ~(score[p[a]] >= score[new])
        BY <3>1
      <4> HIDE DEF at0, high
      <4>3. \A a \in 1 .. m : score[p[a]] < score[new]
        BY <2>3, <4>2
      <4>4. QED
        BY <4>1, <4>3
    <3>2. CASE high # {}
      <4> DEFINE x == Max(high)
      <4>1. x \in high /\ \A a \in high : a <= x
        BY <3>2, Largest
      <4> HIDE DEF x
      <4>2. x \in 1 .. m /\ score[p[x]] >= score[new] /\ \A a \in 1 .. m : a > x => ~(score[p[a]] >= score[new])
        BY <4>1
      <4>5. ASSUME NEW a \in 1 .. m, a < x PROVE score[p[a]] >= score[p[x]]
        <5>1. Before(score, p[a], p[x])
          BY <2>2, <4>2, <4>5
        <5>2. score[p[a]] \in Int /\ score[p[x]] \in Int
          BY <2>3, <4>2
        <5>3. QED
          BY <5>1, <5>2 DEF Before
      <4>3. at0 = x + 1
        BY <3>2 DEF x
      <4> HIDE DEF at0, high
      <4>6. at0 \in 1 .. new /\ \A a \in 1 .. m : (a < at0 <=> a <= x) /\ (a >= at0 <=> a > x)
        BY <4>2, <4>3
      <4>7. \A a \in 1 .. m : a > x => score[p[a]] < score[new]
        BY <2>3, <4>2
      <4>8. \A a \in 1 .. m : a <= x => score[p[a]] >= score[new]
        <5> SUFFICES ASSUME NEW a \in 1 .. m, a <= x PROVE score[p[a]] >= score[new]
          OBVIOUS
        <5>1. CASE a = x
          BY <4>2, <5>1
        <5>2. CASE a # x
          <6>1. score[p[a]] >= score[p[x]]
            BY <4>2, <4>5, <5>2
          <6>2. QED
            BY <2>3, <4>2, <6>1
        <5>3. QED
          BY <5>1, <5>2
      <4>9. QED
        BY <4>6, <4>7, <4>8
    <3>3. QED
      BY <3>1, <3>2
  <2> HIDE DEF at0, high
  <2> DEFINE q == [a \in 1 .. new |-> IF a < at0 THEN p[a] ELSE IF a = at0 THEN new ELSE p[a - 1]]
  <2>5. ASSUME NEW a \in 1 .. new
        PROVE  /\ a < at0 => a \in 1 .. m /\ q[a] = p[a]
               /\ a = at0 => q[a] = new
               /\ a > at0 => a - 1 \in 1 .. m /\ q[a] = p[a - 1]
    BY <2>4
  <2>6. q \in [1 .. new -> 1 .. new]
    <3>1. ASSUME NEW a \in 1 .. new PROVE q[a] \in 1 .. new
      <4> HIDE DEF q
      <4>1. \A b \in 1 .. m : p[b] \in 1 .. new
        BY <2>3
      <4>2. a < at0 \/ a = at0 \/ a > at0
        BY <2>4
      <4>3. new \in 1 .. new
        OBVIOUS
      <4>4. QED
        BY <2>5, <4>1, <4>2, <4>3
    <3>2. q = [a \in 1 .. new |-> q[a]]
      OBVIOUS
    <3> HIDE DEF q
    <3>3. QED
      BY <3>1, <3>2
  <2> HIDE DEF q
  <2>7. ASSUME NEW a \in 1 .. new, NEW b \in 1 .. new, a < b PROVE Before(score, q[a], q[b])
    <3>1. CASE b < at0
      <4>1. a < at0
        BY <2>4, <2>7, <3>1
      <4>2. a \in 1 .. m /\ b \in 1 .. m /\ q[a] = p[a] /\ q[b] = p[b]
        BY <2>5, <3>1, <4>1
      <4>3. QED
        BY <2>2, <2>7, <4>2
    <3>2. CASE b = at0
      <4>1. a < at0 /\ q[b] = new
        BY <2>5, <2>7, <3>2
      <4>2. a \in 1 .. m /\ q[a] = p[a] /\ score[p[a]] >= score[new] /\ p[a] < new
        BY <2>3, <2>4, <2>5, <4>1
      <4>3. QED
        BY <2>3, <4>1, <4>2 DEF Before
    <3>3. CASE b > at0
      <4>1. b - 1 \in 1 .. m /\ q[b] = p[b - 1] /\ b - 1 >= at0
        BY <2>4, <2>5, <3>3
      <4>2. score[p[b - 1]] < score[new]
        BY <2>4, <4>1
      <4>3. CASE a < at0
        <5>1. a \in 1 .. m /\ q[a] = p[a] /\ a < b - 1
          BY <2>4, <2>5, <4>1, <4>3
        <5>2. QED
          BY <2>2, <4>1, <5>1
      <4>4. CASE a = at0
        BY <2>3, <2>5, <4>1, <4>2, <4>4 DEF Before
      <4>5. CASE a > at0
        <5>1. a - 1 \in 1 .. m /\ q[a] = p[a - 1] /\ a - 1 < b - 1
          BY <2>5, <2>7, <4>5
        <5>2. QED
          BY <2>2, <4>1, <5>1
      <4>6. QED
        BY <2>4, <4>3, <4>4, <4>5
    <3>4. QED
      BY <2>4, <3>1, <3>2, <3>3
  <2>8. Sorts(q, score, new)
    BY <2>6, <2>7 DEF Sorts
  <2>9. QED
    BY <2>8 DEF new
<1>3. n \in S
  <2> HIDE DEF S
  <2> QED
    BY <1>1, <1>2, NatInductionSet
<1>4. QED
  BY <1>3

\* p takes every place once.
Permutes(p, m) ==
  /\ \A a, b \in 1 .. m : p[a] = p[b] => a = b
  /\ \A i \in 1 .. m : \E a \in 1 .. m : p[a] = i

\* What sorts a list takes every place once.
LEMMA SortedOnce ==
  ASSUME NEW n \in Nat, NEW score \in [1 .. n -> Int], NEW p, Sorts(p, score, n)
  PROVE  Permutes(p, n)
<1> DEFINE I == 1 .. n
<1>1. p \in [I -> I] /\ \A a, b \in I : a < b => p[a] # p[b]
  <2>1. p \in [I -> I]
    BY DEF Sorts
  <2>2. ASSUME NEW a \in I, NEW b \in I, a < b PROVE p[a] # p[b]
    <3>1. Before(score, p[a], p[b])
      BY <2>2 DEF Sorts
    <3> DEFINE i == p[a]
    <3>2. i \in 1 .. n /\ score[i] \in Int
      BY <2>1
    <3> HIDE DEF i
    <3>3. ~Before(score, i, i)
      BY <3>2 DEF Before
    <3>4. QED
      BY <3>1, <3>3 DEF i
  <2>3. QED
    BY <2>1, <2>2
<1>2. \A a, b \in I : p[a] = p[b] => a = b
  BY <1>1
<1>3. IsFiniteSet(I)
  BY FS_Interval
<1> HIDE DEF I
<1>4. p \in Injection(I, I)
  BY <1>1, <1>2 DEF Injection, IsInjective
<1>5. p \in Surjection(I, I)
  BY <1>3, <1>4, FS_Injection
<1>6. \A i \in I : \E a \in I : p[a] = i
  BY <1>1, <1>5 DEF Surjection
<1>7. QED
  BY <1>2, <1>6 DEF I, Permutes

\* The larger and the smaller of two numbers.
LEMMA OfTwo ==
  ASSUME NEW a \in Int, NEW b \in Int
  PROVE  /\ Index!Max({a, b}) = IF a >= b THEN a ELSE b
         /\ Index!Min({a, b}) = IF a <= b THEN a ELSE b
<1> DEFINE m == IF a >= b THEN a ELSE b
           l == IF a <= b THEN a ELSE b
<1>1. m \in {a, b} /\ (\A y \in {a, b} : m >= y) /\ l \in {a, b} /\ (\A y \in {a, b} : l =< y)
  OBVIOUS
<1>2. /\ \A x \in {a, b} : (\A y \in {a, b} : x >= y) => x = m
      /\ \A x \in {a, b} : (\A y \in {a, b} : x =< y) => x = l
  OBVIOUS
<1> HIDE DEF m, l
<1>3. m = CHOOSE x \in {a, b} : \A y \in {a, b} : x >= y
  BY <1>1, <1>2
<1>4. l = CHOOSE x \in {a, b} : \A y \in {a, b} : x =< y
  BY <1>1, <1>2
<1>5. QED
  BY <1>3, <1>4 DEF Index!Max, Index!Min, m, l

\* Items with different ids are as many as their list is long.
LEMMA AsManyItems ==
  ASSUME NEW s \in Seq(Items), \A i, j \in 1 .. Len(s) : s[i].id = s[j].id => i = j
  PROVE  /\ IsFiniteSet(Index!Range(s)) /\ Cardinality(Index!Range(s)) = Len(s)
         /\ Index!Range(s) = {s[i] : i \in 1 .. Len(s)}
<1> DEFINE I == 1 .. Len(s)
           T == Index!Range(s)
           f == [i \in I |-> s[i]]
<1>1. DOMAIN s = I /\ Len(s) \in Nat
  OBVIOUS
<1>2. T = {s[i] : i \in I}
  BY <1>1 DEF Index!Range
<1>3. IsFiniteSet(I) /\ Cardinality(I) = Len(s)
  <2> DEFINE n == Len(s)
  <2>1. n \in Int /\ 1 <= n + 1
    BY <1>1
  <2> HIDE DEF n
  <2>2. IsFiniteSet(1 .. n) /\ Cardinality(1 .. n) = IF 1 <= n THEN n - 1 + 1 ELSE 0
    BY <2>1, FS_Interval
  <2>3. Cardinality(1 .. n) = n
    <3>1. CASE 1 <= n
      BY <2>1, <2>2, <3>1
    <3>2. CASE ~(1 <= n)
      BY <2>1, <2>2, <3>2
    <3>3. QED
      BY <3>1, <3>2
  <2>4. QED
    BY <2>2, <2>3 DEF n
<1>4. \A i, j \in I : s[i] = s[j] => i = j
  OBVIOUS
<1> HIDE DEF I, T
<1>5. f \in Injection(I, T) /\ f \in Surjection(I, T)
  BY <1>2, <1>4 DEF Injection, Surjection, IsInjective
<1>6. ExistsBijection(I, T)
  BY <1>5 DEF ExistsBijection, Bijection
<1>7. QED
  BY <1>2, <1>3, <1>6, FS_Bijection DEF I, T

\* search returns the best items.
LEMMA Best ==
  ASSUME NEW s \in Seq(Items), \A i, j \in 1 .. Len(s) : s[i].id = s[j].id => i = j,
         NEW v \in [text : Phrases, space : Spaces], NEW k \in Int
  PROVE  LET items == Index!Search(s, v, k)
             rank(x) == Index!CosineSimilarity(v, x.vector)
             all == Index!Range(s)
             got == Index!Range(items)
         IN  /\ got \subseteq all /\ Cardinality(got) = Len(items)
             /\ k >= 0 => Len(items) = Index!Min({k, Cardinality(all)})
             /\ k < 0 => Cardinality(all \ got) = Index!Min({-k, Cardinality(all)})
             /\ \A x \in got, y \in all \ got : rank(x) >= rank(y)
             /\ \A i, j \in DOMAIN items : i < j => rank(items[i]) >= rank(items[j])
<1> DEFINE n == Len(s)
           items == Index!Search(s, v, k)
           rank(x) == Index!CosineSimilarity(v, x.vector)
           all == Index!Range(s)
           got == Index!Range(items)
           score == [i \in 1 .. n |-> rank(s[i])]
           p == CHOOSE q \in [1 .. n -> 1 .. n] :
                  \A a, b \in 1 .. n : a < b => Before(score, q[a], q[b])
           u == [a \in 1 .. n |-> s[p[a]]]
           m == IF k < 0 THEN Index!Max({0, n + k}) ELSE Index!Min({k, n})
<1>1. n \in Nat /\ DOMAIN s = 1 .. n /\ \A i \in 1 .. n : s[i] \in Items
  OBVIOUS
<1>2. \A x \in Items : rank(x) \in Int
  BY SimilarityAssumption DEF Index!CosineSimilarity, Items
<1>3. score \in [1 .. n -> Int]
  <2> HIDE DEF rank, n
  <2> QED
    BY <1>1, <1>2
<1>4. Sorts(p, score, n)
  <2> HIDE DEF score, n
  <2>1. \E q : Sorts(q, score, n)
    BY <1>1, <1>3, Sorting
  <2>2. \E q \in [1 .. n -> 1 .. n] : \A a, b \in 1 .. n : a < b => Before(score, q[a], q[b])
    BY <2>1 DEF Sorts
  <2>3. QED
    BY <2>2 DEF Sorts
<1>5. items = Index!Slice(u, k)
  <2>1. \A q \in [1 .. n -> 1 .. n], a, b \in 1 .. n :
          Before(score, q[a], q[b])
            <=> \/ rank(s[q[a]]) > rank(s[q[b]])
                \/ rank(s[q[a]]) = rank(s[q[b]]) /\ q[a] < q[b]
    BY DEF Before
  <2>2. p = CHOOSE q \in [1 .. n -> 1 .. n] :
              \A a, b \in 1 .. n : a < b =>
                \/ rank(s[q[a]]) > rank(s[q[b]])
                \/ rank(s[q[a]]) = rank(s[q[b]]) /\ q[a] < q[b]
    <3> HIDE DEF score, rank, n
    <3> QED
      BY <2>1
  <2> HIDE DEF p
  <2>3. QED
    BY <1>1, <2>2 DEF Index!Search
<1> HIDE DEF p, n, score, rank, items
<1>6. /\ p \in [1 .. n -> 1 .. n] /\ (\A a, b \in 1 .. n : p[a] = p[b] => a = b)
      /\ \A i \in 1 .. n : \E a \in 1 .. n : p[a] = i
  <2>0. n \in Nat /\ score \in [1 .. n -> Int] /\ Sorts(p, score, n)
    BY <1>1, <1>3, <1>4
  <2>1. Permutes(p, n)
    BY <2>0, SortedOnce
  <2>2. p \in [1 .. n -> 1 .. n]
    BY <1>4 DEF Sorts
  <2>3. QED
    BY <2>1, <2>2 DEF Permutes
<1>7. u \in Seq(Items) /\ Len(u) = n /\ \A a \in 1 .. n : u[a] = s[p[a]]
  <2>1. \A a \in 1 .. n : u[a] = s[p[a]] /\ s[p[a]] \in Items
    BY <1>1, <1>6
  <2>2. u \in [1 .. n -> Items] /\ n \in Nat
    BY <1>1, <2>1
  <2> HIDE DEF u
  <2>3. u \in Seq(Items) /\ Len(u) = n
    BY <2>2
  <2>4. QED
    BY <2>1, <2>3
<1> HIDE DEF u
<1>8. m \in 0 .. n /\ (k >= 0 => m = IF k <= n THEN k ELSE n) /\ (k < 0 => m = IF n + k >= 0 THEN n + k ELSE 0)
  <2>0. k \in Int /\ n \in Int
    BY <1>1
  <2>1. Index!Min({k, n}) = IF k <= n THEN k ELSE n
    BY <2>0, OfTwo
  <2>2. n + k \in Int /\ 0 \in Int
    BY <1>1
  <2>3. Index!Max({0, n + k}) = IF 0 >= n + k THEN 0 ELSE n + k
    BY <2>2, OfTwo
  <2>4. QED
    BY <1>1, <2>1, <2>3
<1>9. items = SubSeq(u, 1, m)
  BY <1>5, <1>7 DEF Index!Slice
<1> HIDE DEF m
<1>10. items \in Seq(Items) /\ Len(items) = m /\ \A a \in 1 .. m : items[a] = u[a]
  <2>1. 1 \in Int /\ m \in Int /\ \A i \in 1 .. m : u[i] \in Items
    BY <1>1, <1>7, <1>8
  <2>2. /\ SubSeq(u, 1, m) \in Seq(Items)
        /\ Len(SubSeq(u, 1, m)) = IF 1 <= m THEN m - 1 + 1 ELSE 0
        /\ \A i \in 1 .. m - 1 + 1 : SubSeq(u, 1, m)[i] = u[1 + i - 1]
    BY <2>1, SubSeqProperties
  <2>3. m - 1 + 1 = m /\ (1 <= m \/ m = 0) /\ \A i \in 1 .. m : 1 + i - 1 = i
    BY <1>8
  <2>4. QED
    BY <1>9, <2>2, <2>3
<1>11. \A a \in 1 .. m : a \in 1 .. n /\ items[a] = s[p[a]]
  BY <1>1, <1>7, <1>8, <1>10
<1>12. \A a, b \in 1 .. Len(items) : items[a].id = items[b].id => a = b
  <2> SUFFICES ASSUME NEW a \in 1 .. m, NEW b \in 1 .. m, items[a].id = items[b].id PROVE a = b
    BY <1>10
  <2>1. a \in 1 .. n /\ b \in 1 .. n /\ s[p[a]].id = s[p[b]].id /\ p[a] \in 1 .. n /\ p[b] \in 1 .. n
    BY <1>6, <1>11
  <2>2. p[a] = p[b]
    BY <2>1 DEF n
  <2>3. QED
    BY <1>6, <2>1, <2>2
<1>13. /\ IsFiniteSet(all) /\ Cardinality(all) = n /\ all = {s[i] : i \in 1 .. n}
       /\ IsFiniteSet(got) /\ Cardinality(got) = m /\ got = {items[a] : a \in 1 .. m}
  BY <1>10, <1>12, AsManyItems DEF n
<1> HIDE DEF all, got
<1>14. got \subseteq all
  <2> SUFFICES ASSUME NEW a \in 1 .. m PROVE items[a] \in all
    BY <1>13
  <2>1. p[a] \in 1 .. n /\ items[a] = s[p[a]]
    BY <1>6, <1>11
  <2>2. QED
    BY <1>13, <2>1
<1>15. Cardinality(all \ got) = n - m
  <2>1. all \cap got = got
    BY <1>14
  <2>2. Cardinality(all \ got) = Cardinality(all) - Cardinality(all \cap got)
    BY <1>13, FS_Difference
  <2>3. QED
    BY <1>13, <2>1, <2>2
<1>16. k >= 0 => Len(items) = Index!Min({k, Cardinality(all)})
  <2>1. k \in Int /\ n \in Int
    BY <1>1
  <2>2. Index!Min({k, n}) = IF k <= n THEN k ELSE n
    BY <2>1, OfTwo
  <2>3. QED
    BY <1>8, <1>10, <1>13, <2>2
<1>17. k < 0 => Cardinality(all \ got) = Index!Min({-k, Cardinality(all)})
  <2>1. -k \in Int /\ n \in Int
    BY <1>1
  <2>2. Index!Min({-k, n}) = IF -k <= n THEN -k ELSE n
    BY <2>1, OfTwo
  <2>3. k < 0 => n - m = IF -k <= n THEN -k ELSE n
    BY <1>1, <1>8
  <2>4. QED
    BY <1>13, <1>15, <2>2, <2>3
<1>18. ASSUME NEW a \in 1 .. n, NEW b \in 1 .. n, a < b PROVE rank(s[p[a]]) >= rank(s[p[b]])
  <2>1. Before(score, p[a], p[b])
    BY <1>4, <1>18 DEF Sorts
  <2> DEFINE i == p[a]
             j == p[b]
  <2>2. i \in 1 .. n /\ j \in 1 .. n
    BY <1>6
  <2> HIDE DEF i, j
  <2>3. score[i] = rank(s[i]) /\ score[j] = rank(s[j]) /\ score[i] \in Int /\ score[j] \in Int
    BY <1>3, <2>2 DEF score
  <2>4. score[i] >= score[j]
    BY <2>1, <2>2, <2>3 DEF Before, i, j
  <2>5. QED
    BY <2>3, <2>4 DEF i, j
<1>19. ASSUME NEW x \in got, NEW y \in all \ got PROVE rank(x) >= rank(y)
  <2>1. PICK a \in 1 .. m : x = items[a]
    BY <1>13
  <2>2. PICK i \in 1 .. n : y = s[i]
    BY <1>13
  <2>3. PICK b \in 1 .. n : p[b] = i
    BY <1>6
  <2>4. b \notin 1 .. m
    <3>1. SUFFICES ASSUME b \in 1 .. m PROVE FALSE
      OBVIOUS
    <3>2. items[b] = y
      BY <1>11, <2>2, <2>3, <3>1
    <3>3. y \in got
      BY <1>13, <3>1, <3>2
    <3>4. QED
      BY <3>3
  <2>5. a \in 1 .. n /\ a < b
    BY <1>1, <1>8, <2>4
  <2>6. QED
    BY <1>11, <1>18, <2>1, <2>2, <2>3, <2>5
<1>20. \A i, j \in DOMAIN items : i < j => rank(items[i]) >= rank(items[j])
  <2>1. DOMAIN items = 1 .. m
    BY <1>10
  <2>2. QED
    BY <1>11, <1>18, <2>1
<1>21. QED
  BY <1>10, <1>13, <1>14, <1>16, <1>17, <1>19, <1>20 DEF items, rank, all, got

\* The invariant: the store is as before, and the last answer is the best.
FoundInv == IndexInv /\ SearchReturnsBest

\* search answers from the store of now.
LEMMA AnswersBest ==
  ASSUME IndexInv, NEW c \in Calls, Index!Answer(c)
  PROVE  SearchReturnsBest'
<1> DEFINE v == Index!Vector(c)
           k == job[c].top_k
<1>1. job[c] \in Jobs /\ job[c].tool = "search"
  BY DEF Index!Answer, IndexInv
<1>2. job[c].text \in Phrases /\ job[c].space \in Spaces /\ k \in TopKs
  BY <1>1 DEF Jobs
<1>3. v \in [text : Phrases, space : Spaces] /\ k \in Int
  BY <1>2, SimilarityAssumption DEF Index!Vector
<1>4. nearest' = [of |-> store, query |-> v, top_k |-> k, items |-> Index!Search(store, v, k)]
  BY DEF Index!Answer
<1> HIDE DEF v, k
<1>5. nearest'.of = store /\ nearest'.query = v /\ nearest'.top_k = k /\ nearest'.items = Index!Search(store, v, k)
  BY <1>4
<1>6. store \in Seq(Items) /\ \A i, j \in 1 .. Len(store) : store[i].id = store[j].id => i = j
  BY DEF IndexInv
<1>7. \A t : Index!Cardinality(t) = Cardinality(t)
  BY DEF Index!Cardinality, Cardinality, Index!IsFiniteSet, IsFiniteSet
<1> DEFINE items == Index!Search(store, v, k)
           rank(x) == Index!CosineSimilarity(v, x.vector)
           all == Index!Range(store)
           got == Index!Range(items)
<1>8. /\ got \subseteq all /\ Cardinality(got) = Len(items)
      /\ k >= 0 => Len(items) = Index!Min({k, Cardinality(all)})
      /\ k < 0 => Cardinality(all \ got) = Index!Min({-k, Cardinality(all)})
      /\ \A x \in got, y \in all \ got : rank(x) >= rank(y)
      /\ \A i, j \in DOMAIN items : i < j => rank(items[i]) >= rank(items[j])
  BY <1>3, <1>6, Best
<1>9. /\ Index!Range(nearest'.of) = all /\ Index!Range(nearest'.items) = got
      /\ nearest'.items = items /\ nearest'.top_k = k
      /\ \A x : Index!CosineSimilarity(nearest'.query, x.vector) = rank(x)
  BY <1>5
<1> HIDE DEF items, rank, all, got
<1>10. QED
  BY <1>7, <1>8, <1>9 DEF SearchReturnsBest, Index!SearchReturnsBest

\* search returns the best items of the store it looks in: as many as top_k
\* asks for, by falling score. (search, InMemoryVectorStore.search)
THEOREM BestAreReturned == Index!Spec => []SearchReturnsBest
<1>1. Index!Init => FoundInv
  BY IndexInit DEF Index!Init, FoundInv, SearchReturnsBest, Index!SearchReturnsBest
<1>2. FoundInv /\ [Index!Next]_(Index!vars) => FoundInv'
  <2> SUFFICES ASSUME FoundInv, [Index!Next]_(Index!vars) PROVE FoundInv'
    OBVIOUS
  <2>1. IndexInv /\ IndexInv'
    BY IndexNext DEF FoundInv
  <2>2. ASSUME NEW c \in Calls, Index!Answer(c) PROVE SearchReturnsBest'
    BY <2>1, <2>2, AnswersBest
  <2>3. CASE nearest' = None
    BY <2>1, <2>3 DEF FoundInv, SearchReturnsBest, Index!SearchReturnsBest
  <2>4. CASE UNCHANGED Index!vars
    BY <2>1, <2>4 DEF Index!vars, FoundInv, SearchReturnsBest, Index!SearchReturnsBest
  <2>5. ASSUME Index!Next PROVE nearest' = None \/ \E c \in Calls : Index!Answer(c)
    BY <2>5 DEF Index!Next, Index!Configure, Index!ConfigureStore, Index!ClearIndex, Index!Call, Index!Index,
                Index!End
  <2>6. QED
    BY <2>1, <2>2, <2>3, <2>4, <2>5 DEF FoundInv
<1>3. FoundInv => SearchReturnsBest
  BY DEF FoundInv
<1>4. QED
  BY <1>1, <1>2, <1>3, PTL DEF Index!Spec

-----------------------------------------------------------------------------
(* analytics: anomalies are rare                                           *)

\* Adding the values of a list, one by one.  (what Sum folds)
Plus(s) == [z \in (1 .. Len(s)) \X Int |-> z[2] + s[z[1]]]

\* Sum adds one value after the other.
LEMMA Summing ==
  ASSUME NEW s \in Seq(Int)
  PROVE  /\ \A k \in 1 .. Len(s), y \in Int : Plus(s)[<<k, y>>] = y + s[k]
         /\ \E P : Runs(P, Len(s), Int, 0, Plus(s)) /\ P[Len(s)] = Analytics!Sum(s)
<1> DEFINE n == Len(s)
           Rec(f) == [t \in SUBSET (1 .. n) |-> IF t = {} THEN 0 ELSE f[t \ {Max(t)}] + s[Max(t)]]
           it == CHOOSE f : f = Rec(f)
           B == Int
           base == 0
           h == Plus(s)
<1>1. DOMAIN s = 1 .. n /\ n \in Nat
  OBVIOUS
<1>2. Analytics!Sum(s) = it[1 .. n]
  BY <1>1 DEF Analytics!Sum, Analytics!FoldLeft, Analytics!MapThenFoldSet, Analytics!Max, Max
<1>3. StaysIn(h, 1 .. n, B) /\ base \in B /\ \A k \in 1 .. n, y \in B : h[<<k, y>>] = y + s[k]
  BY <1>1 DEF StaysIn, Plus
<1>4. PICK f : FoldsLeft(f, n, B, base, h)
  <2> HIDE DEF n, B, base, h
  <2> QED
    BY <1>1, <1>3, FoldLeftExists
<1>5. f = Rec(f)
  <2>1. ASSUME NEW t \in SUBSET (1 .. n) PROVE f[t] = Rec(f)[t]
    <3> HIDE DEF n, h
    <3> QED
      BY <1>3, <1>4 DEF FoldsLeft
  <2>2. f = [t \in SUBSET (1 .. n) |-> f[t]]
    BY <1>4 DEF FoldsLeft
  <2>3. QED
    BY <2>1, <2>2
<1>6. it = Rec(it)
  <2> HIDE DEF Rec
  <2> QED
    BY <1>5
<1>7. Unfolds(it, n, B, base, h)
  <2>1. \A t \in SUBSET (1 .. n) : t # {} => Max(t) \in 1 .. n
    BY <1>1, Largest
  <2> HIDE DEF n, h, it
  <2>2. QED
    BY <1>3, <1>6, <2>1 DEF Unfolds
<1>8. \E P : Runs(P, n, B, base, h) /\ P[n] = it[1 .. n]
  <2> HIDE DEF n, B, base, h, it
  <2> QED
    BY <1>1, <1>3, <1>7, FoldRuns
<1>9. QED
  BY <1>2, <1>3, <1>8

\* Fewer than one in z squared of a list of numbers are outliers: their squared
\* deviations alone would make up more than the sum of all.
LEMMA OutliersAreFew ==
  ASSUME NEW s \in Seq(Int), NEW z \in Int, NEW these,
         these = {i \in DOMAIN s : Analytics!Outlying(s, z, s[i])}
  PROVE  these # {} => Cardinality(these) * z * z < Len(s)
<1> DEFINE n == Len(s)
           mean == Analytics!Sum(s)
           off == [i \in DOMAIN s |-> (n * s[i] - mean) * (n * s[i] - mean)]
           all == Analytics!Sum(off)
           least == z * z * all
           few(k) == {i \in 1 .. k : n * off[i] > least}
<1>1. n \in Nat /\ DOMAIN s = 1 .. n
  OBVIOUS
<1>2. mean \in Int
  BY <1>1, Summing DEF Runs
<1>3. ASSUME NEW i \in 1 .. n PROVE off[i] \in Int /\ off[i] >= 0
  <2> DEFINE d == n * s[i] - mean
  <2>1. d \in Int /\ off[i] = d * d
    BY <1>1, <1>2
  <2> HIDE DEF d, off
  <2>2. QED
    BY <2>1
<1>4. off \in Seq(Int) /\ Len(off) = n
  <2> HIDE DEF mean
  <2>1. off \in [1 .. n -> Int]
    BY <1>1, <1>3
  <2> HIDE DEF off
  <2>2. QED
    BY <1>1, <2>1
<1>5. PICK Q : Runs(Q, n, Int, 0, Plus(off)) /\ Q[n] = all
  BY <1>4, Summing
<1>6. /\ Q[0] = 0 /\ Q \in [0 .. n -> Int] /\ all = Q[n]
      /\ \A k \in 1 .. n : Q[k] = Q[k - 1] + off[k]
  <2>1. ASSUME NEW k \in 1 .. n PROVE Q[k] = Q[k - 1] + off[k]
    <3>1. k - 1 \in 0 .. n
      BY <1>1
    <3>2. Q[k - 1] \in Int
      BY <1>5, <3>1 DEF Runs
    <3>3. Plus(off)[<<k, Q[k - 1]>>] = Q[k - 1] + off[k]
      BY <1>4, <3>2, Summing
    <3>4. QED
      BY <1>5, <3>3 DEF Runs
  <2>2. QED
    BY <1>5, <2>1 DEF Runs
<1>7. least \in Int
  <2>1. all \in Int
    BY <1>1, <1>6
  <2> HIDE DEF all
  <2>2. QED
    BY <2>1
<1>8. these = few(n)
  <2>1. ASSUME NEW i \in DOMAIN s PROVE Analytics!Outlying(s, z, s[i]) <=> n * off[i] > least
    <3>1. off[i] = (n * s[i] - mean) * (n * s[i] - mean)
      OBVIOUS
    <3>2. Analytics!Outlying(s, z, s[i]) <=> n * ((n * s[i] - mean) * (n * s[i] - mean)) > least
      BY DEF Analytics!Outlying
    <3> HIDE DEF off, least, mean
    <3>3. QED
      BY <3>1, <3>2
  <2> HIDE DEF off, least
  <2>2. QED
    BY <1>1, <2>1
<1> DEFINE S == {k \in Nat : k <= n =>
                   /\ IsFiniteSet(few(k)) /\ Cardinality(few(k)) \in Nat
                   /\ Q[k] >= 0
                   /\ n * Q[k] >= Cardinality(few(k)) * least
                   /\ few(k) # {} => n * Q[k] > Cardinality(few(k)) * least}
<1>9. 0 \in S
  <2>1. few(0) = {} /\ Cardinality(few(0)) = 0 /\ IsFiniteSet(few(0))
    BY FS_EmptySet
  <2> HIDE DEF few, least
  <2>2. QED
    BY <1>1, <1>6, <1>7, <2>1
<1>10. ASSUME NEW k \in Nat, k \in S PROVE k + 1 \in S
  <2> SUFFICES ASSUME k + 1 <= n
               PROVE  /\ IsFiniteSet(few(k + 1)) /\ Cardinality(few(k + 1)) \in Nat
                      /\ Q[k + 1] >= 0
                      /\ n * Q[k + 1] >= Cardinality(few(k + 1)) * least
                      /\ few(k + 1) # {} => n * Q[k + 1] > Cardinality(few(k + 1)) * least
    <3> HIDE DEF few, least
    <3> QED
      OBVIOUS
  <2> DEFINE c == Cardinality(few(k))
             o == off[k + 1]
             q == Q[k]
  <2>1. /\ IsFiniteSet(few(k)) /\ c \in Nat /\ q >= 0
        /\ n * q >= c * least /\ (few(k) # {} => n * q > c * least)
    <3>1. k <= n
      BY <1>1
    <3> HIDE DEF few, least
    <3>2. QED
      BY <1>10, <3>1
  <2>2. k + 1 \in 1 .. n /\ k \in 0 .. n
    BY <1>1
  <2>3. o \in Int /\ o >= 0 /\ q \in Int /\ Q[k + 1] = q + o
    <3>1. (k + 1) - 1 = k
      OBVIOUS
    <3> HIDE DEF off, few
    <3>2. QED
      BY <1>3, <1>6, <2>2, <3>1
  <2>4. n * (q + o) = n * q + n * o /\ n * o >= 0 /\ n * q \in Int /\ n * o \in Int /\ c * least \in Int
    <3> HIDE DEF c, o, q, least
    <3> QED
      BY <1>1, <1>7, <2>1, <2>3
  <2>5. CASE n * o > least
    <3>1. few(k + 1) = few(k) \cup {k + 1} /\ k + 1 \notin few(k)
      <4> HIDE DEF off, least
      <4> QED
        BY <2>5
    <3>2. IsFiniteSet(few(k + 1)) /\ Cardinality(few(k + 1)) = c + 1
      <4> DEFINE A == few(k)
      <4>1. IsFiniteSet(A) /\ k + 1 \notin A /\ few(k + 1) = A \cup {k + 1} /\ c = Cardinality(A)
        BY <2>1, <3>1
      <4> HIDE DEF A, c
      <4>2. IsFiniteSet(A \cup {k + 1}) /\ Cardinality(A \cup {k + 1}) = c + 1
        BY <4>1, FS_AddElement
      <4> HIDE DEF few
      <4>3. QED
        BY <4>1, <4>2
    <3>3. (c + 1) * least = c * least + least
      <4> HIDE DEF c, least
      <4> QED
        BY <1>7, <2>1
    <3>4. n * Q[k + 1] = n * q + n * o
      <4> HIDE DEF o, q
      <4> QED
        BY <2>3, <2>4
    <3>5. n * Q[k + 1] > (c + 1) * least
      <4> HIDE DEF c, o, q, least, few
      <4> QED
        BY <1>7, <2>1, <2>4, <2>5, <3>3, <3>4
    <3>6. c + 1 \in Nat /\ Q[k + 1] >= 0 /\ n * Q[k + 1] \in Int /\ (c + 1) * least \in Int
      <4> HIDE DEF c, o, q, least, few
      <4> QED
        BY <1>7, <2>1, <2>3, <2>4, <3>3, <3>4
    <3> DEFINE d == c + 1
    <3> HIDE DEF d
    <3>7. IsFiniteSet(few(k + 1)) /\ Cardinality(few(k + 1)) = d
      BY <3>2 DEF d
    <3>8. d \in Nat /\ Q[k + 1] >= 0 /\ n * Q[k + 1] \in Int /\ d * least \in Int /\ n * Q[k + 1] > d * least
      BY <3>5, <3>6 DEF d
    <3> HIDE DEF few, least
    <3>9. QED
      BY <3>7, <3>8
  <2>6. CASE ~(n * o > least)
    <3>1. few(k + 1) = few(k)
      <4> HIDE DEF off, least
      <4> QED
        BY <2>6
    <3>2. n * Q[k + 1] = n * q + n * o
      <4> HIDE DEF o, q
      <4> QED
        BY <2>3, <2>4
    <3>3. /\ Q[k + 1] >= 0 /\ n * Q[k + 1] >= c * least
          /\ few(k) # {} => n * Q[k + 1] > c * least
      <4> DEFINE x == n * q
                 y == n * o
                 m == c * least
      <4> HIDE DEF c, o, q, least, few
      <4>1. x \in Int /\ y \in Int /\ m \in Int /\ y >= 0 /\ n * Q[k + 1] = x + y
        BY <2>4, <3>2
      <4>2. x >= m /\ (few(k) # {} => x > m)
        BY <2>1
      <4>3. Q[k + 1] >= 0
        BY <2>1, <2>3
      <4> HIDE DEF x, y, m
      <4>4. x + y >= m /\ (few(k) # {} => x + y > m)
        BY <4>1, <4>2
      <4>5. QED
        BY <4>1, <4>3, <4>4 DEF m
    <3> HIDE DEF few, least
    <3>4. QED
      BY <2>1, <3>1, <3>3
  <2>7. QED
    BY <2>5, <2>6
<1>11. n \in S
  <2> HIDE DEF S
  <2> QED
    BY <1>1, <1>9, <1>10, NatInductionSet
<1>12. ASSUME these # {} PROVE Cardinality(these) * z * z < n
  <2> DEFINE c == Cardinality(these)
             m == c * z * z
  <2>1. c \in Nat /\ all >= 0 /\ n * all > c * least /\ all \in Int
    <3>1. /\ Cardinality(few(n)) \in Nat /\ Q[n] >= 0
          /\ few(n) # {} => n * Q[n] > Cardinality(few(n)) * least
      <4> HIDE DEF few, least
      <4> QED
        BY <1>1, <1>11
    <3>2. all \in Int
      BY <1>1, <1>6
    <3> HIDE DEF few, least, all
    <3>3. QED
      BY <1>6, <1>8, <1>12, <3>1, <3>2
  <2>2. m \in Int /\ c * least = m * all
    <3> HIDE DEF c, all
    <3> QED
      BY <2>1
  <2>3. ASSUME m >= n PROVE FALSE
    <3> HIDE DEF m, all, least, c
    <3>1. m * all >= n * all
      BY <1>1, <2>1, <2>2, <2>3
    <3>2. QED
      BY <1>1, <2>1, <2>2, <3>1
  <2> HIDE DEF m
  <2>4. QED
    BY <1>1, <2>2, <2>3 DEF m
<1>13. QED
  BY <1>12

\* The points of the store.
Points == [metric : MetricNames, value : Int]

\* Listing the values of a metric.  (what ValuesOf folds)
Own(s, m) ==
  [z \in (1 .. Len(s)) \X Seq(Int) |->
     IF s[z[1]].metric = m THEN Append(z[2], s[z[1]].value) ELSE z[2]]

\* The values of a metric are numbers.
LEMMA ValuesListed ==
  ASSUME points \in Seq(Points), NEW m
  PROVE  Analytics!ValuesOf(m) \in Seq(Int)
<1> DEFINE n == Len(points)
           Rec(f) == [t \in SUBSET (1 .. n) |->
                        IF t = {} THEN <<>>
                        ELSE IF points[Max(t)].metric = m
                             THEN Append(f[t \ {Max(t)}], points[Max(t)].value)
                             ELSE f[t \ {Max(t)}]]
           it == CHOOSE f : f = Rec(f)
           B == Seq(Int)
           base == <<>>
           h == Own(points, m)
<1>1. DOMAIN points = 1 .. n /\ n \in Nat
  OBVIOUS
<1>2. Analytics!ValuesOf(m) = it[1 .. n]
  BY <1>1 DEF Analytics!ValuesOf, Analytics!FoldLeft, Analytics!MapThenFoldSet, Analytics!Max, Max
<1>3. \A k \in 1 .. n : points[k].value \in Int
  <2> SUFFICES ASSUME NEW k \in 1 .. n PROVE points[k].value \in Int
    OBVIOUS
  <2>1. points[k] \in Points
    BY <1>1
  <2>2. QED
    BY <2>1 DEF Points
<1>4. /\ StaysIn(h, 1 .. n, B) /\ base \in B
      /\ \A k \in 1 .. n, y \in B :
           h[<<k, y>>] = IF points[k].metric = m THEN Append(y, points[k].value) ELSE y
  BY <1>1, <1>3 DEF StaysIn, Own
<1>5. PICK f : FoldsLeft(f, n, B, base, h)
  <2> HIDE DEF n, B, base, h
  <2> QED
    BY <1>1, <1>4, FoldLeftExists
<1>6. f = Rec(f)
  <2>1. ASSUME NEW t \in SUBSET (1 .. n) PROVE f[t] = Rec(f)[t]
    <3>1. CASE t = {}
      BY <1>5, <3>1 DEF FoldsLeft
    <3>2. CASE t # {}
      <4> DEFINE y == f[t \ {Max(t)}]
                 k == Max(t)
      <4>1. k \in 1 .. n /\ y \in B /\ f[t] = h[<<k, y>>]
        BY <1>5, <3>2 DEF FoldsLeft
      <4> HIDE DEF k, y, n, h, B
      <4>2. f[t] = IF points[k].metric = m THEN Append(y, points[k].value) ELSE y
        BY <1>4, <4>1
      <4>3. QED
        BY <3>2, <4>2 DEF k, y
    <3>3. QED
      BY <3>1, <3>2
  <2>2. f = [t \in SUBSET (1 .. n) |-> f[t]]
    BY <1>5 DEF FoldsLeft
  <2>3. QED
    BY <2>1, <2>2
<1>7. it = Rec(it)
  <2> HIDE DEF Rec
  <2> QED
    BY <1>6
<1>8. Unfolds(it, n, B, base, h)
  <2>1. \A t \in SUBSET (1 .. n) : t # {} => Max(t) \in 1 .. n
    BY <1>1, Largest
  <2> HIDE DEF n, h, it
  <2>2. QED
    BY <1>4, <1>7, <2>1 DEF Unfolds
<1>9. PICK P : Runs(P, n, B, base, h) /\ P[n] = it[1 .. n]
  <2> HIDE DEF n, B, base, h, it
  <2> QED
    BY <1>1, <1>4, <1>8, FoldRuns
<1>10. QED
  BY <1>1, <1>2, <1>9 DEF Runs

\* The inductive invariant: points have numbers for values.
MetricsInv ==
  /\ points \in Seq(Points)
  /\ AnomaliesAreRare

\* Only detect_anomalies answers with outliers, and they are few.
LEMMA MetricsNext == MetricsInv /\ [Analytics!Next]_(Analytics!vars) => MetricsInv'
<1> SUFFICES ASSUME MetricsInv, [Analytics!Next]_(Analytics!vars) PROVE MetricsInv'
  OBVIOUS
<1> USE DEF MetricsInv
<1>1. ASSUME NEW tool, NEW m, NEW v, tool # "anomalies", Analytics!Answer(tool, m, v)
      PROVE  AnomaliesAreRare'
  BY <1>1 DEF Analytics!Answer, AnomaliesAreRare, Analytics!AnomaliesAreRare
<1>2. statistics' = Analytics!NoAnswer => AnomaliesAreRare'
  BY DEF Analytics!NoAnswer, AnomaliesAreRare, Analytics!AnomaliesAreRare
<1>3. CASE Analytics!Configure
  BY <1>2, <1>3 DEF Analytics!Configure
<1>4. ASSUME NEW m \in MetricNames, NEW v \in Values, Analytics!RecordMetric(m, v) PROVE MetricsInv'
  <2>1. [metric |-> m, value |-> v] \in Points
    BY MetricsAssumption DEF Points
  <2>2. QED
    BY <1>2, <1>4, <2>1 DEF Analytics!RecordMetric
<1>5. ASSUME NEW m \in MetricNames, NEW agg \in Analytics!Aggregations, Analytics!QueryAggregate(m, agg)
      PROVE  MetricsInv'
  BY <1>1, <1>5 DEF Analytics!QueryAggregate, Analytics!Aggregations
<1>6. ASSUME NEW m \in MetricNames, NEW limit \in Limits, Analytics!QueryRaw(m, limit) PROVE MetricsInv'
  BY <1>1, <1>6 DEF Analytics!QueryRaw
<1>7. ASSUME NEW m \in MetricNames, NEW ok \in BOOLEAN, Analytics!GenerateChart(m, ok) PROVE MetricsInv'
  BY <1>1, <1>7 DEF Analytics!GenerateChart
<1>8. ASSUME NEW m \in MetricNames, NEW z \in Thresholds, Analytics!DetectAnomalies(m, z) PROVE MetricsInv'
  <2> DEFINE s == Analytics!ValuesOf(m)
             all == {i \in DOMAIN s : Analytics!Outlying(s, z, s[i])}
             outside == IF Len(s) < 3 THEN {} ELSE all
             v == [z |-> z, of |-> s, found |-> outside]
  <2>1. UNCHANGED points /\ statistics' = [tool |-> "anomalies", metric |-> m, value |-> v]
    BY <1>8 DEF Analytics!DetectAnomalies, Analytics!Answer
  <2>2. s \in Seq(Int) /\ z \in Int
    BY ValuesListed, MetricsAssumption
  <2>3. all # {} => Cardinality(all) * z * z < Len(s)
    <3> HIDE DEF s
    <3> QED
      BY <2>2, OutliersAreFew
  <2>4. v.found = outside /\ v.z = z /\ v.of = s
    OBVIOUS
  <2>5. Analytics!Cardinality(outside) = Cardinality(outside)
    BY DEF Analytics!Cardinality, Cardinality, Analytics!IsFiniteSet, IsFiniteSet
  <2>6. outside # {} => outside = all
    OBVIOUS
  <2> HIDE DEF s, all, outside, v
  <2>7. QED
    BY <2>1, <2>3, <2>4, <2>5, <2>6 DEF AnomaliesAreRare, Analytics!AnomaliesAreRare
<1>9. CASE UNCHANGED Analytics!vars
  BY <1>9 DEF Analytics!vars, AnomaliesAreRare, Analytics!AnomaliesAreRare
<1>10. QED
  BY <1>3, <1>4, <1>5, <1>6, <1>7, <1>8, <1>9 DEF Analytics!Next

\* However many points are recorded, fewer than one in z squared of those of a
\* metric are reported as anomalies.  (AnalyticsServer.detect_anomalies)
THEOREM RareAnomalies == Analytics!Spec => []AnomaliesAreRare
<1>1. Analytics!Init => MetricsInv
  BY DEF Analytics!Init, MetricsInv, Analytics!NoAnswer, AnomaliesAreRare, Analytics!AnomaliesAreRare
<1>2. MetricsInv => AnomaliesAreRare
  BY DEF MetricsInv
<1>3. QED
  BY <1>1, <1>2, MetricsNext, PTL DEF Analytics!Spec

-----------------------------------------------------------------------------
(* Costs: what models and tools are charged adds up                        *)

\* The costs that are whole at the eighth decimal.
Whole8 == {100 * k : k \in Int}
Recorded == [model : (DOMAIN Prices) \X Models, tool : Tools \cup {NoTool}, cost : Whole8]

\* The inductive invariant: what is recorded has been rounded.
CostsInv == records \in Seq(Recorded)

\* Rounding gives a cost that is whole at the eighth decimal, and changes none
\* that is.  (round(cost, 8))
LEMMA Rounding ==
  /\ \A n \in Int : Costs!Round(n) \in Whole8
  /\ \A c \in Whole8 : c \in Int /\ Costs!Round(c) = c
  /\ \A c, d \in Whole8 : c + d \in Whole8 /\ Costs!Round(c + d) = c + d
  /\ 0 \in Whole8
<1>1. ASSUME NEW n \in Int PROVE Costs!Round(n) \in Whole8
  <2>1. (n + 50) \div 100 \in Int /\ Costs!Round(n) = 100 * ((n + 50) \div 100)
    BY DEF Costs!Round
  <2>2. QED
    BY <2>1 DEF Whole8
<1>2. ASSUME NEW k \in Int PROVE Costs!Round(100 * k) = 100 * k
  BY DEF Costs!Round
<1>3. ASSUME NEW j \in Int, NEW k \in Int PROVE 100 * j + 100 * k = 100 * (j + k) /\ j + k \in Int
  OBVIOUS
<1>4. 0 = 100 * 0
  OBVIOUS
<1>5. ASSUME NEW c \in Whole8, NEW d \in Whole8 PROVE c + d \in Whole8
  <2>1. PICK j \in Int, k \in Int : c = 100 * j /\ d = 100 * k
    BY DEF Whole8
  <2>2. QED
    BY <1>3, <2>1 DEF Whole8
<1>6. ASSUME NEW c \in Whole8 PROVE c \in Int /\ Costs!Round(c) = c
  <2>1. PICK k \in Int : c = 100 * k
    BY DEF Whole8
  <2>2. QED
    BY <1>2, <2>1
<1>7. QED
  BY <1>1, <1>4, <1>5, <1>6 DEF Whole8

\* A cost is whole at the eighth decimal.
LEMMA CostIsRounded ==
  ASSUME NEW p \in DOMAIN Prices, NEW m, NEW i \in TokenCounts, NEW o \in TokenCounts
  PROVE  Costs!Cost(p, m, i, o) \in Whole8
<1> DEFINE matching == Costs!Entries(p, m)
           price == Prices[p][CHOOSE e \in matching : TRUE]
<1>1. matching \subseteq DOMAIN Prices[p]
  <2> DEFINE table == Prices[p]
             own == {e \in DOMAIN table : table[e].model = m}
             like == {e \in DOMAIN table : <<m, table[e].model>> \in Alike}
  <2>1. table \in Seq([model : STRING, input : Nat, output : Nat])
    BY CostAssumption
  <2>2. DOMAIN table = 1 .. Len(table) /\ Len(table) \in Nat
    BY <2>1
  <2>3. like # {} => Min(like) \in like
    <3> HIDE DEF table
    <3> QED
      BY <2>2, Smallest
  <2>4. matching = IF own # {} THEN own ELSE IF like # {} THEN {Min(like)} ELSE {}
    BY DEF Costs!Entries, Costs!Min, Min
  <2> HIDE DEF matching, table
  <2>5. QED
    BY <2>3, <2>4 DEF table
<1>2. CASE matching = {}
  BY <1>2, Rounding DEF Costs!Cost
<1>3. CASE matching # {}
  <2>1. (CHOOSE e \in matching : TRUE) \in DOMAIN Prices[p]
    <3> HIDE DEF matching
    <3> QED
      BY <1>1, <1>3
  <2>2. price \in [model : STRING, input : Nat, output : Nat]
    <3> DEFINE table == Prices[p]
               one == CHOOSE e \in matching : TRUE
               R == [model : STRING, input : Nat, output : Nat]
    <3>1. table \in Seq(R) /\ one \in DOMAIN table
      BY <2>1, CostAssumption
    <3> HIDE DEF table, one, R
    <3>2. table[one] \in R
      BY <3>1
    <3>3. QED
      BY <3>2 DEF table, one, R
  <2>3. price.input \in Nat /\ price.output \in Nat /\ i \in Nat /\ o \in Nat
    BY <2>2, CostAssumption
  <2>4. Costs!Cost(p, m, i, o) = Costs!Round(i * price.input + o * price.output)
    BY <1>3 DEF Costs!Cost
  <2> HIDE DEF price
  <2>5. QED
    BY <2>3, <2>4, Rounding
<1>4. QED
  BY <1>2, <1>3

\* What the next record adds to a sum over the records some.
Adds(some) ==
  [z \in (1 .. Len(records)) \X Whole8 |->
     IF z[1] \in some THEN z[2] + records[z[1]].cost ELSE z[2]]

\* The cost of a record is whole at the eighth decimal.
LEMMA RecordedCost ==
  ASSUME CostsInv
  PROVE  /\ Len(records) \in Nat /\ DOMAIN records = 1 .. Len(records)
         /\ \A i \in 1 .. Len(records) : records[i].cost \in Whole8
<1>1. Len(records) \in Nat /\ DOMAIN records = 1 .. Len(records)
  BY DEF CostsInv
<1>2. ASSUME NEW i \in 1 .. Len(records) PROVE records[i].cost \in Whole8
  <2>1. records[i] \in Recorded
    BY <1>1 DEF CostsInv
  <2>2. QED
    BY <2>1 DEF Recorded
<1>3. QED
  BY <1>1, <1>2

\* A sum that is rounded at every step adds one cost after the other.
LEMMA TotalRuns ==
  ASSUME CostsInv, NEW some
  PROVE  /\ \A k \in 1 .. Len(records), y \in Whole8 :
              Adds(some)[<<k, y>>] = IF k \in some THEN y + records[k].cost ELSE y
         /\ \E P : /\ Runs(P, Len(records), Whole8, 0, Adds(some))
                   /\ P[Len(records)] = Costs!Total(some)
<1> DEFINE n == Len(records)
           Rec(f) == [t \in SUBSET (1 .. n) |->
                        IF t = {} THEN 0
                        ELSE IF [i \in 1 .. n |-> i][Max(t)] \in some
                             THEN Costs!Round(f[t \ {Max(t)}] + records[[i \in 1 .. n |-> i][Max(t)]].cost)
                             ELSE f[t \ {Max(t)}]]
           it == CHOOSE f : f = Rec(f)
           B == Whole8
           base == 0
           h == Adds(some)
<1>1. DOMAIN records = 1 .. n /\ n \in Nat
  BY RecordedCost
<1>2. Costs!Total(some) = it[1 .. n]
  BY <1>1 DEF Costs!Total, Costs!FoldLeftDomain, Costs!FoldLeft, Costs!MapThenFoldSet, Costs!Max, Max
<1>3. /\ StaysIn(h, 1 .. n, B) /\ base \in B
      /\ \A k \in 1 .. n, y \in B : /\ h[<<k, y>>] = IF k \in some THEN y + records[k].cost ELSE y
                                    /\ Costs!Round(y + records[k].cost) = y + records[k].cost
  BY <1>1, RecordedCost, Rounding DEF StaysIn, Adds
<1>4. PICK f : FoldsLeft(f, n, B, base, h)
  <2> HIDE DEF n, B, base, h
  <2> QED
    BY <1>1, <1>3, FoldLeftExists
<1>m. \A t \in SUBSET (1 .. n) : t # {} => Max(t) \in 1 .. n /\ [i \in 1 .. n |-> i][Max(t)] = Max(t)
  <2>1. \A t \in SUBSET (1 .. n) : t # {} => Max(t) \in 1 .. n
    BY <1>1, Largest
  <2> HIDE DEF n
  <2>2. QED
    BY <2>1
<1>5. f = Rec(f)
  <2>1. ASSUME NEW t \in SUBSET (1 .. n) PROVE f[t] = Rec(f)[t]
    <3> DEFINE m == Max(t)
               r == f[t \ {m}]
    <3>1. CASE t = {}
      BY <1>4, <3>1 DEF FoldsLeft
    <3>2. CASE t # {}
      <4>1. m \in 1 .. n /\ [i \in 1 .. n |-> i][m] = m
        BY <1>m, <3>2
      <4>2. r \in B /\ f[t] = h[<<m, r>>]
        BY <1>4, <3>2 DEF FoldsLeft
      <4>3. Rec(f)[t] = IF m \in some THEN Costs!Round(r + records[m].cost) ELSE r
        <5> HIDE DEF n
        <5> QED
          BY <3>2, <4>1
      <4> HIDE DEF m, r, h, n, Rec, B
      <4>4. QED
        BY <1>3, <4>1, <4>2, <4>3
    <3>3. QED
      BY <3>1, <3>2
  <2>2. f = [t \in SUBSET (1 .. n) |-> f[t]]
    BY <1>4 DEF FoldsLeft
  <2>3. QED
    BY <2>1, <2>2
<1>6. it = Rec(it)
  <2> HIDE DEF Rec
  <2> QED
    BY <1>5
<1>7. Unfolds(it, n, B, base, h)
  <2>1. it[{}] = base
    <3> HIDE DEF it
    <3> QED
      BY <1>6
  <2>2. ASSUME NEW t \in SUBSET (1 .. n), t # {}, it[t \ {Max(t)}] \in B
        PROVE  it[t] = h[<<Max(t), it[t \ {Max(t)}]>>]
    <3> DEFINE m == Max(t)
               r == it[t \ {m}]
    <3>1. m \in 1 .. n /\ [i \in 1 .. n |-> i][m] = m
      BY <1>m, <2>2
    <3>2. it[t] = IF m \in some THEN Costs!Round(r + records[m].cost) ELSE r
      <4> HIDE DEF n, it
      <4> QED
        BY <1>6, <2>2, <3>1
    <3>3. r \in B
      BY <2>2
    <3> HIDE DEF m, r, h, n, it, B
    <3>4. it[t] = h[<<m, r>>]
      BY <1>3, <3>1, <3>2, <3>3
    <3>5. QED
      BY <3>4 DEF m, r
  <2> HIDE DEF it, h
  <2>3. QED
    BY <2>1, <2>2 DEF Unfolds
<1>8. \E P : Runs(P, n, B, base, h) /\ P[n] = it[1 .. n]
  <2> HIDE DEF n, B, base, h, it
  <2> QED
    BY <1>1, <1>3, <1>7, FoldRuns
<1>9. QED
  BY <1>2, <1>3, <1>8

\* P[k] is the sum over those of the first k records that are in some.
Sums(P, some) ==
  /\ P \in [0 .. Len(records) -> Whole8] /\ P[0] = 0
  /\ P[Len(records)] = Costs!Total(some)
  /\ \A k \in 1 .. Len(records) : P[k] = IF k \in some THEN P[k - 1] + records[k].cost ELSE P[k - 1]

\* Total computes the sums of some records: rounding after every one changes nothing.
LEMMA SumsExist == ASSUME CostsInv, NEW some PROVE \E P : Sums(P, some)
<1>1. PICK P : Runs(P, Len(records), Whole8, 0, Adds(some)) /\ P[Len(records)] = Costs!Total(some)
  BY TotalRuns
<1>2. ASSUME NEW k \in 1 .. Len(records)
      PROVE  P[k] = IF k \in some THEN P[k - 1] + records[k].cost ELSE P[k - 1]
  <2>1. P[k - 1] \in Whole8
    BY <1>1, RecordedCost DEF Runs
  <2>2. P[k] = Adds(some)[<<k, P[k - 1]>>]
    BY <1>1 DEF Runs
  <2>3. \A y \in Whole8 : Adds(some)[<<k, y>>] = IF k \in some THEN y + records[k].cost ELSE y
    BY TotalRuns
  <2>4. QED
    BY <2>1, <2>2, <2>3
<1>3. QED
  BY <1>1, <1>2 DEF Runs, Sums

\* The sum over two sets of records is the sum of both.
LEMMA TotalOfBoth ==
  ASSUME CostsInv, NEW A, NEW C, A \cap C = {}
  PROVE  Costs!Total(A \cup C) = Costs!Total(A) + Costs!Total(C)
<1> DEFINE n == Len(records)
<1>1. n \in Nat /\ \A i \in 1 .. n : records[i].cost \in Int
  BY RecordedCost, Rounding
<1>2. PICK P : Sums(P, A)
  BY SumsExist
<1>3. PICK Q : Sums(Q, C)
  BY SumsExist
<1>4. PICK R : Sums(R, A \cup C)
  BY SumsExist
<1>5. \A k \in 0 .. n : P[k] \in Int /\ Q[k] \in Int /\ R[k] \in Int
  BY <1>2, <1>3, <1>4, Rounding DEF Sums
<1> DEFINE S == {k \in Nat : k <= n => R[k] = P[k] + Q[k]}
<1>6. 0 \in S
  BY <1>2, <1>3, <1>4 DEF Sums
<1>7. ASSUME NEW k \in Nat, k \in S PROVE k + 1 \in S
  <2> SUFFICES ASSUME k + 1 <= n PROVE R[k + 1] = P[k + 1] + Q[k + 1]
    OBVIOUS
  <2> DEFINE j == k + 1
  <2>1. j \in 1 .. n /\ j - 1 = k /\ k \in 0 .. n /\ R[k] = P[k] + Q[k]
    BY <1>1, <1>7
  <2> HIDE DEF j
  <2>2. /\ P[j] = IF j \in A THEN P[k] + records[j].cost ELSE P[k]
        /\ Q[j] = IF j \in C THEN Q[k] + records[j].cost ELSE Q[k]
        /\ R[j] = IF j \in A \cup C THEN R[k] + records[j].cost ELSE R[k]
    BY <1>2, <1>3, <1>4, <2>1 DEF Sums
  <2>3. R[j] = P[j] + Q[j]
    BY <1>1, <1>5, <2>1, <2>2
  <2>4. QED
    BY <2>3 DEF j
<1>8. n \in S
  <2> HIDE DEF S
  <2> QED
    BY <1>1, <1>6, <1>7, NatInductionSet
<1>9. QED
  BY <1>1, <1>2, <1>3, <1>4, <1>8 DEF Sums

\* The sum over no record is nothing.
LEMMA TotalOfNone == ASSUME CostsInv PROVE Costs!Total({}) = 0
<1> DEFINE n == Len(records)
           S == {k \in Nat : k <= n => \A P : Sums(P, {}) => P[k] = 0}
<1>1. n \in Nat
  BY RecordedCost
<1>2. 0 \in S
  BY DEF Sums
<1>3. ASSUME NEW k \in Nat, k \in S PROVE k + 1 \in S
  <2> SUFFICES ASSUME k + 1 <= n, NEW P, Sums(P, {}) PROVE P[k + 1] = 0
    OBVIOUS
  <2> DEFINE j == k + 1
  <2>1. j \in 1 .. n /\ j - 1 = k /\ P[k] = 0
    BY <1>1, <1>3
  <2> HIDE DEF j
  <2>2. P[j] = 0
    BY <2>1 DEF Sums
  <2>3. QED
    BY <2>2 DEF j
<1>4. n \in S
  <2> HIDE DEF S
  <2> QED
    BY <1>1, <1>2, <1>3, NatInductionSet
<1>5. PICK P : Sums(P, {})
  BY SumsExist
<1>6. QED
  BY <1>1, <1>4, <1>5 DEF Sums

\* The total is the sum over all records: rounding at the end or at every step
\* is the same.
LEMMA TotalOfAll == ASSUME CostsInv PROVE Costs!Total(DOMAIN records) = Costs!TotalCost
<1> DEFINE n == Len(records)
           Rec(f) == [t \in SUBSET (1 .. n) |->
                        IF t = {} THEN 0 ELSE f[t \ {Max(t)}] + records[Max(t)].cost]
           it == CHOOSE f : f = Rec(f)
           B == Whole8
           base == 0
           h == Adds(1 .. n)
<1>1. DOMAIN records = 1 .. n /\ n \in Nat
  BY RecordedCost
<1>2. Costs!TotalCost = Costs!Round(it[1 .. n])
  BY <1>1 DEF Costs!TotalCost, Costs!FoldLeft, Costs!MapThenFoldSet, Costs!Max, Max
<1>3. /\ StaysIn(h, 1 .. n, B) /\ base \in B
      /\ \A k \in 1 .. n, y \in B : h[<<k, y>>] = y + records[k].cost
  BY <1>1, RecordedCost, Rounding DEF StaysIn, Adds
<1>4. PICK f : FoldsLeft(f, n, B, base, h)
  <2> HIDE DEF n, B, base, h
  <2> QED
    BY <1>1, <1>3, FoldLeftExists
<1>m. \A t \in SUBSET (1 .. n) : t # {} => Max(t) \in 1 .. n
  BY <1>1, Largest
<1>5. f = Rec(f)
  <2>1. ASSUME NEW t \in SUBSET (1 .. n) PROVE f[t] = Rec(f)[t]
    <3> HIDE DEF n, h
    <3> QED
      BY <1>3, <1>4, <1>m DEF FoldsLeft
  <2>2. f = [t \in SUBSET (1 .. n) |-> f[t]]
    BY <1>4 DEF FoldsLeft
  <2>3. QED
    BY <2>1, <2>2
<1>6. it = Rec(it)
  <2> HIDE DEF Rec
  <2> QED
    BY <1>5
<1>7. Unfolds(it, n, B, base, h)
  <2> HIDE DEF n, h, it
  <2> QED
    BY <1>3, <1>6, <1>m DEF Unfolds
<1>8. PICK P : Runs(P, n, B, base, h) /\ P[n] = it[1 .. n]
  <2> HIDE DEF n, B, base, h, it
  <2> QED
    BY <1>1, <1>3, <1>7, FoldRuns
<1>9. PICK Q : Sums(Q, 1 .. n)
  BY SumsExist
<1> DEFINE S == {k \in Nat : k <= n => Q[k] = P[k]}
<1>10. 0 \in S
  BY <1>8, <1>9 DEF Sums, Runs
<1>11. ASSUME NEW k \in Nat, k \in S PROVE k + 1 \in S
  <2> SUFFICES ASSUME k + 1 <= n PROVE Q[k + 1] = P[k + 1]
    OBVIOUS
  <2> DEFINE j == k + 1
  <2>1. j \in 1 .. n /\ j - 1 = k /\ k \in 0 .. n /\ Q[k] = P[k]
    BY <1>1, <1>11
  <2> HIDE DEF j
  <2>2. P[k] \in Whole8 /\ P[j] = h[<<j, P[k]>>] /\ Q[j] = Q[k] + records[j].cost
    BY <1>8, <1>9, <2>1 DEF Sums, Runs
  <2>3. Q[j] = P[j]
    <3> HIDE DEF h
    <3> QED
      BY <1>3, <2>1, <2>2
  <2>4. QED
    BY <2>3 DEF j
<1>12. n \in S
  <2> HIDE DEF S
  <2> QED
    BY <1>1, <1>10, <1>11, NatInductionSet
<1>13. P[n] \in Whole8 /\ Q[n] = P[n] /\ Q[n] = Costs!Total(1 .. n)
  BY <1>1, <1>8, <1>9, <1>12 DEF Sums, Runs
<1>14. QED
  <2> HIDE DEF it
  <2> QED
    BY <1>1, <1>2, <1>8, <1>13, Rounding

\* The records with a label in D.
Share(label, D) == {i \in DOMAIN records : label[i] \in D}

\* Shares that are summed up by label add up to the sum over all that have one
\* of the labels.
LEMMA SharesAddUp ==
  ASSUME CostsInv, NEW label, NEW D, IsFiniteSet(D), NEW share,
         share = [d \in D |-> Costs!Total({i \in DOMAIN records : label[i] = d})]
  PROVE  Costs!SumOf(share) = Costs!Total(Share(label, D))
<1> DEFINE one(s) == CHOOSE x \in s : TRUE
           Rec(g) == [s \in SUBSET D |-> IF s = {} THEN 0 ELSE share[one(s)] + g[s \ {one(s)}]]
           it == CHOOSE g : g = Rec(g)
           f == [s \in SUBSET D |-> Costs!Total(Share(label, s))]
<1>1. Costs!SumOf(share) = it[D]
  <2>1. DOMAIN share = D
    OBVIOUS
  <2> HIDE DEF Rec
  <2>2. QED
    BY <2>1 DEF Costs!SumOf, Costs!FoldFunction, Costs!FoldFunctionOnSet, Costs!MapThenFoldSet, Rec
<1>2. ASSUME NEW s \in SUBSET D, s # {}
      PROVE  Costs!Total(Share(label, s)) = share[one(s)] + Costs!Total(Share(label, s \ {one(s)}))
  <2> DEFINE x == one(s)
             A == {i \in DOMAIN records : label[i] = x}
             C == Share(label, s \ {x})
  <2>1. x \in s
    BY <1>2
  <2> HIDE DEF x
  <2>2. A \cap C = {} /\ Share(label, s) = A \cup C /\ share[x] = Costs!Total(A)
    BY <2>1 DEF Share
  <2> HIDE DEF A, C
  <2>3. Costs!Total(Share(label, s)) = share[x] + Costs!Total(C)
    BY <2>2, TotalOfBoth
  <2>4. QED
    BY <2>3 DEF x, C
<1>3. f = Rec(f)
  <2>1. ASSUME NEW s \in SUBSET D PROVE f[s] = Rec(f)[s]
    <3>1. CASE s = {}
      <4>1. Share(label, s) = {}
        BY <3>1 DEF Share
      <4>2. f[s] = 0
        BY <4>1, TotalOfNone
      <4>3. QED
        BY <3>1, <4>2
    <3>2. CASE s # {}
      <4>1. s \ {one(s)} \in SUBSET D
        OBVIOUS
      <4> HIDE DEF one
      <4>2. f[s] = share[one(s)] + f[s \ {one(s)}]
        BY <1>2, <3>2, <4>1
      <4> HIDE DEF f
      <4>3. QED
        BY <3>2, <4>2
    <3>3. QED
      BY <3>1, <3>2
  <2>2. QED
    BY <2>1
<1>4. it = Rec(it)
  <2> HIDE DEF Rec, f
  <2> QED
    BY <1>3
<1> DEFINE S == {k \in Nat : \A s \in SUBSET D : Cardinality(s) <= k => it[s] = f[s]}
<1>5. ASSUME NEW s \in SUBSET D
      PROVE  /\ IsFiniteSet(s) /\ Cardinality(s) \in Nat /\ (Cardinality(s) = 0 <=> s = {})
             /\ s # {} => /\ s \ {one(s)} \in SUBSET D
                          /\ Cardinality(s \ {one(s)}) = Cardinality(s) - 1
  BY FS_Subset, FS_CardinalityType, FS_EmptySet, FS_RemoveElement
<1>6. 0 \in S
  <2> SUFFICES ASSUME NEW s \in SUBSET D, Cardinality(s) <= 0 PROVE it[s] = f[s]
    OBVIOUS
  <2>1. Cardinality(s) \in Nat /\ (Cardinality(s) = 0 <=> s = {})
    BY <1>5
  <2>2. s = {}
    BY <2>1
  <2>3. it[s] = 0
    <3> HIDE DEF it, one
    <3> QED
      BY <1>4, <2>2
  <2>4. f[s] = 0
    <3> HIDE DEF f, one
    <3> QED
      BY <1>3, <2>2
  <2>5. QED
    BY <2>3, <2>4
<1>7. ASSUME NEW k \in Nat, k \in S PROVE k + 1 \in S
  <2>1. ASSUME NEW s \in SUBSET D, Cardinality(s) <= k + 1 PROVE it[s] = f[s]
    <3>1. CASE s = {}
      <4>1. it[s] = 0
        <5> HIDE DEF it, one
        <5> QED
          BY <1>4, <3>1
      <4>2. f[s] = 0
        <5> HIDE DEF f, one
        <5> QED
          BY <1>3, <3>1
      <4>3. QED
        BY <4>1, <4>2
    <3>2. CASE s # {}
      <4> DEFINE r == s \ {one(s)}
      <4>1. r \in SUBSET D /\ Cardinality(r) = Cardinality(s) - 1 /\ Cardinality(s) \in Nat
        BY <1>5, <3>2
      <4>2. it[s] = share[one(s)] + it[r]
        <5> HIDE DEF it, one
        <5> QED
          BY <1>4, <3>2
      <4>3. f[s] = share[one(s)] + f[r]
        <5> HIDE DEF f, one
        <5> QED
          BY <1>3, <3>2
      <4>4. it[r] = f[r]
        <5> HIDE DEF it, f, r
        <5> QED
          BY <1>7, <2>1, <4>1
      <4> HIDE DEF it, f, r
      <4>5. QED
        BY <4>2, <4>3, <4>4
    <3>3. QED
      BY <3>1, <3>2
  <2> HIDE DEF it, f
  <2>2. QED
    BY <2>1
<1>8. Cardinality(D) \in S
  <2> HIDE DEF S
  <2> QED
    BY <1>6, <1>7, NatInductionSet, FS_CardinalityType
<1>9. it[D] = f[D]
  <2>1. Cardinality(D) <= Cardinality(D)
    BY FS_CardinalityType
  <2> HIDE DEF it, f
  <2>2. QED
    BY <1>8, <2>1
<1> HIDE DEF it
<1>10. QED
  BY <1>1, <1>9

\* The labels of records are finitely many.
LEMMA LabelsAreFinite ==
  ASSUME CostsInv, NEW label, DOMAIN label = DOMAIN records
  PROVE  IsFiniteSet({label[i] : i \in DOMAIN records})
<1> DEFINE n == Len(records)
           D == {label[i] : i \in 1 .. n}
           f == [i \in 1 .. n |-> label[i]]
<1>1. n \in Nat /\ DOMAIN records = 1 .. n
  BY RecordedCost
<1>2. f \in Surjection(1 .. n, D)
  BY DEF Surjection
<1>3. IsFiniteSet(1 .. n)
  BY <1>1, FS_Interval
<1> HIDE DEF f, D, n
<1>4. IsFiniteSet(D)
  BY <1>2, <1>3, FS_Surjection
<1>5. QED
  BY <1>1, <1>4 DEF D

\* Records that are rounded add up, by model and by tool.
LEMMA RoundedAddUp == CostsInv => CostsAddUp
<1> SUFFICES ASSUME CostsInv PROVE Costs!CostsAddUp
  BY DEF CostsAddUp
<1>1. Costs!SumOf(Costs!CostByModel) = Costs!TotalCost
  <2> DEFINE label == [i \in DOMAIN records |-> records[i].model]
             D == {label[i] : i \in DOMAIN records}
  <2>1. IsFiniteSet(D)
    BY LabelsAreFinite
  <2>2. Costs!CostByModel = [d \in D |-> Costs!Total({i \in DOMAIN records : label[i] = d})]
    <3>1. D = {records[i].model : i \in DOMAIN records}
      OBVIOUS
    <3>2. \A d : Costs!OfModel(d) = {i \in DOMAIN records : label[i] = d}
      BY DEF Costs!OfModel
    <3> HIDE DEF D, label
    <3>3. QED
      BY <3>1, <3>2 DEF Costs!CostByModel
  <2>3. Share(label, D) = DOMAIN records
    BY DEF Share
  <2> HIDE DEF D, label
  <2>4. QED
    BY <2>1, <2>2, <2>3, SharesAddUp, TotalOfAll
<1>2. Costs!SumOf(Costs!CostByTool) + Costs!Total(Costs!OfTool(NoTool)) = Costs!TotalCost
  <2> DEFINE label == [i \in DOMAIN records |-> records[i].tool]
             all == {label[i] : i \in DOMAIN records}
             D == all \ {NoTool}
             A == Share(label, D)
             C == Costs!OfTool(NoTool)
  <2>1. IsFiniteSet(D)
    <3>1. IsFiniteSet(all)
      BY LabelsAreFinite
    <3> HIDE DEF all
    <3>2. QED
      BY <3>1, FS_Subset
  <2>2. Costs!CostByTool = [d \in D |-> Costs!Total({i \in DOMAIN records : label[i] = d})]
    <3>1. D = {records[i].tool : i \in DOMAIN records} \ {NoTool}
      OBVIOUS
    <3>2. \A d : Costs!OfTool(d) = {i \in DOMAIN records : label[i] = d}
      BY DEF Costs!OfTool
    <3> HIDE DEF D, label
    <3>3. QED
      BY <3>1, <3>2 DEF Costs!CostByTool
  <2>3. A \cap C = {} /\ A \cup C = DOMAIN records
    BY DEF Share, Costs!OfTool
  <2> HIDE DEF D, label, A, C
  <2>4. Costs!SumOf(Costs!CostByTool) = Costs!Total(A)
    BY <2>1, <2>2, SharesAddUp DEF A
  <2>5. Costs!Total(A) + Costs!Total(C) = Costs!TotalCost
    BY <2>3, TotalOfBoth, TotalOfAll
  <2>6. QED
    BY <2>4, <2>5 DEF C
<1>3. QED
  BY <1>1, <1>2 DEF Costs!CostsAddUp

\* Every action records rounded costs.
LEMMA CostsNext == CostsInv /\ [Costs!Next]_(Costs!vars) => CostsInv'
<1> SUFFICES ASSUME CostsInv, [Costs!Next]_(Costs!vars) PROVE CostsInv'
  OBVIOUS
<1>1. ASSUME NEW p \in DOMAIN Prices, NEW m \in Models, NEW i \in TokenCounts, NEW o \in TokenCounts,
             NEW t \in Tools \cup {NoTool}, Costs!RecordUsage(p, m, i, o, t)
      PROVE  CostsInv'
  <2> DEFINE r == [model |-> <<p, m>>, tool |-> t, cost |-> Costs!Cost(p, m, i, o)]
  <2>1. r \in Recorded
    BY CostIsRounded DEF Recorded
  <2>2. records' = Append(records, r)
    BY <1>1 DEF Costs!RecordUsage
  <2> HIDE DEF r
  <2>3. QED
    BY <2>1, <2>2 DEF CostsInv
<1>2. CASE Costs!Reset
  BY <1>2 DEF Costs!Reset, CostsInv
<1>3. CASE UNCHANGED Costs!vars
  BY <1>3 DEF Costs!vars, CostsInv
<1>4. QED
  BY <1>1, <1>2, <1>3 DEF Costs!Next

\* What the models and the tools are charged adds up to the total, to the last
\* digit, however the records are rounded on the way.
\* (CostTracker.record_usage, total_cost, cost_by_model, cost_by_tool)
THEOREM ChargesAddUp == Costs!Spec => []CostsAddUp
<1>1. Costs!Init => CostsInv
  BY DEF Costs!Init, CostsInv
<1>2. QED
  BY <1>1, RoundedAddUp, CostsNext, PTL DEF Costs!Spec

-----------------------------------------------------------------------------
(* email: drafts are filled                                                *)

\* Texts are sequences of words.
Words == STRING
Written == Seq(Words)

\* The inductive invariant: templates have texts, and the last draft is filled.
DraftInv ==
  /\ \A name \in DOMAIN templates :
       templates[name].subject \in Written /\ templates[name].body \in Written
  /\ DraftIsFilled

\* A set of texts that has the empty one, and with every text the texts that
\* are one word longer, has all.
LEMMA TextInduction ==
  ASSUME NEW T, <<>> \in T, \A t \in Written, w \in Words : t \in T => Append(t, w) \in T
  PROVE  Written \subseteq T
<1> DEFINE S == {n \in Nat : \A t \in Written : Len(t) = n => t \in T}
<1>1. 0 \in S
  <2>1. ASSUME NEW t \in Written, Len(t) = 0 PROVE t = <<>>
    BY <2>1 DEF Written
  <2>2. QED
    BY <2>1
<1>2. ASSUME NEW n \in Nat, n \in S PROVE n + 1 \in S
  <2>1. ASSUME NEW t \in Written, Len(t) = n + 1 PROVE t \in T
    <3> DEFINE s == [i \in 1 .. n |-> t[i]]
               w == t[n + 1]
    <3>1. s \in Written /\ Len(s) = n /\ w \in Words
      BY <2>1 DEF Written
    <3>2. Append(s, w) = t
      BY <2>1 DEF Written
    <3>3. s \in T
      BY <1>2, <3>1
    <3> HIDE DEF s, w
    <3>4. QED
      BY <3>1, <3>2, <3>3
  <2>2. QED
    BY <2>1
<1>3. Nat \subseteq S
  <2> HIDE DEF S
  <2> QED
    BY <1>1, <1>2, NatInductionSet
<1>4. QED
  BY <1>3 DEF Written

\* Joining one text after the other.
Joins(s) == [z \in (1 .. Len(s)) \X Written |-> z[2] \o s[z[1]]]

\* FlattenSeq joins the texts of a list.
LEMMA Flattening ==
  ASSUME NEW s \in Seq(Written)
  PROVE  \E P : Runs(P, Len(s), Written, <<>>, Joins(s)) /\ P[Len(s)] = Mail!FlattenSeq(s)
<1> DEFINE n == Len(s)
           Rec(f) == [i \in 1 .. n |-> IF i = 1 THEN s[i] ELSE f[i - 1] \o s[i]]
           it == CHOOSE f : f = Rec(f)
           B == Written
           base == <<>>
           h == Joins(s)
<1>1. n \in Nat /\ DOMAIN s = 1 .. n /\ \A k \in 1 .. n : s[k] \in B
  OBVIOUS
<1>2. Mail!FlattenSeq(s) = IF n = 0 THEN s ELSE it[n]
  BY DEF Mail!FlattenSeq
<1>3. \A k \in 1 .. n, y \in B : h[<<k, y>>] = y \o s[k] /\ h[<<k, y>>] \in B
  <2> SUFFICES ASSUME NEW k \in 1 .. n, NEW y \in B PROVE h[<<k, y>>] = y \o s[k] /\ h[<<k, y>>] \in B
    OBVIOUS
  <2>1. h[<<k, y>>] = y \o s[k]
    BY DEF Joins
  <2>2. s[k] \in Written /\ y \in Written
    BY <1>1
  <2> HIDE DEF h
  <2>3. y \o s[k] \in Written
    BY <2>2, ConcatProperties DEF Written
  <2>4. QED
    BY <2>1, <2>3
<1>4. StaysIn(h, 1 .. n, B) /\ base \in B
  <2>1. base \in B
    BY DEF Written
  <2> HIDE DEF h, n, B, base
  <2>2. QED
    BY <1>3, <2>1 DEF StaysIn
<1>5. PICK P : Runs(P, n, B, base, h)
  <2> HIDE DEF n, B, base, h
  <2>1. PICK f : FoldsLeft(f, n, B, base, h)
    BY <1>1, <1>4, FoldLeftExists
  <2>2. Unfolds(f, n, B, base, h)
    BY <2>1 DEF FoldsLeft, Unfolds
  <2>3. QED
    BY <1>1, <1>4, <2>2, FoldRuns
<1>6. P[0] = <<>> /\ \A k \in 0 .. n : P[k] \in B
  <2> HIDE DEF n, B, h
  <2> QED
    BY <1>5 DEF Runs
<1>7. ASSUME NEW k \in 1 .. n PROVE P[k] = P[k - 1] \o s[k]
  <2>1. k - 1 \in 0 .. n
    BY <1>1
  <2>2. P[k] = h[<<k, P[k - 1]>>]
    BY <1>5 DEF Runs
  <2> HIDE DEF n, B, h
  <2>3. QED
    BY <1>3, <1>6, <2>1, <2>2
<1>8. n # 0 => P[1] = s[1]
  <2> SUFFICES ASSUME n # 0 PROVE P[1] = s[1]
    OBVIOUS
  <2>1. 1 \in 1 .. n /\ 1 - 1 = 0
    BY <1>1
  <2> HIDE DEF n
  <2>2. P[1] = P[0] \o s[1] /\ s[1] \in Written
    BY <1>1, <1>7, <2>1
  <2>3. QED
    BY <1>6, <2>2 DEF Written
<1>9. it = Rec(it)
  <2> DEFINE f == [i \in 1 .. n |-> P[i]]
  <2>1. ASSUME NEW i \in 1 .. n PROVE f[i] = Rec(f)[i]
    <3>1. CASE i = 1
      BY <1>1, <1>8, <3>1
    <3>2. CASE i # 1
      <4>1. i - 1 \in 1 .. n
        BY <1>1, <3>2
      <4>2. f[i - 1] = P[i - 1] /\ f[i] = P[i]
        BY <4>1
      <4> HIDE DEF f, n
      <4>3. QED
        BY <1>7, <3>2, <4>2
    <3>3. QED
      BY <3>1, <3>2
  <2>2. f = Rec(f)
    <3> DEFINE r == Rec(f)
    <3>1. f = [i \in 1 .. n |-> f[i]] /\ r = [i \in 1 .. n |-> r[i]] /\ \A i \in 1 .. n : f[i] = r[i]
      BY <2>1
    <3> HIDE DEF f, r
    <3>2. f = r
      BY <3>1
    <3>3. QED
      BY <3>2 DEF r
  <2> HIDE DEF f, Rec
  <2>3. QED
    BY <2>2
<1>10. ASSUME NEW i \in 1 .. n PROVE it[i] = IF i = 1 THEN s[i] ELSE it[i - 1] \o s[i]
  <2> HIDE DEF it
  <2> QED
    BY <1>9
<1> HIDE DEF n, B, h, it
<1> DEFINE S == {k \in Nat : k \in 1 .. n => it[k] = P[k]}
<1>11. 0 \in S
  OBVIOUS
<1>12. ASSUME NEW k \in Nat, k \in S PROVE k + 1 \in S
  <2> DEFINE j == k + 1
  <2>1. j \in Nat /\ j - 1 = k /\ (j \in 1 .. n /\ j # 1 => k \in 1 .. n)
    BY <1>1
  <2> HIDE DEF j
  <2>2. ASSUME j \in 1 .. n PROVE it[j] = P[j]
    <3>1. CASE j = 1
      <4>1. n # 0 /\ 1 \in 1 .. n
        BY <1>1, <2>2, <3>1
      <4>2. QED
        BY <1>8, <1>10, <3>1, <4>1
    <3>2. CASE j # 1
      BY <1>7, <1>10, <1>12, <2>1, <2>2, <3>2
    <3>3. QED
      BY <3>1, <3>2
  <2>3. QED
    BY <2>1, <2>2 DEF j
<1>13. n \in S
  <2> HIDE DEF S
  <2> QED
    BY <1>1, <1>11, <1>12, NatInductionSet
<1>14. P[n] = Mail!FlattenSeq(s)
  <2>1. CASE n = 0
    <3>1. s = <<>>
      BY <2>1 DEF n
    <3>2. QED
      BY <1>2, <1>6, <2>1, <3>1
  <2>2. CASE n # 0
    <3>1. n \in 1 .. n
      BY <1>1, <2>2
    <3>2. it[n] = P[n]
      BY <1>13, <3>1
    <3>3. QED
      BY <1>2, <2>2, <3>2
  <2>3. QED
    BY <2>1, <2>2
<1>15. QED
  BY <1>5, <1>14 DEF n, B, h

\* FlattenSeq joins one more text at the end.
LEMMA FlatteningOneMore ==
  ASSUME NEW s \in Seq(Written), NEW x \in Written
  PROVE  /\ Mail!FlattenSeq(s) \in Written
         /\ Mail!FlattenSeq(Append(s, x)) = Mail!FlattenSeq(s) \o x
<1> DEFINE n == Len(s)
           u == Append(s, x)
           m == Len(u)
<1>1. n \in Nat /\ u \in Seq(Written) /\ m = n + 1 /\ u[m] = x /\ \A k \in 1 .. n : u[k] = s[k]
  OBVIOUS
<1>2. PICK P : Runs(P, n, Written, <<>>, Joins(s)) /\ P[n] = Mail!FlattenSeq(s)
  BY Flattening
<1>3. PICK Q : Runs(Q, m, Written, <<>>, Joins(u)) /\ Q[m] = Mail!FlattenSeq(u)
  <2> HIDE DEF u
  <2> QED
    BY <1>1, Flattening
<1>4. P[0] = <<>> /\ (\A k \in 0 .. n : P[k] \in Written) /\ \A k \in 1 .. n : P[k] = P[k - 1] \o s[k]
  <2>1. P[0] = <<>> /\ \A k \in 0 .. n : P[k] \in Written
    BY <1>2 DEF Runs
  <2>2. ASSUME NEW k \in 1 .. n PROVE P[k] = P[k - 1] \o s[k]
    <3>1. k - 1 \in 0 .. n
      BY <1>1
    <3>2. P[k] = Joins(s)[<<k, P[k - 1]>>] /\ P[k - 1] \in Written
      BY <1>2, <2>1, <3>1 DEF Runs
    <3>3. QED
      BY <3>2 DEF Joins
  <2>3. QED
    BY <2>1, <2>2
<1>5. Q[0] = <<>> /\ \A k \in 1 .. m : Q[k] = Q[k - 1] \o u[k]
  <2> HIDE DEF u
  <2>1. Q[0] = <<>> /\ \A k \in 0 .. m : Q[k] \in Written
    BY <1>3 DEF Runs
  <2>2. ASSUME NEW k \in 1 .. m PROVE Q[k] = Q[k - 1] \o u[k]
    <3>1. k - 1 \in 0 .. m
      BY <1>1
    <3>2. Q[k] = Joins(u)[<<k, Q[k - 1]>>] /\ Q[k - 1] \in Written
      BY <1>3, <2>1, <3>1 DEF Runs
    <3>3. QED
      BY <3>2 DEF Joins
  <2>3. QED
    BY <2>1, <2>2
<1> DEFINE S == {k \in Nat : k <= n => P[k] = Q[k]}
<1> HIDE DEF u, m
<1>6. 0 \in S
  BY <1>4, <1>5
<1>7. ASSUME NEW k \in Nat, k \in S PROVE k + 1 \in S
  <2> DEFINE j == k + 1
  <2>1. j \in Nat /\ j - 1 = k /\ (j <= n => j \in 1 .. n /\ j \in 1 .. m /\ k <= n)
    BY <1>1
  <2> HIDE DEF j
  <2>2. j <= n => P[j] = Q[j]
    BY <1>1, <1>4, <1>5, <1>7, <2>1
  <2>3. QED
    BY <2>1, <2>2 DEF j
<1>8. n \in S
  <2> HIDE DEF S
  <2> QED
    BY <1>1, <1>6, <1>7, NatInductionSet
<1>9. Q[n] = P[n] /\ n \in 0 .. n
  BY <1>1, <1>8
<1>10. m \in 1 .. m /\ m - 1 = n
  BY <1>1
<1>11. Q[m] = Q[n] \o x
  BY <1>1, <1>5, <1>10
<1>12. QED
  BY <1>2, <1>3, <1>4, <1>9, <1>11 DEF u

\* A text in which every word w was replaced by g[w].
Fill(t, g) == Mail!FlattenSeq([i \in DOMAIN t |-> g[t[i]]])
Fillings == [Words -> Written]

\* A text is filled word by word.
LEMMA FillingOneMore ==
  ASSUME NEW g \in Fillings
  PROVE  /\ Fill(<<>>, g) = <<>>
         /\ \A t \in Written : Fill(t, g) \in Written
         /\ \A t \in Written, w \in Words : Fill(Append(t, w), g) = Fill(t, g) \o g[w]
<1> DEFINE s(t) == [i \in DOMAIN t |-> g[t[i]]]
<1>1. ASSUME NEW t \in Written PROVE s(t) \in Seq(Written) /\ Len(s(t)) = Len(t)
  <2>1. Len(t) \in Nat /\ DOMAIN t = 1 .. Len(t) /\ \A i \in 1 .. Len(t) : t[i] \in Words
    BY DEF Written
  <2>2. s(t) \in [1 .. Len(t) -> Written]
    BY <2>1 DEF Fillings
  <2> HIDE DEF s
  <2>3. QED
    BY <2>1, <2>2
<1>2. Fill(<<>>, g) = <<>>
  <2>1. s(<<>>) = <<>>
    OBVIOUS
  <2>2. Mail!FlattenSeq(<<>>) = <<>>
    BY DEF Mail!FlattenSeq
  <2>3. QED
    BY <2>1, <2>2 DEF Fill
<1>3. ASSUME NEW t \in Written PROVE Fill(t, g) \in Written
  <2>1. <<>> \in Written
    BY DEF Written
  <2> DEFINE r == s(t)
  <2>2. r \in Seq(Written) /\ Fill(t, g) = Mail!FlattenSeq(r)
    BY <1>1 DEF Fill
  <2> HIDE DEF r
  <2>3. QED
    BY <2>1, <2>2, FlatteningOneMore
<1>4. ASSUME NEW t \in Written, NEW w \in Words PROVE Fill(Append(t, w), g) = Fill(t, g) \o g[w]
  <2> DEFINE r == s(t)
             x == g[w]
             q == s(Append(t, w))
  <2>1. x \in Written
    BY DEF Fillings
  <2>2. Len(t) \in Nat /\ DOMAIN t = 1 .. Len(t)
    BY DEF Written
  <2>3. Append(t, w) \in Written
    BY DEF Written
  <2>4. r \in Seq(Written) /\ q \in Seq(Written) /\ Len(r) = Len(t) /\ Len(q) = Len(t) + 1
    <3>1. Len(Append(t, w)) = Len(t) + 1
      BY DEF Written
    <3> HIDE DEF s
    <3>2. QED
      BY <1>1, <2>3, <3>1
  <2>5. q[Len(t) + 1] = x /\ \A i \in 1 .. Len(t) : q[i] = r[i]
    BY <2>2 DEF Written
  <2>6. Fill(t, g) = Mail!FlattenSeq(r) /\ Fill(Append(t, w), g) = Mail!FlattenSeq(q)
    BY DEF Fill
  <2> HIDE DEF r, q, x
  <2>7. q = Append(r, x)
    BY <2>1, <2>2, <2>4, <2>5
  <2>8. Mail!FlattenSeq(Append(r, x)) = Mail!FlattenSeq(r) \o x
    BY <2>1, <2>4, FlatteningOneMore
  <2>9. QED
    BY <2>6, <2>7, <2>8 DEF x
<1>5. QED
  BY <1>2, <1>3, <1>4

\* Filling two texts that are joined is joining two that are filled.
LEMMA FillingJoins ==
  ASSUME NEW g \in Fillings, NEW t \in Written, NEW u \in Written
  PROVE  Fill(t \o u, g) = Fill(t, g) \o Fill(u, g)
<1> DEFINE T == {v \in Written : Fill(t \o v, g) = Fill(t, g) \o Fill(v, g)}
<1>1. <<>> \in T
  <2>1. Fill(t, g) \in Written /\ Fill(<<>>, g) = <<>> /\ <<>> \in Written /\ t \o <<>> = t
    BY FillingOneMore DEF Written
  <2>2. Fill(t, g) \o <<>> = Fill(t, g)
    BY <2>1 DEF Written
  <2>3. QED
    BY <2>1, <2>2
<1>2. ASSUME NEW v \in Written, NEW w \in Words, v \in T PROVE Append(v, w) \in T
  <2>1. t \o Append(v, w) = Append(t \o v, w) /\ t \o v \in Written /\ Append(v, w) \in Written
    <3>1. t \in Seq(Words) /\ v \in Seq(Words) /\ <<w>> \in Seq(Words)
      BY DEF Written
    <3>2. Append(v, w) = v \o <<w>> /\ Append(t \o v, w) = (t \o v) \o <<w>>
      BY <3>1, AppendIsConcat, ConcatProperties
    <3>3. QED
      BY <3>1, <3>2, ConcatAssociative, ConcatProperties DEF Written
  <2>2. /\ Fill(Append(t \o v, w), g) = Fill(t \o v, g) \o g[w]
        /\ Fill(Append(v, w), g) = Fill(v, g) \o g[w]
        /\ Fill(t, g) \in Written /\ Fill(v, g) \in Written /\ g[w] \in Written
    BY <2>1, FillingOneMore DEF Fillings
  <2>3. (Fill(t, g) \o Fill(v, g)) \o g[w] = Fill(t, g) \o (Fill(v, g) \o g[w])
    <3> DEFINE x == Fill(t, g)
               y == Fill(v, g)
               z == g[w]
    <3>1. x \in Seq(Words) /\ y \in Seq(Words) /\ z \in Seq(Words)
      BY <2>2 DEF Written
    <3> HIDE DEF x, y, z
    <3>2. (x \o y) \o z = x \o (y \o z)
      BY <3>1, ConcatAssociative
    <3>3. QED
      BY <3>2 DEF x, y, z
  <2>4. QED
    BY <1>2, <2>1, <2>2, <2>3
<1>3. Written \subseteq T
  <2> HIDE DEF T
  <2> QED
    BY <1>1, <1>2, TextInduction
<1>4. QED
  BY <1>3

\* Filling twice is filling once, with what was filled in filled.
LEMMA FillingTwice ==
  ASSUME NEW g \in Fillings, NEW h \in Fillings, NEW f \in Fillings,
         \A w \in Words : f[w] = Fill(g[w], h), NEW t \in Written
  PROVE  Fill(Fill(t, g), h) = Fill(t, f)
<1> DEFINE T == {v \in Written : Fill(Fill(v, g), h) = Fill(v, f)}
<1>1. <<>> \in T
  BY FillingOneMore DEF Written
<1>2. ASSUME NEW v \in Written, NEW w \in Words, v \in T PROVE Append(v, w) \in T
  <2>1. /\ Fill(Append(v, w), g) = Fill(v, g) \o g[w]
        /\ Fill(Append(v, w), f) = Fill(v, f) \o f[w]
        /\ Fill(v, g) \in Written /\ g[w] \in Written /\ Append(v, w) \in Written
    <3>1. Append(v, w) \in Written /\ g[w] \in Written
      BY DEF Written, Fillings
    <3>2. QED
      BY <3>1, FillingOneMore
  <2>2. Fill(Fill(v, g) \o g[w], h) = Fill(Fill(v, g), h) \o Fill(g[w], h)
    BY <2>1, FillingJoins
  <2>3. QED
    BY <1>2, <2>1, <2>2
<1>3. Written \subseteq T
  <2> HIDE DEF T
  <2> QED
    BY <1>1, <1>2, TextInduction
<1>4. QED
  BY <1>3

\* A text whose words stay stays.
LEMMA FillingNothing ==
  ASSUME NEW g \in Fillings, NEW t \in Written, \A i \in DOMAIN t : g[t[i]] = <<t[i]>>
  PROVE  Fill(t, g) = t
<1> DEFINE T == {v \in Written : (\A i \in DOMAIN v : g[v[i]] = <<v[i]>>) => Fill(v, g) = v}
<1>1. <<>> \in T
  BY FillingOneMore DEF Written
<1>2. ASSUME NEW v \in Written, NEW w \in Words, v \in T PROVE Append(v, w) \in T
  <2>1. Append(v, w) \in Written /\ Fill(Append(v, w), g) = Fill(v, g) \o g[w] /\ v \o <<w>> = Append(v, w)
    BY FillingOneMore DEF Written
  <2> DEFINE a == Append(v, w)
  <2>2. Len(v) \in Nat /\ DOMAIN v = 1 .. Len(v) /\ DOMAIN a = 1 .. (Len(v) + 1)
    BY DEF Written
  <2>3. a[Len(v) + 1] = w /\ \A i \in DOMAIN v : a[i] = v[i]
    BY DEF Written
  <2> HIDE DEF a
  <2>4. ASSUME \A i \in DOMAIN a : g[a[i]] = <<a[i]>>
        PROVE  g[w] = <<w>> /\ \A i \in DOMAIN v : g[v[i]] = <<v[i]>>
    <3>1. Len(v) + 1 \in DOMAIN a /\ DOMAIN v \subseteq DOMAIN a
      BY <2>2
    <3>2. QED
      BY <2>3, <2>4, <3>1
  <2>5. a \in Written /\ Fill(a, g) = Fill(v, g) \o g[w] /\ v \o <<w>> = a
    BY <2>1 DEF a
  <2>6. a \in T
    BY <1>2, <2>4, <2>5
  <2>7. QED
    BY <2>6 DEF a
<1>3. Written \subseteq T
  <2> HIDE DEF T
  <2> QED
    BY <1>1, <1>2, TextInduction
<1>4. t \in T
  BY <1>3
<1>5. QED
  BY <1>4

\* The words of a text.
WordsOf(t) == {t[i] : i \in DOMAIN t}

\* The words of a filled text are words of what was filled in.
LEMMA FillingWords ==
  ASSUME NEW g \in Fillings, NEW t \in Written, NEW R, \A i \in DOMAIN t : WordsOf(g[t[i]]) \subseteq R
  PROVE  WordsOf(Fill(t, g)) \subseteq R
<1> DEFINE T == {v \in Written :
                   (\A i \in DOMAIN v : WordsOf(g[v[i]]) \subseteq R) => WordsOf(Fill(v, g)) \subseteq R}
<1>1. <<>> \in T
  BY FillingOneMore DEF Written, WordsOf
<1>2. ASSUME NEW v \in Written, NEW w \in Words, v \in T PROVE Append(v, w) \in T
  <2> DEFINE a == Append(v, w)
  <2>1. Len(v) \in Nat /\ DOMAIN v = 1 .. Len(v) /\ DOMAIN a = 1 .. (Len(v) + 1)
    BY DEF Written
  <2>2. a[Len(v) + 1] = w /\ \A i \in DOMAIN v : a[i] = v[i]
    BY DEF Written
  <2>3. Fill(a, g) = Fill(v, g) \o g[w] /\ Fill(v, g) \in Seq(Words) /\ g[w] \in Seq(Words)
    BY FillingOneMore DEF Written, Fillings
  <2>4. a \in Written
    BY DEF Written
  <2> HIDE DEF a
  <2>5. ASSUME \A i \in DOMAIN a : WordsOf(g[a[i]]) \subseteq R
        PROVE  WordsOf(g[w]) \subseteq R /\ WordsOf(Fill(v, g)) \subseteq R
    <3>1. Len(v) + 1 \in DOMAIN a /\ DOMAIN v \subseteq DOMAIN a
      BY <2>1
    <3>2. WordsOf(g[w]) \subseteq R /\ \A i \in DOMAIN v : WordsOf(g[v[i]]) \subseteq R
      BY <2>2, <2>5, <3>1
    <3>3. QED
      BY <1>2, <3>2
  <2>6. ASSUME NEW s \in Seq(Words), NEW u \in Seq(Words) PROVE WordsOf(s \o u) \subseteq WordsOf(s) \cup WordsOf(u)
    <3> SUFFICES ASSUME NEW i \in DOMAIN (s \o u) PROVE (s \o u)[i] \in WordsOf(s) \cup WordsOf(u)
      BY DEF WordsOf
    <3>1. i \in 1 .. (Len(s) + Len(u)) /\ Len(s) \in Nat /\ Len(u) \in Nat
      OBVIOUS
    <3>2. CASE i <= Len(s)
      <4>1. i \in DOMAIN s /\ (s \o u)[i] = s[i]
        BY <3>1, <3>2, ConcatProperties
      <4>2. QED
        BY <4>1 DEF WordsOf
    <3>3. CASE ~(i <= Len(s))
      <4>1. i - Len(s) \in DOMAIN u /\ (s \o u)[i] = u[i - Len(s)]
        BY <3>1, <3>3, ConcatProperties
      <4>2. QED
        BY <4>1 DEF WordsOf
    <3>4. QED
      BY <3>2, <3>3
  <2>7. a \in T
    BY <2>4, <2>3, <2>5, <2>6
  <2>8. QED
    BY <2>7 DEF a
<1>3. Written \subseteq T
  <2> HIDE DEF T
  <2> QED
    BY <1>1, <1>2, TextInduction
<1>4. t \in T
  BY <1>3
<1>5. QED
  BY <1>4

\* What replacing one key fills in.
One(key, value) == [w \in Words |-> IF w = key THEN value ELSE <<w>>]

\* Replacing a key is filling a text.  (str.replace)
LEMMA Replacing ==
  ASSUME NEW t \in Written, NEW key, NEW value \in Written
  PROVE  /\ One(key, value) \in Fillings
         /\ Mail!Replace(t, key, value) = Fill(t, One(key, value))
         /\ Mail!Replace(t, key, value) \in Written
<1> DEFINE g == One(key, value)
<1>1. DOMAIN t = 1 .. Len(t) /\ \A i \in DOMAIN t : t[i] \in Words
  BY DEF Written
<1>2. g \in Fillings
  <2>1. \A w \in Words : <<w>> \in Written
    BY DEF Written
  <2>2. QED
    BY <2>1 DEF One, Fillings
<1>3. [i \in DOMAIN t |-> g[t[i]]] = [i \in DOMAIN t |-> IF t[i] = key THEN value ELSE <<t[i]>>]
  BY <1>1 DEF One
<1>4. Mail!Replace(t, key, value) = Fill(t, g)
  BY <1>3 DEF Mail!Replace, Fill
<1> HIDE DEF g
<1>5. Fill(t, g) \in Written
  BY <1>2, FillingOneMore
<1>6. QED
  BY <1>2, <1>4, <1>5 DEF g

\* Filling one value in after the other.  (what render folds)
Fills(given) ==
  [z \in (1 .. Len(given)) \X Written |-> Mail!Replace(z[2], given[z[1]][1], given[z[1]][2])]
\* A dict: its pairs, with no key twice.
Inputs == {given \in Seq(Keys \X Written) :
             \A i, j \in 1 .. Len(given) : given[i][1] = given[j][1] => i = j}

\* render replaces one key after the other.
LEMMA Rendering ==
  ASSUME NEW start \in Written, NEW given \in Inputs
  PROVE  \E P : /\ P[0] = start /\ P[Len(given)] = Mail!Render(start, given)
                /\ \A k \in 0 .. Len(given) : P[k] \in Written
                /\ \A k \in 1 .. Len(given) : P[k] = Fill(P[k - 1], One(given[k][1], given[k][2]))
<1> DEFINE n == Len(given)
           Rec(f) == [s \in SUBSET (1 .. n) |->
                        IF s = {} THEN start
                        ELSE Mail!Replace(f[s \ {Max(s)}], given[Max(s)][1], given[Max(s)][2])]
           it == CHOOSE f : f = Rec(f)
           B == Written
           base == start
           h == Fills(given)
<1>1. DOMAIN given = 1 .. n /\ n \in Nat /\ \A k \in 1 .. n : given[k][2] \in Written
  <2>1. given \in Seq(Keys \X Written)
    BY DEF Inputs
  <2>2. ASSUME NEW k \in 1 .. n PROVE given[k][2] \in Written
    <3>1. given[k] \in Keys \X Written
      BY <2>1
    <3>2. QED
      BY <3>1
  <2>3. QED
    BY <2>1, <2>2
<1>2. Mail!Render(start, given) = it[1 .. n]
  BY <1>1 DEF Mail!Render, Mail!FoldLeft, Mail!MapThenFoldSet, Mail!Max, Max
<1>3. ASSUME NEW k \in 1 .. n, NEW y \in B
      PROVE  h[<<k, y>>] = Mail!Replace(y, given[k][1], given[k][2]) /\ h[<<k, y>>] \in B
  <2>1. h[<<k, y>>] = Mail!Replace(y, given[k][1], given[k][2])
    BY DEF Fills
  <2> DEFINE value == given[k][2]
  <2>2. value \in Written
    BY <1>1
  <2> HIDE DEF h, value
  <2>3. Mail!Replace(y, given[k][1], value) \in Written
    BY <2>2, Replacing
  <2>4. QED
    BY <2>1, <2>3 DEF value
<1>4. StaysIn(h, 1 .. n, B) /\ base \in B
  <2> HIDE DEF h, n
  <2> QED
    BY <1>3 DEF StaysIn
<1>5. PICK f : FoldsLeft(f, n, B, base, h)
  <2> HIDE DEF n, B, base, h
  <2> QED
    BY <1>1, <1>4, FoldLeftExists
<1>6. f = Rec(f)
  <2>1. ASSUME NEW s \in SUBSET (1 .. n) PROVE f[s] = Rec(f)[s]
    <3> DEFINE y == f[s \ {Max(s)}]
               k == Max(s)
    <3>1. CASE s = {}
      BY <1>5, <3>1 DEF FoldsLeft
    <3>2. CASE s # {}
      <4>1. k \in 1 .. n /\ y \in B /\ f[s] = h[<<k, y>>]
        BY <1>5, <3>2 DEF FoldsLeft
      <4> HIDE DEF k, y, n, h, B
      <4>2. f[s] = Mail!Replace(y, given[k][1], given[k][2])
        BY <1>3, <4>1
      <4>3. QED
        BY <3>2, <4>2 DEF k, y
    <3>3. QED
      BY <3>1, <3>2
  <2>2. f = [s \in SUBSET (1 .. n) |-> f[s]]
    BY <1>5 DEF FoldsLeft
  <2>3. QED
    BY <2>1, <2>2
<1>7. it = Rec(it)
  <2> HIDE DEF Rec
  <2> QED
    BY <1>6
<1>8. Unfolds(it, n, B, base, h)
  <2>1. \A s \in SUBSET (1 .. n) : s # {} => Max(s) \in 1 .. n
    BY <1>1, Largest
  <2>2. ASSUME NEW s \in SUBSET (1 .. n)
        PROVE  it[s] = IF s = {} THEN start
                       ELSE Mail!Replace(it[s \ {Max(s)}], given[Max(s)][1], given[Max(s)][2])
    <3> HIDE DEF it
    <3> QED
      BY <1>7
  <2> HIDE DEF n, h, it, B
  <2>3. \A s \in SUBSET (1 .. n) :
          s # {} /\ it[s \ {Max(s)}] \in B => it[s] = h[<<Max(s), it[s \ {Max(s)}]>>]
    BY <1>3, <2>1, <2>2
  <2>4. QED
    BY <2>2, <2>3 DEF Unfolds
<1>9. PICK P : Runs(P, n, B, base, h) /\ P[n] = it[1 .. n]
  <2> HIDE DEF n, B, base, h, it
  <2> QED
    BY <1>1, <1>4, <1>8, FoldRuns
<1>10. P[0] = start /\ \A k \in 0 .. n : P[k] \in B
  <2> HIDE DEF n, B, h, it
  <2> QED
    BY <1>9 DEF Runs
<1>11. ASSUME NEW k \in 1 .. n PROVE P[k] = Fill(P[k - 1], One(given[k][1], given[k][2]))
  <2> DEFINE y == P[k - 1]
             value == given[k][2]
  <2>1. k - 1 \in 0 .. n
    BY <1>1
  <2>2. y \in Written /\ value \in Written
    BY <1>1, <1>10, <2>1
  <2>3. P[k] = h[<<k, y>>]
    BY <1>9 DEF Runs
  <2>4. P[k] = Mail!Replace(y, given[k][1], value)
    <3> HIDE DEF h, y
    <3> QED
      BY <1>3, <2>2, <2>3
  <2> HIDE DEF y, value
  <2>5. Mail!Replace(y, given[k][1], value) = Fill(y, One(given[k][1], value))
    BY <2>2, Replacing
  <2>6. QED
    BY <2>4, <2>5 DEF y, value
<1> HIDE DEF n, B, h, it
<1>12. QED
  BY <1>2, <1>9, <1>10, <1>11 DEF n, B

\* What the first k pairs of given fill in.
So(given, k) ==
  [w \in Words |-> IF \E i \in 1 .. k : given[i][1] = w
                   THEN given[CHOOSE i \in 1 .. k : given[i][1] = w][2] ELSE <<w>>]
\* No value holds a key.
NoKeys(given) == \A i \in DOMAIN given : WordsOf(given[i][2]) \cap Keys = {}

\* A key that was given is filled in with its value, another word with itself.
LEMMA SoFar ==
  ASSUME NEW given \in Inputs, NEW k \in 0 .. Len(given)
  PROVE  /\ So(given, k) \in Fillings
         /\ \A i \in 1 .. k : So(given, k)[given[i][1]] = given[i][2]
         /\ \A w \in Words : (\A i \in 1 .. k : given[i][1] # w) => So(given, k)[w] = <<w>>
<1> DEFINE n == Len(given)
           g == So(given, k)
<1>1. n \in Nat /\ k <= n /\ k \in Nat /\ DOMAIN given = 1 .. n
  BY DEF Inputs
<1>2. ASSUME NEW i \in 1 .. n PROVE given[i][1] \in Keys /\ given[i][1] \in Words /\ given[i][2] \in Written
  <2>1. given \in Seq(Keys \X Written)
    BY DEF Inputs
  <2>2. given[i] \in Keys \X Written
    BY <2>1
  <2>3. QED
    BY <2>2, EmailAssumption DEF Words
<1>3. ASSUME NEW w \in Words, NEW i \in 1 .. k, given[i][1] = w PROVE g[w] = given[i][2]
  <2> DEFINE j == CHOOSE j \in 1 .. k : given[j][1] = w
  <2>1. j \in 1 .. k /\ given[j][1] = w
    BY <1>3
  <2>2. g[w] = given[j][2]
    BY <1>3 DEF So
  <2> HIDE DEF j, g
  <2>3. i \in 1 .. n /\ j \in 1 .. n
    BY <1>1, <2>1
  <2>4. i = j
    BY <1>3, <2>1, <2>3 DEF Inputs
  <2>5. QED
    BY <2>2, <2>4
<1>4. ASSUME NEW w \in Words, \A i \in 1 .. k : given[i][1] # w PROVE g[w] = <<w>>
  BY <1>4 DEF So
<1>5. ASSUME NEW i \in 1 .. k PROVE given[i][1] \in Words /\ given[i][2] \in Written
  <2>1. i \in 1 .. n
    BY <1>1
  <2>2. QED
    BY <1>2, <2>1
<1>6. ASSUME NEW w \in Words PROVE g[w] \in Written
  <2>1. <<w>> \in Written
    BY DEF Written
  <2> HIDE DEF g
  <2>2. CASE \E i \in 1 .. k : given[i][1] = w
    BY <1>3, <1>5, <2>2
  <2>3. CASE \A i \in 1 .. k : given[i][1] # w
    BY <1>4, <2>1, <2>3
  <2>4. QED
    BY <2>2, <2>3
<1>7. g \in Fillings
  <2>1. g = [w \in Words |-> g[w]]
    BY DEF So
  <2> HIDE DEF g
  <2>2. QED
    BY <1>6, <2>1 DEF Fillings
<1> HIDE DEF g
<1>8. \A i \in 1 .. k : g[given[i][1]] = given[i][2]
  BY <1>3, <1>5
<1>9. QED
  BY <1>4, <1>7, <1>8 DEF g

\* Values that hold no key: what one pair fills in after the k before it is
\* what k + 1 fill in.
LEMMA OnePairMore ==
  ASSUME NEW given \in Inputs, NoKeys(given), NEW k \in 1 .. Len(given), NEW w \in Words
  PROVE  So(given, k)[w] = Fill(So(given, k - 1)[w], One(given[k][1], given[k][2]))
<1> DEFINE n == Len(given)
           key == given[k][1]
           value == given[k][2]
           g == So(given, k - 1)
           h == One(key, value)
           f == So(given, k)
<1>1. n \in Nat /\ k \in 1 .. n /\ k - 1 \in 0 .. n /\ k \in 0 .. n /\ DOMAIN given = 1 .. n
  BY DEF Inputs
<1>2. ASSUME NEW i \in 1 .. n
      PROVE  given[i][1] \in Keys /\ given[i][1] \in Words /\ given[i][2] \in Written
  <2>1. given \in Seq(Keys \X Written)
    BY DEF Inputs
  <2>2. given[i] \in Keys \X Written
    BY <2>1
  <2>3. QED
    BY <2>2, EmailAssumption DEF Words
<1>3. h \in Fillings /\ value \in Written /\ <<>> \in Written
  <2>1. value \in Written
    BY <1>1, <1>2
  <2> HIDE DEF value
  <2>2. <<>> \in Written
    BY DEF Written
  <2>3. QED
    BY <2>1, <2>2, Replacing
<1>4. h[w] = IF w = key THEN value ELSE <<w>>
  BY DEF One
<1>5. Fill(<<w>>, h) = h[w]
  <2>1. Append(<<>>, w) = <<w>> /\ h[w] \in Seq(Words)
    BY <1>3 DEF Fillings, Written
  <2> HIDE DEF h
  <2>2. Fill(Append(<<>>, w), h) = Fill(<<>>, h) \o h[w] /\ Fill(<<>>, h) = <<>>
    BY <1>3, FillingOneMore
  <2> DEFINE x == h[w]
  <2>3. x \in Seq(Words) /\ Fill(<<w>>, h) = <<>> \o x
    BY <2>1, <2>2
  <2> HIDE DEF x
  <2>4. <<>> \o x = x
    BY <2>3
  <2>5. QED
    BY <2>3, <2>4 DEF x
<1>6. \A i \in 1 .. (k - 1) : g[given[i][1]] = given[i][2]
  BY <1>1, SoFar
<1>7. (\A i \in 1 .. (k - 1) : given[i][1] # w) => g[w] = <<w>>
  BY <1>1, SoFar
<1>8. \A i \in 1 .. k : f[given[i][1]] = given[i][2]
  BY <1>1, SoFar
<1>9. (\A i \in 1 .. k : given[i][1] # w) => f[w] = <<w>>
  BY <1>1, SoFar
<1>10. CASE \E i \in 1 .. (k - 1) : given[i][1] = w
  <2>1. PICK i \in 1 .. (k - 1) : given[i][1] = w
    BY <1>10
  <2>2. i \in 1 .. k /\ i \in 1 .. n
    BY <1>1
  <2> DEFINE x == given[i][2]
  <2>3. f[w] = x /\ g[w] = x
    BY <1>6, <1>8, <2>1, <2>2
  <2>4. x \in Written /\ WordsOf(x) \cap Keys = {} /\ key \in Keys
    BY <1>1, <1>2, <2>2 DEF NoKeys
  <2> HIDE DEF x, g, f
  <2>5. ASSUME NEW j \in DOMAIN x PROVE h[x[j]] = <<x[j]>>
    <3>1. x[j] \in Words /\ x[j] # key
      BY <2>4 DEF WordsOf, Written
    <3>2. QED
      BY <3>1 DEF One
  <2> HIDE DEF h
  <2>6. Fill(x, h) = x
    BY <1>3, <2>4, <2>5, FillingNothing
  <2>7. QED
    BY <2>3, <2>6 DEF f, g, h
<1>11. CASE \A i \in 1 .. (k - 1) : given[i][1] # w
  <2>1. \A i \in 1 .. k : i = k \/ i \in 1 .. (k - 1)
    BY <1>1
  <2>2. k \in 1 .. k
    BY <1>1
  <2> HIDE DEF f, g, h
  <2>3. f[w] = IF w = key THEN value ELSE <<w>>
    <3>1. CASE w = key
      BY <1>8, <2>2, <3>1
    <3>2. CASE w # key
      BY <1>9, <1>11, <2>1, <3>2
    <3>3. QED
      BY <3>1, <3>2
  <2>4. QED
    BY <1>4, <1>5, <1>7, <1>11, <2>3 DEF f, g, h
<1>12. QED
  BY <1>10, <1>11

\* Rendering values that hold no key is filling all of them in at once.
LEMMA RenderingFills ==
  ASSUME NEW start \in Written, NEW given \in Inputs, NoKeys(given)
  PROVE  Mail!Render(start, given) = Fill(start, So(given, Len(given)))
<1> DEFINE n == Len(given)
<1>1. n \in Nat
  BY DEF Inputs
<1>2. PICK P : /\ P[0] = start /\ P[n] = Mail!Render(start, given)
               /\ \A k \in 0 .. n : P[k] \in Written
               /\ \A k \in 1 .. n : P[k] = Fill(P[k - 1], One(given[k][1], given[k][2]))
  BY Rendering
<1> DEFINE S == {k \in Nat : k <= n => P[k] = Fill(start, So(given, k))}
<1>3. 0 \in S
  <2> DEFINE g == So(given, 0)
  <2>1. g \in Fillings /\ \A w \in Words : g[w] = <<w>>
    <3>1. 0 \in 0 .. n /\ 1 .. 0 = {}
      BY <1>1
    <3>2. QED
      BY <3>1, SoFar
  <2>2. \A i \in DOMAIN start : start[i] \in Words
    BY DEF Written
  <2> HIDE DEF g
  <2>3. Fill(start, g) = start
    BY <2>1, <2>2, FillingNothing
  <2>4. QED
    BY <1>2, <2>3 DEF g
<1>4. ASSUME NEW k \in Nat, k \in S PROVE k + 1 \in S
  <2> SUFFICES ASSUME k + 1 <= n PROVE P[k + 1] = Fill(start, So(given, k + 1))
    OBVIOUS
  <2> DEFINE j == k + 1
             g == So(given, k)
             f == So(given, j)
             value == given[j][2]
             h == One(given[j][1], value)
  <2>1. j \in 1 .. n /\ j \in 0 .. n /\ k \in 0 .. n /\ j - 1 = k
    BY <1>1
  <2>2. P[k] = Fill(start, g)
    BY <1>4, <2>1
  <2>3. g \in Fillings /\ f \in Fillings
    BY <2>1, SoFar
  <2>4. value \in Written
    <3>1. given[j] \in Keys \X Written
      BY <2>1 DEF Inputs
    <3>2. QED
      BY <3>1
  <2>5. h \in Fillings
    <3> HIDE DEF value
    <3> QED
      BY <2>4, Replacing
  <2>6. \A w \in Words : f[w] = Fill(g[w], h)
    <3> HIDE DEF j
    <3> QED
      BY <2>1, OnePairMore
  <2>7. P[j] = Fill(P[k], h)
    BY <1>2, <2>1
  <2> HIDE DEF g, f, h, j
  <2>8. Fill(Fill(start, g), h) = Fill(start, f)
    BY <2>3, <2>5, <2>6, FillingTwice
  <2>9. QED
    BY <2>2, <2>7, <2>8 DEF f, j
<1>5. n \in S
  <2> HIDE DEF S
  <2> QED
    BY <1>1, <1>3, <1>4, NatInductionSet
<1>6. QED
  BY <1>1, <1>2, <1>5

\* Filled fills in what was given.
LEMMA FillingGiven ==
  ASSUME NEW start \in Written, NEW given \in Inputs
  PROVE  Mail!Filled(start, given) = Fill(start, So(given, Len(given)))
<1> DEFINE n == Len(given)
           g == So(given, n)
<1>1. n \in Nat /\ n \in 0 .. n /\ DOMAIN given = 1 .. n
  BY DEF Inputs
<1>2. /\ \A i \in 1 .. n : g[given[i][1]] = given[i][2]
      /\ \A w \in Words : (\A i \in 1 .. n : given[i][1] # w) => g[w] = <<w>>
  BY <1>1, SoFar
<1> HIDE DEF g
<1>3. ASSUME NEW w \in Words
      PROVE  g[w] = IF w \in Mail!Given(given)
                    THEN (CHOOSE p \in Mail!ToSet(given) : p[1] = w)[2] ELSE <<w>>
  <2>1. CASE w \in Mail!Given(given)
    <3> DEFINE p == CHOOSE p \in Mail!ToSet(given) : p[1] = w
    <3>1. PICK i \in 1 .. n : given[i][1] = w
      BY <1>1, <2>1 DEF Mail!Given
    <3>2. given[i] \in Mail!ToSet(given)
      BY <1>1 DEF Mail!ToSet
    <3>3. p \in Mail!ToSet(given) /\ p[1] = w
      BY <3>1, <3>2
    <3> HIDE DEF p, n
    <3>4. PICK j \in 1 .. n : p = given[j]
      BY <1>1, <3>3 DEF Mail!ToSet
    <3>5. i = j
      BY <3>1, <3>3, <3>4 DEF Inputs, n
    <3>6. p[2] = g[w]
      BY <1>2, <3>1, <3>4, <3>5
    <3>7. QED
      BY <2>1, <3>6 DEF p
  <2>2. CASE w \notin Mail!Given(given)
    <3>1. \A i \in 1 .. n : given[i][1] # w
      BY <1>1, <2>2 DEF Mail!Given
    <3>2. QED
      BY <1>2, <2>2, <3>1
  <2>3. QED
    BY <2>1, <2>2
<1>4. \A i \in DOMAIN start : start[i] \in Words
  BY DEF Written
<1>5. [i \in DOMAIN start |-> g[start[i]]]
        = [i \in DOMAIN start |->
             IF start[i] \in Mail!Given(given)
             THEN (CHOOSE p \in Mail!ToSet(given) : p[1] = start[i])[2] ELSE <<start[i]>>]
  BY <1>3, <1>4
<1>6. QED
  BY <1>5 DEF Mail!Filled, Fill, g

\* No key is left in a text all of whose keys are given values that hold none.
LEMMA NoneLeft ==
  ASSUME NEW start \in Written, NEW given \in Inputs, NoKeys(given),
         WordsOf(start) \cap Keys \subseteq Mail!Given(given)
  PROVE  WordsOf(Fill(start, So(given, Len(given)))) \cap Keys = {}
<1> DEFINE n == Len(given)
           g == So(given, n)
           R == Words \ Keys
<1>1. n \in Nat /\ n \in 0 .. n /\ DOMAIN given = 1 .. n
  BY DEF Inputs
<1>2. /\ g \in Fillings
      /\ \A i \in 1 .. n : g[given[i][1]] = given[i][2]
      /\ \A w \in Words : (\A i \in 1 .. n : given[i][1] # w) => g[w] = <<w>>
  BY <1>1, SoFar
<1>3. ASSUME NEW i \in DOMAIN start PROVE WordsOf(g[start[i]]) \subseteq R
  <2> DEFINE w == start[i]
  <2>1. w \in Words /\ w \in WordsOf(start)
    BY DEF Written, WordsOf
  <2> HIDE DEF w, g, n
  <2>2. CASE \E j \in 1 .. n : given[j][1] = w
    <3>1. PICK j \in 1 .. n : given[j][1] = w
      BY <2>2
    <3>2. g[w] = given[j][2] /\ WordsOf(given[j][2]) \cap Keys = {}
      BY <1>1, <1>2, <3>1 DEF NoKeys
    <3>3. g[w] \in Written
      BY <1>2, <2>1 DEF Fillings
    <3>4. WordsOf(g[w]) \subseteq Words
      BY <3>3 DEF WordsOf, Written
    <3>5. QED
      BY <3>2, <3>4 DEF w
  <2>3. CASE \A j \in 1 .. n : given[j][1] # w
    <3>1. w \notin Mail!Given(given)
      BY <1>1, <2>3 DEF Mail!Given
    <3>2. g[w] = <<w>> /\ w \notin Keys
      BY <1>2, <2>1, <2>3, <3>1
    <3>3. WordsOf(<<w>>) = {w}
      BY DEF WordsOf
    <3>4. QED
      BY <2>1, <3>2, <3>3 DEF w
  <2>4. QED
    BY <2>2, <2>3
<1> HIDE DEF g, R
<1>4. WordsOf(Fill(start, g)) \subseteq R
  BY <1>2, <1>3, FillingWords
<1>5. QED
  BY <1>4 DEF R, g

\* What draft_from_template is given are the pairs of a dict.
LEMMA VariablesAreInputs ==
  ASSUME NEW given \in Variables
  PROVE  given \in Inputs
<1>1. given \in Seq(Keys \X Written)
  BY EmailAssumption DEF Written, Words
<1>2. DOMAIN given = 1 .. Len(given)
  BY <1>1
<1>3. QED
  BY <1>1, <1>2, EmailAssumption DEF Inputs

\* A draft from a template whose texts are texts is filled.
LEMMA DraftFills ==
  ASSUME DraftInv, NEW name, NEW given \in Variables, Mail!Draft(name, given)
  PROVE  DraftIsFilled'
<1> DEFINE t == templates[name]
           n == Len(given)
           g == So(given, n)
<1>1. SUFFICES ASSUME draft'.outcome = "draft",
                      \A p \in Mail!ToSet(draft'.given) : Mail!ToSet(p[2]) \cap Keys = {}
               PROVE  /\ draft'.subject = Mail!Filled(draft'.template.subject, draft'.given)
                      /\ draft'.body = Mail!Filled(draft'.template.body, draft'.given)
                      /\ Mail!Placeholders(draft'.template) \subseteq draft'.template.variables =>
                           (Mail!ToSet(draft'.subject) \cup Mail!ToSet(draft'.body)) \cap Keys = {}
  BY DEF DraftIsFilled, Mail!DraftIsFilled
<1>2. name \in DOMAIN templates /\ t.variables \subseteq Mail!Given(given)
  BY <1>1 DEF Mail!Draft, Mail!NoDraft
<1>3. /\ draft'.template = t /\ draft'.given = given
      /\ draft'.subject = Mail!Render(t.subject, given)
      /\ draft'.body = Mail!Render(t.body, given)
  BY <1>2 DEF Mail!Draft
<1>4. given \in Inputs
  BY VariablesAreInputs
<1>5. t.subject \in Written /\ t.body \in Written
  BY <1>2 DEF DraftInv
<1>6. NoKeys(given)
  <2>1. \A i \in DOMAIN given : Mail!ToSet(given[i][2]) \cap Keys = {}
    BY <1>1, <1>3 DEF Mail!ToSet
  <2>2. QED
    BY <2>1 DEF NoKeys, WordsOf, Mail!ToSet
<1>7. draft'.subject = Fill(t.subject, g) /\ draft'.body = Fill(t.body, g)
  BY <1>3, <1>4, <1>5, <1>6, RenderingFills
<1>8. Mail!Filled(t.subject, given) = Fill(t.subject, g) /\ Mail!Filled(t.body, given) = Fill(t.body, g)
  BY <1>4, <1>5, FillingGiven
<1>9. ASSUME Mail!Placeholders(t) \subseteq t.variables
      PROVE  WordsOf(Fill(t.subject, g)) \cap Keys = {} /\ WordsOf(Fill(t.body, g)) \cap Keys = {}
  <2>1. /\ WordsOf(t.subject) \cap Keys \subseteq Mail!Given(given)
        /\ WordsOf(t.body) \cap Keys \subseteq Mail!Given(given)
    BY <1>2, <1>9 DEF Mail!Placeholders, Mail!ToSet, WordsOf
  <2>2. QED
    BY <1>4, <1>5, <1>6, <2>1, NoneLeft
<1> HIDE DEF t, g
<1>10. \A v : Mail!ToSet(v) = WordsOf(v)
  BY DEF Mail!ToSet, WordsOf
<1>11. QED
  BY <1>3, <1>7, <1>8, <1>9, <1>10

\* Every step keeps the templates' texts and the last draft filled.
LEMMA DraftNext ==
  ASSUME DraftInv, [Mail!Next]_mailvars
  PROVE  DraftInv'
<1> DEFINE TextsKept == \A name \in DOMAIN templates :
             templates[name].subject \in Written /\ templates[name].body \in Written
<1>1. ASSUME UNCHANGED <<templates, draft>> PROVE DraftInv'
  <2>1. TextsKept'
    BY <1>1 DEF DraftInv
  <2>2. DraftIsFilled'
    BY <1>1 DEF DraftInv, DraftIsFilled, Mail!DraftIsFilled
  <2>3. QED
    BY <2>1, <2>2 DEF DraftInv
<1>2. ASSUME NEW name \in Names, NEW subject \in Texts, NEW body \in Texts, NEW given,
             Mail!Register(name, subject, body, given)
      PROVE  DraftInv'
  <2>1. subject \in Written /\ body \in Written
    BY EmailAssumption DEF Written, Words
  <2>2. TextsKept'
    <3> SUFFICES ASSUME NEW other \in DOMAIN templates'
                 PROVE  templates'[other].subject \in Written /\ templates'[other].body \in Written
      OBVIOUS
    <3>1. CASE other = name
      BY <1>2, <2>1, <3>1 DEF Mail!Register
    <3>2. CASE other # name
      <4>1. other \in DOMAIN templates /\ templates'[other] = templates[other]
        BY <1>2, <3>2 DEF Mail!Register
      <4>2. QED
        BY <4>1 DEF DraftInv
    <3>3. QED
      BY <3>1, <3>2
  <2>3. DraftIsFilled'
    BY <1>2 DEF Mail!Register, DraftInv, DraftIsFilled, Mail!DraftIsFilled
  <2>4. QED
    BY <2>2, <2>3 DEF DraftInv
<1>3. ASSUME NEW name \in Names, NEW given \in Variables, Mail!Draft(name, given) PROVE DraftInv'
  <2>1. TextsKept'
    BY <1>3 DEF Mail!Draft, DraftInv
  <2>2. DraftIsFilled'
    BY <1>3, DraftFills
  <2>3. QED
    BY <2>1, <2>2 DEF DraftInv
<1>4. ASSUME Mail!ConfigureTemplates PROVE DraftInv'
  <2>1. TextsKept'
    BY <1>4 DEF Mail!ConfigureTemplates
  <2>2. DraftIsFilled'
    BY <1>4 DEF Mail!ConfigureTemplates, DraftInv, DraftIsFilled, Mail!DraftIsFilled
  <2>3. QED
    BY <2>1, <2>2 DEF DraftInv
<1>5. ASSUME Mail!SendNext PROVE UNCHANGED <<templates, draft>>
  BY <1>5 DEF Mail!SendNext, Mail!ConfigureClient, Mail!SendMemory, Mail!SendSMTP, Mail!SendGmail, Mail!Sent
<1>6. CASE UNCHANGED mailvars
  BY <1>1, <1>6 DEF mailvars
<1>7. QED
  BY <1>1, <1>2, <1>3, <1>4, <1>5, <1>6 DEF Mail!Next, Mail!DraftNext

\* A draft is filled as if all its placeholders were replaced at once.
THEOREM DraftsAreFilled == Mail!Spec => []DraftIsFilled
<1>1. Mail!Init => DraftInv
  BY DEF Mail!Init, Mail!NoDraft, DraftInv, DraftIsFilled, Mail!DraftIsFilled
<1>2. DraftInv /\ [Mail!Next]_(Mail!vars) => DraftInv'
  BY DraftNext DEF Mail!vars, mailvars
<1>3. DraftInv => DraftIsFilled
  BY DEF DraftInv
<1>4. QED
  BY <1>1, <1>2, <1>3, PTL DEF Mail!Spec

-----------------------------------------------------------------------------
(* crm_ghl: values find their field                                        *)

\* What names and keys are claimed as, the ids of fields, and the aliases of a mapper.
Normal == {NameForm[n] : n \in DOMAIN NameForm} \cup {KeyForm[k] : k \in DOMAIN KeyForm}
FieldIds == {f.id : f \in Fields}
Aliases == [alias : Normal, id : FieldIds]

\* The ids that a table has for an alias.
IdsOf(table, alias) == {table[i].id : i \in {j \in DOMAIN table : table[j].alias = alias}}

\* The registrations that claimed an alias.
ClaimsOf(alias) == {k \in DOMAIN log : alias \in log[k].claims}

\* The inductive invariant: the aliases are what was claimed, and each leads to
\* the field that claimed it last.
MapperInv ==
  /\ aliases \in Seq(Aliases)
  /\ log \in Seq([id : FieldIds, claims : SUBSET Normal])
  /\ \A alias \in Normal :
       IdsOf(aliases, alias) = IF ClaimsOf(alias) = {} THEN {} ELSE {log[Max(ClaimsOf(alias))].id}
  /\ ValuesArrive

\* An alias that is put into the table leads to its new field, and no other one
\* changes.  (_aliases[...] = id)
LEMMA PuttingAlias ==
  ASSUME NEW t \in Seq(Aliases), NEW a \in Normal, NEW id \in FieldIds
  PROVE  /\ GHL!PutAlias(t, a, id) \in Seq(Aliases)
         /\ \A b : IdsOf(GHL!PutAlias(t, a, id), b) = IF b = a THEN {id} ELSE IdsOf(t, b)
<1> DEFINE u == GHL!PutAlias(t, a, id)
           n == Len(t)
<1>1. n \in Nat /\ DOMAIN t = 1 .. n /\ \A i \in 1 .. n : t[i] \in Aliases
  OBVIOUS
<1>2. CASE \E i \in DOMAIN t : t[i].alias = a
  <2>1. u = [i \in 1 .. n |-> IF t[i].alias = a THEN [t[i] EXCEPT !.id = id] ELSE t[i]]
    BY <1>1, <1>2 DEF GHL!PutAlias
  <2>2. ASSUME NEW i \in 1 .. n
        PROVE  u[i] \in Aliases /\ u[i].alias = t[i].alias /\ u[i].id = IF t[i].alias = a THEN id ELSE t[i].id
    <3>1. t[i] \in Aliases /\ u[i] = IF t[i].alias = a THEN [t[i] EXCEPT !.id = id] ELSE t[i]
      BY <1>1, <2>1
    <3> HIDE DEF u
    <3>2. QED
      BY <3>1 DEF Aliases
  <2>3. u \in Seq(Aliases) /\ DOMAIN u = 1 .. n
    <3> HIDE DEF u, n
    <3> QED
      BY <1>1, <2>1, <2>2
  <2> HIDE DEF u
  <2>4. ASSUME NEW b PROVE IdsOf(u, b) = IF b = a THEN {id} ELSE IdsOf(t, b)
    BY <1>1, <1>2, <2>2, <2>3 DEF IdsOf
  <2>5. QED
    BY <2>3, <2>4 DEF u
<1>3. CASE ~\E i \in DOMAIN t : t[i].alias = a
  <2> DEFINE e == [alias |-> a, id |-> id]
  <2>1. e \in Aliases /\ e.alias = a /\ e.id = id
    BY DEF Aliases
  <2>2. u = Append(t, e)
    BY <1>3 DEF GHL!PutAlias
  <2> HIDE DEF u, e
  <2>3. u \in Seq(Aliases) /\ DOMAIN u = 1 .. (n + 1) /\ u[n + 1] = e /\ \A i \in 1 .. n : u[i] = t[i]
    BY <1>1, <2>1, <2>2
  <2>4. ASSUME NEW b PROVE IdsOf(u, b) = IF b = a THEN {id} ELSE IdsOf(t, b)
    <3> HIDE DEF n
    <3>1. \A i : i \in 1 .. (n + 1) <=> i \in 1 .. n \/ i = n + 1
      BY <1>1
    <3>2. QED
      BY <1>1, <1>3, <2>1, <2>3, <3>1 DEF IdsOf
  <2>5. QED
    BY <2>3, <2>4 DEF u
<1>4. QED
  BY <1>2, <1>3

\* Putting one alias after the other for a field.  (what register_field folds)
Puts(c, id) == [z \in (1 .. Len(c)) \X Seq(Aliases) |-> GHL!PutAlias(z[2], c[z[1]], id)]

\* The table after an id was put under all aliases of a list.  (the loop of
\* register_field)
PutAll(t, c, id) == GHL!FoldLeft(LAMBDA table, alias : GHL!PutAlias(table, alias, id), t, c)

\* A registration makes the aliases it claims lead to its field, and leaves the
\* others alone.
LEMMA Registering ==
  ASSUME NEW t \in Seq(Aliases), NEW c \in Seq(Normal), NEW id \in FieldIds
  PROVE  /\ PutAll(t, c, id) \in Seq(Aliases)
         /\ \A b : IdsOf(PutAll(t, c, id), b) =
                     IF b \in {c[i] : i \in 1 .. Len(c)} THEN {id} ELSE IdsOf(t, b)
<1> DEFINE n == Len(c)
           Rec(f) == [s \in SUBSET (1 .. n) |->
                        IF s = {} THEN t ELSE GHL!PutAlias(f[s \ {Max(s)}], c[Max(s)], id)]
           it == CHOOSE f : f = Rec(f)
           B == Seq(Aliases)
           base == t
           h == Puts(c, id)
<1>1. DOMAIN c = 1 .. n /\ n \in Nat /\ \A k \in 1 .. n : c[k] \in Normal
  OBVIOUS
<1>2. PutAll(t, c, id) = it[1 .. n]
  BY <1>1 DEF PutAll, GHL!FoldLeft, GHL!MapThenFoldSet, GHL!Max, Max
<1>3. ASSUME NEW k \in 1 .. n, NEW y \in B
      PROVE  h[<<k, y>>] = GHL!PutAlias(y, c[k], id) /\ h[<<k, y>>] \in B
  <2>1. h[<<k, y>>] = GHL!PutAlias(y, c[k], id)
    BY DEF Puts
  <2> HIDE DEF h
  <2>2. QED
    BY <1>1, <2>1, PuttingAlias
<1>4. StaysIn(h, 1 .. n, B) /\ base \in B
  <2> HIDE DEF h, n
  <2> QED
    BY <1>3 DEF StaysIn
<1>5. PICK f : FoldsLeft(f, n, B, base, h)
  <2> HIDE DEF n, B, base, h
  <2> QED
    BY <1>1, <1>4, FoldLeftExists
<1>6. f = Rec(f)
  <2>1. ASSUME NEW s \in SUBSET (1 .. n) PROVE f[s] = Rec(f)[s]
    <3> DEFINE y == f[s \ {Max(s)}]
               k == Max(s)
    <3>1. CASE s = {}
      BY <1>5, <3>1 DEF FoldsLeft
    <3>2. CASE s # {}
      <4>1. k \in 1 .. n /\ y \in B /\ f[s] = h[<<k, y>>]
        BY <1>5, <3>2 DEF FoldsLeft
      <4> HIDE DEF k, y, n, h, B
      <4>2. f[s] = GHL!PutAlias(y, c[k], id)
        BY <1>3, <4>1
      <4>3. QED
        BY <3>2, <4>2 DEF k, y
    <3>3. QED
      BY <3>1, <3>2
  <2>2. f = [s \in SUBSET (1 .. n) |-> f[s]]
    BY <1>5 DEF FoldsLeft
  <2>3. QED
    BY <2>1, <2>2
<1>7. it = Rec(it)
  <2> HIDE DEF Rec
  <2> QED
    BY <1>6
<1>8. Unfolds(it, n, B, base, h)
  <2>1. \A s \in SUBSET (1 .. n) : s # {} => Max(s) \in 1 .. n
    BY <1>1, Largest
  <2>2. ASSUME NEW s \in SUBSET (1 .. n)
        PROVE  it[s] = IF s = {} THEN t ELSE GHL!PutAlias(it[s \ {Max(s)}], c[Max(s)], id)
    <3> HIDE DEF it
    <3> QED
      BY <1>7
  <2> HIDE DEF n, h, it, B
  <2>3. \A s \in SUBSET (1 .. n) :
          s # {} /\ it[s \ {Max(s)}] \in B => it[s] = h[<<Max(s), it[s \ {Max(s)}]>>]
    BY <1>3, <2>1, <2>2
  <2>4. QED
    BY <2>2, <2>3 DEF Unfolds
<1>9. PICK P : Runs(P, n, B, base, h) /\ P[n] = it[1 .. n]
  <2> HIDE DEF n, B, base, h, it
  <2> QED
    BY <1>1, <1>4, <1>8, FoldRuns
<1>10. /\ P[0] = t /\ \A k \in 0 .. n : P[k] \in B
       /\ \A k \in 1 .. n : P[k] = GHL!PutAlias(P[k - 1], c[k], id)
  <2> HIDE DEF n, B, h, it
  <2>1. P[0] = t /\ \A k \in 0 .. n : P[k] \in B
    BY <1>9 DEF Runs
  <2>2. ASSUME NEW k \in 1 .. n PROVE P[k] = GHL!PutAlias(P[k - 1], c[k], id)
    <3>1. k - 1 \in 0 .. n
      BY <1>1
    <3>2. P[k] = h[<<k, P[k - 1]>>]
      BY <1>9 DEF Runs
    <3>3. QED
      BY <1>3, <2>1, <3>1, <3>2
  <2>3. QED
    BY <2>1, <2>2
<1> HIDE DEF n, B, h, it
<1> DEFINE Claimed(k) == {c[i] : i \in 1 .. k}
           Led(k) == \A b : IdsOf(P[k], b) = IF b \in Claimed(k) THEN {id} ELSE IdsOf(t, b)
           S == {k \in Nat : k <= n => Led(k)}
<1>11. 0 \in S
  <2>1. Claimed(0) = {}
    OBVIOUS
  <2> HIDE DEF Claimed
  <2>2. QED
    BY <1>10, <2>1
<1>12. ASSUME NEW k \in Nat, k \in S PROVE k + 1 \in S
  <2> DEFINE j == k + 1
  <2>1. j - 1 = k /\ j \in Nat /\ (j <= n => k <= n /\ j \in 1 .. n /\ k \in 0 .. n)
    BY <1>1
  <2>2. Claimed(j) = Claimed(k) \cup {c[j]}
    <3>1. \A i : i \in 1 .. j <=> i \in 1 .. k \/ i = j
      OBVIOUS
    <3> HIDE DEF j
    <3>2. QED
      BY <3>1
  <2>3. k <= n => Led(k)
    <3> HIDE DEF Led
    <3> QED
      BY <1>12
  <2> HIDE DEF j, Claimed
  <2>4. ASSUME j <= n, NEW b PROVE IdsOf(P[j], b) = IF b \in Claimed(j) THEN {id} ELSE IdsOf(t, b)
    <3>1. P[j] = GHL!PutAlias(P[k], c[j], id) /\ P[k] \in Seq(Aliases) /\ c[j] \in Normal
      BY <1>1, <1>10, <2>1, <2>4 DEF B
    <3>2. IdsOf(P[j], b) = IF b = c[j] THEN {id} ELSE IdsOf(P[k], b)
      <4> DEFINE q == P[k]
                 a == c[j]
      <4> HIDE DEF q, a
      <4>1. IdsOf(GHL!PutAlias(q, a, id), b) = IF b = a THEN {id} ELSE IdsOf(q, b)
        <5>1. q \in Seq(Aliases) /\ a \in Normal
          BY <3>1 DEF q, a
        <5>2. QED
          BY <5>1, PuttingAlias
      <4>2. QED
        BY <3>1, <4>1 DEF q, a
    <3>3. QED
      BY <2>1, <2>2, <2>3, <2>4, <3>2
  <2>5. j <= n => Led(j)
    BY <2>4
  <2> HIDE DEF Led
  <2>6. QED
    BY <2>1, <2>5 DEF j
<1>13. n \in S
  <2> HIDE DEF S
  <2> QED
    BY <1>1, <1>11, <1>12, NatInductionSet
<1>14. Led(n)
  <2> HIDE DEF Led
  <2> QED
    BY <1>1, <1>13
<1>15. P[n] \in Seq(Aliases)
  BY <1>1, <1>10 DEF B
<1>16. QED
  BY <1>2, <1>9, <1>14, <1>15 DEF n

\* The keys that the names of a dict lead to, its values, and the dicts made of these.
KeysOf(given) == {GHL!KeyOf(given[i][1]) : i \in 1 .. Len(given)}
ValuesIn(given) == {given[i][2] : i \in 1 .. Len(given)}
Filings(given) == UNION {[D -> ValuesIn(given)] : D \in SUBSET KeysOf(given)}
\* Filing one value after the other.  (what resolve_dict folds)
Files(given) ==
  [z \in (1 .. Len(given)) \X Filings(given) |->
     GHL!Put(z[2], GHL!KeyOf(given[z[1]][1]), given[z[1]][2])]
\* All values filed.  (resolve_dict)
FileAll(given) ==
  GHL!FoldLeft(LAMBDA dict, pair : GHL!Put(dict, GHL!KeyOf(pair[1]), pair[2]), <<>>, given)

\* A value is filed under the key of its name, unless a later one is filed there.
LEMMA Filing ==
  ASSUME NEW given, Len(given) \in Nat, DOMAIN given = 1 .. Len(given), NEW i \in 1 .. Len(given)
  PROVE  /\ GHL!KeyOf(given[i][1]) \in DOMAIN FileAll(given)
         /\ FileAll(given)[GHL!KeyOf(given[i][1])] \in {given[j][2] : j \in i .. Len(given)}
<1> DEFINE n == Len(given)
           key(k) == GHL!KeyOf(given[k][1])
           Rec(f) == [s \in SUBSET (1 .. n) |->
                        IF s = {} THEN <<>>
                        ELSE GHL!Put(f[s \ {Max(s)}], GHL!KeyOf(given[Max(s)][1]), given[Max(s)][2])]
           it == CHOOSE f : f = Rec(f)
           B == Filings(given)
           base == <<>>
           h == Files(given)
<1>1. DOMAIN given = 1 .. n /\ n \in Nat
  OBVIOUS
<1>2. FileAll(given) = it[1 .. n]
  BY <1>1 DEF FileAll, GHL!FoldLeft, GHL!MapThenFoldSet, GHL!Max, Max
<1>3. ASSUME NEW k \in 1 .. n, NEW y \in B
      PROVE  h[<<k, y>>] = GHL!Put(y, key(k), given[k][2]) /\ h[<<k, y>>] \in B
  <2>1. h[<<k, y>>] = GHL!Put(y, key(k), given[k][2])
    BY DEF Files
  <2>2. PICK D \in SUBSET KeysOf(given) : y \in [D -> ValuesIn(given)]
    BY DEF Filings
  <2>3. key(k) \in KeysOf(given) /\ given[k][2] \in ValuesIn(given)
    BY DEF KeysOf, ValuesIn
  <2> HIDE DEF h, key
  <2>4. GHL!Put(y, key(k), given[k][2]) \in [D \cup {key(k)} -> ValuesIn(given)]
    BY <2>2, <2>3 DEF GHL!Put
  <2>5. QED
    BY <2>1, <2>2, <2>3, <2>4 DEF Filings
<1>4. StaysIn(h, 1 .. n, B) /\ base \in B
  <2>1. base \in [{} -> ValuesIn(given)]
    OBVIOUS
  <2>2. base \in B
    BY <2>1 DEF Filings
  <2> HIDE DEF h, n, B, base
  <2>3. QED
    BY <1>3, <2>2 DEF StaysIn
<1>5. PICK f : FoldsLeft(f, n, B, base, h)
  <2> HIDE DEF n, B, base, h
  <2> QED
    BY <1>1, <1>4, FoldLeftExists
<1>6. f = Rec(f)
  <2>1. ASSUME NEW s \in SUBSET (1 .. n) PROVE f[s] = Rec(f)[s]
    <3> DEFINE y == f[s \ {Max(s)}]
               k == Max(s)
    <3>1. CASE s = {}
      BY <1>5, <3>1 DEF FoldsLeft
    <3>2. CASE s # {}
      <4>1. k \in 1 .. n /\ y \in B /\ f[s] = h[<<k, y>>]
        BY <1>5, <3>2 DEF FoldsLeft
      <4> HIDE DEF k, y, n, h, B
      <4>2. f[s] = GHL!Put(y, key(k), given[k][2])
        BY <1>3, <4>1
      <4>3. QED
        BY <3>2, <4>2 DEF k, y
    <3>3. QED
      BY <3>1, <3>2
  <2>2. f = [s \in SUBSET (1 .. n) |-> f[s]]
    BY <1>5 DEF FoldsLeft
  <2>3. QED
    BY <2>1, <2>2
<1>7. it = Rec(it)
  <2> HIDE DEF Rec
  <2> QED
    BY <1>6
<1>8. Unfolds(it, n, B, base, h)
  <2>1. \A s \in SUBSET (1 .. n) : s # {} => Max(s) \in 1 .. n
    BY <1>1, Largest
  <2>2. ASSUME NEW s \in SUBSET (1 .. n)
        PROVE  it[s] = IF s = {} THEN <<>>
                       ELSE GHL!Put(it[s \ {Max(s)}], key(Max(s)), given[Max(s)][2])
    <3> HIDE DEF it
    <3> QED
      BY <1>7
  <2> HIDE DEF n, h, it, B, key
  <2>3. \A s \in SUBSET (1 .. n) :
          s # {} /\ it[s \ {Max(s)}] \in B => it[s] = h[<<Max(s), it[s \ {Max(s)}]>>]
    BY <1>3, <2>1, <2>2
  <2>4. QED
    BY <2>2, <2>3 DEF Unfolds
<1>9. PICK P : Runs(P, n, B, base, h) /\ P[n] = it[1 .. n]
  <2> HIDE DEF n, B, base, h, it
  <2> QED
    BY <1>1, <1>4, <1>8, FoldRuns
<1>10. \A k \in 1 .. n : P[k] = GHL!Put(P[k - 1], key(k), given[k][2])
  <2> HIDE DEF n, B, h, it, key
  <2> SUFFICES ASSUME NEW k \in 1 .. n PROVE P[k] = GHL!Put(P[k - 1], key(k), given[k][2])
    OBVIOUS
  <2>1. k - 1 \in 0 .. n
    BY <1>1
  <2>2. P[k] = h[<<k, P[k - 1]>>] /\ P[k - 1] \in B
    BY <1>9, <2>1 DEF Runs
  <2>3. QED
    BY <1>3, <2>2
<1> HIDE DEF n, B, h, it, key
<1> DEFINE From(k) == {given[j][2] : j \in i .. k}
           Filed(k) == key(i) \in DOMAIN P[k] /\ P[k][key(i)] \in From(k)
           S == {k \in Nat : i <= k /\ k <= n => Filed(k)}
<1>11. i \in 1 .. n
  BY DEF n
<1>12. 0 \in S
  BY <1>1, <1>11
<1>13. ASSUME NEW k \in Nat, k \in S PROVE k + 1 \in S
  <2> DEFINE j == k + 1
  <2>1. ASSUME i <= j, j <= n PROVE Filed(j)
    <3>1. j \in Nat /\ j - 1 = k /\ j \in 1 .. n
      BY <1>1, <1>11, <2>1
    <3>2. i = j \/ i <= k
      BY <1>1, <1>11, <2>1
    <3>3. given[j][2] \in From(j) /\ (i <= k => From(k) \subseteq From(j))
      BY <1>1, <1>11, <2>1
    <3>4. i <= k => Filed(k)
      <4>1. k <= n
        BY <1>1, <2>1
      <4> HIDE DEF Filed
      <4>2. QED
        BY <1>13, <4>1
    <3> HIDE DEF j, From
    <3>5. P[j] = GHL!Put(P[k], key(j), given[j][2])
      BY <1>10, <3>1
    <3>6. QED
      BY <3>2, <3>3, <3>4, <3>5 DEF GHL!Put
  <2> HIDE DEF Filed
  <2>2. QED
    BY <2>1
<1>14. n \in S
  <2> HIDE DEF S
  <2> QED
    BY <1>1, <1>12, <1>13, NatInductionSet
<1>15. Filed(n)
  <2> HIDE DEF Filed
  <2> QED
    BY <1>1, <1>11, <1>14
<1>16. QED
  BY <1>2, <1>9, <1>15 DEF n, key

\* A name means the field that claimed it last, or one that claimed something
\* similar last.  (resolve)
LEMMA Owning ==
  ASSUME MapperInv, NEW name
  PROVE  GHL!KeyOf(name) \in GHL!Goals(name)
<1> DEFINE a == AskedForm[name]
           own == {i \in DOMAIN aliases : aliases[i].alias = a}
           like == {i \in DOMAIN aliases : GHL!Similar(a, aliases[i].alias)}
           goals == {b \in GHL!Claimed : GHL!Similar(a, b)}
<1>1. ASSUME NEW b
      PROVE  /\ GHL!Owner(b) = fields[log[Max(ClaimsOf(b))].id]
             /\ b \in GHL!Claimed <=> ClaimsOf(b) # {}
  <2>1. GHL!Claimants(b) = ClaimsOf(b)
    BY DEF GHL!Claimants, ClaimsOf
  <2>2. GHL!Max(ClaimsOf(b)) = Max(ClaimsOf(b))
    BY DEF GHL!Max, Max
  <2>3. b \in GHL!Claimed <=> ClaimsOf(b) # {}
    BY DEF GHL!Claimed, ClaimsOf
  <2>4. QED
    BY <2>1, <2>2, <2>3 DEF GHL!Owner
<1>2. ASSUME NEW i \in DOMAIN aliases
      PROVE  aliases[i].alias \in GHL!Claimed /\ fields[aliases[i].id] = GHL!Owner(aliases[i].alias)
  <2>1. aliases[i] \in Aliases
    BY DEF MapperInv
  <2>2. aliases[i].alias \in Normal /\ aliases[i].id \in IdsOf(aliases, aliases[i].alias)
    BY <2>1 DEF Aliases, IdsOf
  <2>3. QED
    BY <1>1, <2>2 DEF MapperInv
<1>3. ASSUME NEW b \in GHL!Claimed PROVE \E i \in DOMAIN aliases : aliases[i].alias = b
  <2>1. b \in Normal /\ ClaimsOf(b) # {}
    <3>1. ClaimsOf(b) # {}
      BY <1>1
    <3>2. ASSUME NEW k \in DOMAIN log PROVE log[k].claims \in SUBSET Normal
      <4> DEFINE R == [id : FieldIds, claims : SUBSET Normal]
      <4>1. log \in Seq(R)
        BY DEF MapperInv
      <4> HIDE DEF R
      <4>2. log[k] \in R
        BY <4>1
      <4>3. QED
        BY <4>2 DEF R
    <3>3. QED
      BY <3>1, <3>2 DEF ClaimsOf
  <2>2. IdsOf(aliases, b) # {}
    BY <2>1 DEF MapperInv
  <2>3. QED
    BY <2>2 DEF IdsOf
<1> HIDE DEF a
<1>4. GHL!Resolve(name) = IF own # {} THEN {fields[aliases[i].id] : i \in own}
                          ELSE IF like # {} THEN {fields[aliases[GHL!Min(like)].id]} ELSE {}
  BY DEF GHL!Resolve, a
<1>5. GHL!Goals(name) = IF a \in GHL!Claimed THEN {GHL!Owner(a).key}
                        ELSE IF goals # {} THEN {GHL!Owner(b).key : b \in goals} ELSE {name}
  BY DEF GHL!Goals, a
<1>6. CASE a \in GHL!Claimed
  <2>1. own # {} /\ \A i \in own : fields[aliases[i].id] = GHL!Owner(a)
    BY <1>2, <1>3, <1>6
  <2>2. GHL!Resolve(name) = {GHL!Owner(a)}
    <3> HIDE DEF own, like
    <3> QED
      BY <1>4, <2>1
  <2>3. QED
    BY <1>5, <1>6, <2>2 DEF GHL!KeyOf
<1>7. CASE a \notin GHL!Claimed /\ like # {}
  <2> DEFINE m == GHL!Min(like)
  <2>1. m \in like
    <3>1. Len(aliases) \in Nat /\ like \in SUBSET (1 .. Len(aliases))
      BY DEF MapperInv
    <3> HIDE DEF like
    <3>2. Min(like) \in like
      BY <1>7, <3>1, Smallest
    <3>3. QED
      BY <3>2 DEF GHL!Min, Min
  <2>2. own = {}
    BY <1>2, <1>7
  <2>3. aliases[m].alias \in goals /\ fields[aliases[m].id] = GHL!Owner(aliases[m].alias)
    <3> HIDE DEF m
    <3> QED
      BY <1>2, <2>1
  <2>4. GHL!Resolve(name) = {GHL!Owner(aliases[m].alias)}
    <3> HIDE DEF own, like
    <3> QED
      BY <1>4, <1>7, <2>2, <2>3
  <2> HIDE DEF m, goals, like, own
  <2>5. GHL!KeyOf(name) = GHL!Owner(aliases[m].alias).key
    BY <2>4 DEF GHL!KeyOf
  <2>6. QED
    BY <1>5, <1>7, <2>3, <2>5
<1>8. CASE a \notin GHL!Claimed /\ like = {}
  <2>1. own = {} /\ goals = {}
    BY <1>2, <1>3, <1>8
  <2> HIDE DEF own, like, goals
  <2>2. GHL!Resolve(name) = {}
    BY <1>4, <1>8, <2>1
  <2>3. QED
    BY <1>5, <1>8, <2>1, <2>2 DEF GHL!KeyOf
<1>9. QED
  BY <1>6, <1>7, <1>8

\* A new registration takes over the aliases it claims, in the table as in the
\* log.  (register_field)
LEMMA MapperRegisters ==
  ASSUME MapperInv, NEW f \in Fields, NEW extra \in Extras, GHL!RegisterField(f, extra)
  PROVE  MapperInv'
<1> DEFINE c == GHL!Claims(f, extra)
           claims == {c[i] : i \in 1 .. Len(c)}
           n == Len(log)
           r == [id |-> f.id, claims |-> claims]
<1>1. c \in Seq(Normal) /\ f.id \in FieldIds
  <2>1. extra \in Seq(DOMAIN NameForm) /\ f.name \in DOMAIN NameForm /\ f.key \in DOMAIN KeyForm
    BY CrmAssumption
  <2>2. [i \in DOMAIN extra |-> NameForm[extra[i]]] \in Seq(Normal)
    BY <2>1 DEF Normal
  <2>3. <<NameForm[f.name], KeyForm[f.key]>> \in Seq(Normal)
    BY <2>1 DEF Normal
  <2>4. QED
    BY <2>2, <2>3 DEF GHL!Claims, FieldIds
<1>2. aliases' = PutAll(aliases, c, f.id)
  BY DEF GHL!RegisterField, PutAll
<1>3. log' = Append(log, r) /\ resolved' = GHL!NoAnswer
  <2>1. GHL!ToSet(c) = claims
    <3>1. DOMAIN c = 1 .. Len(c)
      BY <1>1
    <3> HIDE DEF c
    <3>2. QED
      BY <3>1 DEF GHL!ToSet
  <2> HIDE DEF c, claims
  <2>2. QED
    BY <2>1 DEF GHL!RegisterField, c
<1>4. aliases \in Seq(Aliases) /\ log \in Seq([id : FieldIds, claims : SUBSET Normal])
  BY DEF MapperInv
<1> HIDE DEF c
<1>5. /\ aliases' \in Seq(Aliases)
      /\ \A b : IdsOf(aliases', b) = IF b \in claims THEN {f.id} ELSE IdsOf(aliases, b)
  BY <1>1, <1>2, <1>4, Registering
<1>6. claims \in SUBSET Normal
  BY <1>1
<1> HIDE DEF claims
<1>7. r \in [id : FieldIds, claims : SUBSET Normal] /\ r.id = f.id /\ r.claims = claims
  BY <1>1, <1>6
<1> HIDE DEF r
<1>8. /\ log' \in Seq([id : FieldIds, claims : SUBSET Normal])
      /\ n \in Nat /\ DOMAIN log = 1 .. n /\ DOMAIN log' = 1 .. (n + 1)
      /\ log'[n + 1] = r /\ \A k \in 1 .. n : log'[k] = log[k]
  BY <1>3, <1>4, <1>7
<1>9. ASSUME NEW a \in Normal
      PROVE  IdsOf(aliases', a) = IF ClaimsOf(a)' = {} THEN {} ELSE {log'[Max(ClaimsOf(a)')].id}
  <2> DEFINE new == {k \in 1 .. (n + 1) : a \in log'[k].claims}
             old == {k \in 1 .. n : a \in log[k].claims}
  <2>1. ClaimsOf(a)' = new /\ ClaimsOf(a) = old
    BY <1>8 DEF ClaimsOf
  <2>2. \A i : i \in 1 .. (n + 1) <=> i \in 1 .. n \/ i = n + 1
    BY <1>8
  <2>3. new = IF a \in claims THEN old \cup {n + 1} ELSE old
    <3> HIDE DEF n
    <3> QED
      BY <1>7, <1>8, <2>2
  <2>4. new \in SUBSET (1 .. (n + 1)) /\ n + 1 \in Nat
    BY <1>8
  <2>5. ASSUME new # {} PROVE Max(new) \in new /\ \A i \in new : i <= Max(new)
    <3> DEFINE m == n + 1
    <3> HIDE DEF m, new
    <3>1. m \in Nat /\ new \in SUBSET (1 .. m) /\ new # {}
      BY <2>4, <2>5 DEF m
    <3>2. QED
      BY <3>1, Largest
  <2>6. CASE a \in claims
    <3>1. Max(new) = n + 1 /\ new # {}
      BY <1>8, <2>3, <2>5, <2>6
    <3> HIDE DEF new
    <3>2. QED
      BY <1>5, <1>7, <1>8, <2>1, <2>6, <3>1
  <2>7. CASE a \notin claims
    <3>1. new = old /\ (old # {} => Max(old) \in 1 .. n)
      BY <2>3, <2>4, <2>5, <2>7
    <3>2. IdsOf(aliases, a) = IF old = {} THEN {} ELSE {log[Max(old)].id}
      <4> HIDE DEF old
      <4> QED
        BY <2>1, <3>1 DEF MapperInv
    <3> HIDE DEF new, old
    <3>3. QED
      BY <1>5, <1>8, <2>1, <2>7, <3>1, <3>2
  <2>8. QED
    BY <2>6, <2>7
<1>10. ValuesArrive'
  BY <1>3 DEF GHL!NoAnswer, ValuesArrive, GHL!ValuesArrive
<1>11. QED
  BY <1>5, <1>8, <1>9, <1>10 DEF MapperInv

\* The mapper as it was leads every name where it led.
LEMMA SameOwners ==
  ASSUME UNCHANGED <<fields, aliases, log>>
  PROVE  /\ \A name : GHL!Goals(name)' = GHL!Goals(name)
         /\ \A a : ClaimsOf(a)' = ClaimsOf(a) /\ IdsOf(aliases', a) = IdsOf(aliases, a)
<1>1. ASSUME NEW name PROVE GHL!Claimants(name)' = GHL!Claimants(name)
  BY DEF GHL!Claimants
<1>2. ASSUME NEW name PROVE GHL!Owner(name)' = GHL!Owner(name)
  BY <1>1 DEF GHL!Owner
<1>3. ASSUME NEW a PROVE ClaimsOf(a)' = ClaimsOf(a)
  BY DEF ClaimsOf
<1>4. ASSUME NEW name PROVE GHL!Goals(name)' = GHL!Goals(name)
  <2>1. GHL!Claimed' = GHL!Claimed
    BY DEF GHL!Claimed
  <2>2. QED
    BY <1>2, <2>1 DEF GHL!Goals
<1>5. QED
  BY <1>3, <1>4

\* An answer has the values where they belong.  (resolve_dict)
LEMMA MapperResolves ==
  ASSUME MapperInv, NEW given \in Dicts, GHL!ResolveDict(given)
  PROVE  MapperInv'
<1>1. resolved' = [given |-> given, answer |-> FileAll(given)] /\ UNCHANGED <<fields, aliases, log>>
  BY DEF GHL!ResolveDict, FileAll
<1>2. Len(given) \in Nat /\ DOMAIN given = 1 .. Len(given)
  <2>1. given \in Seq((DOMAIN AskedForm) \X STRING)
    BY CrmAssumption
  <2>2. QED
    BY <2>1
<1>3. ASSUME NEW i \in DOMAIN given
      PROVE  \E key \in GHL!Goals(given[i][1]) :
               /\ key \in DOMAIN FileAll(given)
               /\ FileAll(given)[key] \in {given[j][2] : j \in i .. Len(given)}
  <2>1. GHL!KeyOf(given[i][1]) \in GHL!Goals(given[i][1])
    BY Owning
  <2>2. i \in 1 .. Len(given)
    BY <1>2
  <2>3. QED
    BY <1>2, <2>1, <2>2, Filing
<1>4. ValuesArrive'
  <2>1. resolved'.given = given /\ resolved'.answer = FileAll(given)
    BY <1>1
  <2>2. \A name : GHL!Goals(name)' = GHL!Goals(name)
    BY <1>1, SameOwners
  <2>3. ASSUME NEW i \in DOMAIN given
        PROVE  \E key \in GHL!Goals(given[i][1])' :
                 /\ key \in DOMAIN FileAll(given)
                 /\ FileAll(given)[key] \in {given[j][2] : j \in i .. Len(given)}
    BY <1>3, <2>2
  <2>4. QED
    BY <2>1, <2>3 DEF ValuesArrive, GHL!ValuesArrive
<1>5. QED
  BY <1>1, <1>4, SameOwners DEF MapperInv

\* The tools on contacts and deals leave the mapper alone.
LEMMA MapperNext == MapperInv /\ [GHL!Next]_(GHL!vars) => MapperInv'
<1> SUFFICES ASSUME MapperInv, [GHL!Next]_(GHL!vars) PROVE MapperInv'
  OBVIOUS
<1>1. CASE GHL!ConfigureMapper
  <2>1. aliases' = <<>> /\ log' = <<>> /\ resolved' = GHL!NoAnswer
    BY <1>1 DEF GHL!ConfigureMapper
  <2>2. QED
    BY <2>1 DEF MapperInv, ClaimsOf, IdsOf, GHL!NoAnswer, ValuesArrive, GHL!ValuesArrive
<1>2. ASSUME NEW f \in Fields, NEW extra \in Extras, GHL!RegisterField(f, extra) PROVE MapperInv'
  BY <1>2, MapperRegisters
<1>3. ASSUME NEW given \in Dicts, GHL!ResolveDict(given) PROVE MapperInv'
  BY <1>3, MapperResolves
<1>4. ASSUME UNCHANGED GHL!mapping PROVE MapperInv'
  <2>1. UNCHANGED <<fields, aliases, log, resolved>>
    BY <1>4 DEF GHL!mapping
  <2>2. ValuesArrive'
    BY <2>1, SameOwners DEF MapperInv, ValuesArrive, GHL!ValuesArrive
  <2>3. QED
    BY <2>1, <2>2, SameOwners DEF MapperInv
<1>5. CASE GHL!ClientNext
  BY <1>4, <1>5 DEF GHL!ClientNext, GHL!ConfigureClient, GHL!CreateContact, GHL!CreateOpportunity,
    GHL!UpdateContact, GHL!SearchContacts
<1>6. CASE UNCHANGED GHL!vars
  BY <1>4, <1>6 DEF GHL!vars, GHL!mapping
<1>7. QED
  BY <1>1, <1>2, <1>3, <1>5, <1>6 DEF GHL!Next, GHL!MapperNext

\* However fields are registered, renamed and claim each other's names, a value
\* arrives under the key of the field that claimed its name last, or else
\* something similar last, or else under its own name.
\* (GHLFieldMapper.register_field, resolve, resolve_dict)
THEOREM ValuesFindTheirField == GHL!Spec => []ValuesArrive
<1>1. GHL!Init => MapperInv
  BY DEF GHL!Init, MapperInv, ClaimsOf, IdsOf, GHL!NoAnswer, ValuesArrive, GHL!ValuesArrive
<1>2. MapperInv => ValuesArrive
  BY DEF MapperInv
<1>3. QED
  BY <1>1, <1>2, MapperNext, PTL DEF GHL!Spec

-----------------------------------------------------------------------------
(* The behaviours of MCToolbox                                             *)

\* The behaviours that drive one part at a time are behaviours of every part, the
\* others resting: what is proved of the parts holds of what MCToolbox drives.
THEOREM EachPart ==
  MCSpec => /\ Spec /\ Http!Spec /\ Mail!Spec /\ Costs!Spec /\ Analytics!Spec /\ Cache!Spec
            /\ GHL!Spec /\ Net!Spec /\ DB!Spec /\ Index!Spec /\ Booking!Spec
<1>1. MCInit => /\ Init /\ Http!Init /\ Mail!Init /\ Costs!Init /\ Analytics!Init /\ Cache!Init
                /\ GHL!Init /\ Net!Init /\ DB!Init /\ Index!Init /\ Booking!Init
  BY DEF MCInit
<1>2. [MCNext]_allvars => /\ [Next]_vars /\ [Http!Next]_(Http!vars) /\ [Mail!Next]_(Mail!vars)
                          /\ [Costs!Next]_(Costs!vars) /\ [Analytics!Next]_(Analytics!vars)
                          /\ [Cache!Next]_(Cache!vars) /\ [GHL!Next]_(GHL!vars)
                          /\ [Net!Next]_(Net!vars) /\ [DB!Next]_(DB!vars)
                          /\ [Index!Next]_(Index!vars) /\ [Booking!Next]_(Booking!vars)
  BY DEF MCNext, allvars, vars, httpvars, mailvars, metricvars, cachevars, crmvars, netvars, dbvars,
         indexvars, bookingvars, servervars, Http!vars, Mail!vars, Costs!vars, Analytics!vars,
         Cache!vars, GHL!vars, Net!vars, DB!vars, Index!vars, Booking!vars, Mail!Next, GHL!Next
<1>3. QED
  BY <1>1, <1>2, PTL DEF MCSpec, Spec, Http!Spec, Mail!Spec, Costs!Spec, Analytics!Spec, Cache!Spec,
                         GHL!Spec, Net!Spec, DB!Spec, Index!Spec, Booking!Spec

\* What the runs of MCToolbox check holds for all of its behaviours, for every
\* value of the constants.
THEOREM PartsHold ==
  MCSpec => /\ [](ChunksTile /\ OnlyReadsRun /\ SchemaOfConnection /\ SearchReturnsBest /\ SameSpace)
            /\ [](SlotsAreExact /\ NoEventLost /\ BindIsGuarded /\ ListsAreKept /\ DraftIsFilled)
            /\ [](CostsAddUp /\ AnomaliesAreRare /\ HitsAreRecent /\ ValuesArrive /\ ConnectionsArePublic)
            /\ EachPassAdvances
<1>1. QED
  BY EachPart, Tiling, Advancing, ReadsOnly, SchemaIsCurrent, ItemsAreComparable, GuardedBinds,
     ListsKept, PublicOnly, RecentHits, NothingIsLost, ExactSlots, BestAreReturned, RareAnomalies,
     ChargesAddUp, DraftsAreFilled, ValuesFindTheirField, PTL

=============================================================================
