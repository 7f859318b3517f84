--------------------------- MODULE ChunkerProofs ---------------------------
(***************************************************************************)
(* Proofs about Chunker, for every text and all arguments.                 *)
(***************************************************************************)
EXTENDS Chunker, TLAPS

USE LengthsAssumption, ArgumentsAssumption, LookbackAssumption

\* The loop runs on arguments chunk_text accepts, and its cursor leaves room
\* for more than the overlap of the next chunk.
LoopArguments ==
    /\ pc = "start" => cursor = 0
    /\ pc = "loop" => ValidArguments /\ cursor + overlap < length /\ length > size

\* Where a cut can fall: at least one character past the overlap.
LEMMA CutRange ==
    ASSUME TypeOK, LoopArguments, pc = "loop",
           NEW e \in 1 .. NaiveCut, CutsAt(e, NaiveCut)
    PROVE  /\ cursor + overlap + 1 <= e
           /\ e <= cursor + size /\ e <= length
           /\ NextCursor(e) = e - overlap /\ NextCursor(e) \in Nat
<1>1. cursor + overlap + 1 <= NaiveCut /\ NaiveCut <= cursor + size /\ NaiveCut <= length
  BY DEF NaiveCut, LoopArguments, ValidArguments, TypeOK
<1>2. cursor + overlap + 1 <= e
  BY <1>1 DEF CutsAt, Window, TypeOK, LoopArguments, ValidArguments, NaiveCut
<1>3. NextCursor(e) = e - overlap /\ e - overlap \in Nat
  BY <1>2 DEF NextCursor, TypeOK, LoopArguments, ValidArguments
<1> QED
  BY <1>1, <1>2, <1>3 DEF TypeOK, NaiveCut

LEMMA TypingStep ==
    ASSUME TypeOK, LoopArguments, [Next]_vars
    PROVE  TypeOK' /\ LoopArguments'
<1>1. CASE Reject
  <2>1. LoopArguments'
    BY <1>1 DEF Reject, LoopArguments
  <2>2. TypeOK'
    BY <1>1 DEF Reject, arguments, TypeOK
  <2> QED
    BY <2>1, <2>2
<1>2. CASE Whole
  <2>1. LoopArguments'
    BY <1>2 DEF Whole, LoopArguments
  <2>2. chunks' \in Seq(ChunkType)
    <3>1. [from |-> 0, to |-> length, shared |-> 0] \in ChunkType
      BY DEF TypeOK, ChunkType
    <3> QED
      BY <1>2, <3>1 DEF Whole
  <2>3. TypeOK'
    BY <1>2, <2>2 DEF Whole, arguments, TypeOK
  <2> QED
    BY <2>1, <2>3
<1>3. CASE Enter
  BY <1>3 DEF Enter, arguments, TypeOK, LoopArguments, ValidArguments
<1>4. CASE Slice
  <2>1. PICK e \in 1 .. NaiveCut :
             /\ CutsAt(e, NaiveCut)
             /\ chunks' = Append(chunks, [from |-> cursor, to |-> e,
                                          shared |-> IF chunks = <<>> THEN 0 ELSE overlap])
             /\ IF e >= length THEN pc' = "done" /\ UNCHANGED cursor
                               ELSE cursor' = NextCursor(e) /\ UNCHANGED pc
    BY <1>4 DEF Slice
  <2>2. pc = "loop" /\ UNCHANGED arguments
    BY <1>4 DEF Slice
  <2>3. [from |-> cursor, to |-> e, shared |-> IF chunks = <<>> THEN 0 ELSE overlap] \in ChunkType
    BY <2>2, CutRange DEF ChunkType, TypeOK, LoopArguments, ValidArguments
  <2>4. chunks' \in Seq(ChunkType)
    BY <2>1, <2>3 DEF TypeOK
  <2>5. cursor' \in Nat /\ (pc' = "loop" => cursor' + overlap < length /\ cursor' < length)
    BY <2>1, <2>2, CutRange DEF TypeOK, LoopArguments, ValidArguments
  <2> QED
    BY <2>1, <2>2, <2>4, <2>5 DEF TypeOK, LoopArguments, ValidArguments, arguments
<1>5. CASE UNCHANGED vars
  BY <1>5 DEF vars, arguments, TypeOK, LoopArguments, ValidArguments
<1> QED
  BY <1>1, <1>2, <1>3, <1>4, <1>5 DEF Next

LEMMA TypingAndArguments == Spec => [](TypeOK /\ LoopArguments)
<1>1. Init => TypeOK /\ LoopArguments
  BY DEF Init, TypeOK, LoopArguments
<1> QED
  BY <1>1, TypingStep, PTL DEF Spec

\* Every variable has its type in every reachable state.
THEOREM Typing == Spec => []TypeOK
BY TypingAndArguments, PTL

-----------------------------------------------------------------------------
(* What each round adds.                                                   *)

\* Where the loop stands: before the first chunk at the start of the text, and
\* then overlap characters before the end of the last chunk.
CursorFollows ==
    /\ pc = "start" => chunks = <<>> /\ cursor = 0
    /\ pc = "loop" /\ chunks = <<>> => cursor = 0
    /\ pc = "loop" /\ chunks # <<>> => cursor = chunks[Len(chunks)].to - overlap

Shape == Reassembles /\ SizesKept /\ Advances /\ CursorFollows

LEMMA SliceKeepsShape ==
    ASSUME TypeOK, LoopArguments, Shape, Slice
    PROVE  Shape'
<1>1. PICK e \in 1 .. NaiveCut :
           /\ CutsAt(e, NaiveCut)
           /\ chunks' = Append(chunks, [from |-> cursor, to |-> e,
                                        shared |-> IF chunks = <<>> THEN 0 ELSE overlap])
           /\ IF e >= length THEN pc' = "done" /\ UNCHANGED cursor
                             ELSE cursor' = NextCursor(e) /\ UNCHANGED pc
  BY DEF Slice
<1>2. pc = "loop" /\ UNCHANGED arguments
  BY DEF Slice
<1>3. /\ cursor + overlap + 1 <= e
      /\ e <= cursor + size /\ e <= length
      /\ NextCursor(e) = e - overlap
  BY <1>1, <1>2, CutRange
<1>4. size \in Nat /\ overlap \in Nat /\ length \in Nat /\ cursor \in Nat
  BY <1>2 DEF TypeOK, LoopArguments, ValidArguments
<1> DEFINE n == Len(chunks)
<1>5. /\ n \in Nat /\ Len(chunks') = n + 1 /\ chunks' # <<>>
      /\ DOMAIN chunks' = 1 .. n + 1 /\ DOMAIN chunks = 1 .. n
      /\ \A k \in 1 .. n : chunks'[k] = chunks[k] /\ chunks[k] \in ChunkType
      /\ chunks'[n + 1].from = cursor /\ chunks'[n + 1].to = e
      /\ chunks'[n + 1].shared = IF chunks = <<>> THEN 0 ELSE overlap
  BY <1>1 DEF TypeOK
<1>6. chunks = <<>> <=> n = 0
  BY DEF TypeOK
<1>7. n > 0 => cursor = chunks[n].to - overlap
  BY <1>2, <1>6 DEF Shape, CursorFollows
<1>8. SizesKept'
  <2>1. ASSUME NEW k \in DOMAIN chunks'
        PROVE  chunks'[k].from < chunks'[k].to /\ chunks'[k].to - chunks'[k].from <= size
    <3>1. CASE k = n + 1
      BY <1>3, <1>4, <1>5, <3>1
    <3>2. CASE k \in 1 .. n
      BY <1>5, <3>2 DEF Shape, SizesKept
    <3> QED
      BY <1>5, <2>1, <3>1, <3>2
  <2> QED
    BY <1>2, <2>1 DEF SizesKept, arguments
<1>9. Advances'
  <2>1. CASE n = 0
    BY <1>2, <1>3, <1>4, <1>5, <2>1 DEF Advances, arguments
  <2>2. CASE n > 0
    <3>1. length > size
      BY <1>2 DEF LoopArguments
    <3>2. chunks[n].to >= overlap + n
      BY <1>5, <2>2, <3>1 DEF Shape, Advances
    <3>3. chunks[n].to \in Nat
      BY <1>5, <2>2 DEF ChunkType
    <3>4. e >= chunks[n].to + 1
      BY <1>3, <1>4, <1>7, <2>2, <3>3
    <3>5. e >= overlap + (n + 1)
      BY <1>4, <1>5, <3>2, <3>3, <3>4
    <3> QED
      BY <1>2, <1>5, <3>1, <3>5 DEF Shape, Advances, arguments
  <2> QED
    BY <1>5, <2>1, <2>2
<1>10. Reassembles'
  <2>1. chunks'[1].from = 0 /\ chunks'[1].shared = 0
    BY <1>2, <1>5, <1>6 DEF Shape, Reassembles, CursorFollows
  <2>2. \A k \in 1 .. n : /\ chunks'[k + 1].shared = overlap
                          /\ chunks'[k + 1].from = chunks'[k].to - overlap
    BY <1>5, <1>6, <1>7 DEF Shape, Reassembles
  <2>3. pc' = "done" => e = length
    BY <1>1, <1>2, <1>3, <1>4
  <2> QED
    BY <1>2, <1>5, <2>1, <2>2, <2>3 DEF Reassembles, arguments
<1>11. CursorFollows'
  BY <1>1, <1>2, <1>3, <1>5 DEF CursorFollows, arguments
<1> QED
  BY <1>8, <1>9, <1>10, <1>11 DEF Shape

LEMMA ShapeHolds == Spec => []Shape
<1>1. Init => Shape
  BY DEF Init, Shape, Reassembles, SizesKept, Advances, CursorFollows
<1>2. TypeOK /\ LoopArguments /\ Shape /\ [Next]_vars => Shape'
  <2> SUFFICES ASSUME TypeOK, LoopArguments, Shape, [Next]_vars
               PROVE  Shape'
    OBVIOUS
  <2>1. CASE Reject
    BY <2>1 DEF Reject, arguments, Shape, Reassembles, SizesKept, Advances, CursorFollows
  <2>2. CASE Whole
    <3>1. chunks' = <<>> \/ chunks' = <<[from |-> 0, to |-> length, shared |-> 0]>>
      BY <2>2 DEF Whole
    <3> QED
      BY <2>2, <3>1 DEF Whole, ValidArguments, arguments, TypeOK, Shape, Reassembles, SizesKept,
                        Advances, CursorFollows
  <2>3. CASE Enter
    BY <2>3 DEF Enter, arguments, Shape, Reassembles, SizesKept, Advances, CursorFollows
  <2>4. CASE UNCHANGED vars
    BY <2>4 DEF vars, arguments, Shape, Reassembles, SizesKept, Advances, CursorFollows
  <2> QED
    BY <2>1, <2>2, <2>3, <2>4, SliceKeepsShape DEF Next
<1> QED
  BY <1>1, <1>2, TypingAndArguments, PTL DEF Spec

\* The chunks of every text put together are the text.
THEOREM ChunksReassemble == Spec => []Reassembles
BY ShapeHolds, PTL DEF Shape

\* No chunk is empty or longer than chunk_size.
THEOREM ChunkSizesKept == Spec => []SizesKept
BY ShapeHolds, PTL DEF Shape

\* Every round gets further than the round before, the variant of the loop.
THEOREM LoopAdvances == Spec => []Advances
BY ShapeHolds, PTL DEF Shape
=============================================================================
