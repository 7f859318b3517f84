------------------------------ MODULE Chunker ------------------------------
(***************************************************************************)
(* chunk_text: a text is cut into overlapping chunks.  Of the text only    *)
(* its length (stripped) and the positions of its soft boundaries matter.  *)
(* A chunk is the slice from..to-1 and the overlap_chars it claims.        *)
(***************************************************************************)
EXTENDS Integers, Sequences

CONSTANTS
    Lengths,   \* lengths of texts
    Sizes,     \* values of chunk_size a caller may give
    Overlaps,  \* values of overlap a caller may give
    Lookback   \* SOFT_BOUNDARY_LOOKBACK

ASSUME LengthsAssumption == Lengths \subseteq Nat
ASSUME ArgumentsAssumption == Sizes \subseteq Int /\ Overlaps \subseteq Int
ASSUME LookbackAssumption == Lookback \in Nat

VARIABLES
    length,   \* length of the stripped text
    soft,     \* positions of its soft boundaries
    size,     \* chunk_size
    overlap,
    cursor,   \* where the next chunk begins
    chunks,   \* the chunks so far
    pc        \* "start", "loop", "done", or "invalid" once ValueError is raised

arguments == <<length, soft, size, overlap>>
vars == <<arguments, cursor, chunks, pc>>

Init ==
    /\ length \in Lengths
    /\ soft \in SUBSET (0 .. length - 1)
    /\ size \in Sizes /\ overlap \in Overlaps
    /\ cursor = 0 /\ chunks = <<>>
    /\ pc = "start"

\* The arguments chunk_text takes.
ValidArguments == 0 < size /\ 0 <= overlap /\ overlap < size

Reject ==
    /\ pc = "start" /\ ~ValidArguments
    /\ pc' = "invalid"
    /\ UNCHANGED <<arguments, cursor, chunks>>

Whole ==
    /\ pc = "start" /\ ValidArguments /\ length <= size
    /\ chunks' = IF length = 0 THEN <<>> ELSE <<[from |-> 0, to |-> length, shared |-> 0]>>
    /\ pc' = "done"
    /\ UNCHANGED <<arguments, cursor>>

Enter ==
    /\ pc = "start" /\ ValidArguments /\ length > size
    /\ pc' = "loop"
    /\ UNCHANGED <<arguments, cursor, chunks>>

-----------------------------------------------------------------------------
(* One round of the loop.  Its condition, cursor < text_len, always holds   *)
(* there (TypeOK): the loop is left by its break.                          *)

\* The boundaries _back_up_to_soft_boundary looks at.
Window_NoFloor(end) == {i \in soft : i < end /\ end - Lookback <= i}
Window_Lenient(end) == {i \in soft : cursor + overlap <= i + 1 /\ i < end /\ end - Lookback <= i}
Window(end) == {i \in soft : cursor + overlap + 1 <= i /\ i < end /\ end - Lookback <= i}

\* Cutting at e instead of at naive: just past the last boundary of the window,
\* or at naive if there is none or the text ends there.
CutsAt_NoFallback(e, naive) ==
    \/ e = naive /\ naive = length
    \/ /\ naive < length
       /\ e - 1 \in Window(naive) /\ \A i \in Window(naive) : i <= e - 1
CutsAt(e, naive) ==
    \/ e = naive /\ (naive = length \/ Window(naive) = {})
    \/ /\ naive < length
       /\ e - 1 \in Window(naive) /\ \A i \in Window(naive) : i <= e - 1

NaiveCut == IF cursor + size < length THEN cursor + size ELSE length

NextCursor_Skipping(e) == e
NextCursor_Rewind(e) == e - size
NextCursor(e) == IF e - overlap < 0 THEN 0 ELSE e - overlap

Slice ==
    /\ pc = "loop"
    /\ \E e \in 1 .. NaiveCut :
          /\ CutsAt(e, NaiveCut)
          /\ chunks' = Append(chunks, [from |-> cursor, to |-> e,
                                       shared |-> IF chunks = <<>> THEN 0 ELSE overlap])
          /\ IF e >= length THEN pc' = "done" /\ UNCHANGED cursor
                            ELSE cursor' = NextCursor(e) /\ UNCHANGED pc
    /\ UNCHANGED arguments

Next == Reject \/ Whole \/ Enter \/ Slice

Spec == Init /\ [][Next]_vars

\* The function runs until it returns or raises.
FairSpec == Spec /\ WF_vars(Next)

-----------------------------------------------------------------------------
(* What must hold.                                                         *)

ChunkType == [from : Nat, to : Nat, shared : Nat]

\* Every variable has its type.
TypeOK ==
    /\ length \in Nat /\ soft \subseteq 0 .. length - 1
    /\ size \in Int /\ overlap \in Int
    /\ cursor \in Nat /\ (pc = "loop" => cursor < length)
    /\ chunks \in Seq(ChunkType)
    /\ pc \in {"start", "loop", "done", "invalid"}

\* The text can be put together from its chunks: the first begins at its
\* beginning, each begins the overlap_chars it claims before its predecessor
\* ends, and when chunk_text returns the last ends at the end.
Reassembles ==
    /\ chunks # <<>> => chunks[1].from = 0 /\ chunks[1].shared = 0
    /\ \A k \in 1 .. Len(chunks) - 1 :
          chunks[k + 1].shared = overlap /\ chunks[k + 1].from = chunks[k].to - overlap
    /\ pc = "done" /\ length > 0 => chunks # <<>> /\ chunks[Len(chunks)].to = length

\* No chunk is empty or longer than chunk_size, however far the cut backs up.
SizesKept ==
    \A k \in DOMAIN chunks : chunks[k].from < chunks[k].to /\ chunks[k].to - chunks[k].from <= size

\* "Forward progress is mandatory" (_back_up_to_soft_boundary): each chunk ends
\* after its predecessor, so that k chunks reach past the first overlap + k - 1
\* characters, and there are at most length - overlap of them.
Advances ==
    \A k \in DOMAIN chunks : length > size => chunks[k].to >= overlap + k

\* chunk_text returns or raises, whatever the text and the arguments.
Terminates == <>(pc \in {"done", "invalid"})
=============================================================================
