------------------------------- MODULE Ingest -------------------------------
(***************************************************************************)
(* ingest: a source is announced as pending, fetched, extracted, cut into  *)
(* chunks, and finished as succeeded or failed.  Every write of a file is  *)
(* one call to the store, and a reader of the vault may look between any   *)
(* two.  What is fetched and how many chunks it makes is chosen freely.    *)
(***************************************************************************)
EXTENDS Integers

CONSTANTS
    Sources,    \* calls of ingest, each with a source id of its own
    MaxChunks,  \* the largest number of chunks of a document
    Faults,     \* the kinds of fault that may happen (FaultKinds)
    MaxFaults   \* how many faults may happen in a behaviour

\* store:   a write raises in ingest, applied or not
\* partial: a write raises after the file was truncated
\* crash:   the process of an ingest dies
\* fetch:   httpx raises what fetch does not catch (InvalidURL)
\* extract: an extractor raises what ingest does not catch
\* invalid: the caller gave chunk parameters chunk_text rejects
FaultKinds == {"store", "partial", "crash", "fetch", "extract", "invalid"}

ASSUME BoundsAssumption ==
    MaxChunks \in Nat /\ MaxFaults \in Nat /\ Faults \subseteq FaultKinds

VARIABLES
    source,   \* the file of each source: its status and chunk_count
    chunks,   \* the chunk files in the vault
    pc,       \* where each ingest is
    count,    \* how many chunks its document made
    index,    \* the chunk it writes next
    faults    \* number of faults so far

vars == <<source, chunks, pc, count, index, faults>>

Statuses == {"absent", "torn", "pending", "succeeded", "failed"}
Locations == {"announce", "fetch", "extract", "chunk", "write", "fail", "returned", "raised"}

SourceFile(status, chunk_count) == [status |-> status, chunk_count |-> chunk_count]
ChunkFile(s, i, total) == [source |-> s, index |-> i, total |-> total]

Fault(kind) == kind \in Faults /\ faults < MaxFaults /\ faults' = faults + 1

Init ==
    /\ source = [s \in Sources |-> SourceFile("absent", 0)]
    /\ chunks = {}
    /\ pc = [s \in Sources |-> "announce"]
    /\ count = [s \in Sources |-> 0]
    /\ index = [s \in Sources |-> 0]
    /\ faults = 0

Goto(s, location) == pc' = [pc EXCEPT ![s] = location]

\* A call of the store that writes its file: it returns and ingest goes on, or
\* it raises out of ingest all the same.
AfterWrite(s, location) ==
    \/ Goto(s, location) /\ UNCHANGED faults
    \/ Goto(s, "raised") /\ Fault("store")

\* A call of the store that raises and writes nothing.
WriteLost(s) ==
    /\ pc[s] \in {"announce", "write", "fail"}
    /\ Goto(s, "raised") /\ Fault("store")
    /\ UNCHANGED <<source, chunks, count, index>>

WriteSource(s, status, chunk_count) ==
    source' = [source EXCEPT ![s] = SourceFile(status, chunk_count)]

\* A call of the store that raises half way: the file of the source is there,
\* but is no source any more, and a chunk file cut short is no chunk.
WriteTorn(s) ==
    /\ pc[s] \in {"announce", "write", "fail"}
    /\ Goto(s, "raised") /\ Fault("partial")
    /\ IF pc[s] = "write" /\ index[s] < count[s]
       THEN UNCHANGED source
       ELSE WriteSource(s, "torn", 0)
    /\ UNCHANGED <<chunks, count, index>>

-----------------------------------------------------------------------------
(* The phases of ingest.                                                   *)

Announce_Not(s) ==
    /\ pc[s] = "announce"
    /\ AfterWrite(s, "fetch")
    /\ UNCHANGED <<source, chunks, count, index>>
Announce(s) ==
    /\ pc[s] = "announce"
    /\ WriteSource(s, "pending", 0)
    /\ AfterWrite(s, "fetch")
    /\ UNCHANGED <<chunks, count, index>>

\* fetch returns a result that succeeded or failed: it makes a failure of every
\* RequestError, of a status from 400 on, and of a body that is too large.
\* Anything else that httpx raises goes through.
Fetch(s) ==
    /\ pc[s] = "fetch"
    /\ \/ (Goto(s, "extract") \/ Goto(s, "fail")) /\ UNCHANGED faults
       \/ Goto(s, "raised") /\ Fault("fetch")
    /\ UNCHANGED <<source, chunks, count, index>>

\* ValueError and PdfReadError are caught, anything else is not.
Extract(s) ==
    /\ pc[s] = "extract"
    /\ \/ (Goto(s, "chunk") \/ Goto(s, "fail")) /\ UNCHANGED faults
       \/ Goto(s, "raised") /\ Fault("extract")
    /\ UNCHANGED <<source, chunks, count, index>>

\* chunk_text returns a list, or raises ValueError.
Chunk(s) ==
    /\ pc[s] = "chunk"
    /\ \/ /\ \E n \in 0 .. MaxChunks : count' = [count EXCEPT ![s] = n]
          /\ Goto(s, "write")
          /\ UNCHANGED faults
       \/ Goto(s, "raised") /\ Fault("invalid") /\ UNCHANGED count
    /\ UNCHANGED <<source, chunks, index>>

WriteChunk_Inclusive(s) ==
    /\ pc[s] = "write" /\ index[s] <= count[s]
    /\ chunks' = chunks \cup {ChunkFile(s, index[s], count[s])}
    /\ index' = [index EXCEPT ![s] = @ + 1]
    /\ AfterWrite(s, "write")
    /\ UNCHANGED <<source, count>>
WriteChunk(s) ==
    /\ pc[s] = "write" /\ index[s] < count[s]
    /\ chunks' = chunks \cup {ChunkFile(s, index[s], count[s])}
    /\ index' = [index EXCEPT ![s] = @ + 1]
    /\ AfterWrite(s, "write")
    /\ UNCHANGED <<source, count>>

Succeed_Early(s) ==
    /\ pc[s] = "write"
    /\ WriteSource(s, "succeeded", count[s])
    /\ AfterWrite(s, "returned")
    /\ UNCHANGED <<chunks, count, index>>
Succeed(s) ==
    /\ pc[s] = "write" /\ index[s] = count[s]
    /\ WriteSource(s, "succeeded", count[s])
    /\ AfterWrite(s, "returned")
    /\ UNCHANGED <<chunks, count, index>>

Fail_FallsThrough(s) ==
    /\ pc[s] = "fail"
    /\ WriteSource(s, "failed", 0)
    /\ AfterWrite(s, "extract")
    /\ UNCHANGED <<chunks, count, index>>
Fail(s) ==
    /\ pc[s] = "fail"
    /\ WriteSource(s, "failed", 0)
    /\ AfterWrite(s, "returned")
    /\ UNCHANGED <<chunks, count, index>>

Over(s) == pc[s] \in {"returned", "raised"}

Crash(s) ==
    /\ ~Over(s)
    /\ Fault("crash") /\ Goto(s, "raised")
    /\ UNCHANGED <<source, chunks, count, index>>

-----------------------------------------------------------------------------
Ingest(s) ==
    \/ Announce(s) \/ Fetch(s) \/ Extract(s) \/ Chunk(s) \/ WriteChunk(s)
    \/ Succeed(s) \/ Fail(s)

Next == \E s \in Sources : Ingest(s) \/ WriteLost(s) \/ WriteTorn(s) \/ Crash(s)

Spec == Init /\ [][Next]_vars

-----------------------------------------------------------------------------
(* What must hold.                                                         *)

\* Every variable has its type.
TypeOK ==
    /\ source \in [Sources -> [status : Statuses, chunk_count : 0 .. MaxChunks]]
    /\ chunks \subseteq [source : Sources, index : Nat, total : 0 .. MaxChunks]
    /\ pc \in [Sources -> Locations]
    /\ count \in [Sources -> 0 .. MaxChunks]
    /\ index \in [Sources -> 0 .. MaxChunks]
    /\ faults \in Nat /\ faults <= MaxFaults

ChunksOf(s) == {c \in chunks : c.source = s}

\* A reader who finds a source succeeded finds every one of its chunks and no
\* other, each telling the total the source tells: whatever failed or died,
\* and whenever the reader looks.
SucceededIsComplete ==
    \A s \in Sources : source[s].status = "succeeded" =>
        ChunksOf(s) = {ChunkFile(s, i, source[s].chunk_count) : i \in 0 .. source[s].chunk_count - 1}

\* "A crash mid-ingest leaves visible intent in the vault" (Documentation.md):
\* once ingest went to work its source file is there, and chunks are there only
\* of a source that is pending, succeeded, or torn by the write that was to
\* finish it: never without a source file, nor beside one that reads failed.
IntentIsVisible ==
    \A s \in Sources :
        /\ pc[s] \in {"fetch", "extract", "chunk", "write", "fail"} => source[s].status = "pending"
        /\ ChunksOf(s) # {} => source[s].status \in {"pending", "succeeded", "torn"}

\* What a source ended as it stays: no later phase and no second try of the same
\* ingest writes over it.
EndsOnce ==
    [][\A s \in Sources :
        source[s].status \in {"succeeded", "failed"} => source'[s] = source[s]]_vars

\* What a reader who goes by the status finds of a source.
Shown(s) ==
    [state |-> CASE source[s].status = "succeeded" -> "published"
                 [] source[s].status = "failed" -> "failed"
                 [] OTHER -> "open",
     chunk_count |-> source[s].chunk_count,
     chunks |-> IF source[s].status = "succeeded" THEN ChunksOf(s) ELSE {}]

Reader == INSTANCE Publication WITH seen <- [s \in Sources |-> Shown(s)]

\* Written one file after the other, with faults in between, a document is
\* published at once for a reader who goes by the status: whole, once, and for
\* good, its chunks included.
ImplementsPublication == Reader!Spec
=============================================================================
