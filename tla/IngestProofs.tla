---------------------------- MODULE IngestProofs ----------------------------
(***************************************************************************)
(* Proofs about Ingest, for any number of sources and of chunks.           *)
(***************************************************************************)
EXTENDS Ingest, TLAPS

USE BoundsAssumption DEF Goto, AfterWrite, WriteSource, SourceFile, Fault

LEMMA IngestTyping ==
    ASSUME TypeOK, NEW s \in Sources, Ingest(s) \/ WriteLost(s) \/ WriteTorn(s) \/ Crash(s)
    PROVE  TypeOK'
<1> USE DEF TypeOK, Statuses, Locations
<1>0. CASE Announce(s)
  <2>1. source' \in [Sources -> [status : Statuses, chunk_count : 0 .. MaxChunks]]
    BY <1>0 DEF Announce
  <2>2. pc' \in [Sources -> Locations] /\ faults' \in Nat /\ faults' <= MaxFaults
    BY <1>0 DEF Announce
  <2> QED
    BY <1>0, <2>1, <2>2 DEF Announce
<1>1. CASE Fail(s)
  <2>1. source' \in [Sources -> [status : Statuses, chunk_count : 0 .. MaxChunks]]
    BY <1>1 DEF Fail
  <2>2. pc' \in [Sources -> Locations] /\ faults' \in Nat /\ faults' <= MaxFaults
    BY <1>1 DEF Fail
  <2> QED
    BY <1>1, <2>1, <2>2 DEF Fail
<1>2. CASE Fetch(s) \/ Extract(s)
  BY <1>2 DEF Fetch, Extract
<1>3. CASE Chunk(s)
  <2>1. count' \in [Sources -> 0 .. MaxChunks]
    BY <1>3 DEF Chunk
  <2>2. pc' \in [Sources -> Locations] /\ faults' \in Nat /\ faults' <= MaxFaults
    BY <1>3 DEF Chunk
  <2> QED
    BY <1>3, <2>1, <2>2 DEF Chunk
<1>4. CASE WriteChunk(s)
  <2>1. ChunkFile(s, index[s], count[s]) \in [source : Sources, index : Nat, total : 0 .. MaxChunks]
    BY DEF ChunkFile
  <2>2. index[s] + 1 \in 0 .. MaxChunks
    BY <1>4 DEF WriteChunk
  <2> QED
    BY <1>4, <2>1, <2>2 DEF WriteChunk
<1>5. CASE Succeed(s)
  BY <1>5 DEF Succeed
<1>6. CASE WriteLost(s) \/ Crash(s)
  BY <1>6 DEF WriteLost, Crash
<1>7. CASE WriteTorn(s)
  <2>1. source' \in [Sources -> [status : Statuses, chunk_count : 0 .. MaxChunks]]
    BY <1>7 DEF WriteTorn
  <2>2. pc' \in [Sources -> Locations] /\ faults' \in Nat /\ faults' <= MaxFaults
    BY <1>7 DEF WriteTorn
  <2> QED
    BY <1>7, <2>1, <2>2 DEF WriteTorn
<1> QED
  BY <1>0, <1>1, <1>2, <1>3, <1>4, <1>5, <1>6, <1>7 DEF Ingest

\* Every variable has its type in every reachable state.
THEOREM Typing == Spec => []TypeOK
<1>1. Init => TypeOK
  BY DEF Init, TypeOK, Statuses, Locations
<1>2. TypeOK /\ [Next]_vars => TypeOK'
  BY IngestTyping DEF Next, vars, TypeOK
<1> QED
  BY <1>1, <1>2, PTL DEF Spec

-----------------------------------------------------------------------------
(* What a reader finds.                                                    *)

\* The chunks of s in the vault are those before index, with the total it made.
Written(s) ==
    \A c \in chunks : c.source = s => c.index < index[s] /\ c.total = count[s]
AllWritten(s) ==
    \A i \in 0 .. index[s] - 1 : ChunkFile(s, i, count[s]) \in chunks

\* How the file of s, its chunks and the place of its ingest go together.
Consistent(s) ==
    /\ Written(s) /\ AllWritten(s)
    /\ index[s] <= count[s]
    /\ pc[s] \in {"announce", "fetch", "extract", "chunk", "fail"} => index[s] = 0
    /\ pc[s] = "announce" => source[s].status = "absent"
    /\ pc[s] \in {"fetch", "extract", "chunk", "write", "fail"} => source[s].status = "pending"
    /\ source[s].status = "succeeded" =>
          pc[s] \in {"returned", "raised"} /\ index[s] = count[s] /\ source[s].chunk_count = count[s]
    /\ source[s].status \in {"absent", "failed"} => index[s] = 0
    /\ source[s].status # "succeeded" => source[s].chunk_count = 0

Progress == \A s \in Sources : Consistent(s)

\* An ingest touches the files of its own source only.
LEMMA OthersUntouched ==
    ASSUME TypeOK, Progress, NEW s \in Sources, Ingest(s) \/ WriteLost(s) \/ WriteTorn(s) \/ Crash(s),
           NEW r \in Sources, r # s
    PROVE  Consistent(r)'
<1>1. pc'[r] = pc[r] /\ source'[r] = source[r] /\ count'[r] = count[r] /\ index'[r] = index[r]
  BY DEF Ingest, Announce, Fetch, Extract, Chunk, WriteChunk, Succeed, Fail, WriteLost, WriteTorn, Crash, TypeOK
<1>2. chunks' = chunks \/ chunks' = chunks \cup {ChunkFile(s, index[s], count[s])}
  BY DEF Ingest, Announce, Fetch, Extract, Chunk, WriteChunk, Succeed, Fail, WriteLost, WriteTorn, Crash
<1> QED
  BY <1>1, <1>2 DEF Progress, Consistent, Written, AllWritten, ChunkFile

LEMMA WriteChunkConsistent ==
    ASSUME TypeOK, NEW s \in Sources, Consistent(s), WriteChunk(s)
    PROVE  Consistent(s)'
<1>1. /\ chunks' = chunks \cup {ChunkFile(s, index[s], count[s])}
      /\ index'[s] = index[s] + 1 /\ count' = count /\ source' = source
      /\ pc[s] = "write" /\ pc'[s] \in {"write", "raised"} /\ index[s] < count[s]
  BY DEF WriteChunk, TypeOK
<1>2. index[s] \in Nat /\ count[s] \in Nat
  BY DEF TypeOK
<1>3. Written(s)'
  <2> SUFFICES ASSUME NEW c \in chunks', c.source = s
               PROVE  c.index < index'[s] /\ c.total = count[s]
    BY <1>1 DEF Written
  <2>1. CASE c \in chunks
    BY <1>1, <1>2, <2>1 DEF Consistent, Written, TypeOK
  <2>2. CASE c = ChunkFile(s, index[s], count[s])
    BY <1>1, <1>2, <2>2 DEF ChunkFile
  <2> QED
    BY <1>1, <2>1, <2>2
<1>4. AllWritten(s)'
  BY <1>1, <1>2 DEF Consistent, AllWritten
<1> QED
  BY <1>1, <1>2, <1>3, <1>4 DEF Consistent

LEMMA StepConsistent ==
    ASSUME TypeOK, NEW s \in Sources, Consistent(s), Ingest(s) \/ WriteLost(s) \/ WriteTorn(s) \/ Crash(s)
    PROVE  Consistent(s)'
<1> USE DEF Consistent, TypeOK
<1>1. CASE Chunk(s)
  <2>1. chunks' = chunks /\ index[s] = 0 /\ index' = index /\ source' = source /\ count'[s] \in Nat
    BY <1>1 DEF Chunk
  <2>2. Written(s)' /\ AllWritten(s)'
    BY <2>1 DEF Written, AllWritten
  <2> QED
    BY <1>1, <2>1, <2>2 DEF Chunk
<1>2. CASE WriteChunk(s)
  BY <1>2, WriteChunkConsistent
<1>3. ASSUME UNCHANGED <<chunks, count, index>>
      PROVE  Written(s)' /\ AllWritten(s)'
  BY <1>3 DEF Written, AllWritten
<1>4. CASE Announce(s)
  BY <1>3, <1>4 DEF Announce
<1>5. CASE Fetch(s)
  BY <1>3, <1>5 DEF Fetch
<1>6. CASE Extract(s)
  BY <1>3, <1>6 DEF Extract
<1>7. CASE Succeed(s)
  BY <1>3, <1>7 DEF Succeed
<1>8. CASE Fail(s)
  BY <1>3, <1>8 DEF Fail
<1>9. CASE WriteLost(s)
  BY <1>3, <1>9 DEF WriteLost
<1>10. CASE Crash(s)
  BY <1>3, <1>10 DEF Crash, Over
<1>11. CASE WriteTorn(s)
  BY <1>3, <1>11 DEF WriteTorn
<1> QED
  BY <1>1, <1>2, <1>4, <1>5, <1>6, <1>7, <1>8, <1>9, <1>10, <1>11 DEF Ingest

LEMMA ProgressHolds == Spec => []Progress
<1>1. Init => Progress
  <2> SUFFICES ASSUME Init, NEW s \in Sources
               PROVE  Consistent(s)
    BY DEF Progress
  <2>1. index[s] = 0 /\ count[s] = 0 /\ pc[s] = "announce" /\ source[s].status = "absent"
        /\ source[s].chunk_count = 0
    BY DEF Init
  <2>2. Written(s) /\ AllWritten(s)
    BY <2>1 DEF Init, Written, AllWritten
  <2> QED
    BY <2>1, <2>2 DEF Consistent
<1>2. TypeOK /\ Progress /\ [Next]_vars => Progress'
  <2> SUFFICES ASSUME TypeOK, Progress, [Next]_vars
               PROVE  Progress'
    OBVIOUS
  <2>1. CASE Next
    BY <2>1, OthersUntouched, StepConsistent DEF Next, Progress
  <2>2. CASE UNCHANGED vars
    BY <2>2 DEF vars, Progress, Consistent, Written, AllWritten
  <2> QED
    BY <2>1, <2>2
<1> QED
  BY <1>1, <1>2, Typing, PTL DEF Spec

\* A source that reads succeeded has all its chunks and no other.
THEOREM SucceededMeansComplete == Spec => []SucceededIsComplete
<1>1. TypeOK /\ Progress => SucceededIsComplete
  <2> SUFFICES ASSUME TypeOK, Progress, NEW s \in Sources, source[s].status = "succeeded"
               PROVE  ChunksOf(s) =
                        {ChunkFile(s, i, source[s].chunk_count) : i \in 0 .. source[s].chunk_count - 1}
    BY DEF SucceededIsComplete
  <2>1. Consistent(s) /\ index[s] = count[s] /\ source[s].chunk_count = count[s]
    BY DEF Progress, Consistent
  <2>2. ASSUME NEW c \in ChunksOf(s)
        PROVE  \E i \in 0 .. count[s] - 1 : c = ChunkFile(s, i, count[s])
    <3>1. c \in [source : Sources, index : Nat, total : 0 .. MaxChunks] /\ c.source = s
      BY <2>2 DEF ChunksOf, TypeOK
    <3>2. c.index < count[s] /\ c.total = count[s]
      BY <2>1, <2>2, <3>1 DEF Consistent, Written, ChunksOf
    <3>3. c = ChunkFile(s, c.index, count[s])
      BY <3>1, <3>2 DEF ChunkFile
    <3> QED
      BY <3>1, <3>2, <3>3 DEF TypeOK
  <2>3. ASSUME NEW i \in 0 .. count[s] - 1
        PROVE  ChunkFile(s, i, count[s]) \in ChunksOf(s)
    BY <2>1, <2>3 DEF Consistent, AllWritten, ChunksOf, ChunkFile
  <2> QED
    BY <2>1, <2>2, <2>3
<1> QED
  BY <1>1, Typing, ProgressHolds, PTL

\* Work in progress and stray chunks always have a source file that says so.
THEOREM IntentStaysVisible == Spec => []IntentIsVisible
<1>1. TypeOK /\ Progress => IntentIsVisible
  <2> SUFFICES ASSUME TypeOK, Progress, NEW s \in Sources
               PROVE  /\ pc[s] \in {"fetch", "extract", "chunk", "write", "fail"} =>
                            source[s].status = "pending"
                      /\ ChunksOf(s) # {} => source[s].status \in {"pending", "succeeded", "torn"}
    BY DEF IntentIsVisible
  <2>1. Consistent(s)
    BY DEF Progress
  <2>2. ASSUME NEW c \in ChunksOf(s)
        PROVE  index[s] # 0
    BY <2>1, <2>2 DEF Consistent, Written, ChunksOf, TypeOK
  <2> QED
    BY <2>1, <2>2 DEF Consistent, TypeOK, Statuses
<1> QED
  BY <1>1, Typing, ProgressHolds, PTL

\* No phase writes over what a source ended as: while an ingest can still write
\* the file of its source, the file is not there yet or says pending.
THEOREM SourcesEndOnce == Spec => EndsOnce
<1>1. TypeOK /\ Progress /\ [Next]_vars =>
          [\A s \in Sources :
              source[s].status \in {"succeeded", "failed"} => source'[s] = source[s]]_vars
  <2> SUFFICES ASSUME TypeOK, Progress, Next,
                      NEW s \in Sources, source[s].status \in {"succeeded", "failed"}
               PROVE  source'[s] = source[s]
    BY DEF vars
  <2>1. PICK r \in Sources : Ingest(r) \/ WriteLost(r) \/ WriteTorn(r) \/ Crash(r)
    BY DEF Next
  <2>2. CASE r # s
    BY <2>1, <2>2 DEF Ingest, Announce, Fetch, Extract, Chunk, WriteChunk, Succeed, Fail,
                      WriteLost, WriteTorn, Crash, TypeOK
  <2>3. CASE r = s
    <3>1. pc[s] \notin {"announce", "write", "fail"}
      BY DEF Progress, Consistent
    <3> QED
      BY <2>1, <2>3, <3>1 DEF Ingest, Announce, Fetch, Extract, Chunk, WriteChunk, Succeed, Fail,
                              WriteLost, WriteTorn, Crash
  <2> QED
    BY <2>2, <2>3
<1> QED
  BY <1>1, Typing, ProgressHolds, PTL DEF Spec, EndsOnce

-----------------------------------------------------------------------------
(* The writes of an ingest, one file after the other, publish a document at *)
(* once.                                                                    *)

\* What a step of one ingest changes in what a reader finds of its source.
Settled(s) ==
    /\ Shown(s) = Reader!Nothing
    /\ \/ Shown(s)' = Reader!Failure
       \/ \E n \in 0 .. MaxChunks : Shown(s)' = Reader!Document(s, n)

LEMMA OthersShown ==
    ASSUME TypeOK, NEW s \in Sources, Ingest(s) \/ WriteLost(s) \/ WriteTorn(s) \/ Crash(s),
           NEW r \in Sources, r # s
    PROVE  Shown(r)' = Shown(r)
<1>1. source'[r] = source[r]
  BY DEF Ingest, Announce, Fetch, Extract, Chunk, WriteChunk, Succeed, Fail, WriteLost, WriteTorn, Crash, TypeOK
<1>2. chunks' = chunks \/ chunks' = chunks \cup {ChunkFile(s, index[s], count[s])}
  BY DEF Ingest, Announce, Fetch, Extract, Chunk, WriteChunk, Succeed, Fail, WriteLost, WriteTorn, Crash
<1>3. ChunksOf(r)' = ChunksOf(r)
  BY <1>2 DEF ChunksOf, ChunkFile
<1> QED
  BY <1>1, <1>3 DEF Shown

\* A source that succeeded shows its whole document.
WholeShown ==
    \A s \in Sources : source[s].status = "succeeded" =>
        \E n \in 0 .. MaxChunks : Shown(s) = Reader!Document(s, n)

LEMMA WholeIsShown == Spec => []WholeShown
<1>1. TypeOK /\ SucceededIsComplete => WholeShown
  <2> SUFFICES ASSUME TypeOK, SucceededIsComplete, NEW s \in Sources, source[s].status = "succeeded"
               PROVE  \E n \in 0 .. MaxChunks : Shown(s) = Reader!Document(s, n)
    BY DEF WholeShown
  <2> DEFINE n == source[s].chunk_count
  <2>1. n \in 0 .. MaxChunks
    BY DEF TypeOK
  <2>2. ChunksOf(s) = {ChunkFile(s, i, n) : i \in 0 .. n - 1}
    BY DEF SucceededIsComplete
  <2>3. Shown(s) = Reader!Document(s, n)
    BY <2>2 DEF Shown, Reader!Document, ChunkFile
  <2> QED
    BY <2>1, <2>3
<1> QED
  BY <1>1, Typing, SucceededMeansComplete, PTL

LEMMA OwnShown ==
    ASSUME TypeOK, Progress, WholeShown',
           NEW s \in Sources, Ingest(s) \/ WriteLost(s) \/ WriteTorn(s) \/ Crash(s)
    PROVE  Shown(s)' = Shown(s) \/ Settled(s)
<1>1. Consistent(s)
  BY DEF Progress
<1>2. CASE WriteChunk(s)
  <2>1. source' = source /\ source[s].status = "pending"
    BY <1>1, <1>2 DEF WriteChunk, Consistent
  <2> QED
    BY <2>1 DEF Shown
<1>3. CASE Announce(s)
  <2>1. /\ source[s].status = "absent" /\ source'[s].status = "pending"
        /\ source[s].chunk_count = 0 /\ source'[s].chunk_count = 0
    BY <1>1, <1>3 DEF Announce, Consistent, TypeOK
  <2> QED
    BY <2>1 DEF Shown
<1>4. CASE Succeed(s)
  <2>1. /\ source[s].status = "pending" /\ source'[s].status = "succeeded"
        /\ source[s].chunk_count = 0
    BY <1>1, <1>4 DEF Succeed, Consistent, TypeOK
  <2>2. \E n \in 0 .. MaxChunks : Shown(s)' = Reader!Document(s, n)
    BY <2>1 DEF WholeShown
  <2> QED
    BY <2>1, <2>2 DEF Shown, Settled, Reader!Nothing
<1>5. CASE Fail(s)
  <2>1. /\ source[s].status = "pending" /\ source'[s].status = "failed"
        /\ source[s].chunk_count = 0 /\ source'[s].chunk_count = 0
    BY <1>1, <1>5 DEF Fail, Consistent, TypeOK
  <2> QED
    BY <2>1 DEF Shown, Settled, Reader!Nothing, Reader!Failure
<1>7. CASE WriteTorn(s)
  <2>1. /\ source[s].status \in {"absent", "pending"} /\ source'[s].status \in {"torn", "pending"}
        /\ source[s].chunk_count = 0 /\ source'[s].chunk_count = 0
    BY <1>1, <1>7 DEF WriteTorn, Consistent, TypeOK
  <2> QED
    BY <2>1 DEF Shown
<1>6. CASE Fetch(s) \/ Extract(s) \/ Chunk(s) \/ WriteLost(s) \/ Crash(s)
  <2>1. UNCHANGED <<source, chunks>>
    BY <1>6 DEF Fetch, Extract, Chunk, WriteLost, WriteTorn, Crash
  <2> QED
    BY <2>1 DEF Shown, ChunksOf
<1> QED
  BY <1>2, <1>3, <1>4, <1>5, <1>6, <1>7 DEF Ingest

\* For a reader who goes by the status of a source, ingest publishes a document
\* at once, whole, once and for good, whatever fails (phases 1 to 4 of ingest).
THEOREM IngestPublishes == Spec => ImplementsPublication
<1> DEFINE seen == [s \in Sources |-> Shown(s)]
<1>1. Init => Reader!Init
  <2> SUFFICES ASSUME Init PROVE \A s \in Sources : Shown(s) = Reader!Nothing
    BY DEF Reader!Init
  <2>1. \A s \in Sources : source[s].status = "absent" /\ source[s].chunk_count = 0
    BY DEF Init
  <2> QED
    BY <2>1 DEF Shown, Reader!Nothing
<1>2. ASSUME TypeOK, Progress, WholeShown', [Next]_vars
      PROVE  [Reader!Next]_seen
  <2>1. CASE UNCHANGED vars
    BY <2>1 DEF vars, Shown, ChunksOf
  <2>2. CASE Next
    <3>1. PICK s \in Sources : Ingest(s) \/ WriteLost(s) \/ WriteTorn(s) \/ Crash(s)
      BY <2>2 DEF Next
    <3>2. \A r \in Sources \ {s} : Shown(r)' = Shown(r)
      BY <1>2, <3>1, OthersShown
    <3>3. CASE Shown(s)' = Shown(s)
      BY <3>2, <3>3
    <3>4. CASE Settled(s)
      <4>1. PICK outcome : /\ Shown(s)' = outcome
                           /\ \/ outcome = Reader!Failure
                              \/ \E n \in 0 .. MaxChunks : outcome = Reader!Document(s, n)
        BY <3>4 DEF Settled
      <4>2. seen' = [seen EXCEPT ![s] = outcome] /\ seen[s] = Reader!Nothing
        BY <3>2, <3>4, <4>1 DEF Settled
      <4>3. Reader!Settle(s, outcome)
        BY <4>2 DEF Reader!Settle
      <4> QED
        BY <4>1, <4>3 DEF Reader!Next, Reader!Publish, Reader!Fail
    <3> QED
      BY <1>2, <3>1, <3>3, <3>4, OwnShown
  <2> QED
    BY <1>2, <2>1, <2>2
<1> QED
  BY <1>1, <1>2, Typing, ProgressHolds, WholeIsShown, PTL
  DEF Spec, ImplementsPublication, Reader!Spec
=============================================================================
