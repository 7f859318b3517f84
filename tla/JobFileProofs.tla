---------------------------- MODULE JobFileProofs ----------------------------
(***************************************************************************)
(* Proofs about Frontmatter and JobFile: what is written reads back, for   *)
(* every body and however often notes are added to it.                     *)
(***************************************************************************)
EXTENDS JobFile, SequenceTheorems, WellFoundedInduction, TLAPS

\* text is the lines Render makes of a mapping and a body.
Rendered(text, T, metadata, body) ==
    /\ text \in Seq(T) /\ Len(text) = Len(body) + 4 /\ Len(body) \in Nat
    /\ text[1] = Fence /\ text[2] = Yaml(metadata) /\ text[3] = Fence /\ text[4] = Blank
    /\ \A i \in 1..Len(body) : text[i + 4] = body[i]

LEMMA RenderLines ==
    ASSUME NEW S, NEW metadata, metadata # NoMetadata, NEW body \in Seq(S)
    PROVE  Rendered(Render(metadata, body), S \cup {Fence, Blank, Yaml(metadata)}, metadata, body)
<1> DEFINE T == S \cup {Fence, Blank, Yaml(metadata)}
           top == <<Fence, Yaml(metadata), Fence, Blank>>
           text == Render(metadata, body)
<1>1. top \in Seq(T) /\ Len(top) = 4
      /\ top[1] = Fence /\ top[2] = Yaml(metadata) /\ top[3] = Fence /\ top[4] = Blank
  OBVIOUS
<1>2. body \in Seq(T) /\ Len(body) \in Nat
  <2>1. S \subseteq T
    OBVIOUS
  <2>2. \A i \in 1..Len(body) : body[i] \in T
    BY <2>1, ElementOfSeq
  <2> QED
    BY <2>2, LenProperties
<1>3. text = top \o body
  BY DEF Render
<1> HIDE DEF top, text, T
<1>4. /\ top \o body \in Seq(T) /\ Len(top \o body) = Len(top) + Len(body)
      /\ \A i \in 1..(Len(top) + Len(body)) :
            (top \o body)[i] = IF i <= Len(top) THEN top[i] ELSE body[i - Len(top)]
  BY <1>1, <1>2, ConcatProperties
<1>5. \A i \in 1..Len(body) : i + 4 \in 1..(4 + Len(body)) /\ ~(i + 4 <= 4) /\ (i + 4) - 4 = i
  BY <1>2
<1>6. 1 \in 1..(4 + Len(body)) /\ 2 \in 1..(4 + Len(body)) /\ 3 \in 1..(4 + Len(body))
      /\ 4 \in 1..(4 + Len(body))
  BY <1>2
<1>7. text \in Seq(T) /\ Len(text) = Len(body) + 4
  BY <1>1, <1>2, <1>3, <1>4
<1>8. text[1] = Fence /\ text[2] = Yaml(metadata) /\ text[3] = Fence /\ text[4] = Blank
  BY <1>1, <1>3, <1>4, <1>6
<1>9. \A i \in 1..Len(body) : text[i + 4] = body[i]
  BY <1>1, <1>3, <1>4, <1>5
<1> QED
  BY <1>2, <1>7, <1>8, <1>9 DEF text, T, Rendered

\* parse_frontmatter(render_frontmatter(m, b)) == (m, b), for every mapping with
\* a key and every body, one that holds fences or begins with blank lines too
\* (frontmatter.py, the docstring of render_frontmatter).
THEOREM RoundTrip ==
    ASSUME NEW S, NEW metadata, metadata # NoMetadata, NEW body \in Seq(S), body # <<>>
    PROVE  /\ WellFormed(Render(metadata, body))
           /\ Metadata(Render(metadata, body)) = metadata
           /\ Body(Render(metadata, body)) = body
<1> DEFINE text == Render(metadata, body)
           T == S \cup {Fence, Blank, Yaml(metadata)}
<1>1. /\ text \in Seq(T) /\ Len(text) = Len(body) + 4 /\ Len(body) \in Nat
      /\ text[1] = Fence /\ text[2] = Yaml(metadata) /\ text[3] = Fence /\ text[4] = Blank
      /\ \A i \in 1..Len(body) : text[i + 4] = body[i]
  <2>1. Rendered(Render(metadata, body), S \cup {Fence, Blank, Yaml(metadata)}, metadata, body)
    BY RenderLines
  <2> QED
    BY <2>1 DEF Rendered
<1>2. Len(body) \in Nat \ {0}
  BY <1>1, EmptySeq
<1> HIDE DEF text, T
<1>3. Yaml(metadata).kind = "yaml" /\ Yaml(metadata).metadata = metadata /\ Yaml(metadata) # Fence
  <2>1. Yaml(metadata).kind = "yaml" /\ Yaml(metadata).metadata = metadata
    BY DEF Yaml
  <2>2. Fence.kind = "fence"
    BY DEF Fence
  <2> QED
    BY <2>1, <2>2
<1>4. Closing(text) = 3
  <2>1. 3 \in Closings(text)
    BY <1>1, <1>2 DEF Closings
  <2>2. \A i \in Closings(text) : i \in Nat /\ 3 <= i
    BY <1>1, <1>3 DEF Closings
  <2>3. \A i \in Closings(text) : (\A j \in Closings(text) : i <= j) => i = 3
    BY <2>1, <2>2
  <2> QED
    BY <2>1, <2>2, <2>3 DEF Closing
<1>5. \A m \in 1..Len(text), n \in 1..Len(text) : m <= n =>
        /\ SubSeq(text, m, n) \in Seq(T) /\ Len(SubSeq(text, m, n)) = n - m + 1
        /\ \A i \in 1..(n - m + 1) : SubSeq(text, m, n)[i] = text[m + i - 1]
  <2> TAKE m \in 1..Len(text), n \in 1..Len(text)
  <2> HAVE m <= n
  <2>1. \A i \in m..n : text[i] \in T
    <3>1. \A i \in m..n : i \in 1..Len(text)
      BY <1>1
    <3> QED
      BY <1>1, <3>1, ElementOfSeq
  <2>2. m \in Int /\ n \in Int
    OBVIOUS
  <2> QED
    BY <1>1, <2>1, <2>2, SubSeqProperties
<1>6. Block(text) = SubSeq(text, 2, 2) /\ Behind(text) = SubSeq(text, 4, Len(text))
  BY <1>4 DEF Block, Behind
<1>7. Len(Block(text)) = 1 /\ Block(text)[1] = Yaml(metadata)
  BY <1>1, <1>2, <1>5, <1>6
<1>8. /\ Behind(text) \in Seq(T) /\ Len(Behind(text)) = Len(body) + 1 /\ Behind(text)[1] = Blank
      /\ \A i \in 1..Len(body) : Behind(text)[i + 1] = body[i]
  <2>1. 4 \in 1..Len(text) /\ Len(text) \in 1..Len(text) /\ Len(text) - 4 + 1 = Len(body) + 1
    BY <1>1, <1>2
  <2>2. /\ Behind(text) \in Seq(T) /\ Len(Behind(text)) = Len(body) + 1
        /\ \A i \in 1..(Len(body) + 1) : Behind(text)[i] = text[4 + i - 1]
    BY <1>5, <1>6, <2>1
  <2>3. \A i \in 1..Len(body) : i + 1 \in 1..(Len(body) + 1) /\ 4 + (i + 1) - 1 = i + 4
    BY <1>1
  <2>4. 1 \in 1..(Len(body) + 1) /\ 4 + 1 - 1 = 4
    BY <1>1
  <2> QED
    BY <1>1, <2>2, <2>3, <2>4
<1>9. StripBlank(Behind(text)) = body
  <2> DEFINE l == Behind(text)
             s == SubSeq(l, 2, Len(l))
  <2>1. StripBlank(l) = s
    BY <1>2, <1>8 DEF StripBlank
  <2>2. /\ s \in Seq(T) /\ Len(s) = Len(body)
        /\ \A i \in 1..Len(body) : s[i] = l[i + 1]
    <3>1. \A i \in 2..Len(l) : l[i] \in T
      <4>1. \A i \in 2..Len(l) : i \in 1..Len(l)
        OBVIOUS
      <4> QED
        BY <1>8, <4>1, ElementOfSeq
    <3>2. 2 \in Int /\ Len(l) \in Int /\ 2 <= Len(l) /\ Len(l) - 2 + 1 = Len(body)
      BY <1>2, <1>8
    <3> HIDE DEF l
    <3>3. /\ s \in Seq(T) /\ Len(s) = Len(body)
          /\ \A i \in 1..Len(body) : s[i] = l[2 + i - 1]
      BY <3>1, <3>2, SubSeqProperties
    <3>4. \A i \in 1..Len(body) : 2 + i - 1 = i + 1
      BY <1>1
    <3> QED
      BY <3>3, <3>4
  <2>3. \A i \in 1..Len(body) : s[i] = body[i]
    BY <1>8, <2>2
  <2>4. body \in Seq(S)
    OBVIOUS
  <2> HIDE DEF s, l
  <2>5. s = body
    BY <2>2, <2>3, <2>4, SeqEqual
  <2> QED
    BY <2>1, <2>5 DEF l
<1>10. Opened(text) /\ IsMapping(Block(text)) /\ Closings(text) # {} /\ Behind(text) # <<>>
  <2>1. 3 \in Closings(text)
    BY <1>1, <1>2 DEF Closings
  <2>2. Behind(text) # <<>>
    BY <1>1, <1>8, EmptySeq
  <2> QED
    BY <1>1, <1>3, <1>7, <2>1, <2>2 DEF Opened, IsMapping
<1>11. WellFormed(text) /\ Metadata(text) = metadata /\ Body(text) = body
  BY <1>3, <1>7, <1>9, <1>10 DEF WellFormed, Metadata, Body
<1> QED
  BY <1>11 DEF text

-----------------------------------------------------------------------------
(* The files of the queue.                                                 *)

Text == [kind |-> "text"]
AnyLine ==
    {Fence, Blank, Note, Text}
        \cup {[kind |-> "text", status |-> s, attempts |-> n] : s \in Statuses, n \in Nat}
Bodylike(lines) == lines \in Seq(AnyLine) /\ lines # <<>>

Joblike(job) == job # NoMetadata /\ job.status \in Statuses /\ job.attempts \in Nat

\* The note is there: what NoteTellsReclaim says of the file, said of what was
\* written.
Noted(metadata, body) ==
    metadata.status = "pending" /\ metadata.attempts > 0 =>
        Len(body) > 2 /\ body[Len(body) - 1] = Note

\* The file is what its last writer meant it to be, and a file that does not
\* parse is nobody's job.
FileInv ==
    /\ Bodylike(wrote.body)
    /\ wrote.metadata # NoMetadata =>
        /\ file = Render(wrote.metadata, wrote.body)
        /\ Joblike(wrote.metadata) /\ Noted(wrote.metadata, wrote.body)
    /\ wrote.metadata = NoMetadata => ~Readable(file) /\ worker.pc = "idle" /\ watchdog.pc = "idle"
    /\ worker.pc # "idle" => Joblike(worker.job)
    /\ worker.pc \in {"claiming", "resolving"} => worker.job.status # "pending"
    /\ watchdog.pc # "idle" => Joblike(watchdog.job)
    /\ watchdog.pc = "write" => Bodylike(watchdog.body)

LEMMA JobIsJoblike ==
    ASSUME NEW status \in Statuses, NEW n \in Nat, NEW c, NEW a, NEW r
    PROVE  /\ Joblike(Job(status, n, c, a, r))
           /\ Job(status, n, c, a, r).status = status /\ Job(status, n, c, a, r).attempts = n
<1>1. Job(status, n, c, a, r).status = status /\ Job(status, n, c, a, r).attempts = n
  BY DEF Job
<1>2. Job(status, n, c, a, r) # NoMetadata
  <2>1. "status" \in DOMAIN Job(status, n, c, a, r)
    BY DEF Job
  <2>2. "status" \notin DOMAIN NoMetadata
    BY DEF NoMetadata
  <2> QED
    BY <2>1, <2>2
<1> QED
  BY <1>1, <1>2 DEF Joblike

LEMMA NewBodyIsBodylike ==
    ASSUME NEW job, Joblike(job) PROVE Bodylike(NewBody(job))
<1>1. [kind |-> "text", status |-> job.status, attempts |-> job.attempts] \in AnyLine /\ Blank \in AnyLine
  BY DEF AnyLine, Joblike
<1> QED
  BY <1>1 DEF NewBody, Bodylike

\* A note goes behind everything that is there.
LEMMA AnnotatedBody ==
    ASSUME NEW body, Bodylike(body), NEW job
    PROVE  LET b == Annotated(body, job)
           IN  Bodylike(b) /\ Len(b) > 2 /\ b[Len(b) - 1] = Note
<1> DEFINE tail == <<Note, Blank>>
           b == Annotated(body, job)
<1>1. tail \in Seq(AnyLine) /\ Len(tail) = 2 /\ tail[1] = Note
  BY DEF AnyLine
<1>2. Len(body) \in Nat \ {0} /\ body \in Seq(AnyLine)
  BY LenProperties, EmptySeq DEF Bodylike
<1>3. b = body \o tail
  BY DEF Annotated
<1> HIDE DEF tail, b
<1>4. /\ b \in Seq(AnyLine) /\ Len(b) = Len(body) + 2
      /\ \A i \in 1..(Len(body) + 2) : b[i] = IF i <= Len(body) THEN body[i] ELSE tail[i - Len(body)]
  <2>1. /\ body \o tail \in Seq(AnyLine) /\ Len(body \o tail) = Len(body) + Len(tail)
        /\ \A i \in 1..(Len(body) + Len(tail)) :
              (body \o tail)[i] = IF i <= Len(body) THEN body[i] ELSE tail[i - Len(body)]
    BY <1>1, <1>2, ConcatProperties
  <2> QED
    BY <1>1, <1>3, <2>1
<1>5. b[Len(b) - 1] = Note
  <2>1. Len(b) - 1 = Len(body) + 1 /\ Len(body) + 1 \in 1..(Len(body) + 2)
        /\ ~(Len(body) + 1 <= Len(body)) /\ (Len(body) + 1) - Len(body) = 1
    BY <1>2, <1>4
  <2> QED
    BY <1>1, <1>4, <2>1
<1>6. b # <<>> /\ Len(b) > 2
  BY <1>2, <1>4, EmptySeq
<1> QED
  BY <1>4, <1>5, <1>6 DEF b, Bodylike

\* A fence put before a body that tells nothing does not make a job of it.
LEMMA BrokenFile ==
    ASSUME NEW body \in Seq({Fence, Blank, Text}), body # <<>>
    PROVE  ~Readable(<<Fence>> \o body)
<1> DEFINE text == <<Fence>> \o body
           T == {Fence, Blank, Text}
<1>1. text \in Seq(T) /\ Len(text) \in Nat
  <2>1. <<Fence>> \in Seq(T)
    OBVIOUS
  <2> QED
    BY <2>1, ConcatProperties, LenProperties
<1> HIDE DEF text
<1>2. SUFFICES ASSUME WellFormed(text), Opened(text), IsMapping(Block(text)) PROVE FALSE
  BY DEF Readable, Metadata, text
<1>3. Closing(text) \in 2..Len(text)
  <2>1. Closings(text) # {} /\ Closings(text) \subseteq Nat /\ Closings(text) \subseteq 2..Len(text)
    BY <1>1, <1>2 DEF WellFormed, Closings
  <2>2. PICK i \in Closings(text) : \A j \in Closings(text) : ~(<<j, i>> \in OpToRel(<, Nat))
    BY <2>1, NatLessThanWellFounded, WFMin
  <2>3. \A j \in Closings(text) : i <= j
    <3> TAKE j \in Closings(text)
    <3>1. i \in Nat /\ j \in Nat /\ ~(<<j, i>> \in OpToRel(<, Nat))
      BY <2>1, <2>2
    <3> QED
      BY <3>1 DEF OpToRel
  <2>4. Closing(text) \in Closings(text)
    BY <2>3 DEF Closing
  <2> QED
    BY <2>1, <2>4
<1>4. Block(text) \in Seq(T)
  <2>1. 2 \in Int /\ Closing(text) - 1 \in Int /\ \A i \in 2..(Closing(text) - 1) : i \in 1..Len(text)
    BY <1>1, <1>3
  <2>2. \A i \in 2..(Closing(text) - 1) : text[i] \in T
    BY <1>1, <2>1, ElementOfSeq
  <2> QED
    BY <1>1, <2>1, <2>2, SubSeqProperties DEF Block
<1>5. Block(text)[1] \in T
  <2>1. 1 \in 1..Len(Block(text))
    BY <1>2 DEF IsMapping
  <2> QED
    BY <1>4, <2>1, ElementOfSeq
<1>6. Fence.kind # "yaml" /\ Blank.kind # "yaml" /\ Text.kind # "yaml"
  BY DEF Fence, Blank, Text
<1> QED
  BY <1>2, <1>5, <1>6 DEF IsMapping

\* What was written is what the file reads back as.
LEMMA WrittenReadsBack ==
    ASSUME FileInv, wrote.metadata # NoMetadata
    PROVE  Readable(file) /\ Metadata(file) = wrote.metadata /\ Body(file) = wrote.body
<1>1. /\ WellFormed(Render(wrote.metadata, wrote.body))
      /\ Metadata(Render(wrote.metadata, wrote.body)) = wrote.metadata
      /\ Body(Render(wrote.metadata, wrote.body)) = wrote.body
  BY RoundTrip DEF FileInv, Bodylike
<1> QED
  BY <1>1 DEF FileInv, Readable

LEMMA FileInvInit == Init => FileInv
<1> SUFFICES ASSUME Init PROVE FileInv
  OBVIOUS
<1>1. PICK body \in Bodies :
        \/ file = Render(Unset, body) /\ wrote = [metadata |-> Unset, body |-> body]
        \/ file = <<Fence>> \o body /\ wrote = [metadata |-> NoMetadata, body |-> body]
  BY DEF Init
<1>2. body \in Seq({Fence, Blank, Text}) /\ body # <<>>
  BY JobFileAssumption DEF Text
<1>3. Bodylike(body)
  <2>1. \A i \in 1..Len(body) : body[i] \in AnyLine
    BY <1>2, ElementOfSeq DEF AnyLine
  <2> QED
    BY <1>2, <2>1, LenProperties DEF Bodylike
<1>4. Joblike(Unset) /\ Noted(Unset, body)
  BY JobIsJoblike DEF Unset, Statuses, Noted
<1>5. worker.pc = "idle" /\ watchdog.pc = "idle"
  BY DEF Init, Idle, WatchIdle
<1>6. CASE file = Render(Unset, body) /\ wrote = [metadata |-> Unset, body |-> body]
  BY <1>3, <1>4, <1>5, <1>6 DEF FileInv, Joblike
<1>7. CASE file = <<Fence>> \o body /\ wrote = [metadata |-> NoMetadata, body |-> body]
  BY <1>2, <1>3, <1>5, <1>7, BrokenFile DEF FileInv
<1> QED
  BY <1>1, <1>6, <1>7

LEMMA FileInvStep == FileInv /\ [Next]_vars => FileInv'
<1> SUFFICES ASSUME FileInv, [Next]_vars PROVE FileInv'
  OBVIOUS
<1> USE DEF FileInv
<1>1. CASE Scan
  <2>1. wrote.metadata # NoMetadata
    BY <1>1 DEF Scan
  <2>2. Joblike(Metadata(file))
    BY <2>1, WrittenReadsBack
  <2> QED
    BY <1>1, <2>1, <2>2 DEF Scan, Joblike, Bodylike, Noted, Readable
<1>2. CASE Claim
  <2>1. worker.pc = "claim" /\ Joblike(worker.job) /\ wrote.metadata # NoMetadata
    BY <1>2 DEF Claim
  <2>2. worker.job.attempts + 1 \in Nat /\ "running" \in Statuses
    BY <2>1 DEF Joblike, Statuses
  <2>3. Joblike(worker'.job) /\ worker'.job.status = "running"
    BY <1>2, <2>2, JobIsJoblike DEF Claim
  <2> QED
    BY <1>2, <2>1, <2>3 DEF Claim
<1>3. CASE Resolve
  <2>1. worker.pc = "run" /\ worker.job.attempts \in Nat /\ wrote.metadata # NoMetadata
    BY <1>3 DEF Resolve, Joblike
  <2>2. {"succeeded", "dead", "failed"} \subseteq Statuses
    BY DEF Statuses
  <2>3. PICK status \in {"succeeded", "dead", "failed"} : \E c, a, r :
            worker' = [pc |-> "resolving", job |-> Job(status, worker.job.attempts, c, a, r)]
    BY <1>3 DEF Resolve
  <2>4. Joblike(worker'.job) /\ worker'.job.status # "pending"
    BY <2>1, <2>2, <2>3, JobIsJoblike
  <2> QED
    BY <1>3, <2>1, <2>3, <2>4 DEF Resolve
<1>4. CASE WriteJob
  <2>1. /\ worker.pc \in {"claiming", "resolving"} /\ Joblike(worker.job)
        /\ worker.job.status # "pending" /\ Write(worker.job, NewBody(worker.job))
    BY <1>4 DEF WriteJob
  <2>2. Bodylike(NewBody(worker.job)) /\ Noted(worker.job, NewBody(worker.job))
    BY <2>1, NewBodyIsBodylike DEF Noted
  <2>3. \/ worker'.pc = "run" /\ worker'.job = worker.job
        \/ worker'.pc = "idle"
    BY <1>4 DEF WriteJob, Idle
  <2>4. UNCHANGED watchdog
    BY <1>4 DEF WriteJob
  <2>5. PICK job, body : job = worker.job /\ body = NewBody(worker.job)
    OBVIOUS
  <2>6. wrote'.metadata = job /\ wrote'.body = body /\ file' = Render(job, body)
    BY <2>1, <2>5 DEF Write
  <2> QED
    BY <2>1, <2>2, <2>3, <2>4, <2>5, <2>6 DEF Joblike, Bodylike, Noted
<1>5. CASE ScanStalled
  <2>1. wrote.metadata # NoMetadata
    BY <1>5 DEF ScanStalled
  <2>2. Joblike(Metadata(file))
    BY <2>1, WrittenReadsBack
  <2>3. watchdog'.pc # "write" /\ (watchdog'.pc # "idle" => Joblike(watchdog'.job))
    BY <1>5, <2>2 DEF ScanStalled
  <2> QED
    BY <1>5, <2>1, <2>3 DEF ScanStalled
<1>6. CASE ReadBody
  <2>1. wrote.metadata # NoMetadata /\ watchdog.pc = "read" /\ Joblike(watchdog.job)
    BY <1>6 DEF ReadBody
  <2>2. Bodylike(Body(file))
    BY <2>1, WrittenReadsBack
  <2>3. watchdog'.job = watchdog.job /\ watchdog'.body = Body(file)
    BY <1>6 DEF ReadBody
  <2> QED
    BY <1>6, <2>1, <2>2, <2>3 DEF ReadBody
<1>7. CASE Reclaim
  <2> DEFINE job == Job("pending", watchdog.job.attempts, None, None, None)
             body == Annotated(watchdog.body, job)
  <2>1. watchdog.pc = "write" /\ Joblike(watchdog.job) /\ Bodylike(watchdog.body)
        /\ wrote.metadata # NoMetadata /\ Write(job, body) /\ watchdog'.pc = "idle" /\ UNCHANGED worker
    BY <1>7 DEF Reclaim, WatchIdle
  <2>2. Joblike(job)
    BY <2>1, JobIsJoblike DEF Joblike, Statuses
  <2> HIDE DEF job
  <2>3. Bodylike(body) /\ Len(body) > 2 /\ body[Len(body) - 1] = Note
    BY <2>1, AnnotatedBody
  <2>4. Noted(job, body)
    BY <2>3 DEF Noted
  <2> HIDE DEF body
  <2>5. wrote'.metadata = job /\ wrote'.body = body /\ file' = Render(job, body)
    BY <2>1 DEF Write
  <2> QED
    BY <2>1, <2>2, <2>3, <2>4, <2>5 DEF Joblike, Bodylike, Noted
<1>8. CASE Tick \/ SetClock \/ UNCHANGED vars
  BY <1>8 DEF Tick, SetClock, vars, Readable
<1>9. CASE Restart
  BY <1>9 DEF Restart, Idle, WatchIdle, Readable
<1> QED
  BY <1>1, <1>2, <1>3, <1>4, <1>5, <1>6, <1>7, <1>8, <1>9 DEF Next

LEMMA FileInvariance == Spec => []FileInv
<1> QED
  BY FileInvInit, FileInvStep, PTL DEF Spec

\* A job file always reads back as the job and the body that were written last:
\* through any number of claims, retries and reclaims, and any body to begin with.
THEOREM FilesReadBack == Spec => []ReadsBack
<1>1. FileInv => ReadsBack
  BY WrittenReadsBack DEF ReadsBack
<1> QED
  BY <1>1, FileInvariance, PTL

\* A job that a reclaim made pending again says so in its body (reclaim and
\* _append_reclaim_note).
THEOREM ReclaimsAreNoted == Spec => []NoteTellsReclaim
<1>1. FileInv => NoteTellsReclaim
  BY WrittenReadsBack DEF NoteTellsReclaim, FileInv, Noted
<1> QED
  BY <1>1, FileInvariance, PTL

-----------------------------------------------------------------------------
(* The powers of two of the backoff.  PowerOfTwo is a recursive function:   *)
(* that there is one that meets its equation, and that its values are       *)
(* numbers, is induction over sets of numbers.                              *)

\* Induction over a set of numbers.
LEMMA SetInduction ==
    ASSUME NEW T, T \subseteq Nat, 0 \in T, \A n \in T : n + 1 \in T
    PROVE  T = Nat
<1> SUFFICES ASSUME Nat \ T # {} PROVE FALSE
  OBVIOUS
<1>1. PICK n \in Nat \ T : \A i \in Nat \ T : ~(<<i, n>> \in OpToRel(<, Nat))
  <2>1. Nat \ T \subseteq Nat
    OBVIOUS
  <2> QED
    BY <2>1, NatLessThanWellFounded, WFMin
<1>2. \A i \in Nat \ T : n <= i
  <2> TAKE i \in Nat \ T
  <2>1. i \in Nat /\ n \in Nat /\ ~(<<i, n>> \in OpToRel(<, Nat))
    BY <1>1
  <2> QED
    BY <2>1 DEF OpToRel
<1>3. n # 0 /\ n - 1 \in Nat
  OBVIOUS
<1>4. n - 1 \in T
  BY <1>2, <1>3
<1> QED
  BY <1>4

\* g is a table of the powers up to n.
Doubles(g, n) == g \in [0..n -> Nat] /\ g[0] = 1 /\ \A i \in 1..n : g[i] = 2 * g[i - 1]

Shorter(g, n) == [i \in 0..n |-> g[i]]

\* A table, cut short, is a table.
LEMMA DoublesShorter ==
    ASSUME NEW n \in Nat, NEW g, Doubles(g, n + 1)
    PROVE  /\ Doubles(Shorter(g, n), n) /\ Shorter(g, n)[n] = g[n]
           /\ g[n + 1] = 2 * g[n] /\ g[n] \in Nat
  BY DEF Doubles, Shorter

\* There is a table of any length, and its last entry is the only one possible.
LEMMA DoublesExist == \A n \in Nat : \E g : Doubles(g, n)
<1> DEFINE T == {n \in Nat : \E g : Doubles(g, n)}
<1>1. 0 \in T
  <2>1. Doubles([i \in 0..0 |-> 1], 0)
    BY DEF Doubles
  <2> QED
    BY <2>1
<1>2. ASSUME NEW n \in T PROVE n + 1 \in T
  <2>1. PICK g : Doubles(g, n)
    OBVIOUS
  <2> DEFINE h == [i \in 0..(n + 1) |-> IF i = n + 1 THEN 2 * g[n] ELSE g[i]]
  <2>2. g[n] \in Nat /\ \A i \in 0..n : g[i] \in Nat
    BY <2>1 DEF Doubles
  <2>3. h \in [0..(n + 1) -> Nat] /\ h[0] = 1
    BY <2>1, <2>2 DEF Doubles
  <2>4. ASSUME NEW i \in 1..(n + 1) PROVE h[i] = 2 * h[i - 1]
    BY <2>1, <2>2 DEF Doubles
  <2>5. Doubles(h, n + 1)
    BY <2>3, <2>4 DEF Doubles
  <2> QED
    BY <2>5
<1> HIDE DEF T
<1>3. T = Nat
  <2>1. T \subseteq Nat
    BY DEF T
  <2> QED
    BY <1>1, <1>2, <2>1, SetInduction
<1> QED
  BY <1>3 DEF T

LEMMA DoublesUnique ==
    \A n \in Nat : \A g, h : Doubles(g, n) /\ Doubles(h, n) => g[n] = h[n]
<1> DEFINE T == {n \in Nat : \A g, h : Doubles(g, n) /\ Doubles(h, n) => g[n] = h[n]}
<1>1. 0 \in T
  BY DEF Doubles
<1>2. ASSUME NEW n \in T PROVE n + 1 \in T
  <2> SUFFICES ASSUME NEW g, NEW h, Doubles(g, n + 1), Doubles(h, n + 1)
               PROVE  g[n + 1] = h[n + 1]
    OBVIOUS
  <2>1. n \in Nat /\ Shorter(g, n)[n] = Shorter(h, n)[n]
    BY DoublesShorter
  <2> QED
    BY <2>1, DoublesShorter
<1> HIDE DEF T
<1>3. T = Nat
  <2>1. T \subseteq Nat
    BY DEF T
  <2> QED
    BY <1>1, <1>2, <2>1, SetInduction
<1> QED
  BY <1>3 DEF T

\* The equation that defines PowerOfTwo has a solution, so PowerOfTwo is one.
LEMMA PowerOfTwoDef ==
    PowerOfTwo = [n \in Nat |-> IF n = 0 THEN 1 ELSE 2 * PowerOfTwo[n - 1]]
<1> DEFINE chosen(n) == CHOOSE g : Doubles(g, n)
           f == [n \in Nat |-> chosen(n)[n]]
<1>1. \A n \in Nat : Doubles(chosen(n), n)
  BY DoublesExist
<1> HIDE DEF chosen
<1>2. chosen(0)[0] = 1
  BY <1>1 DEF Doubles
<1>3. ASSUME NEW n \in Nat, n # 0 PROVE chosen(n)[n] = 2 * chosen(n - 1)[n - 1]
  <2> DEFINE m == n - 1
  <2>1. m \in Nat /\ n = m + 1
    BY <1>3
  <2> HIDE DEF m
  <2>2. Doubles(chosen(m + 1), m + 1) /\ Doubles(chosen(m), m)
    BY <1>1, <2>1
  <2>3. Shorter(chosen(m + 1), m)[m] = chosen(m)[m]
    BY <2>1, <2>2, DoublesShorter, DoublesUnique
  <2>4. chosen(m + 1)[m + 1] = 2 * chosen(m)[m]
    BY <2>1, <2>2, <2>3, DoublesShorter
  <2> QED
    BY <2>1, <2>4 DEF m
<1>4. f = [n \in Nat |-> IF n = 0 THEN 1 ELSE 2 * f[n - 1]]
  <2>1. ASSUME NEW n \in Nat PROVE chosen(n)[n] = IF n = 0 THEN 1 ELSE 2 * f[n - 1]
    BY <1>2, <1>3
  <2> QED
    BY <2>1
<1> HIDE DEF f
<1> QED
  BY <1>4 DEF PowerOfTwo

\* Every power of two is a positive number.
LEMMA PowersAreNumbers == \A n \in Nat : PowerOfTwo[n] \in Nat \ {0}
<1> DEFINE T == {n \in Nat : PowerOfTwo[n] \in Nat \ {0}}
<1>1. PowerOfTwo[0] = 1 /\ \A n \in Nat : PowerOfTwo[n + 1] = 2 * PowerOfTwo[n]
  <2>1. PICK f : f = PowerOfTwo /\ f = [n \in Nat |-> IF n = 0 THEN 1 ELSE 2 * f[n - 1]]
    BY PowerOfTwoDef
  <2>2. ASSUME NEW n \in Nat PROVE f[n + 1] = 2 * f[n]
    BY <2>1
  <2> QED
    BY <2>1, <2>2
<1>2. 0 \in T /\ \A n \in T : n + 1 \in T
  BY <1>1
<1> HIDE DEF T
<1>3. T = Nat
  <2>1. T \subseteq Nat
    BY DEF T
  <2> QED
    BY <1>2, <2>1, SetInduction
<1> QED
  BY <1>3 DEF T

-----------------------------------------------------------------------------
(* Stamps: whole seconds cut from a clock of ticks.                         *)

LEMMA Quotient ==
    ASSUME NEW a \in Int, NEW d \in Nat \ {0}
    PROVE  a \div d \in Int /\ d * (a \div d) <= a /\ a < d * (a \div d) + d
  OBVIOUS

LEMMA QuotientGrows ==
    ASSUME NEW a \in Int, NEW b \in Int, NEW d \in Nat \ {0}, a <= b
    PROVE  a \div d <= b \div d
  BY Quotient

LEMMA QuotientShifts ==
    ASSUME NEW a \in Int, NEW b \in Int, NEW d \in Nat \ {0}
    PROVE  (a + b * d) \div d = a \div d + b
  BY Quotient

\* A time has come on the clock that is cut to seconds as soon as it has come,
\* and no more than a second before.
LEMMA CutClock ==
    ASSUME NEW now \in Int, NEW time \in Int
    PROVE  /\ Seconds(now) \in Int
           /\ now >= time => Seconds(now) >= Seconds(time)
           /\ Seconds(now) >= Seconds(time) => now > time - TicksPerSecond
<1>1. TicksPerSecond \in Nat \ {0}
  BY JobFileAssumption
<1>2. now >= time => Seconds(now) >= Seconds(time)
  BY <1>1, QuotientGrows DEF Seconds
<1>3. /\ Seconds(now) \in Int /\ Seconds(time) \in Int
      /\ TicksPerSecond * Seconds(now) <= now
      /\ time < TicksPerSecond * Seconds(time) + TicksPerSecond
  BY <1>1, Quotient DEF Seconds
<1>4. Seconds(now) >= Seconds(time) => now > time - TicksPerSecond
  <2>1. \A q \in Int, r \in Int : q >= r => TicksPerSecond * q >= TicksPerSecond * r
    BY <1>1
  <2> QED
    BY <1>1, <1>3, <2>1
<1> QED
  BY <1>2, <1>3, <1>4

\* Whole seconds more on the clock are as many more on the stamp.
LEMMA CutLater ==
    ASSUME NEW now \in Int, NEW s \in Int
    PROVE  Seconds(now + s * TicksPerSecond) = Seconds(now) + s
  BY JobFileAssumption, QuotientShifts DEF Seconds

LEMMA StampsAreStamps ==
    ASSUME NEW now \in 0..MaxClock
    PROVE  /\ Seconds(now) \in 0..Seconds(MaxClock) /\ Seconds(MaxClock) \in Nat
           /\ \A s \in 0..MaxDelay : Seconds(now + s * TicksPerSecond) \in Stamps
           /\ Seconds(now) \in Stamps
<1>1. MaxClock \in Nat /\ MaxDelay \in Nat /\ TicksPerSecond \in Nat \ {0}
  BY JobFileAssumption
<1>2. Seconds(0) = 0
  BY <1>1, Quotient DEF Seconds
<1>3. Seconds(now) \in 0..Seconds(MaxClock) /\ Seconds(MaxClock) \in Nat
  BY <1>1, <1>2, CutClock
<1>4. ASSUME NEW s \in 0..MaxDelay PROVE Seconds(now + s * TicksPerSecond) \in Stamps
  <2>1. Seconds(now + s * TicksPerSecond) = Seconds(now) + s
    BY <1>1, CutLater
  <2> QED
    BY <1>1, <1>3, <2>1 DEF Stamps
<1> QED
  BY <1>1, <1>3, <1>4 DEF Stamps

LEMMA DelayIsCapped ==
    ASSUME NEW n \in Nat PROVE Delay(n) \in 0..MaxDelay
  BY PowersAreNumbers, JobFileAssumption DEF Delay, Least

-----------------------------------------------------------------------------
(* Stamps and the clock.                                                    *)

\* A job, and its stamp is the clock that was read, cut to seconds.
Stamped(job) ==
    /\ IsJob(job)
    /\ job.status = "running" => job.read \in Nat /\ job.claimed_at = Seconds(job.read)
    /\ job.status = "failed" =>
        job.read \in Nat /\ job.next_attempt_at = Seconds(After(job, Delay(job.attempts)))

ClockInv ==
    /\ file # <<>>
    /\ clock \in 0..MaxClock /\ jumps \in 0..MaxJumps /\ late \in BOOLEAN
    /\ wrote.metadata # NoMetadata => Stamped(wrote.metadata)
    /\ worker.pc \in {"idle", "claim", "claiming", "run", "resolving"} /\ Stamped(worker.job)
    /\ worker.pc \in {"claiming", "run"} => worker.job.status = "running"
    /\ watchdog = [pc |-> watchdog.pc, job |-> watchdog.job, body |-> watchdog.body]
    /\ watchdog.pc \in {"idle", "read", "write"} /\ Stamped(watchdog.job)

\* What the watchdog has found stalled stays so while nobody sets the clock, and
\* what the worker runs is in the file until then.
UndisturbedInv ==
    jumps = 0 =>
        /\ watchdog.pc # "idle" => Stalled(watchdog.job)
        /\ worker.pc = "run" /\ ~late =>
            wrote.metadata = worker.job \/ clock > After(worker.job, StallThreshold - 1)

LEMMA JobIsStamped ==
    ASSUME NEW n \in Nat, NEW r
    PROVE  /\ \A status \in Statuses \ {"running", "failed"} :
                Stamped(Job(status, n, None, None, r))
           /\ r \in 0..MaxClock =>
                /\ Stamped(Job("running", n, Seconds(r), None, r))
                /\ Stamped(Job("failed", n, None, Seconds(r + Delay(n) * TicksPerSecond), r))
<1>1. None \notin Stamps
  BY JobFileAssumption, StampsAreStamps DEF Stamps, None
<1>2. ASSUME NEW status \in Statuses \ {"running", "failed"}
      PROVE  Stamped(Job(status, n, None, None, r))
  BY DEF Stamped, IsJob, Job
<1>3. ASSUME r \in 0..MaxClock PROVE Stamped(Job("running", n, Seconds(r), None, r))
  <2>1. Seconds(r) \in Stamps /\ r \in Nat /\ "running" \in Statuses
    BY <1>3, StampsAreStamps, JobFileAssumption DEF Statuses
  <2> QED
    BY <1>1, <2>1 DEF Stamped, IsJob, Job
<1>4. ASSUME r \in 0..MaxClock
      PROVE  Stamped(Job("failed", n, None, Seconds(r + Delay(n) * TicksPerSecond), r))
  <2>1. Seconds(r + Delay(n) * TicksPerSecond) \in Stamps /\ r \in Nat /\ "failed" \in Statuses
    <3>1. Delay(n) \in 0..MaxDelay
      BY DelayIsCapped
    <3>2. \A s \in 0..MaxDelay : Seconds(r + s * TicksPerSecond) \in Stamps
      BY <1>4, StampsAreStamps
    <3>3. Seconds(r + Delay(n) * TicksPerSecond) \in Stamps
      BY <3>1, <3>2
    <3> QED
      BY <1>4, <3>3, JobFileAssumption DEF Statuses
  <2> QED
    BY <1>1, <2>1 DEF Stamped, IsJob, Job, After
<1> QED
  BY <1>2, <1>3, <1>4

LEMMA RenderNotEmpty ==
    ASSUME NEW S, NEW metadata, metadata # NoMetadata, NEW body \in Seq(S)
    PROVE  Render(metadata, body) # <<>>
<1>1. Rendered(Render(metadata, body), S \cup {Fence, Blank, Yaml(metadata)}, metadata, body)
  BY RenderLines
<1> QED
  BY <1>1, EmptySeq DEF Rendered

LEMMA ClockInvInit == Init => ClockInv
<1> SUFFICES ASSUME Init PROVE ClockInv
  OBVIOUS
<1>1. Stamped(Unset)
  BY JobIsStamped DEF Unset, Statuses
<1>2. PICK body \in Bodies :
        \/ file = Render(Unset, body) /\ wrote = [metadata |-> Unset, body |-> body]
        \/ file = <<Fence>> \o body /\ wrote = [metadata |-> NoMetadata, body |-> body]
  BY DEF Init
<1>3. body \in Seq({Fence, Blank, Text}) /\ body # <<>>
  BY JobFileAssumption DEF Text
<1>4. file # <<>>
  <2>1. Unset # NoMetadata
    BY JobIsJoblike DEF Unset, Statuses, Joblike
  <2>2. CASE file = Render(Unset, body)
    BY <1>3, <2>1, <2>2, RenderNotEmpty
  <2>3. CASE file = <<Fence>> \o body
    <3>1. Len(<<Fence>> \o body) = 1 + Len(body) /\ Len(body) \in Nat
      BY <1>3, LenProperties
    <3> QED
      BY <2>3, <3>1
  <2> QED
    BY <1>2, <2>2, <2>3
<1>5. wrote.metadata # NoMetadata => wrote.metadata = Unset
  BY <1>2
<1>6. clock = 0 /\ late = FALSE /\ jumps = 0 /\ worker = Idle /\ watchdog = WatchIdle
  BY DEF Init
<1>7. /\ worker.pc = "idle" /\ worker.job = Unset
      /\ watchdog.pc = "idle" /\ watchdog.job = Unset
      /\ watchdog = [pc |-> watchdog.pc, job |-> watchdog.job, body |-> watchdog.body]
  BY <1>6 DEF Idle, WatchIdle
<1>8. clock \in 0..MaxClock /\ jumps \in 0..MaxJumps /\ late \in BOOLEAN
  <2>1. MaxClock \in Nat /\ MaxJumps \in Nat
    BY JobFileAssumption
  <2>2. clock \in 0..MaxClock /\ jumps \in 0..MaxJumps
    BY <1>6, <2>1, SMT
  <2>3. late \in BOOLEAN
    BY <1>6, Zenon
  <2> QED
    BY <2>2, <2>3
<1> QED
  BY <1>1, <1>4, <1>5, <1>7, <1>8 DEF ClockInv

LEMMA ClockInvStep == FileInv /\ ClockInv /\ [Next]_vars => ClockInv'
<1> SUFFICES ASSUME FileInv, ClockInv, [Next]_vars PROVE ClockInv'
  OBVIOUS
<1> USE DEF ClockInv
<1>1. CASE Scan
  <2>1. wrote.metadata # NoMetadata /\ Metadata(file) = wrote.metadata
    BY <1>1, WrittenReadsBack DEF Scan, FileInv
  <2>2. worker' = [pc |-> "claim", job |-> wrote.metadata]
    BY <1>1, <2>1 DEF Scan
  <2> QED
    BY <1>1, <2>1, <2>2 DEF Scan
<1>2. CASE Claim
  <2> DEFINE job == Job("running", worker.job.attempts + 1, Seconds(clock), None, clock)
  <2>1. worker.job.attempts + 1 \in Nat
    BY DEF Stamped, IsJob
  <2>2. Stamped(job) /\ job.status = "running"
    BY <2>1, JobIsStamped DEF Job
  <2> HIDE DEF job
  <2>3. worker' = [pc |-> "claiming", job |-> job]
    BY <1>2 DEF Claim, job
  <2> QED
    BY <1>2, <2>2, <2>3 DEF Claim
<1>3. CASE Resolve
  <2> DEFINE n == worker.job.attempts
             failed == Job("failed", n, None, Seconds(clock + Delay(n) * TicksPerSecond), clock)
  <2>1. n \in Nat
    BY DEF Stamped, IsJob
  <2>2. /\ Stamped(Job("succeeded", n, None, None, None)) /\ Stamped(Job("dead", n, None, None, None))
        /\ Stamped(failed)
    BY <2>1, JobIsStamped DEF Statuses
  <2>3. PICK job : Stamped(job) /\ worker' = [pc |-> "resolving", job |-> job]
    <3> HIDE DEF failed
    <3>1. \E job \in {Job("succeeded", n, None, None, None), Job("dead", n, None, None, None), failed} :
            worker' = [pc |-> "resolving", job |-> job]
      BY <1>3 DEF Resolve, failed
    <3> QED
      BY <2>2, <3>1
  <2> QED
    BY <1>3, <2>3 DEF Resolve
<1>4. CASE WriteJob
  <2>1. worker.pc \in {"claiming", "resolving"} /\ Write(worker.job, NewBody(worker.job))
    BY <1>4 DEF WriteJob
  <2>2. file' # <<>> /\ wrote'.metadata = worker.job
    BY <2>1, NewBodyIsBodylike, RenderNotEmpty DEF Write, FileInv, Joblike, Bodylike
  <2>3. worker'.pc \in {"run", "idle"} /\ Stamped(worker'.job)
        /\ (worker'.pc = "run" => worker'.job.status = "running")
    <3>1. Stamped(Idle.job) /\ Idle.pc = "idle"
      BY JobIsStamped DEF Idle, Unset, Statuses
    <3> QED
      BY <1>4, <3>1 DEF WriteJob
  <2> QED
    BY <1>4, <2>2, <2>3 DEF WriteJob
<1>5. CASE ScanStalled
  <2>1. wrote.metadata # NoMetadata /\ Metadata(file) = wrote.metadata
    BY <1>5, WrittenReadsBack DEF ScanStalled, FileInv
  <2>2. watchdog' = [pc |-> "read", job |-> wrote.metadata, body |-> watchdog.body]
    BY <1>5, <2>1 DEF ScanStalled
  <2> QED
    BY <1>5, <2>1, <2>2 DEF ScanStalled
<1>6. CASE ReadBody
  <2>1. watchdog' = [pc |-> "write", job |-> watchdog.job, body |-> Body(file)]
    BY <1>6 DEF ReadBody
  <2> QED
    BY <1>6, <2>1 DEF ReadBody
<1>7. CASE Reclaim
  <2> DEFINE job == Job("pending", watchdog.job.attempts, None, None, None)
  <2>1. watchdog.job.attempts \in Nat /\ Joblike(watchdog.job) /\ Bodylike(watchdog.body)
    BY <1>7 DEF Reclaim, FileInv, Joblike
  <2>2. Stamped(job) /\ job # NoMetadata
    <3>1. "pending" \in Statuses \ {"running", "failed"}
      BY DEF Statuses
    <3>2. Stamped(job)
      BY <2>1, <3>1, JobIsStamped
    <3>3. Joblike(job)
      BY <2>1, <3>1, JobIsJoblike
    <3> QED
      BY <3>2, <3>3 DEF Joblike
  <2>3. Bodylike(Annotated(watchdog.body, job))
    BY <2>1, AnnotatedBody
  <2> HIDE DEF job
  <2>4. Write(job, Annotated(watchdog.body, job))
    BY <1>7 DEF Reclaim, job
  <2>5. file' # <<>> /\ wrote'.metadata = job
    BY <2>2, <2>3, <2>4, RenderNotEmpty DEF Write, Bodylike
  <2>6. late' \in BOOLEAN /\ watchdog' = WatchIdle /\ UNCHANGED <<clock, worker, jumps>>
    BY <1>7 DEF Reclaim
  <2>7. Stamped(WatchIdle.job) /\ WatchIdle.pc = "idle"
        /\ WatchIdle = [pc |-> WatchIdle.pc, job |-> WatchIdle.job, body |-> WatchIdle.body]
    BY JobIsStamped DEF WatchIdle, Unset, Statuses
  <2> QED
    BY <2>2, <2>5, <2>6, <2>7
<1>8. CASE Tick
  BY <1>8, JobFileAssumption DEF Tick
<1>9. CASE SetClock
  BY <1>9, JobFileAssumption DEF SetClock
<1>10. CASE Restart
  <2>1. Stamped(Unset)
    BY JobIsStamped DEF Unset, Statuses
  <2> QED
    BY <1>10, <2>1 DEF Restart, Idle, WatchIdle
<1>11. CASE UNCHANGED vars
  BY <1>11 DEF vars
<1> QED
  BY <1>1, <1>2, <1>3, <1>4, <1>5, <1>6, <1>7, <1>8, <1>9, <1>10, <1>11 DEF Next

LEMMA ClockInvariance == Spec => []ClockInv
<1> QED
  BY ClockInvInit, ClockInvStep, FileInvariance, PTL DEF Spec

\* What is stalled stays stalled while the clock only goes forward.
LEMMA StalledStays ==
    ASSUME NEW job, Stamped(job), Stalled(job), clock \in Int, clock' \in Int, clock <= clock'
    PROVE  Stalled(job)'
<1>1. /\ job.status = "running" /\ job.claimed_at = Seconds(job.read) /\ job.read \in Int
      /\ Seconds(clock) - job.claimed_at >= StallThreshold
  BY DEF Stamped, Stalled
<1>2. Seconds(clock) \in Int /\ Seconds(clock') \in Int /\ Seconds(job.read) \in Int
      /\ Seconds(clock') >= Seconds(clock)
  BY <1>1, CutClock
<1> QED
  BY <1>1, <1>2, JobFileAssumption DEF Stalled

\* A job that is found stalled has been claimed more than StallThreshold - 1
\* seconds ago.
LEMMA StalledIsOld ==
    ASSUME NEW job, Stamped(job), Stalled(job), clock \in Int
    PROVE  clock > After(job, StallThreshold - 1)
<1>1. /\ job.claimed_at = Seconds(job.read) /\ job.read \in Int
      /\ Seconds(clock) - job.claimed_at >= StallThreshold
  BY DEF Stamped, Stalled
<1>2. Seconds(job.read + StallThreshold * TicksPerSecond) = Seconds(job.read) + StallThreshold
  <2>1. StallThreshold \in Int
    BY JobFileAssumption
  <2> QED
    BY <1>1, <2>1, CutLater
<1>3. Seconds(clock) \in Int /\ Seconds(job.read) \in Int
  BY <1>1, CutClock
<1>4. Seconds(clock) >= Seconds(job.read + StallThreshold * TicksPerSecond)
  BY <1>1, <1>2, <1>3, JobFileAssumption
<1> DEFINE time == job.read + StallThreshold * TicksPerSecond
<1>5. time \in Int /\ time - TicksPerSecond = After(job, StallThreshold - 1)
  BY <1>1, JobFileAssumption DEF After
<1> HIDE DEF time
<1>6. clock > time - TicksPerSecond
  BY <1>4, <1>5, CutClock DEF time
<1> QED
  BY <1>5, <1>6

LEMMA UndisturbedInit == Init => UndisturbedInv
  BY DEF Init, Idle, WatchIdle, UndisturbedInv

LEMMA UndisturbedStep ==
    FileInv /\ ClockInv /\ UndisturbedInv /\ [Next]_vars => UndisturbedInv'
<1> SUFFICES ASSUME FileInv, ClockInv, UndisturbedInv, [Next]_vars, jumps' = 0
             PROVE  /\ watchdog'.pc # "idle" => Stalled(watchdog.job)'
                    /\ worker'.pc = "run" /\ ~late' =>
                        \/ wrote'.metadata = worker'.job
                        \/ clock' > After(worker'.job, StallThreshold - 1)
  BY DEF UndisturbedInv
<1>1. clock \in Int /\ Stamped(watchdog.job) /\ Stamped(worker.job)
      /\ (worker.pc = "run" => worker.job.status = "running" /\ worker.job.read \in Int)
  BY JobFileAssumption DEF ClockInv, Stamped
<1>2. CASE Scan \/ Claim \/ Resolve
  <2>1. jumps = 0 /\ UNCHANGED <<clock, watchdog>> /\ worker'.pc # "run"
    BY <1>2 DEF Scan, Claim, Resolve
  <2> QED
    BY <2>1 DEF UndisturbedInv, Stalled
<1>3. CASE WriteJob
  <2>1. jumps = 0 /\ UNCHANGED <<clock, watchdog>> /\ wrote'.metadata = worker.job
        /\ (worker'.pc = "run" => worker'.job = worker.job)
    BY <1>3 DEF WriteJob, Write, Idle
  <2> QED
    BY <2>1 DEF UndisturbedInv, Stalled
<1>4. CASE ScanStalled
  <2>1. /\ jumps = 0 /\ UNCHANGED <<clock, worker, wrote, late>>
        /\ watchdog'.job = Metadata(file) /\ Stalled(Metadata(file))
    BY <1>4 DEF ScanStalled, ClockInv
  <2> QED
    BY <2>1 DEF UndisturbedInv, Stalled
<1>5. CASE ReadBody
  <2>1. jumps = 0 /\ UNCHANGED <<clock, worker, wrote, late>>
        /\ watchdog.pc # "idle" /\ watchdog'.job = watchdog.job
    BY <1>5 DEF ReadBody
  <2> QED
    BY <2>1 DEF UndisturbedInv, Stalled
<1>6. CASE Reclaim
  <2>1. /\ jumps = 0 /\ UNCHANGED <<clock, worker>> /\ watchdog.pc = "write"
        /\ watchdog'.pc = "idle" /\ (~late' => ~late /\ Metadata(file) = watchdog.job)
    BY <1>6 DEF Reclaim, WatchIdle
  <2>2. SUFFICES ASSUME worker.pc = "run", ~late'
                 PROVE  clock > After(worker.job, StallThreshold - 1)
    BY <2>1
  <2>3. CASE wrote.metadata = worker.job
    <3>1. Metadata(file) = wrote.metadata
      BY <2>2, WrittenReadsBack DEF FileInv
    <3>2. Stalled(watchdog.job) /\ watchdog.job = worker.job
      BY <2>1, <2>2, <2>3, <3>1 DEF UndisturbedInv
    <3> QED
      BY <1>1, <3>2, StalledIsOld
  <2> QED
    BY <2>1, <2>2, <2>3 DEF UndisturbedInv
<1>7. CASE Tick
  <2>1. jumps = 0 /\ clock' = clock + 1 /\ UNCHANGED <<worker, watchdog, wrote, late>>
    BY <1>7 DEF Tick
  <2>2. watchdog.pc # "idle" => Stalled(watchdog.job) /\ Stalled(watchdog.job)'
    <3>1. clock' \in Int /\ clock <= clock'
      BY <1>1, <2>1
    <3>2. ASSUME Stalled(watchdog.job) PROVE Stalled(watchdog.job)'
      <4>1. PICK job : job = watchdog.job
        OBVIOUS
      <4>2. Stalled(job) /\ Stamped(job)
        BY <1>1, <3>2, <4>1
      <4>3. job.status = "running" /\ Seconds(clock') - job.claimed_at >= StallThreshold
        BY <1>1, <3>1, <4>2, StalledStays DEF Stalled
      <4> QED
        BY <2>1, <4>1, <4>3 DEF Stalled
    <3> QED
      BY <2>1, <3>2 DEF UndisturbedInv
  <2>3. worker.pc = "run" => After(worker.job, StallThreshold - 1) \in Int
    BY <1>1, JobFileAssumption DEF After
  <2> QED
    BY <1>1, <2>1, <2>2, <2>3 DEF UndisturbedInv
<1>8. CASE SetClock
  BY <1>8 DEF SetClock, ClockInv
<1>9. CASE Restart
  BY <1>9 DEF Restart, Idle, WatchIdle
<1>10. CASE UNCHANGED vars
  BY <1>10 DEF vars, UndisturbedInv, Stalled
<1> QED
  BY <1>2, <1>3, <1>4, <1>5, <1>6, <1>7, <1>8, <1>9, <1>10 DEF Next

LEMMA UndisturbedInvariance == Spec => []UndisturbedInv
<1> QED
  BY UndisturbedInit, UndisturbedStep, FileInvariance, ClockInvariance, PTL DEF Spec

\* Every variable has its type, in the file too: a stamp is there where the
\* status asks for one, and lies within the clock and the longest delay.
THEOREM Typing == Spec => []TypeOK
<1>1. FileInv /\ ClockInv => TypeOK
  <2> SUFFICES ASSUME FileInv, ClockInv PROVE TypeOK
    OBVIOUS
  <2>1. Readable(file) => IsJob(Metadata(file))
    BY WrittenReadsBack DEF FileInv, ClockInv, Stamped
  <2> QED
    BY <2>1 DEF TypeOK, ClockInv, Stamped
<1> QED
  BY <1>1, FileInvariance, ClockInvariance, PTL

\* A retry is due, and a stall is seen, as soon as its time has passed and no
\* more than a second before (now_iso, is_ready_to_retry, is_stalled).
THEOREM StampsOnTime == Spec => []OnTime
<1>1. FileInv /\ ClockInv => OnTime
  <2> SUFFICES ASSUME FileInv, ClockInv, Readable(file) PROVE OnTime
    BY DEF OnTime
  <2> DEFINE job == Metadata(file)
  <2>1. Stamped(job) /\ clock \in Int
    BY WrittenReadsBack, JobFileAssumption DEF FileInv, ClockInv
  <2> HIDE DEF job
  <2>2. TicksPerSecond \in Nat \ {0} /\ StallThreshold \in Int /\ MaxDelay \in Nat
    BY JobFileAssumption
  <2>3. ASSUME job.status = "failed"
        PROVE  LET time == After(job, Delay(job.attempts))
               IN  (clock >= time => Ready(job)) /\ (Ready(job) => clock > time - TicksPerSecond)
    <3>1. job.read \in Int /\ job.next_attempt_at = Seconds(After(job, Delay(job.attempts)))
          /\ Delay(job.attempts) \in Int
      <4>1. job.read \in Int /\ job.next_attempt_at = Seconds(After(job, Delay(job.attempts)))
            /\ job.attempts \in Nat
        BY <2>1, <2>3 DEF Stamped, IsJob
      <4>2. Delay(job.attempts) \in 0..MaxDelay
        BY <4>1, DelayIsCapped
      <4> QED
        BY <2>2, <4>1, <4>2
    <3>2. After(job, Delay(job.attempts)) \in Int
      BY <2>2, <3>1 DEF After
    <3> QED
      BY <2>1, <3>1, <3>2, CutClock DEF Ready
  <2>4. ASSUME job.status = "running"
        PROVE  LET time == After(job, StallThreshold)
               IN  (clock >= time => Stalled(job)) /\ (Stalled(job) => clock > time - TicksPerSecond)
    <3>1. job.read \in Int /\ job.claimed_at = Seconds(job.read)
      BY <2>1, <2>4 DEF Stamped
    <3>2. After(job, StallThreshold) \in Int
          /\ Seconds(After(job, StallThreshold)) = Seconds(job.read) + StallThreshold
      <4>1. Seconds(job.read + StallThreshold * TicksPerSecond) = Seconds(job.read) + StallThreshold
        BY <2>2, <3>1, CutLater
      <4> QED
        BY <2>2, <3>1, <4>1 DEF After
    <3>3. Seconds(job.read) \in Int /\ Seconds(clock) \in Int
      BY <2>1, <3>1, CutClock
    <3>4. Stalled(job) <=> Seconds(clock) >= Seconds(After(job, StallThreshold))
      BY <2>2, <2>4, <3>1, <3>2, <3>3 DEF Stalled
    <3> QED
      BY <2>1, <3>2, <3>4, CutClock
  <2> QED
    BY <2>3, <2>4 DEF OnTime, job
<1> QED
  BY <1>1, FileInvariance, ClockInvariance, PTL

\* A handler that ends a second before the threshold finds the file as it was
\* claimed, unless the clock is set or an earlier reclaim came late (is_stalled,
\* reclaim).
THEOREM HandlersUndisturbed == Spec => []HandlerUndisturbed
<1>1. FileInv /\ ClockInv /\ UndisturbedInv => HandlerUndisturbed
  <2> SUFFICES ASSUME FileInv, ClockInv, UndisturbedInv, worker.pc = "run", jumps = 0, ~late,
                      clock <= After(worker.job, StallThreshold - 1)
               PROVE  Metadata(file) = worker.job
    BY DEF HandlerUndisturbed
  <2>1. clock \in Int /\ After(worker.job, StallThreshold - 1) \in Int
    BY JobFileAssumption DEF ClockInv, Stamped, After
  <2>2. wrote.metadata = worker.job
    BY <2>1 DEF UndisturbedInv
  <2> QED
    BY <2>2, WrittenReadsBack DEF FileInv
<1> QED
  BY <1>1, FileInvariance, ClockInvariance, UndisturbedInvariance, PTL
==============================================================================
