------------------------------- MODULE JobFile -------------------------------
(***************************************************************************)
(* The file of one job, as text, and the wall clock its stamps are read    *)
(* from: the worker claims the job, runs it and resolves it, the watchdog  *)
(* reclaims it with a note in its body.  A stamp is the clock cut to whole *)
(* seconds; the clock itself runs in ticks, and an administrator may set   *)
(* it.  What the store and the threads do in between is JobQueue's matter. *)
(***************************************************************************)
EXTENDS Frontmatter

CONSTANTS
    TicksPerSecond,
    MaxAttempts,
    MaxDelay,        \* MAX_DELAY_SECONDS
    StallThreshold,  \* STALL_THRESHOLD_SECONDS
    Bodies,          \* bodies the file may have at first, a handler's or a human's
    MaxClock,        \* bound: the last tick of the clock
    MaxJump,         \* bound: how far the clock is set
    MaxJumps         \* bound: how often it is set

ASSUME JobFileAssumption ==
    /\ TicksPerSecond \in Nat \ {0} /\ MaxAttempts \in Nat \ {0}
    /\ MaxDelay \in Nat /\ StallThreshold \in Nat \ {0}
    /\ MaxClock \in Nat /\ MaxJump \in Nat /\ MaxJumps \in Nat
    /\ \A body \in Bodies : body \in Seq({Fence, Blank, [kind |-> "text"]}) /\ body # <<>>

VARIABLES
    file,      \* the lines of jobs/<id>.md
    clock,     \* the wall clock, in ticks
    worker,    \* what the worker does: [pc, job]
    watchdog,  \* what the watchdog does: [pc, job, body]
    wrote,     \* history: the metadata and the body the last writer meant
    late,      \* history: a reclaim landed on a job that had moved on
    jumps      \* how often the clock was set

vars == <<file, clock, worker, watchdog, wrote, late, jumps>>

None == -1
Statuses == {"pending", "running", "succeeded", "failed", "dead"}

\* read is the clock at which the stamp in the record was made; the file has no
\* such key, it is there to say how exact the stamp is.
Job(status, attempts, claimed_at, next_attempt_at, read) ==
    [status |-> status, attempts |-> attempts, claimed_at |-> claimed_at,
     next_attempt_at |-> next_attempt_at, read |-> read]

Unset == Job("pending", 0, None, None, None)

Idle == [pc |-> "idle", job |-> Unset]
WatchIdle == [pc |-> "idle", job |-> Unset, body |-> <<>>]

Least(a, b) == IF a < b THEN a ELSE b

-----------------------------------------------------------------------------
(* Stamps.                                                                 *)

\* now_iso
Seconds(ticks) == ticks \div TicksPerSecond

\* 2 ** attempts
PowerOfTwo[n \in Nat] == IF n = 0 THEN 1 ELSE 2 * PowerOfTwo[n - 1]

\* compute_backoff
Delay_Uncapped(attempts) == PowerOfTwo[attempts]
Delay(attempts) == Least(PowerOfTwo[attempts], MaxDelay)

\* is_ready_to_retry.  Here and in is_stalled the answers to a stamp that is
\* missing or no stamp (ready, stalled) are left out: no writer of the queue
\* leaves such a file, somebody who edits one can.
Ready(job) == Seconds(clock) >= job.next_attempt_at

Stalled_Strict(job) ==
    job.status = "running" /\ Seconds(clock) - job.claimed_at > StallThreshold
Stalled_Soon(job) ==
    job.status = "running" /\ Seconds(clock) + 1 - job.claimed_at >= StallThreshold
\* is_stalled
Stalled(job) ==
    job.status = "running" /\ Seconds(clock) - job.claimed_at >= StallThreshold

-----------------------------------------------------------------------------
(* The file.                                                               *)

\* read_job: a file that does not parse, or has no metadata, is skipped.
Readable(text) == WellFormed(text) /\ Metadata(text) # NoMetadata

\* _render_body: the lines that tell of the job, and the final newline.
NewBody(job) == <<[kind |-> "text", status |-> job.status, attempts |-> job.attempts], Blank>>

Note == [kind |-> "note"]
Annotated_Not(body, job) == NewBody(job)
\* The body, an empty line, the note, and a final newline.
Annotated(body, job) == body \o <<Note, Blank>>

Write(job, body) ==
    /\ file' = Render(job, body)
    /\ wrote' = [metadata |-> job, body |-> body]

\* A job just submitted, or a file somebody broke by hand.
Init ==
    /\ \E body \in Bodies :
        \/ file = Render(Unset, body) /\ wrote = [metadata |-> Unset, body |-> body]
        \/ file = <<Fence>> \o body /\ wrote = [metadata |-> NoMetadata, body |-> body]
    /\ clock = 0 /\ worker = Idle /\ watchdog = WatchIdle /\ late = FALSE /\ jumps = 0

-----------------------------------------------------------------------------
(* The worker.                                                             *)

Claimable(job) == job.status = "pending" \/ (job.status = "failed" /\ Ready(job))

\* scan_for_claimable_jobs
Scan ==
    /\ worker.pc = "idle"
    /\ Readable(file) /\ Claimable(Metadata(file))
    /\ worker' = [pc |-> "claim", job |-> Metadata(file)]
    /\ UNCHANGED <<file, clock, watchdog, wrote, late, jumps>>

\* claim reads the clock; its write comes later.
Claim ==
    /\ worker.pc = "claim"
    /\ worker' = [pc |-> "claiming",
                  job |-> Job("running", worker.job.attempts + 1, Seconds(clock), None, clock)]
    /\ UNCHANGED <<file, clock, watchdog, wrote, late, jumps>>

\* resolve reads the clock for next_attempt_at; its write comes later.
Resolve ==
    /\ worker.pc = "run"
    /\ LET n == worker.job.attempts
           Ended(status) == Job(status, n, None, None, None)
           Failed == IF n >= MaxAttempts THEN Ended("dead")
                     ELSE Job("failed", n, None, Seconds(clock + Delay(n) * TicksPerSecond), clock)
       IN  \E job \in {Ended("succeeded"), Ended("dead"), Failed} :
               worker' = [pc |-> "resolving", job |-> job]
    /\ UNCHANGED <<file, clock, watchdog, wrote, late, jumps>>

\* write_job, of claim or of resolve: the body is made anew.
WriteJob ==
    /\ \/ worker.pc = "claiming" /\ worker' = [pc |-> "run", job |-> worker.job]
       \/ worker.pc = "resolving" /\ worker' = Idle
    /\ Write(worker.job, NewBody(worker.job))
    /\ UNCHANGED <<clock, watchdog, late, jumps>>

-----------------------------------------------------------------------------
(* The watchdog.                                                           *)

\* scan_for_stalled_jobs
ScanStalled ==
    /\ watchdog.pc = "idle"
    /\ Readable(file) /\ Stalled(Metadata(file))
    /\ watchdog' = [watchdog EXCEPT !.pc = "read", !.job = Metadata(file)]
    /\ UNCHANGED <<file, clock, worker, wrote, late, jumps>>

\* _append_reclaim_note reads the file again, for its body only.
ReadBody ==
    /\ watchdog.pc = "read"
    /\ watchdog' = [watchdog EXCEPT !.pc = "write", !.body = Body(file)]
    /\ UNCHANGED <<file, clock, worker, wrote, late, jumps>>

\* reclaim
Reclaim ==
    /\ watchdog.pc = "write"
    /\ LET job == Job("pending", watchdog.job.attempts, None, None, None)
       IN  Write(job, Annotated(watchdog.body, job))
    /\ late' = (late \/ Metadata(file) # watchdog.job)
    /\ watchdog' = WatchIdle
    /\ UNCHANGED <<clock, worker, jumps>>

-----------------------------------------------------------------------------
(* Time, and the process of the two.                                       *)

Tick ==
    /\ clock < MaxClock
    /\ clock' = clock + 1
    /\ UNCHANGED <<file, worker, watchdog, wrote, late, jumps>>

SetClock ==
    /\ jumps < MaxJumps
    /\ jumps' = jumps + 1
    /\ clock' \in 0..MaxClock /\ clock' - clock \in (-MaxJump)..MaxJump
    /\ UNCHANGED <<file, worker, watchdog, wrote, late>>

\* The queue's process dies and is started again.
Restart ==
    /\ worker' = Idle /\ watchdog' = WatchIdle
    /\ UNCHANGED <<file, clock, wrote, late, jumps>>

Next ==
    \/ Scan \/ Claim \/ Resolve \/ WriteJob
    \/ ScanStalled \/ ReadBody \/ Reclaim
    \/ Tick \/ SetClock \/ Restart

Spec == Init /\ [][Next]_vars

-----------------------------------------------------------------------------
(* What must hold.                                                         *)

Stamps == 0..(Seconds(MaxClock) + MaxDelay)
IsJob(job) ==
    /\ job.status \in Statuses
    /\ job.attempts \in Nat
    /\ job.claimed_at \in Stamps \cup {None}
    /\ job.next_attempt_at \in Stamps \cup {None}
    /\ (job.claimed_at # None) = (job.status = "running")
    /\ (job.next_attempt_at # None) = (job.status = "failed")

\* Every variable has its type; only a running job has been claimed, only a
\* failed one has a next attempt.
TypeOK ==
    /\ file # <<>>
    /\ Readable(file) => IsJob(Metadata(file))
    /\ clock \in 0..MaxClock
    /\ worker.pc \in {"idle", "claim", "claiming", "run", "resolving"} /\ IsJob(worker.job)
    /\ watchdog.pc \in {"idle", "read", "write"} /\ IsJob(watchdog.job)
    /\ late \in BOOLEAN /\ jumps \in 0..MaxJumps

\* Whatever a body holds, and however many notes were added to it, a file reads
\* back as the job and the body that were written: parse_frontmatter inverts
\* render_frontmatter where it matters to the queue.
ReadsBack ==
    wrote.metadata # NoMetadata =>
        /\ Readable(file)
        /\ Metadata(file) = wrote.metadata
        /\ Body(file) = wrote.body

\* "The vault file itself tells the story of what happened to a job"
\* (watchdog.py): a job that is pending again says so in its body, behind all
\* that was there before.
NoteTellsReclaim ==
    Readable(file) /\ Metadata(file).status = "pending" /\ Metadata(file).attempts > 0 =>
        LET body == Body(file)
        IN  Len(body) > 2 /\ body[Len(body) - 1] = Note

After(job, seconds) == job.read + seconds * TicksPerSecond

\* Cutting stamps to seconds costs less than a second: a retry is claimable, and
\* a stalled job reclaimable, as soon as its time has passed, and no more than a
\* second before.
OnTime ==
    Readable(file) =>
        LET job == Metadata(file)
            Due(now, time, is) == (now >= time => is) /\ (is => now > time - TicksPerSecond)
        IN  /\ job.status = "failed" => Due(clock, After(job, Delay(job.attempts)), Ready(job))
            /\ job.status = "running" => Due(clock, After(job, StallThreshold), Stalled(job))

\* The watchdog lets a handler alone that ends a second before the threshold,
\* as long as nobody sets the clock and no earlier reclaim is overdue: what the
\* worker runs is what the file says is running.
HandlerUndisturbed ==
    /\ worker.pc = "run" /\ jumps = 0 /\ ~late
    /\ clock <= After(worker.job, StallThreshold - 1)
    => Metadata(file) = worker.job
==============================================================================
