------------------------------ MODULE JobQueue ------------------------------
(***************************************************************************)
(* The job queue: one dispatcher process with a worker thread and a        *)
(* watchdog thread, sharing nothing but the job files of the vault.        *)
(*                                                                         *)
(* Every read and every write of a file is one round trip to the store and *)
(* one step here; what a thread has read it keeps in its own copy, and     *)
(* acts on the copy.  Neither thread compares before it writes.            *)
(*                                                                         *)
(* Time is abstracted to one flag per file, "elapsed": the timestamp of    *)
(* the file (claimed_at of a running job, next_attempt_at of a failed one) *)
(* has passed its limit.  Writing the file resets the flag.                *)
(*                                                                         *)
(* A definition whose name ends in an underscore and a word is a wrong     *)
(* variant of the definition it precedes: the mutation runs put it in that *)
(* definition's place, and no other definition uses it.                    *)
(***************************************************************************)
EXTENDS Integers

CONSTANTS
    Jobs,         \* the job ids, as their positions in lexical order
    MaxAttempts,  \* max_attempts of every job
    OverflowAt,   \* attempts from which on 1.0 * 2**attempts has no float (1024)
    ReadOnly,     \* jobs whose file the store cannot write once submitted
    Faults,       \* the kinds of fault that may happen (FaultKinds)
    MaxFaults     \* how many faults may happen in a behaviour

\* store:  a round trip raises in the caller, its write applied or not (never
\*         half: files are written whole here)
\* crash:  the dispatcher process is killed
\* stop:   the dispatcher is asked to stop, and may exit on a live thread
\* slow:   a claimed job outlives the stall threshold while it is in flight
\* delete: somebody removes a job file
\* result: a handler leaves a result or an error the store cannot keep (no
\*         YAML, too big)
FaultKinds == {"store", "crash", "stop", "slow", "delete", "result"}

ASSUME JobsAssumption == Jobs \subseteq Nat
ASSUME MaxAttemptsAssumption == MaxAttempts \in Nat
ASSUME OverflowAtAssumption == OverflowAt \in Nat \ {0}
ASSUME ReadOnlyAssumption == ReadOnly \subseteq Jobs
ASSUME FaultsAssumption == Faults \subseteq FaultKinds
ASSUME MaxFaultsAssumption == MaxFaults \in Nat

NoJob == -1
Statuses == {"pending", "running", "succeeded", "failed", "dead"}
Terminal == {"succeeded", "dead"}

VARIABLES
    file,       \* the job files: status, attempts, elapsed
    submitted,  \* the job ids handed out so far
    faults,     \* number of faults so far
    stop,       \* the stop_event the threads share
    wpc,        \* where the worker is
    wtodo,      \* ids its scan has still to read
    wjob,       \* the job it is to claim, or holds, or NoJob
    wattempts,  \* attempts in its copy of that job
    outcome,    \* what the handler did
    dpc,        \* where the watchdog is
    dtodo,      \* ids its scan has still to read
    stalled,    \* the jobs it found stalled and has still to reclaim
    dattempts,  \* attempts in its copies of those jobs
    djob,       \* the job whose body it has read, or NoJob
    started     \* history: handler runs of each job

worker == <<wpc, wtodo, wjob, wattempts, outcome>>
watchdog == <<dpc, dtodo, stalled, dattempts, djob>>
vars == <<file, submitted, faults, stop, worker, watchdog, started>>

-----------------------------------------------------------------------------
(* The job file.                                                           *)

FileType == [status : Statuses \cup {"absent"}, attempts : Nat, elapsed : BOOLEAN]

JobFile(status, attempts) ==
    [status |-> status, attempts |-> attempts, elapsed |-> FALSE]

NoFile == JobFile("absent", 0)

Exists(j) == file[j].status # "absent"

Claimable_AnyFailure(f) == f.status \in {"pending", "dead"} \/ (f.status = "failed" /\ f.elapsed)

\* scan_for_claimable_jobs: pending, or failed with its backoff over.
Claimable(f) == f.status = "pending" \/ (f.status = "failed" /\ f.elapsed)

IsStalled_Eager(f) == f.status = "running"
IsStalled_Never(f) == f.status = "running" /\ FALSE

\* is_stalled: running, claimed at least the stall threshold ago.
IsStalled(f) == f.status = "running" /\ f.elapsed

\* The worker has job j in flight: claimed, and not resolved yet.
Held(j) == wjob = j /\ wpc \in {"execute", "resolve"}

NextStatus_OneMore(result, attempts) ==
    CASE result = "ok" -> "succeeded"
      [] result = "fatal" -> "dead"
      [] result = "error" -> IF attempts > MaxAttempts THEN "dead" ELSE "failed"
NextStatus_Unknown(result, attempts) ==
    IF result = "ok" THEN "succeeded" ELSE IF result = "fatal" THEN "fatal" ELSE "failed"
NextStatus_Forever(result, attempts) ==
    IF result = "ok" THEN "succeeded" ELSE "failed"

\* dispatch: the handler returned a dict; it raised; or there is no such
\* handler, or it returned something else.
Outcomes == {"ok", "error", "fatal"}

\* decide_after_failure and the fatal path of resolve.
NextStatus(result, attempts) ==
    CASE result = "ok" -> "succeeded"
      [] result = "fatal" -> "dead"
      [] result = "error" -> IF attempts >= MaxAttempts THEN "dead" ELSE "failed"

\* compute_backoff raises OverflowError instead of returning a delay.
Overflows(result, attempts) ==
    result = "error" /\ OverflowAt <= attempts /\ attempts < MaxAttempts

\* A step of the worker that returns drops its locals.
Forget == wjob' = NoJob /\ wattempts' = 0 /\ outcome' = "ok"

First(j, S) == j \in S /\ \A i \in S : j <= i

Fault(kind) == kind \in Faults /\ faults < MaxFaults /\ faults' = faults + 1

NoAttempts == [j \in Jobs |-> 0]

Init ==
    /\ file = [j \in Jobs |-> NoFile]
    /\ submitted = {}
    /\ faults = 0
    /\ stop = FALSE
    /\ wpc = "top" /\ wtodo = {} /\ wjob = NoJob /\ wattempts = 0 /\ outcome = "ok"
    /\ dpc = "top" /\ dtodo = {} /\ stalled = {} /\ djob = NoJob
    /\ dattempts = NoAttempts
    /\ started = NoAttempts

-----------------------------------------------------------------------------
(* Clients of the queue, and the clock.                                    *)

\* write_job of a new pending job.  One that raises and writes nothing leaves no
\* job behind, and is left out.
Submit(j) ==
    /\ j \notin submitted
    /\ submitted' = submitted \cup {j}
    /\ file' = [file EXCEPT ![j] = JobFile("pending", 0)]
    /\ UNCHANGED <<faults, stop, worker, watchdog, started>>

Delete(j) ==
    /\ Fault("delete")
    /\ Exists(j)
    /\ file' = [file EXCEPT ![j] = NoFile]
    /\ UNCHANGED <<submitted, stop, worker, watchdog, started>>

\* The backoff of a failed job ends, or the claim of a job nobody holds any
\* more passes the stall threshold.
Elapse(j) ==
    /\ file[j].status \in {"running", "failed"}
    /\ ~file[j].elapsed
    /\ file[j].status = "running" => ~Held(j)
    /\ file' = [file EXCEPT ![j].elapsed = TRUE]
    /\ UNCHANGED <<submitted, faults, stop, worker, watchdog, started>>

\* The claim passes the stall threshold while its handler is still running.
Overrun(j) ==
    /\ Fault("slow")
    /\ file[j].status = "running"
    /\ ~file[j].elapsed
    /\ Held(j)
    /\ file' = [file EXCEPT ![j].elapsed = TRUE]
    /\ UNCHANGED <<submitted, stop, worker, watchdog, started>>

-----------------------------------------------------------------------------
(* The worker: run_worker around step_once.                                *)

WorkerStop_Ignored ==
    /\ wpc = "top" /\ stop
    /\ wpc' = "idle"
    /\ UNCHANGED <<file, submitted, faults, stop, wtodo, wjob, wattempts, outcome, watchdog, started>>
WorkerStop ==
    /\ wpc = "top" /\ stop
    /\ wpc' = "done"
    /\ UNCHANGED <<file, submitted, faults, stop, wtodo, wjob, wattempts, outcome, watchdog, started>>

WorkerList ==
    /\ wpc = "top" /\ ~stop
    /\ \/ /\ wtodo' = {j \in Jobs : Exists(j)}
          /\ wpc' = "scan"
          /\ UNCHANGED faults
       \/ /\ Fault("store")
          /\ wtodo' = {}
          /\ wpc' = "idle"
    /\ UNCHANGED <<file, submitted, stop, wjob, wattempts, outcome, watchdog, started>>

\* A file that is gone or cannot be read is skipped; of the claimable ones
\* step_once uses the first.
WorkerRead(j) ==
    /\ wpc = "scan" /\ First(j, wtodo)
    /\ wtodo' = wtodo \ {j}
    /\ \/ /\ IF wjob = NoJob /\ Claimable(file[j])
             THEN wjob' = j /\ wattempts' = file[j].attempts
             ELSE UNCHANGED <<wjob, wattempts>>
          /\ UNCHANGED faults
       \/ Fault("store") /\ UNCHANGED <<wjob, wattempts>>
    /\ UNCHANGED <<file, submitted, stop, wpc, outcome, watchdog, started>>

NothingToClaim ==
    /\ wpc = "scan" /\ wtodo = {} /\ wjob = NoJob
    /\ wpc' = "idle"
    /\ UNCHANGED <<file, submitted, faults, stop, wtodo, wjob, wattempts, outcome, watchdog, started>>

WriteClaim_Uncounted ==
    /\ wjob \notin ReadOnly
    /\ file' = [file EXCEPT ![wjob] = JobFile("running", wattempts)]
\* The write that claims: running, one attempt more, a fresh body.
WriteClaim ==
    /\ wjob \notin ReadOnly
    /\ file' = [file EXCEPT ![wjob] = JobFile("running", wattempts + 1)]

Claim ==
    /\ wpc = "scan" /\ wtodo = {} /\ wjob # NoJob
    /\ WriteClaim
    /\ wattempts' = wattempts + 1
    /\ wpc' = "execute"
    /\ UNCHANGED <<submitted, faults, stop, wtodo, wjob, outcome, watchdog, started>>

\* The write raises: claimed=False, and the loop goes idle.
ClaimFails ==
    /\ wpc = "scan" /\ wtodo = {} /\ wjob # NoJob
    /\ \/ wjob \in ReadOnly /\ UNCHANGED <<file, faults>>
       \/ Fault("store") /\ UNCHANGED file
       \/ Fault("store") /\ WriteClaim
    /\ wpc' = "idle"
    /\ Forget
    /\ UNCHANGED <<submitted, stop, wtodo, watchdog, started>>

Execute ==
    /\ wpc = "execute"
    /\ outcome' \in Outcomes
    /\ started' = [started EXCEPT ![wjob] = @ + 1]
    /\ wpc' = "resolve"
    /\ UNCHANGED <<file, submitted, faults, stop, wtodo, wjob, wattempts, watchdog>>

WriteResolution ==
    file' = [file EXCEPT ![wjob] = JobFile(NextStatus(outcome, wattempts), wattempts)]

\* Work happened, so the loop goes round without a pause.
Resolve ==
    /\ wpc = "resolve"
    /\ ~Overflows(outcome, wattempts)
    /\ WriteResolution
    /\ wpc' = "top"
    /\ Forget
    /\ UNCHANGED <<submitted, faults, stop, wtodo, watchdog, started>>

\* The write, or the backoff before it, raises out of step_once; run_worker
\* logs and goes idle, and the job stays as its claim left it.
ResolveFails ==
    /\ wpc = "resolve"
    /\ \/ Overflows(outcome, wattempts) /\ UNCHANGED <<file, faults>>
       \/ ~Overflows(outcome, wattempts) /\ Fault("store") /\ WriteResolution
       \/ ~Overflows(outcome, wattempts) /\ (Fault("store") \/ Fault("result")) /\ UNCHANGED file
    /\ wpc' = "idle"
    /\ Forget
    /\ UNCHANGED <<submitted, stop, wtodo, watchdog, started>>

WorkerWake ==
    /\ wpc = "idle"
    /\ wpc' = "top"
    /\ UNCHANGED <<file, submitted, faults, stop, wtodo, wjob, wattempts, outcome, watchdog, started>>

WorkerStep ==
    \/ WorkerStop \/ WorkerList \/ NothingToClaim \/ Claim \/ ClaimFails
    \/ Execute \/ Resolve \/ ResolveFails \/ WorkerWake
    \/ \E j \in Jobs : WorkerRead(j)

-----------------------------------------------------------------------------
(* The watchdog: run_watchdog around step_once.                            *)

WatchdogStop ==
    /\ dpc = "top" /\ stop
    /\ dpc' = "done"
    /\ UNCHANGED <<file, submitted, faults, stop, worker, dtodo, stalled, dattempts, djob, started>>

WatchdogList ==
    /\ dpc = "top" /\ ~stop
    /\ \/ /\ dtodo' = {j \in Jobs : Exists(j)}
          /\ dpc' = "scan"
          /\ UNCHANGED faults
       \/ /\ Fault("store")
          /\ dtodo' = {}
          /\ dpc' = "idle"
    /\ UNCHANGED <<file, submitted, stop, worker, stalled, dattempts, djob, started>>

WatchdogRead(j) ==
    /\ dpc = "scan" /\ First(j, dtodo)
    /\ dtodo' = dtodo \ {j}
    /\ \/ /\ IF IsStalled(file[j])
             THEN /\ stalled' = stalled \cup {j}
                  /\ dattempts' = [dattempts EXCEPT ![j] = file[j].attempts]
             ELSE UNCHANGED <<stalled, dattempts>>
          /\ UNCHANGED faults
       \/ Fault("store") /\ UNCHANGED <<stalled, dattempts>>
    /\ UNCHANGED <<file, submitted, stop, worker, dpc, djob, started>>

\* step_once is through with job j, reclaimed or not.
Done(j) ==
    /\ stalled' = stalled \ {j}
    /\ dattempts' = [dattempts EXCEPT ![j] = 0]

\* _append_reclaim_note reads the file again, for its body only.  A read that
\* raises leaves the job to the next scan.
ReadBody(j) ==
    /\ dpc = "scan" /\ dtodo = {} /\ First(j, stalled)
    /\ \/ /\ Exists(j)
          /\ djob' = j
          /\ dpc' = "reclaim"
          /\ UNCHANGED <<stalled, dattempts, faults>>
       \/ /\ (~Exists(j) /\ UNCHANGED faults) \/ Fault("store")
          /\ Done(j)
          /\ UNCHANGED <<djob, dpc>>
    /\ UNCHANGED <<file, submitted, stop, worker, dtodo, started>>

WriteReclaim_Refund ==
    file' = [file EXCEPT ![djob] = JobFile("pending", dattempts[djob] - 1)]
\* The attempt that stalled still counts.
WriteReclaim ==
    file' = [file EXCEPT ![djob] = JobFile("pending", dattempts[djob])]

Reclaim ==
    /\ dpc = "reclaim"
    /\ \/ WriteReclaim /\ UNCHANGED faults
       \/ Fault("store") /\ (WriteReclaim \/ UNCHANGED file)
    /\ Done(djob)
    /\ djob' = NoJob
    /\ dpc' = "scan"
    /\ UNCHANGED <<submitted, stop, worker, dtodo, started>>

WatchdogSleep ==
    /\ dpc = "scan" /\ dtodo = {} /\ stalled = {}
    /\ dpc' = "idle"
    /\ UNCHANGED <<file, submitted, faults, stop, worker, dtodo, stalled, dattempts, djob, started>>

WatchdogWake ==
    /\ dpc = "idle"
    /\ dpc' = "top"
    /\ UNCHANGED <<file, submitted, faults, stop, worker, dtodo, stalled, dattempts, djob, started>>

WatchdogStep ==
    \/ WatchdogStop \/ WatchdogList \/ Reclaim \/ WatchdogSleep \/ WatchdogWake
    \/ \E j \in Jobs : WatchdogRead(j) \/ ReadBody(j)

-----------------------------------------------------------------------------
(* The dispatcher process.                                                 *)

Running == wpc # "off"

\* Both threads are gone, with everything they had in memory.
ThreadsEnd ==
    /\ wpc' = "off" /\ wtodo' = {} /\ wjob' = NoJob /\ wattempts' = 0 /\ outcome' = "ok"
    /\ dpc' = "off" /\ dtodo' = {} /\ stalled' = {} /\ djob' = NoJob
    /\ dattempts' = NoAttempts
    /\ UNCHANGED <<file, submitted, started>>

RequestStop ==
    /\ Running /\ ~stop
    /\ Fault("stop")
    /\ stop' = TRUE
    /\ UNCHANGED <<file, submitted, worker, watchdog, started>>

\* stop_queue_service joins both threads, then the process exits.
Exit ==
    /\ stop /\ wpc = "done" /\ dpc = "done"
    /\ ThreadsEnd
    /\ UNCHANGED <<faults, stop>>

\* A join times out, and the exit of the process ends its daemon threads.
ExitOnTimeout ==
    /\ stop /\ Running /\ ~(wpc = "done" /\ dpc = "done")
    /\ Fault("stop")
    /\ ThreadsEnd
    /\ UNCHANGED stop

Crash ==
    /\ Running
    /\ Fault("crash")
    /\ ThreadsEnd
    /\ UNCHANGED stop

Start_SameEvent ==
    /\ ~Running
    /\ wpc' = "top" /\ dpc' = "top"
    /\ UNCHANGED <<stop, file, submitted, faults, wtodo, wjob, wattempts, outcome,
                   dtodo, stalled, dattempts, djob, started>>
\* The dispatcher is started again, with a fresh stop_event.
Start ==
    /\ ~Running
    /\ wpc' = "top" /\ dpc' = "top"
    /\ stop' = FALSE
    /\ UNCHANGED <<file, submitted, faults, wtodo, wjob, wattempts, outcome,
                   dtodo, stalled, dattempts, djob, started>>

-----------------------------------------------------------------------------
Next ==
    \/ WorkerStep \/ WatchdogStep
    \/ RequestStop \/ Exit \/ ExitOnTimeout \/ Crash \/ Start
    \/ \E j \in Jobs : Submit(j) \/ Delete(j) \/ Elapse(j) \/ Overrun(j)

Spec == Init /\ [][Next]_vars

\* Each thread runs on; time passes; a dispatcher that went away is started
\* again.  Nothing makes a client submit, or a fault happen.
Fairness ==
    /\ WF_vars(WorkerStep)
    /\ WF_vars(WatchdogStep)
    /\ WF_vars(Exit)
    /\ WF_vars(Start)
    /\ \A j \in Jobs : WF_vars(Elapse(j))

FairSpec == Spec /\ Fairness

-----------------------------------------------------------------------------
(* What must hold.                                                         *)

\* Every variable has its type, and the locals of the threads the shape
\* their program counters call for.
TypeOK ==
    /\ file \in [Jobs -> FileType]
    /\ submitted \subseteq Jobs
    /\ faults \in Nat /\ faults <= MaxFaults
    /\ stop \in BOOLEAN
    /\ wpc \in {"off", "top", "scan", "idle", "execute", "resolve", "done"}
    /\ wtodo \subseteq Jobs
    /\ wjob \in Jobs \cup {NoJob}
    /\ wpc \in {"execute", "resolve"} => wjob \in Jobs
    /\ wpc \in {"off", "top", "idle", "done"} => wjob = NoJob
    /\ wattempts \in Nat
    /\ outcome \in Outcomes
    /\ dpc \in {"off", "top", "scan", "idle", "reclaim", "done"}
    /\ dpc = "off" <=> wpc = "off"
    /\ dtodo \subseteq Jobs
    /\ stalled \subseteq Jobs
    /\ dattempts \in [Jobs -> Nat]
    /\ djob \in Jobs \cup {NoJob}
    /\ dpc = "reclaim" => djob \in stalled
    /\ dpc \in {"off", "top", "idle", "done"} => stalled = {}
    /\ started \in [Jobs -> Nat]

\* "No two writers race" (watchdog.py): while a job is in flight its file is
\* the claim the worker wrote, whatever the watchdog does meanwhile.  Holds as
\* long as no job outlives the stall threshold and none is deleted.
ClaimMatchesDisk ==
    \A j \in Jobs :
        Held(j) => file[j].status = "running" /\ file[j].attempts = wattempts

\* The copies the watchdog is about to write back are still what is on disk:
\* reclaim never undoes a step of the worker.  Under the same condition.
ReclaimIsFresh ==
    \A j \in stalled :
        IsStalled(file[j]) /\ file[j].attempts = dattempts[j] /\ ~Held(j)

\* "succeeded writes are terminal" (Documentation.md): a job that succeeded or
\* died stays that way.  Holds as long as no job outlives the stall threshold and
\* none is deleted under its handler; the reclaim of a job whose handler
\* overstays the threshold looks at nothing and writes pending over the terminal file.
TerminalIsFinal ==
    [][\A j \in Jobs : file[j].status \in Terminal =>
            file'[j].status \in {file[j].status, "absent"}]_vars

\* The number of attempts max_attempts allows a job that meets no fault: its
\* first attempt is made whatever max_attempts says.
Tries == IF MaxAttempts = 0 THEN 1 ELSE MaxAttempts

\* Every fault, of any kind, puts the attempts counter of a job at most one
\* further past max_attempts.
AttemptsBounded ==
    \A j \in Jobs : file[j].attempts <= Tries + faults

\* "Attempts means tries started" (worker.py): the counter on disk covers every
\* handler run of the job, and exceeds them by no more than the claims that
\* were lost before their handler ran.
AttemptsCountStarts ==
    \A j \in Jobs : Exists(j) =>
        /\ started[j] <= file[j].attempts
        /\ file[j].attempts <= started[j] + faults
                + (IF wpc = "execute" /\ wjob = j THEN 1 ELSE 0)

\* Even when handlers are slow and files are deleted, each fault costs at most
\* one more round of tries: the handler of a job does not run for ever.
StartsBounded ==
    \A j \in Jobs : started[j] <= Tries * (faults + 1)

\* A job ends: it succeeded, died, or was deleted.
Settled(j) == file[j].status \in Terminal \cup {"absent"}

\* Once submitted a job is eventually settled for good, however the threads,
\* the crashes and the lost calls interleave; a job that cannot be claimed
\* starves only those that sort behind it.
EveryJobSettles ==
    \A j \in Jobs : (\A i \in ReadOnly : j < i) =>
        (j \in submitted ~> []Settled(j))

\* A dispatcher asked to stop does stop: each thread looks at the event often
\* enough, in flight or idle.
StopStops == (stop /\ Running) ~> ~Running

\* The life of a job as the code has it (JobLifecycle), read off the files.
Lifecycle == INSTANCE JobLifecycle WITH
    status <- [j \in Jobs |-> file[j].status],
    attempts <- [j \in Jobs |-> file[j].attempts]

\* The two threads, whatever copies they act on, make no step that is not one of
\* the life cycle: nothing skips a state, counts an attempt twice, or hands one
\* back.  It is the life cycle of retry.py and worker.py; that of
\* Documentation.md, failed to pending to running, differs.  Under the same condition.
ImplementsLifecycle == Lifecycle!Spec
=============================================================================
