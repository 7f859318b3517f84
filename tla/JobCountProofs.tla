--------------------------- MODULE JobCountProofs ---------------------------
(***************************************************************************)
(* Proofs about how often JobQueue runs the handler of a job: the counter  *)
(* on disk tells the truth about it, and no mix of faults makes a handler  *)
(* run for ever.                                                           *)
(***************************************************************************)
EXTENDS JobQueueProofs

-----------------------------------------------------------------------------
(* The counter on disk, when no job outlives the stall threshold in flight *)
(* and none is deleted.                                                    *)

\* The worker has claimed the job and is about to run its handler.
Due(j) == IF wpc = "execute" /\ wjob = j THEN 1 ELSE 0

\* The counter covers the runs of the handler, the one that is due included,
\* and every claim it counts beyond them has cost a fault.
Counted ==
    \A j \in Jobs :
        /\ started[j] + Due(j) <= file[j].attempts
        /\ file[j].attempts <= started[j] + Due(j) + faults

\* The terms of Counted are numbers.
LEMMA CountTypes ==
    ASSUME TypeOK
    PROVE  /\ faults \in Nat /\ wattempts \in Nat
           /\ \A j \in Jobs : /\ started[j] \in Nat /\ Due(j) \in {0, 1}
                              /\ file[j] \in FileType /\ file[j].attempts \in Nat
  BY DEF TypeOK, Due, FileType

\* Every step keeps the counters true.
LEMMA CountedStep ==
    ASSUME InTime, FreshInv, Counted, [Next]_vars
    PROVE  Counted'
<1> SUFFICES ASSUME NEW j \in Jobs
             PROVE  /\ started'[j] + Due(j)' <= file'[j].attempts
                    /\ file'[j].attempts <= started'[j] + Due(j)' + faults'
  BY DEF Counted
<1>0. /\ TypeOK /\ faults \in Nat /\ wattempts \in Nat /\ started[j] \in Nat
      /\ Due(j) \in {0, 1} /\ file[j] \in FileType /\ file[j].attempts \in Nat
      /\ started[j] + Due(j) <= file[j].attempts
      /\ file[j].attempts <= started[j] + Due(j) + faults
  BY CountTypes DEF FreshInv, Counted
<1>1. CASE \E i \in Jobs : Submit(i)
  <2>1. PICK i \in Jobs : Submit(i)
    BY <1>1
  <2>2. file'[j].attempts = file[j].attempts
    BY <2>1, <1>0 DEF Submit, FreshInv, SubmittedExist, NoFile, JobFile, TypeOK
  <2> QED
    BY <1>0, <2>1, <2>2 DEF Submit, Due, worker
<1>2. CASE \E i \in Jobs : Delete(i) \/ Overrun(i)
  BY <1>2 DEF Delete, Overrun, Fault, InTime
<1>3. CASE \E i \in Jobs : Elapse(i)
  BY <1>0, <1>3 DEF Elapse, Due, worker, TypeOK, FileType
<1>4. CASE WorkerStop \/ WorkerList \/ NothingToClaim \/ WorkerWake \/ \E i \in Jobs : WorkerRead(i)
  <2>1. UNCHANGED <<file, started>> /\ Due(j) = 0 /\ Due(j)' = 0
    BY <1>4 DEF WorkerStop, WorkerList, NothingToClaim, WorkerWake, WorkerRead, Due
  <2>2. faults' \in {faults, faults + 1}
    BY <1>4 DEF WorkerStop, WorkerList, NothingToClaim, WorkerWake, WorkerRead, Fault
  <2> QED
    BY <1>0, <2>1, <2>2
<1>5. CASE Claim \/ ClaimFails
  <2>1. /\ wpc = "scan" /\ wjob \in Jobs /\ file[wjob].attempts = wattempts
        /\ Due(j) = 0 /\ started' = started
    BY <1>5, <1>0 DEF Claim, ClaimFails, FreshInv, ScanMatchesDisk, Due, TypeOK
  <2>2. CASE j = wjob
    <3>1. CASE Claim
      <4>1. file'[j].attempts = wattempts + 1 /\ Due(j)' = 1 /\ faults' = faults
        BY <1>0, <2>1, <2>2, <3>1 DEF Claim, WriteClaim, JobFile, Due, TypeOK
      <4> QED
        BY <1>0, <2>1, <2>2, <4>1
    <3>2. CASE ClaimFails
      <4>1. /\ Due(j)' = 0
            /\ \/ file'[j].attempts = wattempts + 1 /\ faults' = faults + 1
               \/ file'[j].attempts = wattempts /\ faults' \in {faults, faults + 1}
        BY <1>0, <2>1, <2>2, <3>2 DEF ClaimFails, WriteClaim, Fault, JobFile, Due, TypeOK
      <4> QED
        BY <1>0, <2>1, <2>2, <4>1
    <3> QED
      BY <1>5, <3>1, <3>2
  <2>3. CASE j # wjob
    <3>1. file'[j] = file[j]
      BY <1>0, <1>5, <2>1, <2>3 DEF Claim, ClaimFails, WriteClaim, TypeOK
    <3>2. Due(j)' = 0 /\ faults' \in {faults, faults + 1}
      BY <1>5, <2>3 DEF Claim, ClaimFails, Fault, Due
    <3> QED
      BY <1>0, <2>1, <3>1, <3>2
  <2> QED
    BY <2>2, <2>3
<1>6. CASE Execute
  <2>1. file' = file /\ faults' = faults /\ Due(j)' = 0 /\ wjob \in Jobs
    BY <1>0, <1>6 DEF Execute, Due, TypeOK
  <2>2. started'[j] = started[j] + Due(j)
    BY <1>0, <1>6, <2>1 DEF Execute, Due, TypeOK
  <2> QED
    BY <1>0, <2>1, <2>2
<1>7. CASE Resolve \/ ResolveFails
  <2>1. /\ wpc = "resolve" /\ wjob \in Jobs /\ file[wjob].attempts = wattempts
        /\ Due(j) = 0 /\ Due(j)' = 0 /\ started' = started
    BY <1>7, <1>0 DEF Resolve, ResolveFails, FreshInv, ClaimMatchesDisk, Held, Due, TypeOK
  <2>2. file'[j].attempts = file[j].attempts
    BY <1>0, <1>7, <2>1 DEF Resolve, ResolveFails, WriteResolution, JobFile, TypeOK
  <2>3. faults' \in {faults, faults + 1}
    BY <1>7 DEF Resolve, ResolveFails, Fault
  <2> QED
    BY <1>0, <2>1, <2>2, <2>3
<1>8. CASE WatchdogStep
  <2>1. UNCHANGED <<worker, started>>
    BY <1>8 DEF WatchdogStep, WatchdogStop, WatchdogList, WatchdogRead, ReadBody, Reclaim,
                WatchdogSleep, WatchdogWake
  <2>2. file'[j].attempts = file[j].attempts
    <3>1. CASE Reclaim
      <4>1. djob \in Jobs /\ djob \in stalled /\ file[djob].attempts = dattempts[djob]
        BY <3>1, <1>0 DEF Reclaim, FreshInv, ReclaimIsFresh, TypeOK
      <4> QED
        BY <1>0, <3>1, <4>1 DEF Reclaim, WriteReclaim, JobFile, TypeOK
    <3>2. CASE ~Reclaim
      BY <1>8, <3>2 DEF WatchdogStep, WatchdogStop, WatchdogList, WatchdogRead, ReadBody,
                        WatchdogSleep, WatchdogWake
    <3> QED
      BY <3>1, <3>2
  <2>3. faults' \in {faults, faults + 1}
    BY <1>8 DEF WatchdogStep, WatchdogStop, WatchdogList, WatchdogRead, ReadBody, Reclaim,
                WatchdogSleep, WatchdogWake, Fault
  <2> QED
    BY <1>0, <2>1, <2>2, <2>3 DEF Due, worker
<1>9. CASE RequestStop \/ UNCHANGED vars
  BY <1>0, <1>9 DEF RequestStop, Fault, vars, worker, Due
<1>10. CASE Exit \/ ExitOnTimeout \/ Crash
  <2>1. UNCHANGED <<file, started>> /\ Due(j)' = 0
    BY <1>10 DEF Exit, ExitOnTimeout, Crash, ThreadsEnd, Due
  <2>2. \/ faults' = faults + 1
        \/ faults' = faults /\ Due(j) = 0
    BY <1>10 DEF Exit, ExitOnTimeout, Crash, Fault, Due
  <2> QED
    BY <1>0, <2>1, <2>2
<1>11. CASE Start
  BY <1>0, <1>11 DEF Start, Running, Due
<1> QED
  BY <1>1, <1>2, <1>3, <1>4, <1>5, <1>6, <1>7, <1>8, <1>9, <1>10, <1>11 DEF Next, WorkerStep

\* With no slow handler and no deletion the counter on disk covers every run of
\* the handler, and exceeds them only by claims that a fault cost.
THEOREM CountersAreTrue == ASSUME InTime PROVE Spec => []AttemptsCountStarts
<1>1. Init => Counted
  <2>1. ASSUME Init, NEW j \in Jobs
        PROVE  started[j] = 0 /\ Due(j) = 0 /\ file[j].attempts = 0 /\ faults = 0
    BY <2>1 DEF Init, NoFile, JobFile, NoAttempts, Due
  <2>2. ASSUME Init, NEW j \in Jobs
        PROVE  /\ started[j] + Due(j) <= file[j].attempts
               /\ file[j].attempts <= started[j] + Due(j) + faults
    <3>1. PICK a, b, c, d : a = started[j] /\ b = Due(j) /\ c = file[j].attempts /\ d = faults
      OBVIOUS
    <3>2. a = 0 /\ b = 0 /\ c = 0 /\ d = 0
      BY <2>1, <2>2, <3>1
    <3>3. a + b <= c /\ c <= a + b + d
      BY <3>2
    <3> QED
      BY <3>1, <3>3
  <2> QED
    BY <2>2 DEF Counted
<1>2. FreshInv /\ Counted /\ [Next]_vars => Counted'
  BY InTime, CountedStep
<1>3. FreshInv /\ Counted => AttemptsCountStarts
  BY CountTypes DEF FreshInv, Counted, AttemptsCountStarts, Due
<1> QED
  BY <1>1, <1>2, <1>3, FreshAlways, PTL DEF Spec

-----------------------------------------------------------------------------
(* The runs of a handler, under faults of every kind.                      *)
(*                                                                         *)
(* What a job may still cost without a further fault is read off its file, *)
(* or off the worker's copy while the worker has the job; a copy of the    *)
(* watchdog that is not what is on disk may cost one more round.           *)

\* Runs a job with n attempts has left that may be claimed: one at least.
Extra(n) == IF n < Tries THEN Tries - n ELSE 1

\* Runs it has left after its handler fails once more.
Retries(n) == IF n < Tries THEN Tries - n ELSE 0

FileRuns(j) ==
    IF file[j].status \in {"pending", "failed", "running"} THEN Extra(file[j].attempts) ELSE 0

\* The same for a job the worker has: only its own claim says running.
FileLeft(j) == IF file[j].status = "running" THEN 0 ELSE FileRuns(j)

Larger(a, b) == IF a < b THEN b ELSE a

Runs(j) ==
    CASE wjob # j -> FileRuns(j)
      [] wjob = j /\ wpc = "execute" -> 1 + Larger(Retries(wattempts), FileLeft(j))
      [] wjob = j /\ wpc = "resolve" -> Larger(Retries(wattempts), FileLeft(j))
      [] OTHER -> Larger(Extra(wattempts), FileLeft(j))

\* The copy of the watchdog is the claim on disk, and nobody holds the job.
FreshCopy(j) == wjob # j /\ IsStalled(file[j]) /\ file[j].attempts = dattempts[j]

\* A reclaim may put the job back beside what the worker does to it.
Astray(j) == (j \in stalled /\ ~FreshCopy(j)) \/ (Held(j) /\ IsStalled(file[j]))

Spent(j) == started[j] + Runs(j) + (IF Astray(j) THEN Tries ELSE 0)

\* Every fault buys a job one more round of tries.
Rounds == Tries * (faults + 1)
WithinRounds == \A j \in Jobs : Spent(j) <= Rounds

\* Only the worker writes running, so what it is to claim is not running.
ScanNotRunning == wpc = "scan" /\ wjob # NoJob => file[wjob].status # "running"

\* Nothing is known of a job that was not submitted.
Unknown ==
    \A j \in Jobs \ submitted :
        file[j] = NoFile /\ started[j] = 0 /\ wjob # j /\ j \notin stalled

RoundsInv == TypeOK /\ RunningIsClaim /\ ScanNotRunning /\ Unknown /\ WithinRounds

\* A step costs nothing, or a fault and at most a round; a submission is the
\* first round.
Paid(j) ==
    \/ faults' = faults /\ Spent(j)' <= Spent(j)
    \/ faults' = faults + 1 /\ Spent(j)' <= Spent(j) + Tries
    \/ faults' = faults /\ Spent(j)' <= Tries

\* No count of runs is more than a round.
LEMMA RunsTypes ==
    ASSUME TypeOK
    PROVE  /\ Tries \in Nat \ {0} /\ MaxAttempts <= Tries /\ faults \in Nat
           /\ \A n \in Nat : Extra(n) \in 1..Tries /\ Retries(n) \in 0..Tries
           /\ \A j \in Jobs :
                /\ started[j] \in Nat /\ file[j] \in FileType /\ file[j].attempts \in Nat
                /\ FileRuns(j) \in 0..Tries /\ FileLeft(j) \in 0..Tries
                /\ Runs(j) \in Nat /\ Spent(j) \in Nat
<1>1. Tries \in Nat \ {0} /\ MaxAttempts <= Tries
  BY MaxAttemptsAssumption DEF Tries
<1>2. \A n \in Nat : Extra(n) \in 1..Tries /\ Retries(n) \in 0..Tries
  BY <1>1 DEF Extra, Retries
<1>3. ASSUME NEW j \in Jobs
      PROVE  /\ started[j] \in Nat /\ file[j] \in FileType /\ file[j].attempts \in Nat
             /\ FileRuns(j) \in 0..Tries /\ FileLeft(j) \in 0..Tries
  BY <1>1, <1>2 DEF TypeOK, FileType, FileRuns, FileLeft
<1>4. wattempts \in Nat /\ faults \in Nat
  BY DEF TypeOK
<1>5. ASSUME NEW j \in Jobs
      PROVE  Runs(j) \in Nat
  <2>1. /\ Retries(wattempts) \in Nat /\ Extra(wattempts) \in Nat
        /\ FileRuns(j) \in Nat /\ FileLeft(j) \in Nat
    BY <1>2, <1>3, <1>4
  <2> QED
    BY <2>1 DEF Runs, Larger
<1>6. ASSUME NEW j \in Jobs
      PROVE  Spent(j) \in Nat
  BY <1>1, <1>3, <1>5 DEF Spent
<1> QED
  BY <1>1, <1>2, <1>3, <1>4, <1>5, <1>6

\* A step that leaves alone the file of a job, the worker's dealings with it
\* and its number of runs, and adds no copy to the watchdog's, costs nothing.
LEMMA Untouched ==
    ASSUME TypeOK, TypeOK', NEW j \in Jobs,
           file'[j] = file[j], started'[j] = started[j],
           wjob' = j <=> wjob = j,
           wjob = j => wpc' = wpc /\ wattempts' = wattempts,
           j \in stalled' => j \in stalled /\ dattempts'[j] = dattempts[j]
    PROVE  Spent(j)' <= Spent(j)
<1>1. Runs(j)' = Runs(j)
  BY DEF Runs, FileRuns, FileLeft
<1>2. Astray(j)' => Astray(j)
  BY DEF Astray, FreshCopy, Held
<1>3. Tries \in Nat /\ started[j] \in Nat /\ Runs(j) \in Nat
  BY RunsTypes
<1> QED
  BY <1>1, <1>2, <1>3 DEF Spent

\* A step that costs a fault, and after which the worker does not have the job,
\* costs at most a round.
LEMMA LetGo ==
    ASSUME TypeOK, TypeOK', NEW j \in Jobs,
           started'[j] = started[j], wjob' # j,
           j \in stalled' => wjob = j /\ j \in stalled
    PROVE  Spent(j)' <= Spent(j) + Tries
<1>1. Runs(j)' = FileRuns(j)' /\ FileRuns(j)' \in 0..Tries
  <2>1. /\ file'[j].attempts \in Nat /\ Tries \in Nat
        /\ \A n \in Nat : Extra(n) \in 1..Tries
    BY RunsTypes DEF TypeOK, FileType
  <2> QED
    BY <2>1 DEF Runs, FileRuns
<1>2. Astray(j)' => Astray(j)
  BY DEF Astray, FreshCopy, Held
<1>3. Tries \in Nat /\ started[j] \in Nat /\ Runs(j) \in Nat
  BY RunsTypes
<1> QED
  BY <1>1, <1>2, <1>3 DEF Spent

\* What a job has spent is a number, before a step and after it.
SpentIsNumber == \A j \in Jobs : Spent(j) \in Nat
LEMMA SpentType == TypeOK => SpentIsNumber
  BY RunsTypes DEF SpentIsNumber

LEMMA SpentTypeNext == TypeOK' => SpentIsNumber'
  BY SpentType, PTL

\* Every step pays for the runs it makes possible.
LEMMA PaidStep ==
    ASSUME RoundsInv, TypeOK', [Next]_vars, NEW j \in Jobs
    PROVE  Paid(j)
<1> USE DEF RoundsInv
<1>0. /\ Tries \in Nat \ {0} /\ MaxAttempts <= Tries /\ faults \in Nat
      /\ \A n \in Nat : Extra(n) \in 1..Tries /\ Retries(n) \in 0..Tries
      /\ started[j] \in Nat /\ file[j] \in FileType /\ file[j].attempts \in Nat
      /\ FileRuns(j) \in 0..Tries /\ FileLeft(j) \in 0..Tries
      /\ Runs(j) \in Nat /\ Spent(j) \in Nat /\ wattempts \in Nat /\ NoJob # j
      /\ Spent(j)' \in Nat
  BY RunsTypes, SpentTypeNext, JobsAssumption DEF SpentIsNumber, TypeOK, NoJob
<1>1. ASSUME Spent(j)' <= Spent(j), faults' \in {faults, faults + 1}
      PROVE  Paid(j)
  <2>1. Spent(j)' <= Spent(j) + Tries
    BY <1>0, <1>1
  <2> QED
    BY <1>1, <2>1 DEF Paid
<1>2. CASE \E i \in Jobs : Submit(i)
  <2>1. PICK i \in Jobs : Submit(i)
    BY <1>2
  <2>2. CASE i = j
    <3>1. /\ file'[j].status = "pending" /\ file'[j].attempts = 0 /\ started'[j] = 0
          /\ wjob' # j /\ j \notin stalled' /\ faults' = faults
      BY <2>1, <2>2 DEF Submit, Unknown, JobFile, TypeOK, worker, watchdog
    <3>2. Spent(j)' = Tries
      BY <1>0, <3>1 DEF Spent, Runs, FileRuns, Extra, Astray, Held
    <3> QED
      BY <1>0, <3>1, <3>2 DEF Paid
  <2>3. CASE i # j
    <3>1. file'[j] = file[j] /\ UNCHANGED <<faults, started, worker, watchdog>>
      BY <2>1, <2>3 DEF Submit, TypeOK
    <3> QED
      BY <1>1, <3>1, Untouched DEF worker, watchdog
  <2> QED
    BY <2>2, <2>3
<1>3. CASE \E i \in Jobs : Delete(i) \/ Overrun(i)
  <2>1. PICK i \in Jobs : Delete(i) \/ Overrun(i)
    BY <1>3
  <2>2. faults' = faults + 1 /\ UNCHANGED <<started, worker, watchdog>>
    BY <2>1 DEF Delete, Overrun, Fault
  <2>3. CASE i = j
    <3>1. \/ file'[j].status = "absent"
          \/ file'[j].status = file[j].status /\ file'[j].attempts = file[j].attempts
      BY <2>1, <2>3 DEF Delete, Overrun, NoFile, JobFile, TypeOK, FileType
    <3>2. FileRuns(j)' \in 0..FileRuns(j) /\ FileLeft(j)' \in 0..FileLeft(j)
      BY <1>0, <3>1 DEF FileRuns, FileLeft
    <3>3. wjob' = wjob /\ wpc' = wpc /\ wattempts' = wattempts
      BY <2>2 DEF worker
    <3>4. Runs(j)' \in Nat /\ Runs(j)' <= Runs(j)
      BY <1>0, <3>2, <3>3 DEF Runs, Larger
    <3> QED
      BY <1>0, <2>2, <3>4 DEF Spent, Paid
  <2>4. CASE i # j
    <3>1. file'[j] = file[j]
      BY <2>1, <2>4 DEF Delete, Overrun, TypeOK
    <3> QED
      BY <1>1, <2>2, <3>1, Untouched DEF worker, watchdog
  <2> QED
    BY <2>3, <2>4
<1>4. CASE \E i \in Jobs : Elapse(i)
  <2>1. /\ file'[j].status = file[j].status /\ file'[j].attempts = file[j].attempts
        /\ UNCHANGED <<faults, started, worker, watchdog>>
    BY <1>4 DEF Elapse, TypeOK, FileType
  <2>2. Runs(j)' = Runs(j)
    BY <2>1 DEF Runs, FileRuns, FileLeft, worker
  <2>3. Astray(j)' => Astray(j)
    BY <1>4, <2>1 DEF Elapse, Astray, FreshCopy, IsStalled, Held, worker, watchdog, TypeOK, FileType
  <2>4. Spent(j)' <= Spent(j)
    BY <1>0, <2>1, <2>2, <2>3 DEF Spent
  <2> QED
    BY <1>1, <2>1, <2>4
<1>5. CASE \/ WorkerStop \/ WorkerList \/ NothingToClaim \/ WorkerWake
           \/ WatchdogStop \/ WatchdogList \/ WatchdogSleep \/ WatchdogWake
           \/ RequestStop \/ Exit \/ Start \/ UNCHANGED vars
           \/ \E i \in Jobs : ReadBody(i)
  <2>1. UNCHANGED <<file, started, wjob>>
    BY <1>5 DEF WorkerStop, WorkerList, NothingToClaim, WorkerWake, WatchdogStop, WatchdogList,
                WatchdogSleep, WatchdogWake, RequestStop, Exit, ThreadsEnd, Start, Running, ReadBody,
                worker, vars, TypeOK
  <2>2. wjob = j => UNCHANGED <<wpc, wattempts>>
    BY <1>0, <1>5 DEF WorkerStop, WorkerList, NothingToClaim, WorkerWake, WatchdogStop, WatchdogList,
                WatchdogSleep, WatchdogWake, RequestStop, Exit, ThreadsEnd, Start, Running, ReadBody,
                worker, vars, TypeOK
  <2>3. j \in stalled' => j \in stalled /\ dattempts'[j] = dattempts[j]
    BY <1>5 DEF WorkerStop, WorkerList, NothingToClaim, WorkerWake, WatchdogStop, WatchdogList,
                WatchdogSleep, WatchdogWake, RequestStop, Exit, ThreadsEnd, Start, Running, ReadBody,
                Done, worker, watchdog, vars, TypeOK
  <2>4. faults' \in {faults, faults + 1}
    BY <1>5 DEF WorkerStop, WorkerList, NothingToClaim, WorkerWake, WatchdogStop, WatchdogList,
                WatchdogSleep, WatchdogWake, RequestStop, Exit, ThreadsEnd, Start, Running, ReadBody,
                Fault, vars
  <2> QED
    BY <1>1, <2>1, <2>2, <2>3, <2>4, Untouched
<1>6. CASE \E i \in Jobs : WorkerRead(i)
  <2>1. PICK i \in Jobs : WorkerRead(i)
    BY <1>6
  <2>2. /\ UNCHANGED <<file, started, wpc, watchdog>> /\ wpc = "scan"
        /\ faults' \in {faults, faults + 1}
    BY <2>1 DEF WorkerRead, Fault
  <2>3. CASE wjob # j /\ wjob' = j
    <3>1. wattempts' = file[j].attempts /\ file[j].status \in {"pending", "failed"}
      BY <2>1, <2>3 DEF WorkerRead, Claimable
    <3>2. Runs(j)' = Runs(j)
      BY <1>0, <2>2, <2>3, <3>1 DEF Runs, FileRuns, FileLeft, Larger
    <3>3. Astray(j)' => Astray(j)
      BY <2>2, <3>1 DEF Astray, FreshCopy, IsStalled, Held, watchdog
    <3>4. Spent(j)' <= Spent(j)
      BY <1>0, <2>2, <3>2, <3>3 DEF Spent
    <3> QED
      BY <1>1, <2>2, <3>4
  <2>4. CASE wjob = j \/ wjob' # j
    <3>1. (wjob' = j <=> wjob = j) /\ (wjob = j => wattempts' = wattempts)
      BY <1>0, <2>1, <2>4 DEF WorkerRead
    <3> QED
      BY <1>1, <2>2, <3>1, Untouched DEF watchdog
  <2> QED
    BY <2>3, <2>4
<1>7. CASE Claim
  <2>1. /\ wpc = "scan" /\ wjob \in Jobs /\ wjob' = wjob /\ wpc' = "execute"
        /\ wattempts' = wattempts + 1 /\ UNCHANGED <<faults, started, watchdog>>
    BY <1>7 DEF Claim, TypeOK
  <2>2. CASE wjob = j
    <3>1. file'[j] = JobFile("running", wattempts + 1)
      BY <1>7, <2>1, <2>2 DEF Claim, WriteClaim, TypeOK
    <3>2. FileLeft(j)' = 0
      BY <3>1 DEF FileLeft, JobFile
    <3>3. 1 + Retries(wattempts + 1) <= Extra(wattempts) /\ Retries(wattempts + 1) \in Nat
      BY <1>0 DEF Retries, Extra
    <3>4. Runs(j)' = 1 + Retries(wattempts + 1)
      BY <2>1, <2>2, <3>2, <3>3 DEF Runs, Larger
    <3>5. Extra(wattempts) <= Runs(j)
      BY <1>0, <2>1, <2>2 DEF Runs, Larger
    <3>6. Astray(j)' => Astray(j)
      BY <2>1, <2>2, <3>1 DEF Astray, FreshCopy, IsStalled, Held, JobFile, watchdog
    <3>7. Runs(j)' \in Nat /\ Runs(j)' <= Runs(j)
      BY <1>0, <3>3, <3>4, <3>5
    <3>8. Spent(j)' <= Spent(j)
      BY <1>0, <2>1, <3>6, <3>7 DEF Spent
    <3> QED
      BY <1>1, <2>1, <3>8
  <2>3. CASE wjob # j
    <3>1. file'[j] = file[j]
      BY <1>7, <2>1, <2>3 DEF Claim, WriteClaim, TypeOK
    <3> QED
      BY <1>1, <2>1, <2>3, <3>1, Untouched DEF watchdog
  <2> QED
    BY <2>2, <2>3
<1>8. CASE ClaimFails
  <2>1. /\ wpc = "scan" /\ wjob \in Jobs /\ wjob' = NoJob /\ UNCHANGED <<started, watchdog>>
        /\ faults' \in {faults, faults + 1}
    BY <1>8 DEF ClaimFails, Forget, Fault, TypeOK
  <2>2. CASE wjob = j /\ faults' = faults + 1
    BY <1>0, <2>1, <2>2, LetGo DEF Paid, watchdog
  <2>3. CASE wjob = j /\ faults' # faults + 1
    <3>1. file' = file /\ file[j].status # "running"
      BY <1>0, <1>8, <2>1, <2>3 DEF ClaimFails, Fault, ScanNotRunning
    <3>2. Runs(j)' = FileLeft(j)
      BY <1>0, <2>1, <3>1 DEF Runs, FileLeft, FileRuns
    <3>3. FileLeft(j) <= Runs(j)
      BY <1>0, <2>1, <2>3 DEF Runs, Larger
    <3>4. Astray(j)' => Astray(j)
      BY <1>0, <2>1, <2>3, <3>1 DEF Astray, FreshCopy, IsStalled, Held, watchdog
    <3>5. Spent(j)' <= Spent(j)
      BY <1>0, <2>1, <3>2, <3>3, <3>4 DEF Spent
    <3> QED
      BY <1>1, <2>1, <3>5
  <2>4. CASE wjob # j
    <3>1. file'[j] = file[j]
      BY <1>8, <2>1, <2>4 DEF ClaimFails, WriteClaim, TypeOK
    <3> QED
      BY <1>0, <1>1, <2>1, <2>4, <3>1, Untouched DEF watchdog
  <2> QED
    BY <2>2, <2>3, <2>4
<1>9. CASE Execute
  <2>1. /\ wpc = "execute" /\ wpc' = "resolve" /\ wjob \in Jobs
        /\ UNCHANGED <<file, faults, wjob, wattempts, watchdog>>
        /\ started' = [started EXCEPT ![wjob] = @ + 1]
    BY <1>9 DEF Execute, TypeOK
  <2>2. CASE wjob = j
    <3>1. started'[j] = started[j] + 1
      BY <2>1, <2>2 DEF TypeOK
    <3>2. Larger(Retries(wattempts), FileLeft(j)) \in Nat
      BY <1>0 DEF Larger
    <3>3. Runs(j) = Runs(j)' + 1 /\ Runs(j)' \in Nat
      BY <2>1, <2>2, <3>2 DEF Runs, FileLeft, FileRuns
    <3>4. Astray(j)' <=> Astray(j)
      BY <2>1 DEF Astray, FreshCopy, Held, watchdog
    <3>5. Spent(j)' <= Spent(j)
      BY <1>0, <3>1, <3>3, <3>4 DEF Spent
    <3> QED
      BY <1>1, <2>1, <3>5
  <2>3. CASE wjob # j
    <3>1. started'[j] = started[j]
      BY <2>1, <2>3 DEF TypeOK
    <3> QED
      BY <1>1, <2>1, <2>3, <3>1, Untouched DEF watchdog
  <2> QED
    BY <2>2, <2>3
<1>10. CASE Resolve
  <2>1. /\ wpc = "resolve" /\ wjob \in Jobs /\ wjob' = NoJob
        /\ UNCHANGED <<faults, started, watchdog>>
    BY <1>10 DEF Resolve, Forget, TypeOK
  <2>2. CASE wjob = j
    <3>1. PICK s \in {"succeeded", "failed", "dead"} :
              file'[j] = JobFile(s, wattempts) /\ (s = "failed" => wattempts < MaxAttempts)
      BY <1>10, <2>1, <2>2, NextStatusType DEF Resolve, WriteResolution, TypeOK
    <3>2. Runs(j)' \in Nat /\ Runs(j)' <= Retries(wattempts)
      BY <1>0, <2>1, <3>1, MaxAttemptsAssumption DEF Runs, FileRuns, JobFile, Extra, Retries
    <3>3. Retries(wattempts) <= Runs(j)
      BY <1>0, <2>1, <2>2 DEF Runs, Larger
    <3>4. Astray(j)' => Astray(j)
      BY <1>0, <2>1, <2>2, <3>1 DEF Astray, FreshCopy, Held, watchdog
    <3>5. Runs(j)' <= Runs(j)
      BY <1>0, <3>2, <3>3
    <3>6. Spent(j)' <= Spent(j)
      BY <1>0, <2>1, <3>2, <3>4, <3>5 DEF Spent
    <3> QED
      BY <1>1, <2>1, <3>6
  <2>3. CASE wjob # j
    <3>1. file'[j] = file[j]
      BY <1>10, <2>1, <2>3 DEF Resolve, WriteResolution, TypeOK
    <3> QED
      BY <1>0, <1>1, <2>1, <2>3, <3>1, Untouched DEF watchdog
  <2> QED
    BY <2>2, <2>3
<1>11. CASE ResolveFails
  <2>1. /\ wpc = "resolve" /\ wjob \in Jobs /\ wjob' = NoJob /\ UNCHANGED <<started, watchdog>>
        /\ faults' \in {faults, faults + 1}
    BY <1>11 DEF ResolveFails, Forget, Fault, TypeOK
  <2>2. CASE wjob = j /\ faults' = faults + 1
    BY <1>0, <2>1, <2>2, LetGo DEF Paid, watchdog
  <2>3. CASE wjob = j /\ faults' # faults + 1
    <3>1. file' = file /\ wattempts < MaxAttempts
      BY <1>0, <1>11, <2>1, <2>3 DEF ResolveFails, Fault, Overflows
    <3>2. Retries(wattempts) = Extra(wattempts) /\ Extra(wattempts) \in Nat
      BY <1>0, <3>1, MaxAttemptsAssumption DEF Retries, Extra
    <3>3. file[j].status = "running" => FileRuns(j) = Extra(wattempts)
      BY <2>1, <2>3 DEF RunningIsClaim, Held, FileRuns
    <3>4. file[j].status # "running" => FileRuns(j) = FileLeft(j)
      BY DEF FileLeft
    <3>5. Runs(j)' = FileRuns(j)
      BY <1>0, <2>1, <3>1 DEF Runs, FileRuns
    <3>6. Runs(j) = Larger(Extra(wattempts), FileLeft(j))
      BY <2>1, <2>3, <3>2 DEF Runs
    <3>7. Runs(j)' <= Runs(j)
      BY <1>0, <3>2, <3>3, <3>4, <3>5, <3>6 DEF Larger
    <3>8. Astray(j)' => Astray(j)
      BY <1>0, <2>1, <2>3, <3>1 DEF Astray, FreshCopy, Held, watchdog
    <3>9. Spent(j)' <= Spent(j)
      BY <1>0, <2>1, <3>5, <3>7, <3>8 DEF Spent
    <3> QED
      BY <1>1, <2>1, <3>9
  <2>4. CASE wjob # j
    <3>1. file'[j] = file[j]
      BY <1>11, <2>1, <2>4 DEF ResolveFails, WriteResolution, TypeOK
    <3> QED
      BY <1>0, <1>1, <2>1, <2>4, <3>1, Untouched DEF watchdog
  <2> QED
    BY <2>2, <2>3, <2>4
<1>12. CASE \E i \in Jobs : WatchdogRead(i)
  <2>1. PICK i \in Jobs : WatchdogRead(i)
    BY <1>12
  <2>2. UNCHANGED <<file, started, worker>> /\ faults' \in {faults, faults + 1}
    BY <2>1 DEF WatchdogRead, Fault
  <2>3. CASE i = j /\ IsStalled(file[j]) /\ dattempts'[j] = file[j].attempts
    <3>1. Astray(j)' => Astray(j)
      <4>1. CASE wjob = j
        BY <1>0, <2>2, <2>3, <4>1 DEF Astray, Held, IsStalled, ScanNotRunning, TypeOK
      <4>2. CASE wjob # j
        BY <2>2, <2>3, <4>2 DEF Astray, FreshCopy, Held, worker
      <4> QED
        BY <4>1, <4>2
    <3>2. Runs(j)' = Runs(j)
      BY <2>2 DEF Runs, FileRuns, FileLeft, worker
    <3>3. Spent(j)' <= Spent(j)
      BY <1>0, <2>2, <3>1, <3>2 DEF Spent
    <3> QED
      BY <1>1, <2>2, <3>3
  <2>4. CASE ~(i = j /\ IsStalled(file[j]) /\ dattempts'[j] = file[j].attempts)
    <3>1. j \in stalled' => j \in stalled /\ dattempts'[j] = dattempts[j]
      BY <2>1, <2>4 DEF WatchdogRead, TypeOK
    <3> QED
      BY <1>1, <2>2, <3>1, Untouched DEF worker
  <2> QED
    BY <2>3, <2>4
<1>13. CASE Reclaim
  <2>1. /\ djob \in stalled /\ djob \in Jobs /\ stalled' = stalled \ {djob}
        /\ dattempts' = [dattempts EXCEPT ![djob] = 0]
        /\ UNCHANGED <<started, worker>> /\ faults' \in {faults, faults + 1}
    BY <1>13 DEF Reclaim, Done, Fault, TypeOK
  <2>2. CASE djob = j /\ file' # file
    <3>1. file'[j] = JobFile("pending", dattempts[j]) /\ dattempts[j] \in Nat
      BY <1>13, <2>1, <2>2 DEF Reclaim, WriteReclaim, TypeOK
    <3>2. FileRuns(j)' = Extra(dattempts[j]) /\ FileLeft(j)' = Extra(dattempts[j])
      BY <3>1 DEF FileRuns, FileLeft, JobFile
    <3>3. Extra(dattempts[j]) \in 1..Tries
      BY <1>0, <3>1
    <3>4. ~Astray(j)'
      BY <2>1, <2>2, <3>1 DEF Astray, IsStalled, JobFile
    <3>5. UNCHANGED <<wjob, wpc, wattempts>>
      BY <2>1 DEF worker
    <3>6. CASE FreshCopy(j)
      <4>1. Runs(j)' = Runs(j)
        BY <3>2, <3>5, <3>6 DEF FreshCopy, IsStalled, Runs, FileRuns
      <4>2. Spent(j)' <= Spent(j)
        BY <1>0, <2>1, <3>4, <4>1 DEF Spent
      <4> QED
        BY <1>1, <2>1, <4>2
    <3>7. CASE ~FreshCopy(j)
      <4>1. Astray(j)
        BY <2>1, <2>2, <3>7 DEF Astray
      <4>2. Runs(j)' \in Nat /\ Runs(j)' <= Runs(j) + Tries
        BY <1>0, <3>2, <3>3, <3>5 DEF Runs, Larger
      <4>3. Spent(j)' <= Spent(j)
        BY <1>0, <2>1, <3>4, <4>1, <4>2 DEF Spent
      <4> QED
        BY <1>1, <2>1, <4>3
    <3> QED
      BY <3>6, <3>7
  <2>3. CASE djob # j \/ file' = file
    <3>1. file'[j] = file[j] /\ (j \in stalled' => j \in stalled /\ dattempts'[j] = dattempts[j])
      BY <1>13, <2>1, <2>3 DEF Reclaim, WriteReclaim, TypeOK
    <3> QED
      BY <1>1, <2>1, <3>1, Untouched DEF worker
  <2> QED
    BY <2>2, <2>3
<1>14. CASE ExitOnTimeout \/ Crash
  <2>1. /\ faults' = faults + 1 /\ UNCHANGED <<file, started>>
        /\ wjob' # j /\ j \notin stalled'
    BY <1>0, <1>14 DEF ExitOnTimeout, Crash, ThreadsEnd, Fault
  <2> QED
    BY <1>0, <2>1, LetGo DEF Paid
<1> QED
  BY <1>2, <1>3, <1>4, <1>5, <1>6, <1>7, <1>8, <1>9, <1>10, <1>11, <1>12, <1>13, <1>14
     DEF Next, WorkerStep, WatchdogStep

\* What every job has spent stays within a round for each fault and one more.
LEMMA WithinRoundsStep ==
    ASSUME RoundsInv, TypeOK', [Next]_vars
    PROVE  WithinRounds'
<1> SUFFICES ASSUME NEW j \in Jobs
             PROVE  Spent(j)' <= Rounds'
  BY DEF WithinRounds
<1>1. Tries \in Nat /\ faults \in Nat /\ Spent(j) \in Nat /\ Spent(j)' \in Nat
  BY RunsTypes, SpentTypeNext DEF RoundsInv, SpentIsNumber
<1>2. Rounds \in Nat /\ Tries <= Rounds
  <2>1. ASSUME NEW t \in Nat, NEW f \in Nat
        PROVE  t * (f + 1) \in Nat /\ t <= t * (f + 1)
    <3>1. t * f \in Nat
      OBVIOUS
    <3>2. t * (f + 1) = t * f + t
      OBVIOUS
    <3> QED
      BY <3>1, <3>2
  <2> QED
    BY <1>1, <2>1 DEF Rounds
<1>3. faults' = faults => Rounds' = Rounds
  BY DEF Rounds, Tries
<1>4. faults' = faults + 1 => Rounds' = Rounds + Tries
  <2>1. ASSUME NEW t \in Nat, NEW f \in Nat
        PROVE  t * ((f + 1) + 1) = t * (f + 1) + t
    OBVIOUS
  <2>2. Rounds' = Tries * (faults' + 1)
    BY DEF Rounds, Tries
  <2> QED
    BY <1>1, <2>1, <2>2 DEF Rounds
<1>5. Spent(j) <= Rounds
  BY DEF RoundsInv, WithinRounds
<1>6. Paid(j)
  BY PaidStep
<1> QED
  BY <1>1, <1>2, <1>3, <1>4, <1>5, <1>6 DEF Paid

\* What the worker is to claim is never running.
LEMMA ScanNotRunningStep ==
    ASSUME TypeOK, ScanNotRunning, [Next]_vars
    PROVE  ScanNotRunning'
<1> SUFFICES ASSUME wpc' = "scan", wjob' # NoJob
             PROVE  file'[wjob'].status # "running"
  BY DEF ScanNotRunning
<1>1. CASE \E i \in Jobs : Submit(i) \/ Delete(i) \/ Elapse(i) \/ Overrun(i)
  <2>1. PICK i \in Jobs : Submit(i) \/ Delete(i) \/ Elapse(i) \/ Overrun(i)
    BY <1>1
  <2>2. UNCHANGED worker
    BY <2>1 DEF Submit, Delete, Elapse, Overrun
  <2>3. \/ file' = [file EXCEPT ![i] = JobFile("pending", 0)]
        \/ file' = [file EXCEPT ![i] = NoFile]
        \/ file' = [file EXCEPT ![i].elapsed = TRUE]
    BY <2>1 DEF Submit, Delete, Elapse, Overrun
  <2>4. wjob \in Jobs /\ file[wjob].status # "running"
    BY <2>2 DEF worker, ScanNotRunning, TypeOK
  <2>5. file'[wjob].status # "running"
    <3>1. CASE i # wjob
      BY <2>3, <2>4, <3>1 DEF TypeOK
    <3>2. CASE i = wjob
      BY <2>3, <2>4, <3>2 DEF TypeOK, FileType, JobFile, NoFile
    <3> QED
      BY <3>1, <3>2
  <2> QED
    BY <2>2, <2>5 DEF worker
<1>2. CASE \E i \in Jobs : WorkerRead(i)
  BY <1>2 DEF WorkerRead, Claimable, ScanNotRunning
<1>3. CASE WorkerStep /\ ~(\E i \in Jobs : WorkerRead(i))
  BY <1>3 DEF WorkerStep, WorkerStop, WorkerList, NothingToClaim, Claim, ClaimFails, Execute,
              Resolve, ResolveFails, WorkerWake, Forget, TypeOK
<1>4. CASE WatchdogStep
  <2>1. UNCHANGED worker
    BY <1>4 DEF WatchdogStep, WatchdogStop, WatchdogList, WatchdogRead, ReadBody, Reclaim,
                WatchdogSleep, WatchdogWake
  <2>2. \/ UNCHANGED file
        \/ djob \in Jobs /\ file' = [file EXCEPT ![djob] = JobFile("pending", dattempts[djob])]
    BY <1>4 DEF WatchdogStep, WatchdogStop, WatchdogList, WatchdogRead, ReadBody, Reclaim,
                WriteReclaim, WatchdogSleep, WatchdogWake, TypeOK
  <2>3. wjob \in Jobs
    BY <2>1 DEF worker, TypeOK
  <2>4. file'[wjob] = file[wjob] \/ file'[wjob].status = "pending"
    BY <2>2, <2>3 DEF JobFile, TypeOK
  <2> QED
    BY <2>1, <2>4 DEF ScanNotRunning, worker
<1>5. CASE Exit \/ ExitOnTimeout \/ Crash \/ Start
  BY <1>5 DEF Exit, ExitOnTimeout, Crash, ThreadsEnd, Start
<1>6. CASE RequestStop \/ UNCHANGED vars
  BY <1>6 DEF RequestStop, vars, worker, ScanNotRunning
<1> QED
  BY <1>1, <1>2, <1>3, <1>4, <1>5, <1>6 DEF Next

\* No thread learns of a job before it is submitted.
LEMMA UnknownStep ==
    ASSUME TypeOK, Unknown, [Next]_vars
    PROVE  Unknown'
<1> SUFFICES ASSUME NEW j \in Jobs, j \notin submitted'
             PROVE  file'[j] = NoFile /\ started'[j] = 0 /\ wjob' # j /\ j \notin stalled'
  BY DEF Unknown
<1>0. NoFile.status = "absent" /\ NoJob # j
  BY JobsAssumption DEF NoFile, JobFile, NoJob
<1>1. submitted \subseteq submitted'
  BY DEF Next, WorkerStep, WorkerStop, WorkerList, NothingToClaim, Claim, ClaimFails, Execute,
         Resolve, ResolveFails, WorkerWake, WorkerRead, WatchdogStep, WatchdogStop,
         WatchdogList, WatchdogRead, ReadBody, Reclaim, WatchdogSleep, WatchdogWake,
         RequestStop, Exit, ExitOnTimeout, Crash, ThreadsEnd, Start, Submit, Delete, Elapse,
         Overrun, vars
<1>2. file[j] = NoFile /\ started[j] = 0 /\ wjob # j /\ j \notin stalled
  BY <1>1 DEF Unknown
<1>3. CASE \E i \in Jobs : Submit(i) \/ Delete(i) \/ Elapse(i) \/ Overrun(i)
  <2>1. PICK i \in Jobs : Submit(i) \/ Delete(i) \/ Elapse(i) \/ Overrun(i)
    BY <1>3
  <2>2. i # j
    BY <1>0, <1>2, <2>1 DEF Submit, Delete, Elapse, Overrun, Exists
  <2> QED
    BY <1>2, <2>1, <2>2 DEF Submit, Delete, Elapse, Overrun, TypeOK, worker, watchdog
<1>4. CASE WorkerStep
  <2>1. UNCHANGED watchdog
    BY <1>4 DEF WorkerStep, WorkerStop, WorkerList, NothingToClaim, Claim, ClaimFails, Execute,
                Resolve, ResolveFails, WorkerWake, WorkerRead
  <2>2. file'[j] = file[j] /\ started'[j] = started[j]
    BY <1>2, <1>4 DEF WorkerStep, WorkerStop, WorkerList, NothingToClaim, Claim, WriteClaim,
                ClaimFails, Execute, Resolve, ResolveFails, WriteResolution, WorkerWake,
                WorkerRead, TypeOK
  <2>3. wjob' # j
    BY <1>0, <1>2, <1>4 DEF WorkerStep, WorkerStop, WorkerList, NothingToClaim, Claim,
                ClaimFails, Execute, Resolve, ResolveFails, Forget, WorkerWake, WorkerRead,
                Claimable
  <2> QED
    BY <1>2, <2>1, <2>2, <2>3 DEF watchdog
<1>5. CASE WatchdogStep
  <2>1. UNCHANGED <<worker, started>>
    BY <1>5 DEF WatchdogStep, WatchdogStop, WatchdogList, WatchdogRead, ReadBody, Reclaim,
                WatchdogSleep, WatchdogWake
  <2>2. file'[j] = file[j]
    BY <1>2, <1>5 DEF WatchdogStep, WatchdogStop, WatchdogList, WatchdogRead, ReadBody, Reclaim,
                WriteReclaim, WatchdogSleep, WatchdogWake, TypeOK
  <2>3. j \notin stalled'
    BY <1>0, <1>2, <1>5 DEF WatchdogStep, WatchdogStop, WatchdogList, WatchdogRead, IsStalled,
                ReadBody, Done, Reclaim, WatchdogSleep, WatchdogWake
  <2> QED
    BY <1>2, <2>1, <2>2, <2>3 DEF worker
<1>6. CASE Exit \/ ExitOnTimeout \/ Crash
  BY <1>0, <1>2, <1>6 DEF Exit, ExitOnTimeout, Crash, ThreadsEnd
<1>7. CASE Start \/ RequestStop \/ UNCHANGED vars
  BY <1>2, <1>7 DEF Start, RequestStop, vars, worker, watchdog
<1> QED
  BY <1>3, <1>4, <1>5, <1>6, <1>7 DEF Next

\* Under faults of every kind, slow handlers and deletions included, the handler
\* of a job runs at most one round of tries per fault and one more: the property
\* of the runs, for every value of the constants.
THEOREM HandlersEnd == Spec => []StartsBounded
<1>1. Init => RoundsInv
  <2>1. Init => TypeOK
    BY InitTypeOK
  <2>2. ASSUME Init, NEW j \in Jobs
        PROVE  Spent(j) <= Rounds
    <3>1. /\ started[j] = 0 /\ file[j].status = "absent" /\ wjob # j /\ j \notin stalled
          /\ faults = 0
      BY <2>2, JobsAssumption DEF Init, NoFile, JobFile, NoAttempts, NoJob
    <3>2. Spent(j) = 0
      BY <3>1 DEF Spent, Runs, FileRuns, Astray, Held
    <3>3. Tries \in Nat
      BY <2>1, <2>2, RunsTypes
    <3>4. Rounds = Tries
      BY <3>1, <3>3 DEF Rounds
    <3> QED
      BY <3>2, <3>3, <3>4
  <2>3. Init => RunningIsClaim /\ ScanNotRunning
    BY DEF Init, RunningIsClaim, Held, ScanNotRunning
  <2>4. Init => Unknown
    <3>1. ASSUME Init, NEW j \in Jobs
          PROVE  file[j] = NoFile /\ started[j] = 0 /\ j \notin stalled
      BY <3>1 DEF Init, NoAttempts
    <3>2. ASSUME Init, NEW j \in Jobs
          PROVE  wjob # j
      BY <3>2, JobsAssumption DEF Init, NoJob
    <3> QED
      BY <3>1, <3>2 DEF Unknown
  <2> QED
    BY <2>1, <2>2, <2>3, <2>4 DEF RoundsInv, WithinRounds
<1>2. RoundsInv /\ [Next]_vars => RoundsInv'
  <2> SUFFICES ASSUME RoundsInv, [Next]_vars
               PROVE  RoundsInv'
    OBVIOUS
  <2>1. TypeOK'
    BY StepTypeOK DEF RoundsInv
  <2>2. RunningIsClaim' /\ ScanNotRunning' /\ Unknown'
    BY RunningIsClaimStep, ScanNotRunningStep, UnknownStep DEF RoundsInv
  <2>3. WithinRounds'
    BY <2>1, WithinRoundsStep
  <2> QED
    BY <2>1, <2>2, <2>3 DEF RoundsInv
<1>3. RoundsInv => StartsBounded
  <2> SUFFICES ASSUME RoundsInv, NEW j \in Jobs
               PROVE  started[j] <= Rounds
    BY DEF StartsBounded, Rounds
  <2>1. /\ Tries \in Nat /\ faults \in Nat /\ started[j] \in Nat /\ Runs(j) \in Nat
        /\ Spent(j) \in Nat
    BY RunsTypes DEF RoundsInv
  <2>2. started[j] <= Spent(j)
    BY <2>1 DEF Spent
  <2>3. Spent(j) <= Rounds
    BY DEF RoundsInv, WithinRounds
  <2>4. Rounds \in Int
    BY <2>1 DEF Rounds
  <2> QED
    BY <2>1, <2>2, <2>3, <2>4
<1> QED
  BY <1>1, <1>2, <1>3, PTL DEF Spec
=============================================================================
