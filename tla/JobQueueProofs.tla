--------------------------- MODULE JobQueueProofs ---------------------------
(***************************************************************************)
(* Proofs about JobQueue, for every set of jobs, every max_attempts, every *)
(* number of attempts the backoff overflows at, every set of read-only     *)
(* files and any number of faults.                                         *)
(***************************************************************************)
EXTENDS JobQueue, TLAPS

USE DEF Outcomes

\* What JobFile builds is a job file.
LEMMA JobFileType ==
    ASSUME NEW s \in Statuses \cup {"absent"}, NEW n \in Nat
    PROVE  JobFile(s, n) \in FileType
  BY DEF JobFile, FileType

\* resolve takes a job to succeeded, failed or dead; to failed only when
\* attempts are left.
LEMMA NextStatusType ==
    ASSUME NEW r \in Outcomes, NEW n \in Nat
    PROVE  /\ NextStatus(r, n) \in {"succeeded", "failed", "dead"}
           /\ NextStatus(r, n) = "failed" => n < MaxAttempts
  BY MaxAttemptsAssumption DEF NextStatus

\* The program starts in a state of its types.
LEMMA InitTypeOK == Init => TypeOK
<1>1. NoFile \in FileType
  BY JobFileType DEF NoFile
<1>2. [j \in Jobs |-> NoFile] \in [Jobs -> FileType]
  BY <1>1
<1>3. NoAttempts \in [Jobs -> Nat]
  BY DEF NoAttempts
<1>4. Init => file \in [Jobs -> FileType] /\ dattempts \in [Jobs -> Nat]
              /\ started \in [Jobs -> Nat] /\ faults \in Nat /\ faults <= MaxFaults
  BY <1>2, <1>3, MaxFaultsAssumption DEF Init
<1>5. Init => djob \in Jobs \cup {NoJob} /\ (dpc = "reclaim" => djob \in stalled)
  BY DEF Init
<1>6. Init => wjob \in Jobs \cup {NoJob} /\ (wpc \in {"execute", "resolve"} => wjob \in Jobs)
  BY DEF Init
<1> QED
  BY <1>4, <1>5, <1>6 DEF Init, TypeOK

\* Every step keeps every variable in its type.
LEMMA StepTypeOK == TypeOK /\ [Next]_vars => TypeOK'
<1> SUFFICES ASSUME TypeOK, [Next]_vars
             PROVE  TypeOK'
  OBVIOUS
<1> USE MaxFaultsAssumption, JobsAssumption
<1>1. ASSUME NEW j \in Jobs, Submit(j)
      PROVE  TypeOK'
  <2>1. JobFile("pending", 0) \in FileType
    BY JobFileType DEF Statuses
  <2> QED
    BY <1>1, <2>1 DEF Submit, TypeOK, worker, watchdog
<1>2. ASSUME NEW j \in Jobs, Delete(j)
      PROVE  TypeOK'
  <2>1. NoFile \in FileType
    BY JobFileType DEF NoFile
  <2> QED
    BY <1>2, <2>1 DEF Delete, Fault, TypeOK, worker, watchdog
<1>3. ASSUME NEW j \in Jobs, Elapse(j)
      PROVE  TypeOK'
  <2>1. [file[j] EXCEPT !.elapsed = TRUE] \in FileType
    BY DEF TypeOK, FileType
  <2> QED
    BY <1>3, <2>1 DEF Elapse, TypeOK, worker, watchdog
<1>4. ASSUME NEW j \in Jobs, Overrun(j)
      PROVE  TypeOK'
  <2>1. [file[j] EXCEPT !.elapsed = TRUE] \in FileType
    BY DEF TypeOK, FileType
  <2> QED
    BY <1>4, <2>1 DEF Overrun, Fault, TypeOK, worker, watchdog
<1>5. CASE WorkerStop
  BY <1>5 DEF WorkerStop, TypeOK, watchdog
<1>6. CASE WorkerList
  BY <1>6 DEF WorkerList, Fault, TypeOK, watchdog
<1>7. ASSUME NEW j \in Jobs, WorkerRead(j)
      PROVE  TypeOK'
  <2>1. file[j].attempts \in Nat
    BY DEF TypeOK, FileType
  <2> QED
    BY <1>7, <2>1 DEF WorkerRead, Fault, TypeOK, watchdog
<1>8. CASE NothingToClaim
  BY <1>8 DEF NothingToClaim, TypeOK, watchdog
<1>9. CASE Claim
  <2>1. wjob \in Jobs /\ wattempts + 1 \in Nat
    BY <1>9 DEF Claim, TypeOK
  <2>2. JobFile("running", wattempts + 1) \in FileType
    BY <2>1, JobFileType DEF Statuses
  <2> QED
    BY <1>9, <2>1, <2>2 DEF Claim, WriteClaim, TypeOK, watchdog
<1>10. CASE ClaimFails
  <2>1. wjob \in Jobs /\ wattempts + 1 \in Nat
    BY <1>10 DEF ClaimFails, TypeOK
  <2>2. JobFile("running", wattempts + 1) \in FileType
    BY <2>1, JobFileType DEF Statuses
  <2> QED
    BY <1>10, <2>1, <2>2 DEF ClaimFails, WriteClaim, Forget, Fault, TypeOK, watchdog
<1>11. CASE Execute
  BY <1>11 DEF Execute, TypeOK, watchdog
<1>12. CASE Resolve \/ ResolveFails
  <2>1. wjob \in Jobs
    BY <1>12 DEF Resolve, ResolveFails, TypeOK
  <2>2. JobFile(NextStatus(outcome, wattempts), wattempts) \in FileType
    BY NextStatusType, JobFileType DEF TypeOK, Statuses
  <2>3. CASE Resolve
    BY <2>3, <2>1, <2>2 DEF Resolve, WriteResolution, Forget, TypeOK, watchdog
  <2>4. CASE ResolveFails
    BY <2>4, <2>1, <2>2 DEF ResolveFails, WriteResolution, Forget, Fault, TypeOK, watchdog
  <2> QED
    BY <1>12, <2>3, <2>4
<1>13. CASE WorkerWake
  BY <1>13 DEF WorkerWake, TypeOK, watchdog
<1>14. CASE WatchdogStop
  BY <1>14 DEF WatchdogStop, TypeOK, worker
<1>15. CASE WatchdogList
  BY <1>15 DEF WatchdogList, Fault, TypeOK, worker
<1>16. ASSUME NEW j \in Jobs, WatchdogRead(j)
       PROVE  TypeOK'
  <2>1. file[j].attempts \in Nat
    BY DEF TypeOK, FileType
  <2>2. [dattempts EXCEPT ![j] = file[j].attempts] \in [Jobs -> Nat]
    BY <2>1 DEF TypeOK
  <2>3. dattempts' \in [Jobs -> Nat] /\ stalled' \subseteq Jobs /\ stalled \subseteq stalled'
    BY <1>16, <2>2 DEF WatchdogRead, TypeOK
  <2>4. faults' \in Nat /\ faults' <= MaxFaults
    BY <1>16 DEF WatchdogRead, Fault, TypeOK
  <2> QED
    BY <1>16, <2>3, <2>4 DEF WatchdogRead, TypeOK, worker
<1>17. ASSUME NEW j \in Jobs, ReadBody(j)
       PROVE  TypeOK'
  <2>1. [dattempts EXCEPT ![j] = 0] \in [Jobs -> Nat]
    BY DEF TypeOK
  <2>2. dpc = "scan" /\ j \in stalled
    BY <1>17 DEF ReadBody, First
  <2>3. dattempts' \in [Jobs -> Nat] /\ stalled' \subseteq Jobs
    BY <1>17, <2>1 DEF ReadBody, Done, TypeOK
  <2>4. faults' \in Nat /\ faults' <= MaxFaults
    BY <1>17 DEF ReadBody, Fault, TypeOK
  <2>5. \/ dpc' = "reclaim" /\ djob' = j /\ stalled' = stalled
        \/ dpc' = "scan" /\ djob' = djob
    BY <1>17, <2>2 DEF ReadBody
  <2>6. /\ djob' \in Jobs \cup {NoJob}
        /\ dpc' = "reclaim" => djob' \in stalled'
        /\ dpc' \in {"reclaim", "scan"}
    BY <2>2, <2>5 DEF TypeOK
  <2> QED
    BY <1>17, <2>3, <2>4, <2>6 DEF ReadBody, TypeOK, worker
<1>18. CASE Reclaim
  <2>1. djob \in Jobs /\ dattempts[djob] \in Nat
    BY <1>18 DEF Reclaim, TypeOK
  <2>2. JobFile("pending", dattempts[djob]) \in FileType
    BY <2>1, JobFileType DEF Statuses
  <2>3. [dattempts EXCEPT ![djob] = 0] \in [Jobs -> Nat]
    BY <2>1 DEF TypeOK
  <2>4. file' \in [Jobs -> FileType]
    BY <1>18, <2>1, <2>2 DEF Reclaim, WriteReclaim, TypeOK
  <2> QED
    BY <1>18, <2>3, <2>4 DEF Reclaim, Done, Fault, TypeOK, worker
<1>19. CASE WatchdogSleep
  BY <1>19 DEF WatchdogSleep, TypeOK, worker
<1>20. CASE WatchdogWake
  BY <1>20 DEF WatchdogWake, TypeOK, worker
<1>21. CASE RequestStop
  BY <1>21 DEF RequestStop, Fault, TypeOK, worker, watchdog
<1>22. CASE Exit \/ ExitOnTimeout \/ Crash
  <2>1. NoAttempts \in [Jobs -> Nat]
    BY DEF NoAttempts
  <2>2. ThreadsEnd /\ stop' = stop
    BY <1>22 DEF Exit, ExitOnTimeout, Crash
  <2>3. faults' \in Nat /\ faults' <= MaxFaults
    BY <1>22 DEF Exit, ExitOnTimeout, Crash, Fault, TypeOK
  <2>4. dattempts' \in [Jobs -> Nat]
    BY <2>1, <2>2 DEF ThreadsEnd
  <2> QED
    BY <2>2, <2>3, <2>4 DEF ThreadsEnd, TypeOK
<1>23. CASE Start
  BY <1>23 DEF Start, Running, TypeOK
<1>24. CASE UNCHANGED vars
  BY <1>24 DEF vars, worker, watchdog, TypeOK
<1> QED
  BY <1>1, <1>2, <1>3, <1>4, <1>5, <1>6, <1>7, <1>8, <1>9, <1>10, <1>11,
     <1>12, <1>13, <1>14, <1>15, <1>16, <1>17, <1>18, <1>19, <1>20, <1>21,
     <1>22, <1>23, <1>24 DEF Next, WorkerStep, WatchdogStep

\* Type correctness: the type invariant of JobQueue holds throughout.
THEOREM Typing == Spec => []TypeOK
  BY InitTypeOK, StepTypeOK, PTL DEF Spec

-----------------------------------------------------------------------------
(* The attempts counter under every fault.                                 *)

Limit == Tries + faults

\* The counter on disk.  A job that may still be claimed is strictly below the
\* limit; so is a running job whose claim was given up (a fault was spent on
\* it) or is past the stall threshold.
DiskBelowLimit ==
    \A j \in Jobs :
        /\ file[j].attempts <= Limit
        /\ file[j].status \in {"pending", "failed"} => file[j].attempts < Limit
        /\ file[j].status = "running" /\ (file[j].elapsed \/ ~Held(j)) =>
                file[j].attempts < Limit

\* The counters in the copies of the two threads.
CopiesBelowLimit ==
    /\ wpc = "scan" /\ wjob # NoJob => wattempts < Limit
    /\ wpc \in {"execute", "resolve"} => wattempts <= Limit
    /\ \A j \in stalled : dattempts[j] < Limit

\* Only the worker writes "running": as long as the file of a job in flight
\* says so, it is the claim of that worker.
RunningIsClaim ==
    \A j \in Jobs : Held(j) /\ file[j].status = "running" => file[j].attempts = wattempts

AttemptsInv == TypeOK /\ DiskBelowLimit /\ CopiesBelowLimit /\ RunningIsClaim

\* A fault raises the limit, and nothing lowers it.
LEMMA LimitGrows ==
    ASSUME TypeOK
    PROVE  /\ Limit \in Nat /\ 0 < Limit /\ MaxAttempts <= Limit
           /\ \A k : Fault(k) => Limit' \in Nat /\ Limit' = Limit + 1
           /\ faults' = faults => Limit' = Limit
  BY MaxAttemptsAssumption DEF Limit, Tries, Fault, TypeOK

\* Every step keeps the counters below the limit.
LEMMA AttemptsStep ==
    ASSUME AttemptsInv, TypeOK', [Next]_vars
    PROVE  DiskBelowLimit' /\ CopiesBelowLimit'
<1> USE LimitGrows DEF AttemptsInv
<1>1. ASSUME NEW j \in Jobs, Submit(j)
      PROVE  DiskBelowLimit' /\ CopiesBelowLimit'
  BY <1>1 DEF Submit, JobFile, worker, watchdog, Held, DiskBelowLimit, CopiesBelowLimit, TypeOK, FileType
<1>2. ASSUME NEW j \in Jobs, Delete(j)
      PROVE  DiskBelowLimit' /\ CopiesBelowLimit'
  BY <1>2 DEF Delete, NoFile, JobFile, worker, watchdog, Held, DiskBelowLimit, CopiesBelowLimit, TypeOK, FileType
<1>3. ASSUME NEW j \in Jobs, Elapse(j)
      PROVE  DiskBelowLimit' /\ CopiesBelowLimit'
  BY <1>3 DEF Elapse, worker, watchdog, Held, DiskBelowLimit, CopiesBelowLimit, TypeOK, FileType
<1>4. ASSUME NEW j \in Jobs, Overrun(j)
      PROVE  DiskBelowLimit' /\ CopiesBelowLimit'
  BY <1>4 DEF Overrun, worker, watchdog, Held, DiskBelowLimit, CopiesBelowLimit, TypeOK, FileType
<1>5. ASSUME WorkerStop \/ NothingToClaim \/ WorkerWake
      PROVE  DiskBelowLimit' /\ CopiesBelowLimit'
  BY <1>5 DEF WorkerStop, NothingToClaim, WorkerWake, watchdog, Held, DiskBelowLimit, CopiesBelowLimit, TypeOK, FileType
<1>6. ASSUME WorkerList
      PROVE  DiskBelowLimit' /\ CopiesBelowLimit'
  BY <1>6 DEF WorkerList, watchdog, Held, DiskBelowLimit, CopiesBelowLimit, TypeOK, FileType
<1>7. ASSUME NEW j \in Jobs, WorkerRead(j)
      PROVE  DiskBelowLimit' /\ CopiesBelowLimit'
  BY <1>7 DEF WorkerRead, Claimable, watchdog, Held, NoJob, DiskBelowLimit, CopiesBelowLimit, TypeOK, FileType
<1>8. ASSUME Claim
      PROVE  DiskBelowLimit' /\ CopiesBelowLimit'
  BY <1>8 DEF Claim, WriteClaim, JobFile, watchdog, Held, DiskBelowLimit, CopiesBelowLimit, TypeOK, FileType
<1>9. ASSUME ClaimFails
      PROVE  DiskBelowLimit' /\ CopiesBelowLimit'
  <2>1. /\ wpc' = "idle" /\ UNCHANGED watchdog
        /\ wjob \in Jobs /\ wattempts \in Nat /\ wattempts < Limit
        /\ \A i \in Jobs : ~Held(i)
    BY <1>9 DEF ClaimFails, Held, CopiesBelowLimit, TypeOK
  <2>2. Limit' = Limit \/ Limit' = Limit + 1
    BY <1>9 DEF ClaimFails
  <2>3. CopiesBelowLimit'
    BY <2>1, <2>2 DEF watchdog, CopiesBelowLimit, TypeOK
  <2>4. CASE UNCHANGED file
    BY <2>1, <2>2, <2>3, <2>4 DEF DiskBelowLimit, TypeOK, FileType
  <2>5. CASE WriteClaim /\ Fault("store")
    <3>1. \A i \in Jobs : file'[i] \in {file[i], JobFile("running", wattempts + 1)}
      BY <2>1, <2>5 DEF WriteClaim, TypeOK
    <3>2. Limit' = Limit + 1 /\ Limit \in Nat
      BY <2>5
    <3>3. \A i \in Jobs : file'[i].attempts < Limit'
      BY <2>1, <3>1, <3>2 DEF JobFile, DiskBelowLimit, TypeOK, FileType
    <3> QED
      BY <2>3, <3>2, <3>3 DEF DiskBelowLimit, TypeOK, FileType
  <2> QED
    BY <1>9, <2>4, <2>5 DEF ClaimFails
<1>10. ASSUME Execute
       PROVE  DiskBelowLimit' /\ CopiesBelowLimit'
  BY <1>10 DEF Execute, watchdog, Held, DiskBelowLimit, CopiesBelowLimit, TypeOK, FileType
<1>11. ASSUME Resolve
       PROVE  DiskBelowLimit' /\ CopiesBelowLimit'
  <2>1. wjob \in Jobs /\ wattempts \in Nat /\ wattempts <= Limit
    BY <1>11 DEF Resolve, CopiesBelowLimit, TypeOK
  <2>2. PICK s \in {"succeeded", "failed", "dead"} :
            /\ file' = [file EXCEPT ![wjob] = JobFile(s, wattempts)]
            /\ s = "failed" => wattempts < MaxAttempts
    BY <1>11, NextStatusType DEF Resolve, WriteResolution, TypeOK
  <2>3. Limit' = Limit /\ Limit \in Nat /\ MaxAttempts <= Limit
    BY <1>11 DEF Resolve
  <2>4. DiskBelowLimit'
    <3> SUFFICES ASSUME NEW i \in Jobs
                 PROVE  /\ file'[i].attempts <= Limit'
                        /\ file'[i].status \in {"pending", "failed"} => file'[i].attempts < Limit'
                        /\ file'[i].status = "running" /\ (file'[i].elapsed \/ ~Held(i)') =>
                                file'[i].attempts < Limit'
      BY DEF DiskBelowLimit
    <3>1. CASE i = wjob
      <4>1. file'[i] = JobFile(s, wattempts)
        BY <2>1, <2>2, <3>1 DEF TypeOK
      <4> QED
        BY <4>1, <2>1, <2>2, <2>3, MaxAttemptsAssumption DEF JobFile
    <3>2. CASE i # wjob
      <4>1. file'[i] = file[i] /\ ~Held(i)
        BY <2>1, <2>2, <3>2 DEF TypeOK, Held
      <4> QED
        BY <4>1, <2>3 DEF DiskBelowLimit
    <3> QED
      BY <3>1, <3>2
  <2>5. CopiesBelowLimit'
    BY <1>11, <2>3 DEF Resolve, Forget, watchdog, CopiesBelowLimit
  <2> QED
    BY <2>4, <2>5
<1>12. ASSUME ResolveFails, Overflows(outcome, wattempts), UNCHANGED <<file, faults>>
       PROVE  DiskBelowLimit' /\ CopiesBelowLimit'
  <2>1. /\ wjob \in Jobs /\ Held(wjob) /\ wattempts \in Nat /\ wattempts < MaxAttempts
        /\ wpc' = "idle" /\ UNCHANGED watchdog
    BY <1>12 DEF ResolveFails, Overflows, Held, TypeOK
  <2>2. Limit' = Limit /\ Limit \in Nat /\ wattempts < Limit
    BY <1>12, <2>1, MaxAttemptsAssumption
  <2>3. file[wjob].status = "running" => file[wjob].attempts < Limit
    BY <2>1, <2>2 DEF RunningIsClaim
  <2>4. \A i \in Jobs : Held(i) => i = wjob
    BY DEF Held
  <2>5. DiskBelowLimit'
    BY <1>12, <2>1, <2>2, <2>3, <2>4 DEF DiskBelowLimit
  <2>6. CopiesBelowLimit'
    BY <2>1, <2>2 DEF watchdog, CopiesBelowLimit
  <2> QED
    BY <2>5, <2>6
<1>23. ASSUME ResolveFails, \E k : Fault(k)
       PROVE  DiskBelowLimit' /\ CopiesBelowLimit'
  <2>1. wjob \in Jobs /\ wattempts \in Nat /\ wattempts <= Limit
    BY <1>23 DEF ResolveFails, CopiesBelowLimit, TypeOK
  <2>2. Limit' = Limit + 1 /\ Limit \in Nat
    BY <1>23
  <2>3. DiskBelowLimit'
    <3> SUFFICES ASSUME NEW i \in Jobs
                 PROVE  file'[i].attempts < Limit'
      BY <2>2, TypeOK' DEF DiskBelowLimit, TypeOK, FileType
    <3>1. file'[i] \in {file[i], JobFile(NextStatus(outcome, wattempts), wattempts)}
      BY <1>23, <2>1 DEF ResolveFails, WriteResolution, TypeOK
    <3>2. file[i].attempts \in Nat /\ file[i].attempts <= Limit
      BY DEF DiskBelowLimit, TypeOK, FileType
    <3> QED
      BY <2>1, <2>2, <3>1, <3>2 DEF JobFile
  <2>4. CopiesBelowLimit'
    BY <1>23, <2>2 DEF ResolveFails, Forget, watchdog, CopiesBelowLimit, TypeOK
  <2> QED
    BY <2>3, <2>4
<1>13. ASSUME WatchdogStop \/ WatchdogSleep \/ WatchdogWake
       PROVE  DiskBelowLimit' /\ CopiesBelowLimit'
  BY <1>13 DEF WatchdogStop, WatchdogSleep, WatchdogWake, worker, Held, DiskBelowLimit, CopiesBelowLimit, TypeOK, FileType
<1>14. ASSUME WatchdogList
       PROVE  DiskBelowLimit' /\ CopiesBelowLimit'
  BY <1>14 DEF WatchdogList, worker, Held, DiskBelowLimit, CopiesBelowLimit, TypeOK, FileType
<1>15. ASSUME NEW j \in Jobs, WatchdogRead(j)
       PROVE  DiskBelowLimit' /\ CopiesBelowLimit'
  BY <1>15 DEF WatchdogRead, IsStalled, worker, Held, DiskBelowLimit, CopiesBelowLimit, TypeOK, FileType
<1>16. ASSUME NEW j \in Jobs, ReadBody(j)
       PROVE  DiskBelowLimit' /\ CopiesBelowLimit'
  BY <1>16 DEF ReadBody, Done, worker, Held, DiskBelowLimit, CopiesBelowLimit, TypeOK, FileType
<1>17. ASSUME Reclaim
       PROVE  DiskBelowLimit' /\ CopiesBelowLimit'
  <2>1. djob \in Jobs /\ dattempts[djob] \in Nat /\ dattempts[djob] < Limit
    BY <1>17 DEF Reclaim, CopiesBelowLimit, TypeOK
  <2>2. Limit' \in Nat /\ Limit <= Limit'
    BY <1>17 DEF Reclaim
  <2>3. DiskBelowLimit'
    <3> SUFFICES ASSUME NEW i \in Jobs
                 PROVE  /\ file'[i].attempts <= Limit'
                        /\ file'[i].status \in {"pending", "failed"} => file'[i].attempts < Limit'
                        /\ file'[i].status = "running" /\ (file'[i].elapsed \/ ~Held(i)') =>
                                file'[i].attempts < Limit'
      BY DEF DiskBelowLimit
    <3>1. Held(i)' <=> Held(i)
      BY <1>17 DEF Reclaim, worker, Held
    <3>2. file'[i] \in {file[i], JobFile("pending", dattempts[djob])}
      BY <1>17, <2>1 DEF Reclaim, WriteReclaim, TypeOK
    <3> QED
      BY <2>1, <2>2, <3>1, <3>2 DEF DiskBelowLimit, JobFile, TypeOK, FileType
  <2>4. CopiesBelowLimit'
    BY <1>17, <2>1, <2>2 DEF Reclaim, Done, worker, CopiesBelowLimit, TypeOK
  <2> QED
    BY <2>3, <2>4
<1>18. ASSUME RequestStop
       PROVE  DiskBelowLimit' /\ CopiesBelowLimit'
  BY <1>18 DEF RequestStop, worker, watchdog, Held, DiskBelowLimit, CopiesBelowLimit, TypeOK, FileType
<1>19. ASSUME Exit
       PROVE  DiskBelowLimit' /\ CopiesBelowLimit'
  BY <1>19 DEF Exit, ThreadsEnd, Held, DiskBelowLimit, CopiesBelowLimit, TypeOK, FileType
<1>20. ASSUME ExitOnTimeout \/ Crash
       PROVE  DiskBelowLimit' /\ CopiesBelowLimit'
  BY <1>20 DEF ExitOnTimeout, Crash, ThreadsEnd, Held, DiskBelowLimit, CopiesBelowLimit, TypeOK, FileType
<1>21. ASSUME Start
       PROVE  DiskBelowLimit' /\ CopiesBelowLimit'
  BY <1>21 DEF Start, Running, Held, DiskBelowLimit, CopiesBelowLimit, TypeOK, FileType
<1>22. ASSUME UNCHANGED vars
       PROVE  DiskBelowLimit' /\ CopiesBelowLimit'
  BY <1>22 DEF vars, worker, watchdog, Held, DiskBelowLimit, CopiesBelowLimit, TypeOK, FileType
<1>24. ASSUME ResolveFails
       PROVE  DiskBelowLimit' /\ CopiesBelowLimit'
  BY <1>12, <1>23, <1>24 DEF ResolveFails
<1> QED
  BY <1>1, <1>2, <1>3, <1>4, <1>5, <1>6, <1>7, <1>8, <1>9, <1>10, <1>11, <1>24, <1>13, <1>14, <1>15, <1>16, <1>17, <1>18, <1>19, <1>20, <1>21, <1>22
     DEF Next, WorkerStep, WatchdogStep

\* Every step keeps the file of a job in flight, while it says running, the
\* claim of the worker.
LEMMA RunningIsClaimStep ==
    ASSUME TypeOK, RunningIsClaim, [Next]_vars
    PROVE  RunningIsClaim'
<1> SUFFICES ASSUME NEW j \in Jobs, Held(j)', file'[j].status = "running"
             PROVE  file'[j].attempts = wattempts'
  BY DEF RunningIsClaim
<1>1. ASSUME NEW i \in Jobs, Submit(i) \/ Delete(i) \/ Elapse(i) \/ Overrun(i)
      PROVE  file'[j].attempts = wattempts'
  <2>1. UNCHANGED worker
    BY <1>1 DEF Submit, Delete, Elapse, Overrun
  <2>2. \/ file' = [file EXCEPT ![i] = JobFile("pending", 0)]
        \/ file' = [file EXCEPT ![i] = NoFile]
        \/ file' = [file EXCEPT ![i].elapsed = TRUE]
    BY <1>1 DEF Submit, Delete, Elapse, Overrun
  <2>3. JobFile("pending", 0).status # "running" /\ NoFile.status # "running"
    BY DEF NoFile, JobFile
  <2>4. file'[j].attempts = file[j].attempts /\ file'[j].status = file[j].status
    <3>1. CASE i # j
      BY <2>2, <3>1 DEF TypeOK
    <3>2. CASE i = j
      BY <2>2, <2>3, <3>2 DEF TypeOK, FileType
    <3> QED
      BY <3>1, <3>2
  <2> QED
    BY <2>1, <2>4 DEF RunningIsClaim, Held, worker
<1>2. CASE Claim
  BY <1>2 DEF Claim, WriteClaim, JobFile, Held, TypeOK
<1>3. CASE Execute
  BY <1>3 DEF Execute, Held, RunningIsClaim
<1>4. CASE WorkerStep /\ ~Claim /\ ~Execute
  BY <1>4 DEF WorkerStep, WorkerStop, WorkerList, NothingToClaim, ClaimFails, Resolve,
              ResolveFails, WorkerWake, WorkerRead, Held
<1>5. CASE WatchdogStep
  <2>1. UNCHANGED worker
    BY <1>5 DEF WatchdogStep, WatchdogStop, WatchdogList, WatchdogRead, ReadBody, Reclaim,
                WatchdogSleep, WatchdogWake
  <2>2. file'[j] = file[j]
    BY <1>5 DEF WatchdogStep, WatchdogStop, WatchdogList, WatchdogRead, ReadBody, Reclaim,
                WriteReclaim, JobFile, WatchdogSleep, WatchdogWake, TypeOK
  <2> QED
    BY <2>1, <2>2 DEF RunningIsClaim, Held, worker
<1>6. CASE Exit \/ ExitOnTimeout \/ Crash \/ Start
  BY <1>6 DEF Exit, ExitOnTimeout, Crash, ThreadsEnd, Start, Held
<1>7. CASE RequestStop \/ UNCHANGED vars
  BY <1>7 DEF RequestStop, vars, worker, Held, RunningIsClaim
<1> QED
  BY <1>1, <1>2, <1>3, <1>4, <1>5, <1>6, <1>7 DEF Next

\* Every fault puts the attempts counter of a job at most one further past
\* max_attempts: the property of the runs, for every value of the constants.
THEOREM AttemptsAreBounded == Spec => []AttemptsBounded
<1>1. Init => AttemptsInv
  <2>1. Init => TypeOK
    BY InitTypeOK
  <2>2. Init => DiskBelowLimit
    BY <2>1, LimitGrows DEF Init, DiskBelowLimit, NoFile, JobFile
  <2>3. Init => CopiesBelowLimit
    BY DEF Init, CopiesBelowLimit
  <2>4. Init => RunningIsClaim
    BY DEF Init, RunningIsClaim, Held
  <2> QED
    BY <2>1, <2>2, <2>3, <2>4 DEF AttemptsInv
<1>2. AttemptsInv /\ [Next]_vars => AttemptsInv'
  BY StepTypeOK, AttemptsStep, RunningIsClaimStep DEF AttemptsInv
<1>3. AttemptsInv => AttemptsBounded
  BY DEF AttemptsInv, DiskBelowLimit, AttemptsBounded, Limit
<1> QED
  BY <1>1, <1>2, <1>3, PTL DEF Spec

-----------------------------------------------------------------------------
(* The two writers, when no job outlives the stall threshold in flight and *)
(* none is deleted.                                                        *)

InTime == "slow" \notin Faults /\ "delete" \notin Faults

\* What the worker is about to claim is still on disk as it was scanned.
ScanMatchesDisk ==
    wpc = "scan" /\ wjob # NoJob =>
        /\ file[wjob].status \in {"pending", "failed"}
        /\ file[wjob].attempts = wattempts

\* The claim of a job in flight is within the stall threshold.
HeldInTime == \A j \in Jobs : Held(j) => ~file[j].elapsed

SubmittedExist == \A j \in Jobs : j \notin submitted => file[j] = NoFile

FreshInv ==
    /\ TypeOK
    /\ ClaimMatchesDisk
    /\ ReclaimIsFresh
    /\ ScanMatchesDisk
    /\ HeldInTime
    /\ SubmittedExist

\* Every step keeps the copies of both threads in agreement with the disk.
LEMMA FreshStep ==
    ASSUME InTime, FreshInv, TypeOK', [Next]_vars
    PROVE  FreshInv'
<1> USE DEF FreshInv
<1> DEFINE Inv == /\ ClaimMatchesDisk /\ ReclaimIsFresh /\ ScanMatchesDisk
                  /\ HeldInTime /\ SubmittedExist
<1>1. ASSUME NEW j \in Jobs, Submit(j)
      PROVE  Inv'
  <2>1. file[j].status = "absent" /\ j \notin submitted
    BY <1>1 DEF Submit, SubmittedExist, NoFile, JobFile
  <2>2. \A i \in Jobs \ {j} : file'[i] = file[i]
    BY <1>1 DEF Submit, TypeOK
  <2>3. ~Held(j) /\ j \notin stalled /\ ~(wpc = "scan" /\ wjob = j /\ wjob # NoJob)
    BY <2>1 DEF ClaimMatchesDisk, ReclaimIsFresh, IsStalled, ScanMatchesDisk
  <2>4. UNCHANGED <<worker, watchdog>> /\ submitted' = submitted \cup {j}
    BY <1>1 DEF Submit
  <2>5. \A i \in Jobs : Held(i)' <=> Held(i)
    BY <2>4 DEF Held, worker
  <2>6. ClaimMatchesDisk' /\ HeldInTime'
    BY <2>2, <2>3, <2>4, <2>5 DEF ClaimMatchesDisk, HeldInTime, worker
  <2>7. ReclaimIsFresh'
    BY <2>2, <2>3, <2>4, <2>5 DEF ReclaimIsFresh, IsStalled, watchdog, TypeOK
  <2>8. ScanMatchesDisk'
    BY <2>2, <2>3, <2>4 DEF ScanMatchesDisk, worker, TypeOK
  <2>9. SubmittedExist'
    BY <2>2, <2>4 DEF SubmittedExist
  <2> QED
    BY <2>6, <2>7, <2>8, <2>9
<1>2. ASSUME NEW j \in Jobs, Delete(j) \/ Overrun(j)
      PROVE  Inv'
  BY <1>2 DEF Delete, Overrun, Fault, InTime, ClaimMatchesDisk, ReclaimIsFresh, ScanMatchesDisk, HeldInTime, SubmittedExist, IsStalled, TypeOK, FileType
<1>3. ASSUME NEW j \in Jobs, Elapse(j)
      PROVE  Inv'
  <2>1. /\ \A i \in Jobs \ {j} : file'[i] = file[i]
        /\ file'[j].status = file[j].status /\ file'[j].attempts = file[j].attempts
        /\ file[j].status = "running" => ~Held(j)
        /\ file[j].status \in {"running", "failed"} /\ ~file[j].elapsed
    BY <1>3 DEF Elapse, TypeOK, FileType
  <2>2. UNCHANGED <<submitted, worker, watchdog>>
    BY <1>3 DEF Elapse
  <2>3. j \in submitted /\ j \notin stalled /\ ~Held(j)
    BY <1>3, <2>1 DEF SubmittedExist, NoFile, JobFile, ReclaimIsFresh, IsStalled, ClaimMatchesDisk
  <2>4. \A i \in stalled : i \in Jobs \ {j}
    BY <2>3 DEF TypeOK
  <2>5. \A i \in Jobs : Held(i)' <=> Held(i)
    BY <2>2 DEF Held, worker
  <2>6. ClaimMatchesDisk' /\ HeldInTime'
    BY <2>1, <2>2, <2>3, <2>5 DEF ClaimMatchesDisk, HeldInTime, worker
  <2>7. ReclaimIsFresh'
    BY <2>1, <2>2, <2>4, <2>5 DEF ReclaimIsFresh, IsStalled, watchdog
  <2>8. ScanMatchesDisk'
    BY <2>1, <2>2 DEF ScanMatchesDisk, worker, TypeOK
  <2>9. SubmittedExist'
    BY <2>1, <2>2, <2>3 DEF SubmittedExist
  <2> QED
    BY <2>6, <2>7, <2>8, <2>9
<1>4. ASSUME WorkerStop \/ NothingToClaim \/ WorkerWake
      PROVE  Inv'
  BY <1>4 DEF WorkerStop, NothingToClaim, WorkerWake, watchdog, Held, ClaimMatchesDisk, ReclaimIsFresh, ScanMatchesDisk, HeldInTime, SubmittedExist, IsStalled, TypeOK, FileType
<1>5. ASSUME WorkerList
      PROVE  Inv'
  BY <1>5 DEF WorkerList, watchdog, Held, ClaimMatchesDisk, ReclaimIsFresh, ScanMatchesDisk, HeldInTime, SubmittedExist, IsStalled, TypeOK, FileType
<1>6. ASSUME NEW j \in Jobs, WorkerRead(j)
      PROVE  Inv'
  BY <1>6 DEF WorkerRead, Claimable, watchdog, Held, ClaimMatchesDisk, ReclaimIsFresh, ScanMatchesDisk, HeldInTime, SubmittedExist, IsStalled, TypeOK, FileType
<1>7. ASSUME Claim
      PROVE  Inv'
  <2>1. wjob \in Jobs /\ wpc = "scan"
    BY <1>7 DEF Claim, TypeOK
  <2>2. file[wjob].status \in {"pending", "failed"}
    BY <1>7 DEF Claim, ScanMatchesDisk
  <2>3. wjob \notin stalled /\ wjob \in submitted
    BY <2>1, <2>2 DEF ReclaimIsFresh, IsStalled, SubmittedExist, NoFile, JobFile
  <2>4. /\ \A i \in Jobs \ {wjob} : file'[i] = file[i]
        /\ file'[wjob] = JobFile("running", wattempts + 1)
    BY <1>7, <2>1 DEF Claim, WriteClaim, JobFile, TypeOK
  <2>5. /\ stalled' = stalled /\ dattempts' = dattempts /\ submitted' = submitted
        /\ wpc' = "execute" /\ wjob' = wjob /\ wattempts' = wattempts + 1
    BY <1>7 DEF Claim, watchdog, Forget
  <2>6. ClaimMatchesDisk'
    BY <2>1, <2>4, <2>5 DEF ClaimMatchesDisk, Held, JobFile
  <2>7. ReclaimIsFresh'
    BY <2>3, <2>4, <2>5, <2>1 DEF ReclaimIsFresh, IsStalled, Held, TypeOK
  <2>8. ScanMatchesDisk'
    BY <2>5 DEF ScanMatchesDisk
  <2>9. HeldInTime'
    BY <2>1, <2>4, <2>5 DEF HeldInTime, Held, JobFile
  <2>10. SubmittedExist'
    BY <2>3, <2>4, <2>5 DEF SubmittedExist
  <2> QED
    BY <2>6, <2>7, <2>8, <2>9, <2>10
<1>8. ASSUME ClaimFails
      PROVE  Inv'
  <2>1. wjob \in Jobs /\ wpc = "scan"
    BY <1>8 DEF ClaimFails, TypeOK
  <2>2. file[wjob].status \in {"pending", "failed"}
    BY <1>8 DEF ClaimFails, ScanMatchesDisk
  <2>3. wjob \notin stalled /\ wjob \in submitted
    BY <2>1, <2>2 DEF ReclaimIsFresh, IsStalled, SubmittedExist, NoFile, JobFile
  <2>4. /\ \A i \in Jobs \ {wjob} : file'[i] = file[i]
        /\ file'[wjob] \in {file[wjob], JobFile("running", wattempts + 1)}
    BY <1>8, <2>1 DEF ClaimFails, WriteClaim, JobFile, TypeOK
  <2>5. /\ stalled' = stalled /\ dattempts' = dattempts /\ submitted' = submitted
        /\ wpc' = "idle"
    BY <1>8 DEF ClaimFails, watchdog, Forget
  <2>6. ClaimMatchesDisk'
    BY <2>1, <2>4, <2>5 DEF ClaimMatchesDisk, Held, NoJob
  <2>7. ReclaimIsFresh'
    BY <2>3, <2>4, <2>5, <2>1 DEF ReclaimIsFresh, IsStalled, Held, TypeOK
  <2>8. ScanMatchesDisk'
    BY <2>5 DEF ScanMatchesDisk
  <2>9. HeldInTime'
    BY <2>1, <2>4, <2>5 DEF HeldInTime, Held
  <2>10. SubmittedExist'
    BY <2>3, <2>4, <2>5 DEF SubmittedExist
  <2> QED
    BY <2>6, <2>7, <2>8, <2>9, <2>10
<1>9. ASSUME Execute
      PROVE  Inv'
  BY <1>9 DEF Execute, watchdog, Held, ClaimMatchesDisk, ReclaimIsFresh, ScanMatchesDisk, HeldInTime, SubmittedExist, IsStalled, TypeOK, FileType
<1>10. ASSUME Resolve \/ ResolveFails
       PROVE  Inv'
  <2>1. /\ wpc = "resolve" /\ wpc' \in {"top", "idle"} /\ UNCHANGED <<submitted, watchdog>>
        /\ WriteResolution \/ UNCHANGED file
    BY <1>10 DEF Resolve, ResolveFails
  <2> QED
    BY <2>1 DEF WriteResolution, JobFile, NoFile, watchdog, Held, ClaimMatchesDisk, ReclaimIsFresh, ScanMatchesDisk, HeldInTime, SubmittedExist, IsStalled, TypeOK, FileType
<1>11. ASSUME WatchdogStop \/ WatchdogSleep \/ WatchdogWake
       PROVE  Inv'
  BY <1>11 DEF WatchdogStop, WatchdogSleep, WatchdogWake, worker, Held, ClaimMatchesDisk, ReclaimIsFresh, ScanMatchesDisk, HeldInTime, SubmittedExist, IsStalled, TypeOK, FileType
<1>12. ASSUME WatchdogList
       PROVE  Inv'
  BY <1>12 DEF WatchdogList, worker, Held, ClaimMatchesDisk, ReclaimIsFresh, ScanMatchesDisk, HeldInTime, SubmittedExist, IsStalled, TypeOK, FileType
<1>13. ASSUME NEW j \in Jobs, WatchdogRead(j)
       PROVE  Inv'
  BY <1>13 DEF WatchdogRead, worker, Held, ClaimMatchesDisk, ReclaimIsFresh, ScanMatchesDisk, HeldInTime, SubmittedExist, IsStalled, TypeOK, FileType
<1>14. ASSUME NEW j \in Jobs, ReadBody(j)
       PROVE  Inv'
  BY <1>14 DEF ReadBody, Done, worker, Held, ClaimMatchesDisk, ReclaimIsFresh, ScanMatchesDisk, HeldInTime, SubmittedExist, IsStalled, TypeOK, FileType
<1>15. ASSUME Reclaim
       PROVE  Inv'
  <2>1. djob \in stalled /\ djob \in Jobs
    BY <1>15 DEF Reclaim, TypeOK
  <2>2. file[djob].status = "running" /\ ~Held(djob) /\ djob \in submitted
    BY <2>1 DEF ReclaimIsFresh, IsStalled, SubmittedExist, NoFile, JobFile
  <2>3. /\ \A i \in Jobs \ {djob} : file'[i] = file[i]
        /\ file'[djob] = file[djob] \/ file'[djob].status = "pending"
    BY <1>15, <2>1 DEF Reclaim, WriteReclaim, JobFile, TypeOK
  <2>4. \A i \in stalled' : i \in Jobs \ {djob} /\ i \in stalled /\ dattempts'[i] = dattempts[i]
    BY <1>15, <2>1 DEF Reclaim, Done, TypeOK
  <2>5. wpc' = wpc /\ wjob' = wjob /\ wattempts' = wattempts /\ submitted' = submitted
    BY <1>15 DEF Reclaim, worker
  <2>6. wpc = "scan" /\ wjob # NoJob => wjob \in Jobs \ {djob}
    BY <2>2 DEF ScanMatchesDisk, TypeOK
  <2>7. ClaimMatchesDisk'
    BY <2>2, <2>3, <2>5 DEF ClaimMatchesDisk, Held
  <2>8. ReclaimIsFresh'
    BY <2>3, <2>4, <2>5 DEF ReclaimIsFresh, IsStalled, Held
  <2>9. ScanMatchesDisk'
    BY <2>3, <2>5, <2>6 DEF ScanMatchesDisk
  <2>10. HeldInTime'
    BY <2>2, <2>3, <2>5 DEF HeldInTime, Held
  <2>11. SubmittedExist'
    BY <2>2, <2>3, <2>5 DEF SubmittedExist, NoFile, JobFile
  <2> QED
    BY <2>7, <2>8, <2>9, <2>10, <2>11
<1>16. ASSUME RequestStop
       PROVE  Inv'
  BY <1>16 DEF RequestStop, worker, watchdog, Held, ClaimMatchesDisk, ReclaimIsFresh, ScanMatchesDisk, HeldInTime, SubmittedExist, IsStalled, TypeOK, FileType
<1>17. ASSUME Exit \/ ExitOnTimeout \/ Crash
       PROVE  Inv'
  BY <1>17 DEF Exit, ExitOnTimeout, Crash, ThreadsEnd, Held, ClaimMatchesDisk, ReclaimIsFresh, ScanMatchesDisk, HeldInTime, SubmittedExist, IsStalled, TypeOK, FileType
<1>18. ASSUME Start
       PROVE  Inv'
  BY <1>18 DEF Start, Running, Held, ClaimMatchesDisk, ReclaimIsFresh, ScanMatchesDisk, HeldInTime, SubmittedExist, IsStalled, TypeOK, FileType
<1>19. ASSUME UNCHANGED vars
       PROVE  Inv'
  BY <1>19 DEF vars, worker, watchdog, Held, ClaimMatchesDisk, ReclaimIsFresh, ScanMatchesDisk, HeldInTime, SubmittedExist, IsStalled, TypeOK, FileType
<1> QED
  BY <1>1, <1>2, <1>3, <1>4, <1>5, <1>6, <1>7, <1>8, <1>9, <1>10, <1>11, <1>12, <1>13, <1>14, <1>15, <1>16, <1>17, <1>18, <1>19
     DEF Next, WorkerStep, WatchdogStep

LEMMA FreshInit == Init => FreshInv
<1>1. Init => TypeOK
  BY InitTypeOK
<1> QED
  BY <1>1 DEF Init, FreshInv, ClaimMatchesDisk, ReclaimIsFresh, ScanMatchesDisk,
              HeldInTime, SubmittedExist, Held

LEMMA FreshAlways == ASSUME InTime PROVE Spec => []FreshInv
<1>1. FreshInv /\ [Next]_vars => FreshInv'
  BY InTime, FreshStep, StepTypeOK DEF FreshInv
<1> QED
  BY <1>1, FreshInit, PTL DEF Spec

\* While a job is in flight its file is the claim the worker wrote: with no
\* slow handler and no deletion, no two writers race.
THEOREM NoTwoWritersRace == ASSUME InTime PROVE Spec => []ClaimMatchesDisk
<1>1. FreshInv => ClaimMatchesDisk
  BY DEF FreshInv
<1> QED
  BY <1>1, FreshAlways, PTL

\* The watchdog writes back only what is still on disk.
THEOREM ReclaimsAreFresh == ASSUME InTime PROVE Spec => []ReclaimIsFresh
<1>1. FreshInv => ReclaimIsFresh
  BY DEF FreshInv
<1> QED
  BY <1>1, FreshAlways, PTL

-----------------------------------------------------------------------------
(* The life of a job.                                                      *)

StatusOf == [j \in Jobs |-> file[j].status]
AttemptsOf == [j \in Jobs |-> file[j].attempts]

\* One write of a job file, seen by the life cycle.
LEMMA OneFileWritten ==
    ASSUME TypeOK, NEW j \in Jobs, NEW f \in FileType, file' = [file EXCEPT ![j] = f]
    PROVE  /\ StatusOf' = [StatusOf EXCEPT ![j] = f.status]
           /\ AttemptsOf' = [AttemptsOf EXCEPT ![j] = f.attempts]
           /\ StatusOf[j] = file[j].status
           /\ AttemptsOf[j] = file[j].attempts
           /\ f.status = file[j].status /\ f.attempts = file[j].attempts =>
                    StatusOf' = StatusOf /\ AttemptsOf' = AttemptsOf
           /\ f.attempts = file[j].attempts => AttemptsOf' = AttemptsOf
  BY DEF StatusOf, AttemptsOf, TypeOK

LEMMA LifecycleStep ==
    ASSUME InTime, FreshInv, [Next]_vars
    PROVE  [Lifecycle!Next]_(Lifecycle!vars)
<1> DEFINE Step == [Lifecycle!Next]_(Lifecycle!vars)
<1> USE DEF FreshInv
<1>0. file' = file => Step
  BY DEF Lifecycle!vars
<1>1. ASSUME NEW j \in Jobs, Submit(j)
      PROVE  Step
  <2>1. file[j] = NoFile
    BY <1>1 DEF Submit, SubmittedExist
  <2>2. JobFile("pending", 0) \in FileType
    BY JobFileType DEF Statuses
  <2>3. /\ StatusOf' = [StatusOf EXCEPT ![j] = "pending"]
        /\ AttemptsOf' = AttemptsOf
        /\ StatusOf[j] = "absent"
    <3>1. file' = [file EXCEPT ![j] = JobFile("pending", 0)]
      BY <1>1 DEF Submit
    <3>2. /\ JobFile("pending", 0).status = "pending" /\ JobFile("pending", 0).attempts = 0
          /\ file[j].status = "absent" /\ file[j].attempts = 0
      BY <2>1 DEF NoFile, JobFile
    <3> QED
      BY <2>2, <3>1, <3>2, OneFileWritten
  <2>4. Lifecycle!Submit(j)
    BY <2>3 DEF StatusOf, AttemptsOf, Lifecycle!Submit, Lifecycle!Move
  <2> QED
    BY <2>4 DEF Lifecycle!Next
<1>2. ASSUME NEW j \in Jobs, Delete(j) \/ Overrun(j)
      PROVE  Step
  BY <1>2 DEF Delete, Overrun, Fault, InTime
<1>3. ASSUME NEW j \in Jobs, Elapse(j)
      PROVE  Step
  <2>1. StatusOf' = StatusOf /\ AttemptsOf' = AttemptsOf
    BY <1>3 DEF Elapse, StatusOf, AttemptsOf, TypeOK, FileType
  <2> QED
    BY <2>1 DEF StatusOf, AttemptsOf, Lifecycle!vars
<1>4. ASSUME wpc = "scan", wjob # NoJob, WriteClaim
      PROVE  Step
  <2>1. wjob \in Jobs /\ file[wjob].status \in {"pending", "failed"} /\ file[wjob].attempts = wattempts
    BY <1>4 DEF ScanMatchesDisk, TypeOK
  <2>2. PICK w \in Jobs : w = wjob
    BY <2>1
  <2>3. wattempts + 1 \in Nat
    BY DEF TypeOK
  <2>4. JobFile("running", wattempts + 1) \in FileType
    BY <2>3, JobFileType DEF Statuses
  <2>5. /\ StatusOf' = [StatusOf EXCEPT ![w] = "running"]
        /\ AttemptsOf' = [AttemptsOf EXCEPT ![w] = wattempts + 1]
        /\ StatusOf[w] \in {"pending", "failed"} /\ AttemptsOf[w] = wattempts
    BY <1>4, <2>1, <2>2, <2>4, OneFileWritten DEF WriteClaim, JobFile
  <2>6. Lifecycle!Claim(w)
    BY <2>5 DEF StatusOf, AttemptsOf, Lifecycle!Claim, Lifecycle!Move
  <2> QED
    BY <2>6 DEF Lifecycle!Next
<1>5. ASSUME wpc = "resolve", WriteResolution
      PROVE  Step
  <2>1. wjob \in Jobs /\ file[wjob].status = "running" /\ file[wjob].attempts = wattempts
    BY <1>5 DEF ClaimMatchesDisk, Held, TypeOK
  <2>2. PICK s \in {"succeeded", "failed", "dead"} :
            /\ file' = [file EXCEPT ![wjob] = JobFile(s, wattempts)]
            /\ s = "failed" => wattempts < MaxAttempts
    BY <1>5, NextStatusType DEF WriteResolution, TypeOK
  <2>3. JobFile(s, wattempts) \in FileType
    BY JobFileType DEF Statuses, TypeOK
  <2>4. PICK w \in Jobs : w = wjob
    BY <2>1
  <2>5. /\ StatusOf' = [StatusOf EXCEPT ![w] = s]
        /\ AttemptsOf' = AttemptsOf
        /\ StatusOf[w] = "running" /\ AttemptsOf[w] = wattempts
    BY <2>1, <2>2, <2>3, <2>4, OneFileWritten DEF JobFile
  <2>6. Lifecycle!Succeed(w) \/ Lifecycle!Fail(w) \/ Lifecycle!Die(w)
    BY <2>2, <2>5
       DEF StatusOf, AttemptsOf, Lifecycle!Succeed, Lifecycle!Fail, Lifecycle!Die, Lifecycle!Move
  <2> QED
    BY <2>6 DEF Lifecycle!Next
<1>6. ASSUME dpc = "reclaim", WriteReclaim
      PROVE  Step
  <2>1. djob \in Jobs /\ file[djob].status = "running" /\ file[djob].attempts = dattempts[djob]
    BY <1>6 DEF ReclaimIsFresh, IsStalled, TypeOK
  <2>2. JobFile("pending", dattempts[djob]) \in FileType
    BY <2>1, JobFileType DEF Statuses, TypeOK
  <2>3. PICK w \in Jobs : w = djob
    BY <2>1
  <2>4. /\ StatusOf' = [StatusOf EXCEPT ![w] = "pending"]
        /\ AttemptsOf' = AttemptsOf
        /\ StatusOf[w] = "running"
    BY <1>6, <2>1, <2>2, <2>3, OneFileWritten DEF WriteReclaim, JobFile
  <2>5. Lifecycle!Reclaim(w)
    BY <2>4 DEF StatusOf, AttemptsOf, Lifecycle!Reclaim, Lifecycle!Move
  <2> QED
    BY <2>5 DEF Lifecycle!Next
<1>7. ASSUME WorkerStep
      PROVE  Step
  <2>1. \/ file' = file
        \/ wpc = "scan" /\ wjob # NoJob /\ WriteClaim
        \/ wpc = "resolve" /\ WriteResolution
    BY <1>7 DEF WorkerStep, WorkerStop, WorkerList, NothingToClaim, Claim, ClaimFails,
                Execute, Resolve, ResolveFails, WorkerWake, WorkerRead
  <2> QED
    BY <1>0, <1>4, <1>5, <2>1
<1>8. ASSUME WatchdogStep
      PROVE  Step
  <2>1. file' = file \/ (dpc = "reclaim" /\ WriteReclaim)
    BY <1>8 DEF WatchdogStep, WatchdogStop, WatchdogList, WatchdogRead, ReadBody, Reclaim,
                WatchdogSleep, WatchdogWake
  <2> QED
    BY <1>0, <1>6, <2>1
<1>9. ASSUME RequestStop \/ Exit \/ ExitOnTimeout \/ Crash \/ Start \/ UNCHANGED vars
      PROVE  Step
  <2>1. file' = file
    BY <1>9 DEF RequestStop, Exit, ExitOnTimeout, Crash, ThreadsEnd, Start, vars
  <2> QED
    BY <1>0, <2>1
<1> QED
  BY <1>1, <1>2, <1>3, <1>7, <1>8, <1>9 DEF Next

\* With no slow handler and no deletion every step of the two threads and of the
\* process around them is one of the life cycle that retry.py and worker.py give
\* a job, JobLifecycle, or changes no file.
THEOREM QueueImplementsLifecycle == ASSUME InTime PROVE Spec => ImplementsLifecycle
<1>1. Init => Lifecycle!Init
  BY DEF Init, NoFile, JobFile, Lifecycle!Init
<1>2. FreshInv /\ [Next]_vars => [Lifecycle!Next]_(Lifecycle!vars)
  BY InTime, LifecycleStep
<1> QED
  BY <1>1, <1>2, FreshAlways, PTL DEF Spec, Lifecycle!Spec, ImplementsLifecycle

\* With no slow handler and no deletion, no step writes over a job that
\* succeeded or died.
THEOREM TerminalStaysFinal == ASSUME InTime PROVE Spec => TerminalIsFinal
<1>1. ASSUME FreshInv, [Next]_vars, NEW j \in Jobs, file[j].status \in Terminal
      PROVE  file'[j].status \in {file[j].status, "absent"}
  <2>1. [Lifecycle!Next]_(Lifecycle!vars)
    BY <1>1, InTime, LifecycleStep
  <2>2. StatusOf[j] = file[j].status /\ StatusOf'[j] = file'[j].status
    BY DEF StatusOf
  <2>3. CASE UNCHANGED Lifecycle!vars
    BY <2>2, <2>3 DEF Lifecycle!vars, StatusOf
  <2>4. CASE Lifecycle!Next
    <3>1. PICK i \in Jobs : \/ Lifecycle!Submit(i) \/ Lifecycle!Claim(i) \/ Lifecycle!Succeed(i)
                            \/ Lifecycle!Fail(i) \/ Lifecycle!Die(i) \/ Lifecycle!Reclaim(i)
      BY <2>4 DEF Lifecycle!Next
    <3>2. \E s : /\ StatusOf' = [StatusOf EXCEPT ![i] = s]
                 /\ StatusOf[i] \in {"absent", "pending", "failed", "running"}
      BY <3>1 DEF StatusOf, Lifecycle!Submit, Lifecycle!Claim, Lifecycle!Succeed, Lifecycle!Fail,
                  Lifecycle!Die, Lifecycle!Reclaim, Lifecycle!Move
    <3>3. StatusOf'[j] = StatusOf[j]
      BY <1>1, <2>2, <3>2 DEF StatusOf, Terminal
    <3> QED
      BY <2>2, <3>3
  <2> QED
    BY <2>1, <2>3, <2>4
<1>2. FreshInv /\ [Next]_vars =>
        [\A j \in Jobs : file[j].status \in Terminal =>
              file'[j].status \in {file[j].status, "absent"}]_vars
  BY <1>1
<1> QED
  BY <1>2, FreshAlways, PTL DEF Spec, TerminalIsFinal
=============================================================================
