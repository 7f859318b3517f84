----------------------------- MODULE JobQueueMC -----------------------------
(***************************************************************************)
(* Instances of JobQueue for TLC, and what the documentation claims of the *)
(* queue and its code does not do under every fault.                       *)
(***************************************************************************)
EXTENDS JobQueue

\* watchdog.py on reclaim: it "preserves attempts so the job doesn't get a
\* free retry"; worker.py on claim: the watchdog "won't accidentally grant an
\* extra retry".  So no job is ever tried more often than max_attempts.
NoExtraRetry == \A j \in Jobs : file[j].attempts <= Tries
=============================================================================
