---------------------------- MODULE JobLifecycle ----------------------------
(***************************************************************************)
(* The state machine of a job as the code has it, without threads, copies, *)
(* time or faults.  A failed job goes back to running when it is claimed   *)
(* again, a running one whose attempts are used up is dead at once; an     *)
(* attempt counts when it is claimed, and only then.                       *)
(***************************************************************************)
EXTENDS Naturals

CONSTANTS Jobs, MaxAttempts

VARIABLES status, attempts

vars == <<status, attempts>>

Init ==
    /\ status = [j \in Jobs |-> "absent"]
    /\ attempts = [j \in Jobs |-> 0]

Move(j, from, to) ==
    /\ status[j] \in from
    /\ status' = [status EXCEPT ![j] = to]

Submit(j) == Move(j, {"absent"}, "pending") /\ UNCHANGED attempts

Claim(j) ==
    /\ Move(j, {"pending", "failed"}, "running")
    /\ attempts' = [attempts EXCEPT ![j] = @ + 1]

Succeed(j) == Move(j, {"running"}, "succeeded") /\ UNCHANGED attempts

Fail(j) ==
    /\ attempts[j] < MaxAttempts
    /\ Move(j, {"running"}, "failed")
    /\ UNCHANGED attempts

\* The last attempt failed, or the failure was fatal.
Die(j) == Move(j, {"running"}, "dead") /\ UNCHANGED attempts

\* A stalled attempt is given up; it still counts.
Reclaim(j) == Move(j, {"running"}, "pending") /\ UNCHANGED attempts

Next ==
    \E j \in Jobs :
        Submit(j) \/ Claim(j) \/ Succeed(j) \/ Fail(j) \/ Die(j) \/ Reclaim(j)

Spec == Init /\ [][Next]_vars
=============================================================================
