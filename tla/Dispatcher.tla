----------------------------- MODULE Dispatcher -----------------------------
(***************************************************************************)
(* Dispatcher processes of one user and the pidfile they share.            *)
(*                                                                         *)
(* A dispatcher reads the pidfile, asks the system whether that process is *)
(* alive, truncates the file, writes its own pid, and serves until it is   *)
(* told to stop; on the way out it reads the file again and removes it if  *)
(* it is still its own.  Each of these is a system call and a step of its  *)
(* own here, and no lock joins any two of them.                            *)
(***************************************************************************)
EXTENDS Integers

CONSTANTS
    Procs,       \* launches of the dispatcher that may overlap
    Pids,        \* process ids of the system
    Faults,      \* the kinds of fault that may happen (FaultKinds)
    MaxFaults    \* how many faults may happen in a behaviour

\* kill:     a dispatcher dies without cleaning up
\* reuse:    a pid the pidfile names, or was read to name, goes to a new process
\* overstay: a join times out: the dispatcher goes on to exit with a live thread
FaultKinds == {"kill", "reuse", "overstay"}

ASSUME PidsAssumption == Pids \subseteq Nat \ {0}
ASSUME BoundsAssumption == MaxFaults \in Nat /\ Faults \subseteq FaultKinds

NoPid == 0   \* also what read_pidfile makes of a missing or an empty file

VARIABLES
    pidfile,   \* the pid in the pidfile, or NoPid
    pc,        \* where each dispatcher is
    pid,       \* its pid, NoPid when it does not run
    seen,      \* the pid it read from the pidfile and has still to check
    serving,   \* the dispatchers with a live worker thread
    others,    \* pids of other programs
    faults,    \* number of faults so far
    orderly    \* history: no launch while another starts up, and no overstay

vars == <<pidfile, pc, pid, seen, serving, others, faults, orderly>>

Locations == {"off", "read", "check", "truncate", "write", "start", "serve", "join",
              "reread", "unlink", "exit"}

Fault(kind) == kind \in Faults /\ faults < MaxFaults /\ faults' = faults + 1

Alive(n) == n \in others \/ \E p \in Procs : pid[p] = n

Init ==
    /\ pidfile = NoPid
    /\ pc = [p \in Procs |-> "off"]
    /\ pid = [p \in Procs |-> NoPid]
    /\ seen = [p \in Procs |-> NoPid]
    /\ serving = {}
    /\ others = {}
    /\ faults = 0
    /\ orderly = TRUE

-----------------------------------------------------------------------------
(* The system: a new process gets a pid that is not in use.                *)

FreshPid(n) ==
    /\ n \in Pids /\ ~Alive(n)
    /\ IF n = pidfile \/ \E p \in Procs : seen[p] = n THEN Fault("reuse") ELSE UNCHANGED faults

\* Another program starts; only one with a reused pid can be confused with a
\* dispatcher, and others are left out.
OtherStarts(n) ==
    /\ FreshPid(n) /\ faults' # faults
    /\ others' = others \cup {n}
    /\ UNCHANGED <<pidfile, pc, pid, seen, serving, orderly>>

OtherEnds(n) ==
    /\ n \in others
    /\ others' = others \ {n}
    /\ UNCHANGED <<pidfile, pc, pid, seen, serving, faults, orderly>>

StartingUp(p) == pc[p] \in {"read", "check", "truncate", "write", "start"}

Launch(p, n) ==
    /\ pc[p] = "off"
    /\ FreshPid(n)
    /\ orderly' = (orderly /\ ~\E r \in Procs : StartingUp(r))
    /\ pc' = [pc EXCEPT ![p] = "read"]
    /\ pid' = [pid EXCEPT ![p] = n]
    /\ UNCHANGED <<pidfile, seen, serving, others>>

\* The process is gone, and its threads with it.
Gone(p) ==
    /\ pc' = [pc EXCEPT ![p] = "off"]
    /\ pid' = [pid EXCEPT ![p] = NoPid]
    /\ seen' = [seen EXCEPT ![p] = NoPid]
    /\ serving' = serving \ {p}
    /\ UNCHANGED <<pidfile, others, orderly>>

Kill(p) == pc[p] # "off" /\ Fault("kill") /\ Gone(p)

-----------------------------------------------------------------------------
(* acquire_pidfile.                                                        *)

Read_Sentinel(p) ==
    /\ pc[p] = "read"
    /\ seen' = [seen EXCEPT ![p] = IF pidfile = NoPid THEN -1 ELSE pidfile]
    /\ pc' = [pc EXCEPT ![p] = "check"]
    /\ UNCHANGED <<pidfile, pid, serving, others, faults, orderly>>
Read(p) ==
    /\ pc[p] = "read"
    /\ seen' = [seen EXCEPT ![p] = pidfile]
    /\ pc' = [pc EXCEPT ![p] = "check"]
    /\ UNCHANGED <<pidfile, pid, serving, others, faults, orderly>>

Blocked_Missing(p) == FALSE
Blocked_Always(p) == seen[p] # NoPid
Blocked(p) == seen[p] # NoPid /\ Alive(seen[p])

\* DispatcherAlreadyRunning
Refuse(p) ==
    /\ pc[p] = "check" /\ Blocked(p)
    /\ Gone(p)
    /\ UNCHANGED faults

Pass(p) ==
    /\ pc[p] = "check" /\ ~Blocked(p)
    /\ pc' = [pc EXCEPT ![p] = "truncate"]
    /\ seen' = [seen EXCEPT ![p] = NoPid]
    /\ UNCHANGED <<pidfile, pid, serving, others, faults, orderly>>

Truncate(p) ==
    /\ pc[p] = "truncate"
    /\ pidfile' = NoPid
    /\ pc' = [pc EXCEPT ![p] = "write"]
    /\ UNCHANGED <<pid, seen, serving, others, faults, orderly>>

WriteOwn(p) ==
    /\ pc[p] = "write"
    /\ pidfile' = pid[p]
    /\ pc' = [pc EXCEPT ![p] = "start"]
    /\ UNCHANGED <<pid, seen, serving, others, faults, orderly>>

-----------------------------------------------------------------------------
(* run_dispatcher and stop_queue_service.                                  *)

StartService(p) ==
    /\ pc[p] = "start"
    /\ serving' = serving \cup {p}
    /\ pc' = [pc EXCEPT ![p] = "serve"]
    /\ UNCHANGED <<pidfile, pid, seen, others, faults, orderly>>

Stop(p) ==
    /\ pc[p] = "serve"
    /\ pc' = [pc EXCEPT ![p] = "join"]
    /\ UNCHANGED <<pidfile, pid, seen, serving, others, faults, orderly>>

\* The worker thread has seen the stop event and returned.
ThreadEnds(p) ==
    /\ pc[p] \in {"join", "reread", "unlink", "exit"} /\ p \in serving
    /\ serving' = serving \ {p}
    /\ UNCHANGED <<pidfile, pc, pid, seen, others, faults, orderly>>

Join_Immediate(p) ==
    /\ pc[p] = "join"
    /\ UNCHANGED <<faults, orderly>>
    /\ pc' = [pc EXCEPT ![p] = "reread"]
    /\ UNCHANGED <<pidfile, pid, seen, serving, others>>
Join(p) ==
    /\ pc[p] = "join"
    /\ \/ p \notin serving /\ UNCHANGED <<faults, orderly>>
       \/ Fault("overstay") /\ orderly' = FALSE
    /\ pc' = [pc EXCEPT ![p] = "reread"]
    /\ UNCHANGED <<pidfile, pid, seen, serving, others>>

-----------------------------------------------------------------------------
(* release_pidfile.                                                        *)

ReadOwn(p) ==
    /\ pc[p] = "reread"
    /\ pc' = [pc EXCEPT ![p] = IF pidfile = pid[p] THEN "unlink" ELSE "exit"]
    /\ UNCHANGED <<pidfile, pid, seen, serving, others, faults, orderly>>

Unlink(p) ==
    /\ pc[p] = "unlink"
    /\ pidfile' = NoPid
    /\ pc' = [pc EXCEPT ![p] = "exit"]
    /\ UNCHANGED <<pid, seen, serving, others, faults, orderly>>

Exit(p) ==
    /\ pc[p] = "exit"
    /\ Gone(p)
    /\ UNCHANGED faults

-----------------------------------------------------------------------------
\* What a dispatcher does of itself, once it was launched.
Step(p) ==
    \/ Read(p) \/ Refuse(p) \/ Pass(p) \/ Truncate(p) \/ WriteOwn(p) \/ StartService(p)
    \/ ThreadEnds(p) \/ Join(p) \/ ReadOwn(p) \/ Unlink(p) \/ Exit(p)

LaunchSome(p) == \E n \in Pids : Launch(p, n)

Next ==
    \/ \E p \in Procs : Step(p) \/ Stop(p) \/ Kill(p) \/ LaunchSome(p)
    \/ \E n \in Pids : OtherStarts(n) \/ OtherEnds(n)

Spec == Init /\ [][Next]_vars

\* A process that was launched runs, and somebody tries again.
FairSpec == Spec /\ \A p \in Procs : WF_vars(Step(p)) /\ WF_vars(LaunchSome(p))

-----------------------------------------------------------------------------
(* What must hold.                                                         *)

\* Every variable has its type.
TypeOK ==
    /\ pidfile \in Pids \cup {NoPid}
    /\ pc \in [Procs -> Locations]
    /\ pid \in [Procs -> Pids \cup {NoPid}]
    /\ \A p \in Procs : pid[p] = NoPid <=> pc[p] = "off"
    /\ seen \in [Procs -> Pids \cup {NoPid}]
    /\ serving \subseteq Procs
    /\ others \subseteq Pids
    /\ faults \in Nat /\ faults <= MaxFaults
    /\ orderly \in BOOLEAN

\* The dispatchers the pidfile is to name: from acquire_pidfile to release_pidfile.
Owners == {p \in Procs : pc[p] \in {"start", "serve", "join", "reread", "unlink"}}

\* "enforce one dispatcher per vault" (dispatcher.py): at no time do two
\* dispatchers have a worker, as long as launches do not overlap and no worker
\* outlives its join, whoever dies and whatever pids are reused.
OneService == orderly => \A p, r \in serving : p = r

\* From acquire to release the pidfile names the dispatcher: another's clean-up
\* or start never takes the file from under it.  Under the same conditions.
PidfileNamesOwner == orderly => \A p \in Owners : pidfile = pid[p]

\* Launched again and again, a dispatcher gets to serve again and again: no
\* pidfile left behind, no race of two launches and no worker that overstays
\* locks everybody out; only another program with a reused pid can.
ServiceReturns == []<>(serving # {} \/ others # {})
=============================================================================
