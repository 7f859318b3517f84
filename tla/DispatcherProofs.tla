-------------------------- MODULE DispatcherProofs --------------------------
(***************************************************************************)
(* Proofs about Dispatcher, for any number of launches and of pids.        *)
(***************************************************************************)
EXTENDS Dispatcher, TLAPS

\* Every variable has its type in every reachable state.
THEOREM Typing == Spec => []TypeOK
<1> USE DEF Locations, NoPid
<1>1. Init => TypeOK
  BY BoundsAssumption DEF Init, TypeOK
<1>2. TypeOK /\ [Next]_vars => TypeOK'
  <2> SUFFICES ASSUME TypeOK, [Next]_vars
               PROVE  TypeOK'
    OBVIOUS
  <2> USE PidsAssumption, BoundsAssumption DEF TypeOK
  <2>1. ASSUME NEW p \in Procs, Gone(p), Fault("kill") \/ UNCHANGED faults
        PROVE  TypeOK'
    BY <2>1 DEF Gone, Fault
  <2>2. ASSUME NEW p \in Procs, Step(p)
        PROVE  TypeOK'
    <3>1. CASE Refuse(p) \/ Exit(p)
      <4>1. Gone(p) /\ UNCHANGED faults
        BY <3>1 DEF Refuse, Exit
      <4> QED
        BY <2>1, <4>1
    <3>2. CASE Read(p)
      BY <3>2 DEF Read
    <3>7. CASE Pass(p)
      BY <3>7 DEF Pass
    <3>3. CASE Truncate(p) \/ WriteOwn(p) \/ Unlink(p)
      BY <3>3 DEF Truncate, WriteOwn, Unlink
    <3>4. CASE StartService(p) \/ ThreadEnds(p)
      BY <3>4 DEF StartService, ThreadEnds
    <3>5. CASE Join(p)
      <4>1. orderly' \in BOOLEAN
        BY <3>5 DEF Join
      <4>2. UNCHANGED faults \/ Fault("overstay")
        BY <3>5 DEF Join
      <4>3. faults' \in Nat /\ faults' <= MaxFaults
        BY <4>2 DEF Fault
      <4> QED
        BY <3>5, <4>1, <4>3 DEF Join
    <3>6. CASE ReadOwn(p)
      BY <3>6 DEF ReadOwn
    <3> QED
      BY <2>2, <3>1, <3>2, <3>3, <3>4, <3>5, <3>6, <3>7 DEF Step
  <2>3. ASSUME NEW p \in Procs, Stop(p)
        PROVE  TypeOK'
    BY <2>3 DEF Stop
  <2>4. ASSUME NEW p \in Procs, Kill(p)
        PROVE  TypeOK'
    BY <2>1, <2>4 DEF Kill
  <2>5. ASSUME NEW p \in Procs, NEW n \in Pids, Launch(p, n)
        PROVE  TypeOK'
    <3>1. faults' \in Nat /\ faults' <= MaxFaults
      BY <2>5 DEF Launch, FreshPid, Fault
    <3>2. pc' \in [Procs -> Locations] /\ pid' \in [Procs -> Pids \cup {NoPid}] /\ n # NoPid
      BY <2>5 DEF Launch
    <3>3. \A r \in Procs : pid'[r] = NoPid <=> pc'[r] = "off"
      BY <2>5, <3>2 DEF Launch
    <3> QED
      BY <2>5, <3>1, <3>2, <3>3 DEF Launch
  <2>6. ASSUME NEW n \in Pids, OtherStarts(n) \/ OtherEnds(n)
        PROVE  TypeOK'
    <3>1. faults' \in Nat /\ faults' <= MaxFaults
      BY <2>6 DEF OtherStarts, OtherEnds, FreshPid, Fault
    <3> QED
      BY <2>6, <3>1 DEF OtherStarts, OtherEnds
  <2>7. CASE UNCHANGED vars
    BY <2>7 DEF vars
  <2> QED
    BY <2>2, <2>3, <2>4, <2>5, <2>6, <2>7 DEF Next, LaunchSome
<1> QED
  BY <1>1, <1>2, PTL DEF Spec

-----------------------------------------------------------------------------
(* One service at a time.                                                  *)

OneStarter == \A p, r \in Procs : StartingUp(p) /\ StartingUp(r) => p = r
OneOwner == \A p, r \in Owners : p = r
NamesOwner == \A p \in Owners : pidfile = pid[p]
OwnersServe == \A p \in serving : pc[p] \in {"serve", "join"}

\* What a dispatcher knows while it starts up: first the pid of the owner, if
\* there is one, and once it was let through, that there is none.
StarterKnows ==
    \A p \in Procs :
        /\ pc[p] = "check" => \A r \in Owners : seen[p] = pid[r]
        /\ pc[p] \in {"truncate", "write"} => Owners = {}

Exclusion == OneStarter /\ OneOwner /\ OwnersServe /\ StarterKnows /\ NamesOwner

\* A dispatcher that is neither starting up nor an owner goes away.
LEMMA GoneKeepsExclusion ==
    ASSUME TypeOK, Exclusion, NEW p \in Procs, Gone(p)
    PROVE  Exclusion'
<1>1. pc' = [pc EXCEPT ![p] = "off"] /\ serving' = serving \ {p} /\ pidfile' = pidfile
  BY DEF Gone
<1>2. Owners' = Owners \ {p}
  BY <1>1 DEF Owners, TypeOK
<1>3. \A r \in Procs \ {p} : pc'[r] = pc[r] /\ pid'[r] = pid[r] /\ seen'[r] = seen[r]
  BY DEF Gone, TypeOK
<1>4. OneStarter' /\ OneOwner' /\ OwnersServe'
  BY <1>1, <1>2 DEF Exclusion, OneStarter, StartingUp, OneOwner, OwnersServe, TypeOK
<1>5. StarterKnows' /\ NamesOwner'
  BY <1>1, <1>2, <1>3 DEF Exclusion, StarterKnows, NamesOwner, Owners, TypeOK
<1> QED
  BY <1>4, <1>5 DEF Exclusion

LEMMA LaunchKeepsExclusion ==
    ASSUME orderly', TypeOK, Exclusion, NEW p \in Procs, NEW n \in Pids, Launch(p, n)
    PROVE  Exclusion'
<1>1. pc[p] = "off" /\ pc' = [pc EXCEPT ![p] = "read"] /\ \A r \in Procs : ~StartingUp(r)
  BY DEF Launch
<1>2. Owners' = Owners /\ p \notin Owners
  BY <1>1 DEF Owners, TypeOK
<1>3. \A r \in Owners : pid'[r] = pid[r]
  BY <1>2 DEF Launch, Owners, TypeOK
<1> QED
  BY <1>1, <1>2, <1>3
     DEF Exclusion, OneStarter, StartingUp, OneOwner, OwnersServe, StarterKnows,
         NamesOwner, Launch, TypeOK

LEMMA AcquireKeepsExclusion ==
    ASSUME TypeOK, Exclusion, NEW p \in Procs,
           Read(p) \/ Pass(p) \/ Truncate(p) \/ WriteOwn(p) \/ StartService(p)
    PROVE  Exclusion'
<1>1. pid' = pid /\ \A r \in Procs \ {p} : pc'[r] = pc[r] /\ seen'[r] = seen[r] /\ ~StartingUp(r)
  BY DEF Read, Pass, Truncate, WriteOwn, StartService, TypeOK, Exclusion, OneStarter, StartingUp
<1>2. OneStarter'
  BY <1>1 DEF OneStarter, StartingUp
<1>3. CASE Read(p)
  <2>1. Owners' = Owners /\ pidfile' = pidfile /\ serving' = serving
    BY <1>3 DEF Read, Owners, TypeOK
  <2> QED
    BY <1>1, <1>2, <1>3, <2>1
       DEF Read, Exclusion, OneOwner, OwnersServe, StarterKnows, NamesOwner, StartingUp, TypeOK
<1>4. CASE Pass(p)
  <2>1. Owners = {}
    <3> SUFFICES ASSUME NEW r \in Owners
                 PROVE  FALSE
      OBVIOUS
    <3>1. seen[p] = pid[r] /\ pid[r] # NoPid
      BY <1>4 DEF Pass, Exclusion, StarterKnows, Owners, TypeOK
    <3> QED
      BY <1>4, <3>1 DEF Pass, Blocked, Alive, Owners
  <2>2. Owners' = {}
    BY <1>4, <2>1 DEF Pass, Owners, TypeOK
  <2> QED
    BY <1>1, <1>2, <1>4, <2>2
       DEF Pass, Exclusion, OneOwner, OwnersServe, StarterKnows, NamesOwner, StartingUp, TypeOK
<1>5. CASE Truncate(p)
  <2>1. Owners' = {}
    BY <1>5 DEF Truncate, Exclusion, StarterKnows, Owners, TypeOK
  <2> QED
    BY <1>1, <1>2, <1>5, <2>1
       DEF Truncate, Exclusion, OneOwner, OwnersServe, StarterKnows, NamesOwner, StartingUp, TypeOK
<1>6. CASE WriteOwn(p)
  <2>1. Owners' = {p}
    BY <1>6 DEF WriteOwn, Exclusion, StarterKnows, Owners, TypeOK
  <2> QED
    BY <1>1, <1>2, <1>6, <2>1
       DEF WriteOwn, Exclusion, OneOwner, OwnersServe, StarterKnows, NamesOwner, StartingUp, TypeOK
<1>7. CASE StartService(p)
  <2>1. Owners' = Owners
    BY <1>7 DEF StartService, Owners, TypeOK
  <2> QED
    BY <1>1, <1>2, <1>7, <2>1
       DEF StartService, Exclusion, OneOwner, OwnersServe, StarterKnows, NamesOwner, StartingUp, TypeOK
<1> QED
  BY <1>3, <1>4, <1>5, <1>6, <1>7

LEMMA ReleaseKeepsExclusion ==
    ASSUME orderly', TypeOK, Exclusion, NEW p \in Procs,
           Stop(p) \/ ThreadEnds(p) \/ Join(p) \/ ReadOwn(p) \/ Unlink(p)
    PROVE  Exclusion'
<1>1. pid' = pid /\ seen' = seen /\ \A r \in Procs \ {p} : pc'[r] = pc[r]
  BY DEF Stop, ThreadEnds, Join, ReadOwn, Unlink, TypeOK
<1>2. ~StartingUp(p) /\ ~StartingUp(p)' /\ OneStarter'
  <2>1. /\ pc[p] \in {"serve", "join", "reread", "unlink", "exit"}
        /\ pc'[p] \in {"join", "reread", "unlink", "exit"}
    BY DEF Stop, ThreadEnds, Join, ReadOwn, Unlink, TypeOK
  <2>2. ~StartingUp(p) /\ ~StartingUp(p)'
    BY <2>1 DEF StartingUp
  <2> QED
    BY <1>1, <2>2 DEF Exclusion, OneStarter, StartingUp
<1>3. Owners' \subseteq Owners /\ p \in Owners \cup {r \in Procs : pc[r] = "exit"}
  BY DEF Stop, ThreadEnds, Join, ReadOwn, Unlink, Owners, TypeOK
<1>4. OwnersServe'
  <2>1. CASE Join(p)
    BY <2>1 DEF Join, Exclusion, OwnersServe, TypeOK
  <2>2. CASE Stop(p) \/ ThreadEnds(p) \/ ReadOwn(p) \/ Unlink(p)
    BY <2>2 DEF Stop, ThreadEnds, ReadOwn, Unlink, Exclusion, OwnersServe, TypeOK
  <2> QED
    BY <2>1, <2>2
<1>5. NamesOwner'
  <2>1. CASE Unlink(p)
    <3>1. Owners' = {}
      BY <1>1, <2>1 DEF Unlink, Owners, Exclusion, OneOwner, TypeOK
    <3> QED
      BY <3>1 DEF NamesOwner
  <2>2. CASE pidfile' = pidfile
    BY <1>1, <1>3, <2>2 DEF Exclusion, NamesOwner
  <2> QED
    BY <2>1, <2>2 DEF Stop, ThreadEnds, Join, ReadOwn
<1>6. StarterKnows'
  BY <1>1, <1>2, <1>3 DEF Exclusion, StarterKnows, StartingUp
<1> QED
  BY <1>2, <1>3, <1>4, <1>5, <1>6 DEF Exclusion, OneOwner

LEMMA StepsKeepExclusion ==
    ASSUME orderly', TypeOK, Exclusion, [Next]_vars
    PROVE  Exclusion'
<1>1. ASSUME NEW p \in Procs, Step(p)
      PROVE  Exclusion'
  BY <1>1, GoneKeepsExclusion, AcquireKeepsExclusion, ReleaseKeepsExclusion DEF Step, Refuse, Exit
<1>2. ASSUME NEW p \in Procs, Stop(p) \/ Kill(p) \/ LaunchSome(p)
      PROVE  Exclusion'
  BY <1>2, GoneKeepsExclusion, LaunchKeepsExclusion, ReleaseKeepsExclusion DEF Kill, LaunchSome
<1>3. CASE UNCHANGED <<pidfile, pc, pid, seen, serving>>
  BY <1>3 DEF Exclusion, OneStarter, StartingUp, OneOwner, OwnersServe, StarterKnows,
              NamesOwner, Owners
<1> QED
  BY <1>1, <1>2, <1>3 DEF Next, OtherStarts, OtherEnds, vars

\* What was disorderly stays so.
LEMMA DisorderStays == [Next]_vars /\ orderly' => orderly
<1> SUFFICES ASSUME [Next]_vars, orderly'
             PROVE  orderly
  OBVIOUS
<1>1. ASSUME NEW p \in Procs, Step(p)
      PROVE  orderly
  BY <1>1 DEF Step, Read, Refuse, Pass, Truncate, WriteOwn, StartService, ThreadEnds, Join,
              ReadOwn, Unlink, Exit, Gone
<1>2. ASSUME NEW p \in Procs, Stop(p) \/ Kill(p) \/ LaunchSome(p)
      PROVE  orderly
  BY <1>2 DEF Stop, Kill, Gone, LaunchSome, Launch
<1>3. CASE UNCHANGED orderly
  BY <1>3
<1> QED
  BY <1>1, <1>2, <1>3 DEF Next, OtherStarts, OtherEnds, vars

LEMMA ExclusionHolds == Spec => [](orderly => Exclusion)
<1>1. Init => Exclusion
  BY DEF Init, Exclusion, OneStarter, StartingUp, OneOwner, OwnersServe, StarterKnows,
         NamesOwner, Owners
<1>2. TypeOK /\ (orderly => Exclusion) /\ [Next]_vars => (orderly => Exclusion)'
  BY StepsKeepExclusion, DisorderStays
<1> QED
  BY <1>1, <1>2, Typing, PTL DEF Spec

\* The pidfile names whoever is between acquiring and releasing it, as long as
\* launches do not overlap and no worker outlives its join.
THEOREM PidfileIsOwners == Spec => []PidfileNamesOwner
<1>1. (orderly => Exclusion) => PidfileNamesOwner
  BY DEF Exclusion, NamesOwner, PidfileNamesOwner
<1> QED
  BY <1>1, ExclusionHolds, PTL

\* Under the same conditions no two dispatchers have a worker: the one service
\* that JobQueue models is the only one.
THEOREM OnlyOneService == Spec => []OneService
<1>1. TypeOK /\ (orderly => Exclusion) => OneService
  BY DEF Exclusion, OneOwner, OwnersServe, Owners, OneService, TypeOK
<1> QED
  BY <1>1, Typing, ExclusionHolds, PTL
=============================================================================
