------------------------- MODULE CachedVaultProofs -------------------------
(***************************************************************************)
(* Proofs about CachedVault, for any number of clients, files and paths.   *)
(***************************************************************************)
EXTENDS CachedVault, TLAPS

USE DEF Fault, Target, Keep

-----------------------------------------------------------------------------
(* Typing.                                                                 *)

LEMMA HeadIsRequest ==
    ASSUME TypeOK, queue # <<>>
    PROVE  Head(queue) \in Requests /\ Tail(queue) \in Seq(Requests)
BY DEF TypeOK

LEMMA AnswerTyping ==
    ASSUME TypeOK, queue # <<>>, NEW status \in Statuses, NEW body, Answer(Head(queue), status, body)
    PROVE  queue' \in Seq(Requests) /\ reply'.to \in Clients \cup {NoClient} /\ reply'.status \in Statuses
BY HeadIsRequest DEF Answer, TypeOK, Requests

\* What any server step does to the disk and to the rest, cache aside.
LEMMA ServeTyping ==
    ASSUME TypeOK, queue # <<>>, Serve(Head(queue))
    PROVE  /\ disk' \in [Files -> Contents \cup {Absent, Torn}]
           /\ queue' \in Seq(Requests)
           /\ reply'.to \in Clients \cup {NoClient} /\ reply'.status \in Statuses
           /\ faults' \in Nat /\ faults' <= MaxFaults
<1> DEFINE q == Head(queue)
<1>1. q \in Requests /\ Tail(queue) \in Seq(Requests)
  BY HeadIsRequest
<1>2. CASE Refuse(q)
  BY <1>2, AnswerTyping, BoundsAssumption
     DEF Refuse, RefuseSchema, RefusePath, NotFound, Statuses, TypeOK
<1>3. CASE Read(q) \/ List(q)
  BY <1>3, AnswerTyping, BoundsAssumption DEF Read, List, Statuses, TypeOK
<1>4. CASE Write(q)
  <2>1. q.body \in Contents \cup {Absent, Torn}
    BY <1>1 DEF Requests
  <2> QED
    BY <1>4, <2>1, AnswerTyping, BoundsAssumption DEF Write, Statuses, TypeOK
<1>5. CASE DiskFails(q)
  BY <1>5, AnswerTyping, BoundsAssumption DEF DiskFails, Statuses, TypeOK
<1>6. CASE Delete(q)
  BY <1>6, AnswerTyping, BoundsAssumption DEF Delete, Statuses, TypeOK
<1>7. CASE Drop(q)
  BY <1>1, <1>7, BoundsAssumption DEF Drop, TypeOK
<1> QED
  BY <1>2, <1>3, <1>4, <1>5, <1>6, <1>7 DEF Serve

\* What the server does to the cache.
LEMMA CacheTyping ==
    ASSUME TypeOK, queue # <<>>, CachedServe(Head(queue))
    PROVE  cache' \in [Paths -> Contents \cup {NotCached, Torn}]
<1> DEFINE q == Head(queue)
<1>1. q \in Requests
  BY HeadIsRequest
<1>2. CASE Miss(q)
  <2>1. q.path \in Paths
    BY <1>1, <1>2 DEF Miss, Read, Requests
  <2>2. disk[Target(q)] \in Contents \cup {Torn}
    BY <1>2, <2>1, PathsAssumption DEF Miss, Read, TypeOK
  <2> QED
    BY <1>2, <2>2 DEF Miss, TypeOK
<1>3. CASE CachedWrite(q)
  <2>1. q.body \in Contents
    BY <1>1, <1>3 DEF CachedWrite, Write, MayWrite, Requests
  <2> QED
    BY <1>3, <2>1 DEF CachedWrite, TypeOK
<1>4. CASE Hit(q) \/ CachedDelete(q) \/ Uncached(q)
  BY <1>4 DEF Hit, CachedDelete, Uncached, TypeOK
<1> QED
  BY <1>2, <1>3, <1>4 DEF CachedServe

LEMMA HitTyping ==
    ASSUME TypeOK, queue # <<>>, Hit(Head(queue))
    PROVE  TypeOK'
<1>1. disk' = disk /\ cache' = cache /\ faults' = faults
  BY DEF Hit
<1>2. queue' \in Seq(Requests) /\ reply'.to \in Clients \cup {NoClient} /\ reply'.status \in Statuses
  BY AnswerTyping DEF Hit, Statuses
<1> QED
  BY <1>1, <1>2 DEF TypeOK

LEMMA ServerStepTyping ==
    ASSUME TypeOK, ServerStep
    PROVE  TypeOK'
<1>1. CASE Hit(Head(queue))
  BY <1>1, HitTyping DEF ServerStep
<1>2. CASE Serve(Head(queue))
  BY <1>2, ServeTyping, CacheTyping DEF ServerStep, TypeOK
<1> QED
  BY <1>1, <1>2 DEF ServerStep, CachedServe, Miss, CachedWrite, CachedDelete, Uncached, Serve

LEMMA AbandonedIsRequest ==
    ASSUME NEW q \in Requests
    PROVE  /\ [q EXCEPT !.live = FALSE] \in Requests
           /\ [q EXCEPT !.live = FALSE].client = q.client
           /\ ~[q EXCEPT !.live = FALSE].live
<1> DEFINE R == [client : Clients, verb : Verbs, path : Paths \cup {Root},
                 body : Contents \cup {Absent}, live : BOOLEAN]
           r == [q EXCEPT !.live = FALSE]
<1>1. q \in R
  BY DEF Requests
<1>2. r \in R /\ r.verb = q.verb /\ r.body = q.body /\ r.path = q.path
        /\ r.client = q.client /\ ~r.live
  BY <1>1
<1> QED
  BY <1>1, <1>2 DEF Requests

LEMMA ClientStepTyping ==
    ASSUME TypeOK, ClientStep, UNCHANGED cache
    PROVE  TypeOK'
<1>1. CASE \E q \in Requests : q.live /\ Call(q)
  BY <1>1 DEF Call, Enqueue, TypeOK
<1>2. ASSUME NEW c \in Clients, TimeOut(c) \/ HangUp(c)
      PROVE  TypeOK'
  <2>1. PICK i \in DOMAIN queue : Abandon(c, i)
    BY <1>2 DEF TimeOut, HangUp
  <2>2. queue[i] \in Requests /\ [queue[i] EXCEPT !.live = FALSE] \in Requests
    BY <2>1, AbandonedIsRequest DEF TypeOK
  <2>3. queue' \in Seq(Requests)
    BY <2>1, <2>2 DEF Abandon, TypeOK
  <2>4. faults' \in Nat /\ faults' <= MaxFaults
    BY <1>2, BoundsAssumption DEF TimeOut, HangUp, TypeOK
  <2> QED
    BY <2>1, <2>3, <2>4 DEF Abandon, TypeOK
<1> QED
  BY <1>1, <1>2 DEF ClientStep

LEMMA CrashTyping ==
    ASSUME TypeOK, CachedCrash
    PROVE  TypeOK'
<1>1. disk' \in [Files -> Contents \cup {Absent, Torn}]
  <2>1. CASE UNCHANGED disk
    BY <2>1 DEF TypeOK
  <2>2. CASE queue # <<>>
    <3>1. Head(queue).body \in Contents \cup {Absent}
      BY <2>2, HeadIsRequest DEF Requests
    <3> QED
      BY <2>2, <3>1 DEF CachedCrash, Crash, TypeOK
  <2> QED
    BY <2>1, <2>2 DEF CachedCrash, Crash
<1> QED
  BY <1>1, BoundsAssumption DEF CachedCrash, Crash, TypeOK

\* Every variable has its type in every reachable state.
THEOREM Typing == CachedSpec => []TypeOK
<1>1. CachedInit => TypeOK
  BY BoundsAssumption DEF CachedInit, Init, TypeOK, Statuses
<1>2. TypeOK /\ [CachedNext]_vars => TypeOK'
  <2> SUFFICES ASSUME TypeOK, [CachedNext]_vars
               PROVE  TypeOK'
    OBVIOUS
  <2>1. CASE \E f \in Files, v \in Contents \cup {Absent} : Edit(f, v) /\ UNCHANGED cache
    BY <2>1, BoundsAssumption DEF Edit, TypeOK
  <2>2. CASE UNCHANGED vars
    BY <2>2 DEF vars, fsvars, TypeOK
  <2> QED
    BY <2>1, <2>2, ServerStepTyping, ClientStepTyping, CrashTyping DEF CachedNext
<1> QED
  BY <1>1, <1>2, PTL DEF CachedSpec

-----------------------------------------------------------------------------
(* The cache.                                                              *)

LEMMA ServingKeepsFresh ==
    ASSUME Canonical, TypeOK, queue # <<>>, CachedServe(Head(queue)),
           NEW p \in Paths, ~Stale(p), Stale(p)'
    PROVE  faults' # faults /\ ~DiskIsFaithful
<1> DEFINE q == Head(queue)
<1>1. q \in Requests
  BY HeadIsRequest
<1>2. CASE Hit(q)
  BY <1>2 DEF Hit, Stale
<1>3. CASE Miss(q)
  <2>1. q.path \in Paths
    BY <1>1, <1>3 DEF Miss, Read, Requests
  <2> QED
    BY <1>3, <2>1 DEF Miss, Read, Stale, TypeOK
<1>4. CASE CachedWrite(q)
  <2>1. q.path \in Paths /\ Target(q) \in Files
    BY <1>1, <1>4, PathsAssumption DEF CachedWrite, Write, MayWrite, Requests
  <2>2. disk' = [disk EXCEPT ![Target(q)] = q.body] /\ cache' = [cache EXCEPT ![q.path] = q.body]
    BY <1>4 DEF CachedWrite, Write
  <2>3. CASE p = q.path
    BY <2>1, <2>2, <2>3, PathsAssumption DEF Stale, TypeOK
  <2>4. CASE p # q.path
    <3>1. FileOf[p] # Target(q)
      BY <2>1, <2>4, PathsAssumption DEF Canonical
    <3> QED
      BY <2>1, <2>2, <2>4, <3>1 DEF Stale, TypeOK
  <2> QED
    BY <2>3, <2>4
<1>5. CASE CachedDelete(q)
  <2>1. q.path \in Paths /\ Target(q) \in Files
    BY <1>1, <1>5, PathsAssumption DEF CachedDelete, Delete, MayDelete, Requests
  <2>2. disk' = [disk EXCEPT ![Target(q)] = Absent] /\ cache' = [cache EXCEPT ![q.path] = NotCached]
    BY <1>5 DEF CachedDelete, Delete
  <2>3. p # q.path
    BY <2>1, <2>2 DEF Stale, TypeOK
  <2>4. FileOf[p] # Target(q)
    BY <2>1, <2>3, PathsAssumption DEF Canonical
  <2> QED
    BY <2>1, <2>2, <2>3, <2>4 DEF Stale, TypeOK
<1>6. CASE Uncached(q)
  <2>1. disk' # disk /\ cache' = cache
    BY <1>6 DEF Uncached, Stale
  <2>2. DiskFails(q) /\ Fault("partial")
    BY <1>6, <2>1
       DEF Uncached, Refuse, RefuseSchema, RefusePath, NotFound, List, DiskFails, Drop
  <2> QED
    BY <2>2 DEF DiskIsFaithful, TypeOK
<1> QED
  BY <1>2, <1>3, <1>4, <1>5, <1>6 DEF CachedServe

LEMMA StepsKeepFresh ==
    ASSUME Canonical, TypeOK, CachedNext, NEW p \in Paths, ~Stale(p), Stale(p)'
    PROVE  faults' # faults /\ ~DiskIsFaithful
<1>1. CASE ServerStep
  BY <1>1, ServingKeepsFresh DEF ServerStep
<1>2. CASE CachedCrash
  BY <1>2 DEF CachedCrash, Stale
<1>3. CASE ClientStep /\ UNCHANGED cache
  BY <1>3 DEF ClientStep, Call, TimeOut, HangUp, Abandon, Stale
<1>4. CASE \E f \in Files, v \in Contents \cup {Absent} : Edit(f, v) /\ UNCHANGED cache
  BY <1>4 DEF Edit, DiskIsFaithful, TypeOK
<1> QED
  BY <1>1, <1>2, <1>3, <1>4 DEF CachedNext

\* Whatever faults happened before, an entry of the cache goes stale only in a
\* step in which a fault happens.
THEOREM ServerKeepsCacheFresh ==
    ASSUME Canonical
    PROVE  CachedSpec => OnlyFaultsMakeStale
<1>1. TypeOK /\ [CachedNext]_vars =>
          [\A p \in Paths : Stale(p)' => Stale(p) \/ faults' # faults]_vars
  BY StepsKeepFresh
<1> QED
  BY <1>1, Typing, PTL DEF CachedSpec, OnlyFaultsMakeStale

LEMMA CoherentIsFresh == CacheCoherent <=> \A p \in Paths : ~Stale(p)
BY DEF CacheCoherent, Stale

\* The invariant cache.py states, when no file has two paths, no write fails
\* half way and nobody edits the vault.
THEOREM CacheIsCoherent ==
    ASSUME Canonical, DiskIsFaithful
    PROVE  CachedSpec => []CacheCoherent
<1>1. CachedInit => CacheCoherent
  BY DEF CachedInit, CacheCoherent
<1>2. TypeOK /\ CacheCoherent /\ [CachedNext]_vars => CacheCoherent'
  <2> SUFFICES ASSUME TypeOK, CacheCoherent, [CachedNext]_vars
               PROVE  CacheCoherent'
    OBVIOUS
  <2>1. CASE CachedNext
    <3>1. \A p \in Paths : ~Stale(p)'
      BY <2>1, StepsKeepFresh, CoherentIsFresh
    <3> QED
      BY <3>1 DEF CacheCoherent, Stale
  <2>2. CASE UNCHANGED vars
    BY <2>2 DEF vars, fsvars, CacheCoherent
  <2> QED
    BY <2>1, <2>2
<1> QED
  BY <1>1, <1>2, Typing, PTL DEF CachedSpec

\* With a coherent cache every step of the cached store is a step of the bare
\* directory: a hit answers what the directory would have answered.
THEOREM CachedStoreSubstitutes ==
    ASSUME Canonical, DiskIsFaithful
    PROVE  CachedSpec => SubstitutesVaultFS
<1>1. CachedInit => Init
  BY DEF CachedInit
<1>2. TypeOK /\ CacheCoherent /\ [CachedNext]_vars => [Next]_fsvars
  <2> SUFFICES ASSUME TypeOK, CacheCoherent, CachedNext
               PROVE  Next
    BY DEF vars
  <2>1. CASE queue # <<>> /\ Hit(Head(queue))
    <3> DEFINE q == Head(queue)
    <3>1. q \in Requests
      BY <2>1, HeadIsRequest
    <3>2. q.path \in Paths
      BY <2>1, <3>1 DEF Hit, Requests
    <3>3. Target(q) # NoFile /\ cache[q.path] = disk[Target(q)]
      BY <2>1, <3>2 DEF Hit, CacheCoherent
    <3>4. disk[Target(q)] # Absent
      BY <2>1, <3>2, <3>3, ContentsAssumption DEF Hit, TypeOK, NotCached, Torn, Absent
    <3> QED
      BY <2>1, <3>3, <3>4 DEF Hit, Read, Serve, Next
  <2>2. CASE queue # <<>> /\ ~Hit(Head(queue)) /\ CachedServe(Head(queue))
    BY <2>2 DEF CachedServe, Miss, CachedWrite, CachedDelete, Uncached, Serve, Next
  <2>3. CASE CachedCrash \/ (ClientStep /\ UNCHANGED cache)
    BY <2>3 DEF CachedCrash, Next
  <2>4. CASE \E f \in Files, v \in Contents \cup {Absent} : Edit(f, v) /\ UNCHANGED cache
    BY <2>4 DEF Next
  <2> QED
    BY <2>1, <2>2, <2>3, <2>4 DEF CachedNext, ServerStep
<1> QED
  BY <1>1, <1>2, Typing, CacheIsCoherent, PTL DEF CachedSpec, SubstitutesVaultFS, Spec

-----------------------------------------------------------------------------
(* The files and the queue.                                                *)

\* Only a valid text, the pieces of one, or nothing is put in a file that
\* every path reaches through a schema.
LEMMA ServerPutsValid ==
    ASSUME TypeOK, queue # <<>>, CachedServe(Head(queue)) \/ CachedCrash,
           NEW f \in Files, \A p \in Paths : FileOf[p] = f => p \in Checked, disk'[f] # disk[f]
    PROVE  disk'[f] \in Valid \cup {Absent, Torn}
<1> DEFINE q == Head(queue)
<1>1. q \in Requests
  BY HeadIsRequest
<1>2. ASSUME MayWrite(q), Target(q) = f
      PROVE  q.body \in Valid
  BY <1>1, <1>2 DEF MayWrite, SchemaError, Requests
<1>3. CASE Hit(q) \/ Miss(q) \/ Uncached(q)
  BY <1>3 DEF Hit, Miss, Read, Uncached, Refuse, RefuseSchema, RefusePath, NotFound, List,
              DiskFails, Drop, TypeOK
<1>4. CASE CachedWrite(q)
  BY <1>2, <1>4 DEF CachedWrite, Write, TypeOK
<1>5. CASE CachedDelete(q)
  BY <1>5 DEF CachedDelete, Delete, TypeOK
<1>6. CASE CachedCrash
  BY <1>2, <1>6 DEF CachedCrash, Crash, TypeOK
<1> QED
  BY <1>3, <1>4, <1>5, <1>6 DEF CachedServe

\* A file of a schema's directory never holds what the schema rejects, unless
\* somebody edits it: crashes and failed writes included.
THEOREM DiskIsValid ==
    ASSUME "edit" \notin Faults
    PROVE  CachedSpec => []OnlyValidOnDisk
<1>1. CachedInit => OnlyValidOnDisk
  BY DEF CachedInit, Init, OnlyValidOnDisk
<1>2. TypeOK /\ OnlyValidOnDisk /\ [CachedNext]_vars => OnlyValidOnDisk'
  <2> SUFFICES ASSUME TypeOK, OnlyValidOnDisk, [CachedNext]_vars,
                      NEW f \in Files, \A p \in Paths : FileOf[p] = f => p \in Checked,
                      disk'[f] # disk[f]
               PROVE  disk'[f] \in Valid \cup {Absent, Torn}
    BY DEF OnlyValidOnDisk
  <2>1. CASE ServerStep
    BY <2>1, ServerPutsValid DEF ServerStep
  <2>2. CASE CachedCrash
    BY <2>2, ServerPutsValid DEF CachedCrash, Crash
  <2>3. CASE ClientStep
    BY <2>3 DEF ClientStep, Call, TimeOut, HangUp, Abandon
  <2>4. CASE UNCHANGED vars
    BY <2>4 DEF vars, fsvars
  <2>5. ~(\E g \in Files, v \in Contents \cup {Absent} : Edit(g, v))
    BY DEF Edit
  <2> QED
    BY <2>1, <2>2, <2>3, <2>4, <2>5 DEF CachedNext
<1> QED
  BY <1>1, <1>2, Typing, PTL DEF CachedSpec
=============================================================================
