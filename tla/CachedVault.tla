---------------------------- MODULE CachedVault ----------------------------
(***************************************************************************)
(* The store as it runs: CachedVaultStore in front of the vault directory. *)
(* Each verb is the step of VaultFS and what the cache does with it.  The  *)
(* cache is keyed by the path as it was sent, not by the file it resolves  *)
(* to, and lives as long as the server process.                            *)
(***************************************************************************)
EXTENDS VaultFS

VARIABLE cache  \* what the server holds of each path, or NotCached

NotCached == "not cached"

ASSUME NotCachedAssumption == NotCached \notin Contents

vars == <<fsvars, cache>>

CachedInit == Init /\ cache = [p \in Paths |-> NotCached]

Keep(p, v) == cache' = [cache EXCEPT ![p] = v]

Hit(q) ==
    /\ q.verb = "READ" /\ cache[q.path] # NotCached
    /\ Answer(q, "OK", {cache[q.path]})
    /\ UNCHANGED <<disk, faults, cache>>

\* A read that raises leaves the cache as it was.
Miss(q) ==
    /\ Read(q)
    /\ cache[q.path] = NotCached
    /\ Keep(q.path, disk[Target(q)])

CachedWrite_NoUpdate(q) == Write(q) /\ UNCHANGED cache
CachedWrite(q) == Write(q) /\ Keep(q.path, q.body)

CachedDelete_Tombstone(q) == Delete(q) /\ Keep(q.path, Absent)
CachedDelete_NoEvict(q) == Delete(q) /\ UNCHANGED cache
CachedDelete(q) == Delete(q) /\ Keep(q.path, NotCached)

\* What reaches neither the cache nor a file's contents, or raises on the way.
Uncached(q) ==
    /\ q.verb = "READ" => cache[q.path] = NotCached
    /\ Refuse(q) \/ List(q) \/ DiskFails(q) \/ Drop(q)
    /\ UNCHANGED cache

CachedServe(q) ==
    Hit(q) \/ Miss(q) \/ CachedWrite(q) \/ CachedDelete(q) \/ Uncached(q)

CachedCrash == Crash /\ cache' = [p \in Paths |-> NotCached]

ServerStep == queue # <<>> /\ CachedServe(Head(queue))

CachedNext ==
    \/ ServerStep
    \/ CachedCrash
    \/ ClientStep /\ UNCHANGED cache
    \/ \E f \in Files, v \in Contents \cup {Absent} : Edit(f, v) /\ UNCHANGED cache

CachedSpec == CachedInit /\ [][CachedNext]_vars

\* The server keeps serving, and a client that sends nothing gives up.
FairSpec == CachedSpec /\ WF_vars(ServerStep) /\ \A c \in Clients : WF_vars(HangUp(c) /\ UNCHANGED cache)

-----------------------------------------------------------------------------
(* What must hold.                                                         *)

\* Every variable has its type.
TypeOK ==
    /\ disk \in [Files -> Contents \cup {Absent, Torn}]
    /\ cache \in [Paths -> Contents \cup {NotCached, Torn}]
    /\ queue \in Seq(Requests)
    /\ reply.to \in Clients \cup {NoClient} /\ reply.status \in Statuses
    /\ faults \in Nat /\ faults <= MaxFaults

\* No file is reached by two paths.
Canonical ==
    \A p, r \in Paths : FileOf[p] # NoFile /\ FileOf[p] = FileOf[r] => p = r

\* Every write happens whole or not at all, and through the store.
DiskIsFaithful == Faults \cap {"partial", "edit"} = {}

\* "If path in cache, then cache[path] == disk_contents(path)" (cache.py): holds
\* if Canonical and DiskIsFaithful.
CacheCoherent ==
    \A p \in Paths : cache[p] # NotCached => FileOf[p] # NoFile /\ cache[p] = disk[FileOf[p]]

\* "Anywhere a VaultFS is expected, a CachedVaultStore can be substituted"
\* (cache.py): a client of the cached store sees nothing it could not see of
\* the bare directory, if Canonical and DiskIsFaithful.
SubstitutesVaultFS == Spec

\* The store accepts nothing its schema rejects: under paths the schema knows,
\* a file holds a valid text, or what an interrupted write left of one, if
\* nobody edits it.
OnlyValidOnDisk ==
    \A f \in Files : (\A p \in Paths : FileOf[p] = f => p \in Checked) =>
        disk[f] \in Valid \cup {Absent, Torn}

\* Every call comes back, although one server handles the connections one by
\* one and sets no timeout: a client that sends nothing delays the others only
\* until it hangs up.
EveryCallReturns ==
    \A c \in Clients : Waits(c) ~> ~Waits(c)

Stale(p) == cache[p] # NotCached /\ (FileOf[p] = NoFile \/ cache[p] # disk[FileOf[p]])

\* Whatever edits and failed writes did before, nothing the server does on its
\* own lets a path's cache entry go stale: an entry becomes stale only in a
\* step in which a fault happens.
OnlyFaultsMakeStale ==
    [][\A p \in Paths : Stale(p)' => Stale(p) \/ faults' # faults]_vars
=============================================================================
