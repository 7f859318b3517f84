# TLA+ specifications of mono-AXIOM

mono-AXIOM keeps everything it knows as Markdown files in one directory, the vault. A TCP server
(`axiom-store`) is the only program that should touch the files; the job queue (`axiom-queue`) and
the ingest pipeline (`axiom-fetch`) are its clients and keep their state nowhere else.
This directory specifies those parts, checks them with TLC on small instances, and proves the
properties that matter most for every instance with TLAPS.

    tlc -workers 4 -config QueueInterrupted.cfg JobQueueMC      # one of the runs in PROJECT.json
    tlapm JobQueueProofs.tla                                     # one of the eight proof modules

`PROJECT.json` has the runs, the lines each definition models (`map`), the hazards of the code with
the properties that watch them, and the theorems.

## 1. The system

| Component | State | Operations | Talks to |
|---|---|---|---|
| **Queue worker** `axiom-queue/worker.py` | locals of `step_once`: the scan, the claimed job | scan, claim, execute, resolve; loop until `stop_event` | store: LIST, READ, WRITE of `jobs/*.md` |
| **Queue watchdog** `watchdog.py` | locals of `step_once`: copies of the stalled jobs | scan, re-read body, reclaim | store, the same files |
| **Job file** `jobs.py`, `retry.py`, `handlers.py` | status, attempts, timestamps | submit, decide after success or failure | written by clients, worker, watchdog |
| **Dispatcher** `dispatcher.py` | the pidfile, two daemon threads, `stop_event` | acquire, start, stop and join, release | signals, other dispatchers through the pidfile |
| **Store server** `server.py`, `cache.py`, `filesystem.py`, `schema.py` | the vault directory; a `dict` from path to bytes | READ, WRITE, DELETE, LIST, one connection at a time | clients over one-shot connections |
| **Store client** `client.py` | none | one round trip per call, 5 s time-out | server |
| **Ingest** `axiom-fetch/pipeline.py` | source file, chunk files | pending, fetch, extract, chunk, write chunks, succeeded or failed | store: WRITE of `fetch/**` |
| **Chunker** `chunker.py` | locals of `chunk_text` | cut a text into overlapping chunks | pure |
| **Framing** `protocol.py`, `recv_until`, `recv_exact`, `handle_connection`, `_round_trip` | the buffers of both ends of one connection | read a head, read a body, dispatch, answer; read the response | the bytes between client and server |
| **Frontmatter** `frontmatter.py` | none | parse, render | used by every reader and writer of the vault |
| **Clock and backoff** `retry.py` | the wall clock | stamps, `is_ready_to_retry`, `is_stalled`, `compute_backoff` | compared with what the job files say |
| Extractors, fetcher, scripts, empty `axiom-brain` and `axiom-api` | none | | pure or I/O; see section 8 |

Where it is hard: the two queue threads coordinate only through files, each acts on copies it read
earlier, and no write compares first; a store call can raise in the caller although the write was
done; a process can die between any two calls; the pidfile is checked and written in separate
system calls; the server caches what others may change, under keys that are not canonical, and
serves everybody from one thread; requests arrive in pieces of any size, and either end may be gone before the
last one; stamps are whole seconds of a clock that may be set. The list with lines is `hazards` in `PROJECT.json`.

What makes each part correct: the watchdog undoes nothing the worker did, attempts are counted
once and bounded, terminal jobs stay terminal while handlers are in time, every job ends (queue); one dispatcher at a time,
and no lock-out (dispatcher); the cache equals the disk and changes nothing a client can see,
every call comes back (store); what is dispatched is what was sent, whatever the pieces (framing); a
file reads back as it was written (frontmatter, job file); no job is taken up early or late by more than a second
(clock); chunks reassemble and the loop ends (chunker); a source
that reads succeeded is complete at every moment (ingest).

## 2. Modules

| Module | What it is |
|---|---|
| `JobQueue` | worker and watchdog threads, the job files, and the process around them |
| `JobLifecycle` | the life cycle of a job as the code has it, which `JobQueue` implements; that of `Documentation.md:312` is another |
| `VaultFS` | the server without its cache: clients, connections, the directory. The abstract store |
| `CachedVault` | EXTENDS `VaultFS`: the server with the cache; implements `VaultFS` |
| `StoreCall` | the abstract call of the client library: at most one effect, an answer or an exception |
| `Framing` | one round trip byte by byte, over every segmentation of both streams; implements `StoreCall` |
| `Frontmatter` | `parse_frontmatter` and `render_frontmatter` as operators over lines |
| `JobFile` | EXTENDS `Frontmatter`: the text of one job file and the clock of its stamps |
| `Dispatcher` | several dispatcher processes and their pidfile |
| `Chunker` | `chunk_text` |
| `Ingest` | several calls of `ingest` and what a reader of the vault finds; implements `Publication` |
| `Publication` | what a reader may rely on: a document is published at once, whole and for good |
| `*MC` | constants for TLC, and documented claims the code does not keep |
| `*Proofs` | theorems, each EXTENDS its component and `TLAPS`; `JobCountProofs` EXTENDS `JobQueueProofs` |

Three conventions. (1) Every fault is an action that costs one of `MaxFaults`, and only the kinds
in the constant `Faults` happen, so that a property can say what it survives and a proof can say
what it assumes; proofs never assume a number. (2) A definition `Name_Word` is a wrong variant of
the `Name` that follows it (a dropped check, a swapped order). Nothing uses it: the mutation runs
put it in the place of `Name`, and TLC must then find the property violated. (3) Every read and
write of a shared file is a step of its own; what a step reads and keeps is a variable.

### JobQueue

`file[j]` is the job file: `status`, `attempts`, and `elapsed`, which says that its timestamp
(`claimed_at` while running, `next_attempt_at` while failed) is past its limit. `Elapse` sets it at any
moment; every write resets it. So nothing depends on how long a backoff or the stall threshold is.
The one assumption about time is in its guard: the claim of a job *in flight* does not elapse,
that is, handlers finish within `STALL_THRESHOLD_SECONDS` (300 s) — unless the fault `slow`
is allowed, when `Overrun` lets it.

Worker: `wpc` goes `top` (the `while` condition) → `scan` (one `WorkerRead` per file, in lexical order) →
`execute` → `resolve` → `top`, or `idle` (the wait). `wjob` is `claimable[0]`, later the claimed job;
`wattempts` the attempts in that copy. Watchdog: `dpc` goes `top` → `scan` (all reads, then for each stalled
job `ReadBody`, the second read of `_append_reclaim_note`) → `reclaim` (the write) → … → `idle`;
`stalled` and `dattempts` are the copies.
A store call may raise (fault `store`), its write applied or not. Two more ways for `resolve` to raise after the
handler ran: the result or the error text cannot be written (fault `result`: no YAML for it, or too big a body), and
`compute_backoff` overflows (`Overflows`: from `OverflowAt` attempts on, 1024 in Python, `1.0 * 2**attempts` is no
float, `retry.py:97`). In either the job stays as its claim left it and is reclaimed. `Crash`, `ExitOnTimeout` and `Exit` drop
both threads; `Start` begins with a fresh `stop_event`. `ReadOnly` holds jobs whose file cannot be written,
for head-of-line blocking. A write is whole or nothing here: what one that tears does to the store is `VaultFS`'s.
`submitted` only makes ids unique, as UUIDs are; `started` is a history variable.

### VaultFS and CachedVault

`queue` is the connections the kernel holds for the server, in order, at most `Backlog`. An entry is
`live` while its client waits. The server handles the head to the end (`Serve`): one atomic step, because
nobody else may touch the disk meanwhile — except a crash, which leaves the write or the delete at the
head done, half done (`Torn`) or not begun. The order of checks is the code's: schema (in `dispatch`),
path (`_resolve`), existence, disk. `reply` is the response that arrived last.
`FileOf` maps the spelling of a path to the file it resolves to, `Checked` says which spellings the schema
registry knows: both go by the raw string, as in the code. A body that is not UTF-8 (BAD_REQUEST in
the code) counts as rejected by the schema. `cache` is keyed by the spelling.

`JobQueue` and `Ingest` use the store as "a call either returns, or raises with its write applied or not
*at that step*" (in `Ingest`, also with half of it written). What justifies the last words is the single accept loop, which
`VaultFS` has as its one queue: a call its client gave up on stands before any later call of that client, so that the
caller cannot tell it from one applied at once; and the worker's and the watchdog's calls on one file are interleaved in any order anyway.

### StoreCall and Framing

`StoreCall` says what a caller may rely on: its operation takes effect at most once; an answer is the one the store decided
on; OK means applied, a refusal means not applied; an exception says nothing. `Framing` is one connection. A byte is a
newline or another; a message is a head, a blank line and a body, and its head tells a length or does not parse
(`Length`). `cut` is how many bytes of the request ever arrive, `got` how many the server took, `buf` what it keeps of them;
`sent` and `rbuf` are the same for the response. A `recv` returns any number of the bytes that are there, at most what it asks for
(`HeadRoom`, `BodyRoom`, `ReplyRoom`). `GiveUp` is the client's time-out, a failed send, or its end: what was not sent is cut off.
`Crash` ends the server. `Send` with input unread is a reset, after which any part of the answer may be lost.

`VaultFS` takes a request as one entry of its queue and answers it in one step. `Framing` is why it may: what is dispatched is the
request that was sent (`HandledIsSent`), and to the caller the exchange is a `StoreCall` (`ImplementsStoreCall`), so that what a caller is
told is what happened (`AnswersAreTrue`, an invariant of `StoreCall` that `Framing` inherits: the theorem `ClientsAreToldTheTruth`).

### Frontmatter and JobFile

A text is a sequence of lines: fence, blank, the YAML of a mapping, or other text. PyYAML is external: a mapping comes back as
it was dumped, and its text holds no fence. `JobFile` writes such texts. `file` is the file of one job; `worker` and
`watchdog` hold the job as each has it in memory. Reading the clock and writing the stamp are two steps, as they are two statements
with a round trip between them. The clock runs in ticks, `TicksPerSecond` to a second; a stamp is `Seconds(clock)`;
`SetClock` moves the clock either way. `read` in a job record is a ghost: the exact tick of its stamp, for `OnTime` to
compare with; `wrote` and `late` are history variables. `Restart` loses both threads' memory.

`JobFile` has the time that `JobQueue` leaves out. `HandlerUndisturbed` is what justifies the guard of `Elapse`: a handler that
ends a second before the threshold is not reclaimed under its feet, if nobody sets the clock and no reclaim
scanned earlier lands late.

### Dispatcher

Each of `read_pidfile`, `os.kill(pid, 0)`, the truncation and the writing in `write_text`, and `unlink` is a step.
`serving` holds the processes with a live worker thread. `Join` returns when the thread has ended, or
with the fault `overstay` without that. `orderly` is a history variable: no launch began while another was starting up, and no
worker overstayed. The safety properties say what holds up to the point where that is lost; nothing is restricted.
Other programs appear only when one gets a pid the pidfile names or somebody has read from it (fault `reuse`).

### Chunker

A text is its length and the set of positions of soft boundaries; a chunk is the slice `from .. to - 1` and
the `overlap_chars` it claims. The backward search for a boundary is the maximum of a set (`Window`, `CutsAt`).

### Ingest

Each phase is a step, each write one store call that may raise with or without effect, or with half of it on disk
(fault `partial`, `WriteTorn`: the source is then `torn`, and the ingest is over, since nothing catches the exception). What `fetch` and
`extract` return is a choice; either may also raise what `ingest` does not catch (faults `fetch`, `extract`). The properties are
about what a reader finds between any two writes. `Publication` is the whole of it for a reader who goes by the status: `Shown` maps a
source that reads succeeded to the chunks then in the vault, a failed one to its failure, any other to nothing, and
each of these is reached in one step from nothing and never left. So it says, of all that is shown, what `SucceededIsComplete` and `EndsOnce` say of
one state and of one step; both are theorems, and the refinement's proof goes by the first.

## 3. Runs

| Run | Instance | Shows |
|---|---|---|
| `queue_interrupted` | 2 jobs, 3 attempts of which the second overflows the backoff, 3 faults of crash/store/stop/result; 5·10^5 states | `ClaimMatchesDisk`, `ReclaimIsFresh`: no thread acts on a stale copy; `AttemptsBounded`, `AttemptsCountStarts`; `TerminalIsFinal`; `ImplementsLifecycle` |
| `queue_settles` | 2 jobs, the second unwritable, any 3 faults of six kinds; 6·10^4 states, with fairness | `EveryJobSettles`, also through stops whose joins time out (each costs two of the three) and a result that is refused again and again; `StopStops`, `StartsBounded` |
| `job_file` | 2 ticks a second, 3 attempts, threshold 2 s, delays up to 3 s, 8 s of clock set once by up to 5 ticks, every body up to 3 lines; 3·10^5 states | `ReadsBack`, `NoteTellsReclaim`, `OnTime`, `HandlerUndisturbed` |
| `vault_coherent` | 2 clients, 2 files, 3 paths, 1 fault, backlog 2; 2·10^5 states | `CacheCoherent`, `OnlyValidOnDisk`, `SubstitutesVaultFS` |
| `vault_faulty` | 2 clients, 1 file, torn writes and edits too, backlog 3; 10^5 states, with fairness | `EveryCallReturns`, `OnlyFaultsMakeStale` |
| `framing` | heads of 3 to 7 bytes against a limit of 6, bodies up to 2 bytes that tell their length or not, 4 bytes a `recv`; 6·10^4 states, with fairness | `HandledIsSent`, `HeaderLimit`; `ReadsExactly`, `CallEnds`, `ImplementsStoreCall` |
| `dispatchers` | 3 dispatchers, 3 pids, 2 kills, reused pids or overstays; 2·10^5 states, with fairness | `OneService`, `PidfileNamesOwner`, `ServiceReturns` |
| `chunker_all` | all texts up to 9 characters, sizes 0..5, overlaps -1..5 | `Reassembles`, `SizesKept`, `Advances`, `Terminates` |
| `ingest_faulty` | 3 ingests, up to 3 chunks, 2 faults of six kinds, torn writes among them; 10^4 states | `IntentIsVisible`; `ImplementsPublication`, which has `SucceededIsComplete` and `EndsOnce` in it |

Each module's `TypeOK` is checked in one of its runs. Three runs expect a violation:

| Run | Claim | What TLC finds |
|---|---|---|
| `queue_extra_retry` | no free retry (`worker.py:130`, `watchdog.py:176`) | The last allowed try succeeds, but its result cannot be written; the reclaim keeps `attempts = max_attempts`; the next claim makes it `max_attempts + 1` and runs the handler again, and so for ever. Nothing but a *failed handler* ever looks at the cap, so a job that kills its process is never dead either |
| `vault_aliased` | `cache[path] == disk_contents(path)` (`cache.py:8`) | WRITE to `a`, then to `./a`: the entry of `a` keeps the old bytes, with no fault at all |
| `dispatcher_race` | one dispatcher per vault (`dispatcher.py:7`, `Documentation.md:213`) | Two launches read the missing pidfile before either writes it |

Further disagreements of code and documents met while modelling have no run of their own:

- `Documentation.md:313` says that `succeeded` is terminal and re-checked. `reclaim` (`watchdog.py:213`) checks nothing: with a
  handler that returns just past the threshold, the watchdog writes pending over succeeded (one job and the fault `slow` are
  enough to violate `TerminalIsFinal`, which therefore states its condition).
- `Documentation.md:312` draws retries as `failed → pending` and exhaustion as `failed → dead`; the code does `failed → running` and
  `running → dead`. `JobLifecycle`, and so `ImplementsLifecycle`, states what the code does, not what is documented.
- A `VaultFS.write` that fails after truncating (fault `partial`) breaks the promise of `cache.py:93-94`: the cache keeps the
  old contents. `CacheCoherent` is checked without that fault, `OnlyFaultsMakeStale` with it.
- `pipeline.py:20-21` says every fetch or extract failure is recorded in the source; an exception other than `ValueError`,
  `PdfReadError` and `httpx.RequestError` leaves it pending for good (faults `fetch` and `extract`).
- `mono-vault.example/README.md:34` says the store reads from disk on each request, `cache.py:72` does not.
- A join that times out ends a job in flight, which `worker.py:19` says always finishes, and releases the pidfile of a live worker.
- `pipeline.py:25-26` suggests a job around `ingest` for retries. `ingest` returns a failed source instead of raising, so
  such a job would succeed and never be retried. No handler does it yet (`axiom-fetch/README.md:27`).
- `watchdog.py:155` calls the reclaim note an audit trail; the next claim makes the body anew (`jobs.py:217`) and erases
  it, so `NoteTellsReclaim` is about a job only while it is pending.
- `frontmatter.py:118-119` says `parse(render(m, b)) == (m, b)`; it does not hold for the mapping without keys and a body that begins with
  a fence, and the theorem `RoundTrip` leaves out the mapping without keys.
- `server.py:98-101` says that surplus body bytes fail loudly; they do if they came with the head, and are left unread otherwise.
  A head at the limit, or one byte short of it, is refused or not depending on the pieces it comes in, the check at `server.py:210` is
  never reached (the parser refuses first), and a refused request's answer may be lost in the reset that follows.

**Bounds.** Two jobs are enough for the scans to hold copies of one while the other moves, and for one that
cannot be claimed to stand in the scan beside one that can; three attempts for a retry, one whose backoff overflows, and a last try. Three
faults allow a crash in the recovery from a lost call in the recovery from a crash. The same
three in `queue_settles`, where liveness needs the whole graph: one of its jobs can settle, and two jobs that both can
meet in `queue_interrupted`. In `job_file` two ticks make a stamp differ from its moment, the capped delay is met by the second attempt, and the clock lasts
for a claim, a stall, a reclaim and a retry; bodies of three lines begin with a fence, close one, or begin with blank lines. In `framing` heads are shorter than,
equal to, and longer than the limit with and without the blank line, bodies hold newlines, and the length that a head
tells is right, one off either way, too big, or missing. Two clients and backlog 3 let a client be behind its own given-up call and another's. Three
dispatchers: one that left a pidfile, one that overwrote it, one that reads it. Lookback 2 is smaller and larger
than the windows that sizes up to 5 make. `CHECK_DEADLOCK FALSE` only for the chunker, ingest and one connection, which
end. `MaxFaults`, `Backlog`, `MaxChunks`, `Lengths`, `MaxClock`, `MaxJump` and `MaxJumps` are the only bounds; attempts are bounded by the theorem.

**Fairness.** `JobQueue`: weak fairness of each thread's steps (threads of one process are scheduled, and every wait in the
loops has a time-out), of `Exit` once both threads are done, of `Start` (somebody starts the service again; without
it nothing can settle), and of `Elapse` (time passes). None of `Submit` or of any fault. A stop alone is enough for
`StopStops`. `CachedVault`: weak fairness of the server's next step (a single loop that never waits for anything but
its head), and of `HangUp` (every client in the repository has a 5 s socket time-out, `client.py:50`; without this
assumption one silent peer blocks everybody for good, since the server sets none). `Framing`: weak fairness of either end, which reads what is there or acts on what it has; not of `GiveUp`, so that
`CallEnds` says a call needs no time-out to end. `Dispatcher`: weak fairness of a
launched process and of launching again; not of `Stop`. `JobFile` and `Ingest` state none. `Chunker`: a function that was called runs.

## 4. Proofs

All theorems hold for every value of the constants that satisfies the named `ASSUME`s.

- **JobQueueProofs.** `Typing`. `AttemptsAreBounded`: the bound is not inductive by itself, since a copy read before a
  fault may be written after it. The invariant `AttemptsInv` gives the files that may still be claimed, and the *copies* in both threads,
  a strict bound by `Limit == Tries + faults`; a claim uses up the one that is left, and whatever makes
  a job claimable again without a resolve costs a fault. `NoTwoWritersRace`, `ReclaimsAreFresh`,
  `TerminalStaysFinal` and `QueueImplementsLifecycle` assume `InTime` (neither `slow` nor `delete` among the faults) and rest on
  `FreshInv`: the first two, that a claim in flight is younger than the threshold (`HeldInTime`), and that the worker's choice (`ScanMatchesDisk`) is still claimable on disk, so that no two
  copies are of the same job. The last maps every step to one of `JobLifecycle`, the life cycle the code has, or a stutter.
- **JobCountProofs.** `CountersAreTrue`, also under `InTime`: the counter covers the runs, with the one that is due (`Due`) counted before it
  starts. `HandlersEnd` (`StartsBounded`) assumes nothing about time or deletion, so none of the agreements above is left: copies and
  disk may differ in every way. Its proof gives each job an account, `Spent`: the runs it had, those it may still have without a further fault,
  read off the file or off the worker's copy, and one more round of tries if a reclaim is in the air that may put the job back beside what
  the worker does with it (`Astray`). `PaidStep` shows that no step raises the account unless it costs a fault, and then by at most
  one round; the rest of `RoundsInv` says what a copy may differ in (a job the worker is about to claim is never running on disk).
- **CachedVaultProofs.** `ServerKeepsCacheFresh` needs only canonical paths: it is proved from typing, a case per verb.
  `CacheIsCoherent` follows from it and from the disk changing only through the server or a crash, which empties the cache.
  `CachedStoreSubstitutes`: with coherence a `Hit` is a `Read` of `VaultFS`, everything else the step it is built on.
  `DiskIsValid`: the schema is asked before anything is written.
- **FramingProofs.** `HandledAsSent` and `HeadersLimited` rest on `ServerInv`: what the server holds is the part of the stream between
  two places, in its head or in its body, and the blank line of a partial message is where the head ends (`PieceOfMessage`). `Typing` and
  `BytesImplementCall` add `ClientInv`, the same for the response, and that nothing of it is there before the answer is decided. `ClientsAreToldTheTruth` is proved of
  `StoreCall` alone and carried over by `BytesImplementCall`. `RequestsAreReadExactly` and `NoAnswerIsReset` add `DeliveryInv`: while the client waits nothing
  of its request is lost, and a well-formed one is dispatched with its last byte read. `CallsRunOut` gives either end a natural number, bytes
  left plus phases left, that each of its steps lowers. With `RequestsAreReadExactly` these are the reasons for `CallEnds`; what is not proved is the last
  inference, from fairness. For requests, answers, limits and segmentations of any size.
- **JobFileProofs.** `RoundTrip`: `parse_frontmatter` inverts `render_frontmatter` for every mapping with a key and every body. `FilesReadBack` and
  `ReclaimsAreNoted` rest on `FileInv`: the file is what `Render` made of what was meant, or a broken file that no one takes for a job. `Typing` and
  `StampsOnTime` add `ClockInv`: every job in the file or in a thread's memory is `Stamped`, its stamp the clock that was read, cut to seconds
  (`CutClock`, from the lemmas on quotients). `HandlersUndisturbed` adds `UndisturbedInv`: while nobody sets the clock, what the watchdog holds is
  stalled and stays so, and a stalled job was claimed more than `StallThreshold - 1` seconds ago (`StalledIsOld`); neither is inductive without
  the history `late`, since a reclaim that was scanned for an earlier claim can land on the next one. `2 ** attempts` is the
  recursive function `PowerOfTwo`: that it exists and is positive everywhere (`PowerOfTwoDef`, `PowersAreNumbers`) is induction over sets of numbers
  (`SetInduction`, from the well-foundedness of `<`). For every number of ticks per second, threshold, and cap.
- **DispatcherProofs.** `PidfileIsOwners` and `OnlyOneService` need no assumption: `orderly` is part of what they say. The inductive
  invariant is `orderly => Exclusion`: one process starts up at a time, there is one owner and only owners serve, and what a starter has read of
  the pid file is the owner's pid if there is one, so that nobody is let through beside it; reused pids only make the check stricter.
- **ChunkerProofs.** `ChunksReassemble`, `ChunkSizesKept`, `LoopAdvances`, for texts, sizes, overlaps and lookbacks of any
  size, from the invariant `Shape`, whose `CursorFollows` ties `cursor` to the end of the last chunk.
- **IngestProofs.** `SucceededMeansComplete`, `IntentStaysVisible`, `SourcesEndOnce`: the invariant `Progress` says that the chunks of a source on disk
  are exactly those before `index`, and ties the status on disk to the phase. `IngestPublishes` maps every step to one of `Publication` or a
  stutter: an ingest changes what is shown of its own source only, and only by the write that finishes it (`OwnShown`, `OthersShown`).

Every invariant, every action property and every refinement that a passing run checks is a theorem. Only model-checked: liveness
(`EveryJobSettles`, `StopStops`, `EveryCallReturns`, `CallEnds`, `ServiceReturns`, `Terminates`), which is out of the prover's reach.

## 5. What the assumptions mean for the code

The proofs show where correctness ends. The queue is right as long as handlers return within 300 s and nobody deletes a job
that runs: past that, the watchdog and the worker overwrite each other, and only the bounds on attempts and on runs and the settling of jobs are
left. `job_file` says what "within 300 s" means: a second less, on a clock nobody sets. The store is right for clients that spell paths one way, a disk that writes whole files, and
nobody editing. The dispatcher is right if launches are seconds apart and threads stop within the join time-out. A round trip is right
whatever TCP does, but a caller that gets an exception knows nothing: it is the queue's re-execution after the threshold that makes up for it.

## 6. Plan

1. Done: `JobQueue` with `JobLifecycle`, `VaultFS` and `CachedVault`, `Framing` with `StoreCall`, `JobFile` with `Frontmatter`,
   `Dispatcher`, `Chunker`, `Ingest`, with the theorems above.
2. `StoreCalls`: two clients of `VaultFS` that do read-then-write as worker and watchdog do, shown to implement the store calls of
   `JobQueue`; it turns the argument of section 2 into a refinement.
3. `VaultFS` with directories (parents made by a write, paths that name one) and what each schema demands of its fields.
4. Proofs: why a stop ends both threads, as `CallsRunOut` says why a call ends; the invariants of `VaultFS` on its own.

## 7. From the code to the models

`map` in `PROJECT.json` names for every definition the lines it stands for. Rules used throughout: logging, formatting and texts are left
out; a Python exception is the step that leads to its handler; a `for` loop over store calls is one step per call; locals that die with a
function return to a fixed value.

## 8. Not modelled

The fields each schema demands (a text is accepted or not); errors about directories and parent-directory creation; `stats`; HTML, PDF and DOCX
extraction and httpx (third-party work, only the outcome counts); the text of headers (a head tells a length or does not parse) and of YAML;
jitter, which nothing in the repository turns on; payloads, results and tags of jobs; a handler that wraps `ingest`, which is not written; which vault a
pidfile stands for; job files torn by a failed write, and stamps that are missing or do not parse (`watchdog.py:98-110`, `retry.py:175`: the code
never writes such a job, an edit by hand could); scripts, demos, the test server; `axiom-brain` and `axiom-api`, which are empty.
