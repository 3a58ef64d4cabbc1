# klams in TLA+

klams is a self-hosted memory service for agents: a Rust service over
PostgreSQL (facts, dissents, events, authors, summaries) and Qdrant (knowledge
points), with an HTTP API, an MCP endpoint, a directory scanner that feeds it, a
monitor that reports to it, and a nightly backup. This directory holds TLA+
models of it, the TLC runs that check them on small instances, and TLAPS proofs
of what matters most for instances of any size. Source paths below are relative
to the repository (`crates/...`).

## 1. The system

| Part | State | Operations | What is hard |
|---|---|---|---|
| Fact store (`klams-store/src/postgres.rs`, migrations 0001-0002) | rows of `facts` and `dissents`; `facts.dissent_count` | upsert, propose, promote, discard, soft delete, restore, hard delete | transactions of many sessions, row locks taken in two orders, triggers, READ COMMITTED |
| Write queue and workers (`klams-core/src/{queue,worker}.rs`, write handlers) | a bounded channel, workers sharing its receiver, one-shot replies | enqueue, receive, store, reply; hang-up, panic, shutdown | admission at the limit, who may still be waiting, what a shutdown drops |
| Validation (`klams-core/src/validate`) | none | rules of a payload, by type and for all | which ways into the stores pass it; whether an answer says all |
| Knowledge store (`klams-store/src/{qdrant,composite}.rs`, `handlers/knowledge.rs`) | points with copies, authors, supersession, `deleted_at` | index, attach, delete by file; add, update, supersede, delete, restore, erase | check-then-insert across calls, a mutex for some of them, no transactions |
| Scanner (`klams-scanner`) | SQLite cursor (path, mtime, hash) | walk, chunk, delete-before-reindex, publish with retry, prune | partial failure between service and cursor; loops over sizes |
| Authors (`postgres.rs`, `handlers/authors.rs`, MCP admin tools) | `authors`, `author_id` in both stores | register, merge, remove; repair and backfill | check-then-act, two stores without a transaction |
| Batch writers (`klams-core/src/decay.rs`, bump, merge, repair) | rows locked in id order, or not | decay walk, flush of use counts | lock order; rows that come and go under a walk |
| Embedding client (`klams-store/src/embeddings.rs`) | none | size gate, preflight, embed with retries | a backend that is away for one call and back for the next |
| Retrieval (`klams-core/src/{retrieval,hybrid,dedupe}.rs`) | none | recall, fuse, dedupe, rerank, cut | duplicates and filters against a bounded page; writes in between |
| Context and summaries (`context.rs`, `summarize/`) | `event_summaries` | a cycle every interval; a bundle within a token budget | boundary of the budget; events beyond a page |
| Listings (`composite.rs`, `handlers/memories.rs`, MCP list tools) | none but the client's cursor | pages merged from several stores | rows that move under a walk |
| Authentication (`auth.rs`, `whois.rs`, `klams-token`) | `klams.toml`, the table swapped on SIGHUP, a whois cache | edit, reload, bind, screen a request | reloads that fail, authors that go, edits that overlap |
| Limits (`klams-service/src/limits.rs`) | permits per peer, last activity | accept, release, idle watchdog | permit lost or returned twice |
| Backup (`klams-service/src/backup`, `klams-store/src/backup`) | lockfile, maintenance flag, `.partial` and committed files | scheduled and ad-hoc runs, pruning, recovery, status hook | two processes, crashes anywhere, same-day runs, a hook that hangs |
| Monitor, `/healthz` (`klams-monitor`, `handlers/health.rs`) | last status; a cache of probes | poll, publish edges; probe | lost answers, late answers |
| Client, routing, configuration, logging, metrics, measurement tools, deployment | none of their own | | |

How they meet: a request passes the connection limits, the identity table and
the maintenance flag (`Limits`, `Access`); a write is validated (`Validation`)
and enters the queue (`WriteQueue`), or comes through an MCP tool straight to
the stores. Behind the queue are the fact store (`FactStore`), the event table
and, through the embedding client (`Embedding`), Qdrant (`Knowledge`). Agents'
tools change points and author rows call by call (`AgentMemory`, `Registry`).
The scanner is a client of the write routes with a cursor of its own
(`Scanner`, `Chunks`). Reads go through `Search`, `Timeline` and `Context`. In
the background run the summarisation task, the decay task, the author backfill
and the backup; the backup shares the maintenance flag with the requests and
the lockfile with any `--run-backup-now` process.

## 2. Modules

| Module | Models | Form |
|---|---|---|
| `FactLedger`; `FactStore`; `FactStoreProofs` | what the fact store promises; its transactions, statement by statement; theorems | abstract and detailed specification, proofs |
| `WriteContract`; `WriteQueue`; `WriteQueueProofs` | what a client of a write route may rely on; channel, workers, handlers, shutdown; theorems | abstract and detailed specification, proofs |
| `Knowledge`; `Scanner` (EXTENDS Knowledge); `ScannerProofs` | points with locations and the routes that feed them; the scanner over them; theorems | specifications, composed; proofs |
| `AgentMemory`; `Registry` (EXTENDS AgentMemory); `RegistryProofs` | the tools that change memories, store call by store call; authors over both stores; theorems | specifications, composed; proofs |
| `Listing`; `Timeline` | what following `next_cursor` promises; the paged listings | abstract and detailed specification |
| `Search`; `SearchProofs` | the retrieval pipeline of one request; theorems | specification, proofs |
| `Summaries`; `Context` (EXTENDS Summaries) | the summarisation task; the assembly of a bundle | specifications, composed |
| `ReadsProofs` (EXTENDS `Context`, `Timeline`) | their theorems, and that `Timeline` implements `Listing` | proofs |
| `Access` | identities from the edit of `klams.toml` to the request | specification |
| `Limits`, `Decay`, `Repair`, `Backfill`, `Watch`, `Health`, `Embedding` | one behaviour each, as their names say | specifications |
| `Chunks`, `Validation` | the chunker line by line; the validators, the ways into the stores and a client that puts right what it is told | specifications |
| `ServiceProofs` (EXTENDS `Access`, the seven and the two) | their theorems | proofs |
| `Hook` | one behaviour | specification |
| `Retention` | a pure algorithm: what pruning keeps | operators |
| `Backup` (EXTENDS Retention); `BackupProofs` | runs, lock, flag, files, crash and recovery; theorems | specification, proofs |
| `MCFactStore`, `MCWriteQueue`, `MCScanner`, `MCRegistry`, `MCSearch` | instances of one specification | TLC |
| `MCReads` | `Context` and `Timeline` | TLC |
| `MCBackup` | `Backup` and `Hook` | TLC |
| `MCService` | `Access`, `Limits`, `Decay`, `Repair`, `Backfill`, `Watch`, `Health`, `Embedding`, `Chunks` and `Validation` | TLC |

The last three combine specifications that do not see each other's state. A
variable `part` is fixed in the initial state and says which one a behaviour is
of; the others keep their initial state. So each part is checked as if alone,
and a property speaks of its own part only.

The refinements: `FactStore` implements `FactLedger` and `WriteQueue`
implements `WriteContract` on shared variables (the mapping is the identity,
sessions and locks, channel and workers are hidden); `Timeline` implements
`Listing` through `INSTANCE Listing WITH` a mapping that forgets rows, stores
and cursors and keeps what was shown, what was there all along, and whether the
last page has come.

The modules also hold *mutants*: operators outside of every `Next`, each the
form of a definition with one plausible mistake in it. With the mutant in its
place, TLC finds the property violated that the mistake is about.

### 2.1 FactStore

`facts`, `dissents` and `dissentCount` are the committed rows; `sess` is each
session's open transaction (next statement and what earlier statements read);
`reply` its last answer. A transaction is split exactly where another session
can come between: where it waits for a row lock holding another, or where a
statement acts on what an earlier one read. Row locks follow from the program
counter (`HoldsFact`, `HoldsDissent`).

| Action | Code (`postgres.rs`) |
|---|---|
| `UpsertSame`, `UpsertMiss`, `SelectIdMiss`, `SelectIdOutranked`, `Amend`, `InsertFact` | `upsert_fact_v2`: by hash, by id with `FOR UPDATE`, trust ranks, version check, insert |
| `ProposeDissent`, `FileDissent` | `propose_dissent`, and the filing it shares with an outranked upsert |
| `PromoteSelect`, `PromoteApply` | `promote_dissent`: locks the dissent, then the fact |
| `DiscardUpdate`, `DiscardRecount` | `discard_dissent` and the status trigger's recount |
| `SoftDelete`, `Restore`, `HardDelete`, `HardDeletePending`, `HardDeleteRefused` | the three deletions, with the `BEFORE DELETE` trigger |
| `RestUpsert`, `ToolAdd`, `ToolPropose`, `RestPromote`, `RestDiscard`, `ToolErase` | the handlers and tools that begin these transactions |
| `DeadlockVictim`, `ConnectionLost` | PostgreSQL breaking a cycle; a rollback |

Abstracted: a content hash is the pair (type, payload) it is the hash of (no
collisions); timestamps, tags and `submission_count` are left out; a fact's
other columns never guard anything.

### 2.2 WriteQueue

`queue` is the channel, `receiver` the holder of the mutex around its receiver,
`job` what each worker processes, `dead` the workers whose task panicked,
`recorded` the jobs the drop counter has counted. `Replying` are the requests
whose handler awaits a one-shot reply (fact upserts); the others are answered
202 on admission. `Stop` is SIGTERM, Ctrl-C or a kill: `main` returns when
`serve_with_limits` does, without joining the workers.

### 2.3 Knowledge, Scanner and Chunks

`points` is what Qdrant holds: a content and the locations (`copies`) recorded
for it. `book` is the holder of the bookkeeping mutex, `queue` the index jobs,
`proc` the request each location's scanner has in the service, or the job a
worker has, with its program counter and what it has read. A step is one call to
Qdrant. `Scanner` adds `cursor` (hash and mtime last indexed), `mtime` (how far
a file has come in its `Versions`) and `scan`; it sends requests by moving
`proc` and takes their answers from it.

| Action | Code |
|---|---|
| `Probe` | `handlers/knowledge.rs` `index`: dedupe probe, `try_enqueue`, 503 |
| `AttachRead`, `AttachWrite` | `qdrant.rs` `attach_copy`, for a handler and for a worker |
| `Receive`, `Reprobe`, `GetBack`, `Insert` | `composite.rs` `index_knowledge` in a worker |
| `Scroll`, `Remove` | `qdrant.rs` `delete_by_source_file` |
| `RequestFails`, `JobFails`, `ServiceRestarts`, `ScannerDies` | a failed call, a lost answer, a restart, a killed scanner |
| `Skip`, `Meet`, `Vanished`, `Read`, `Cleared`, `Publish`, `TooLarge`, `Published`, `Indexed`, `Pruned` | `klams-scanner` `scan_root`, `publish_chunk` |

Two history variables keep the properties honest. `lost` holds the locations of
accepted writes that came to nothing; `passed` those whose delete was served
while an index job of theirs was still under way. Both are behaviours of the
code; `IndexedIsStored` and `PrunedIsGone` say what holds apart from them.

`Chunks` is the chunker. A step is one turn of the loop over the lines of a
document: `HeadLine` and `BodyLine` are `markdown_blocks`, `PlainLine` is
`plain_blocks`, `CodeLine` is `code_blocks`. `reader` is what that loop has in
hand (the stack of open headings, the path of their titles, the body since the
last of them, whether a fence is open), and `packer` what `pack_blocks` has made
of the blocks so far: the pieces that are out and the one that may still grow. A
document may end anywhere; `Pieces` and `Chunk` are what it then comes to, with
the windows and their overlap, the floor and the ceiling of tokens, in the code's
units (characters, bytes, thirds of an estimated token). `ContentKept` compares
the chunks with the document: every line is in a chunk under its own headings,
but in a Markdown section with fewer characters than the floor.

### 2.4 AgentMemory and Registry

A tool is a chain of store calls with nothing that ties them together, and each
call is a step: author look-up, get, owner check, probe by hash, vector, insert,
write, mark, rollback, hide, show, erase. `call` is each caller's tool and what
it has read. `Registry` adds the rows of Postgres that refer to authors, under
foreign keys, and the register, remove and merge tools, which count and move in
one store after the other. `stray` records the points that a merge or removal
overlapped with: `AttributionResolves` excepts them, and says that everything
else names an author that exists. `PointersAgree` ties the two ends of a
supersession together across inserts, marks and rollbacks; `HiddenStaysHidden`
says what may bring back a deleted memory: a restore, or an update that has been
told (`live`, a history field of the call) that its target was not deleted, or
could not ask. An earlier form of it asked only whether the update had *read* a
live memory. Two calls keep that one; the attempt to prove it for any number
led to four that do not (an update reads a deleted memory, a restore shows it,
the update's check passes, a delete hides it, the update writes), and to this
form, which is true of the code and proved.

### 2.5 Timeline, Search, Context

`Timeline` is a client's walk through one of the listing routes: a page reads
one store after the other and merges; rows are added, hidden, shown, erased and
touched between any two reads. Qdrant orders points by its own index only to
`TickOf` an instant. A point without an author, or with a payload that is not a
memory's, is an *orphan*: it is scrolled, counts toward the cap, and is then
passed over, though one of them behind a full page says that there is more
(`Trailing`). The backfill gives it an author (`Adopt`). `Sure` excepts knowledge
that shares its tick, and what is no newer than a tick from which the scroll, at
most `ScrollCap` points, may bring less than a page of it (`Packed`), because of
what else is of that tick and of orphans in front (`Waste`): such a page ends
without a cursor, and everything older is never listed. Plain listings of facts
and events take a cursor and ignore it: they are in the model (`Plain`), and not
among the routes of the run. `shown` is what the client has seen, and `owed` what
it is due: what was listed all along, and was `Sure` at every write.

`Search` is one request: embedding, global recall, the curated band, the
lexical and text recall, authors, fetches, merge, rerank, fusion and cut, each
a call that may fail, while another client deletes, restores or writes. Scores
are small integers in the order the code's floats have. A ranked list is a
function that gives each of its members its place, so that dropping, cutting and
appending are about sets, and only what ranks is about order.

`Summaries` is the background cycle; `Context` is one bundle: recall from two
indexes, what the sections share, summaries in place of events, the floors and
the pool under the token budget. `matched` keeps what matched as it was before
summaries took the place of the events, which `items` forgets: `TruncationTold`
speaks of it, and says where the code announces nothing. A ranked list is a set with the position of its
rows (`Rank`), so that the passes over it are about sets.

### 2.6 Access, Limits and the upkeep

`Access` runs from the edit of `klams.toml` (by `klams-token`, which truncates
and rewrites in place and may be interrupted, or by hand) through SIGHUP and the
reload (re-read, validate, bind each name to an author, swap) to a request that
reads the table, waits for whois and passes scope, author and maintenance
checks. `Decay` holds the statements that lock many rows; `Repair` the
attribution repair with its evidence; `Backfill` the pages of the startup
backfill; `Embedding` one text on the REST or MCP route to a backend with its
own opinion of sizes; `Watch` the monitor and the service as one of its units;
`Health` requests that share a cache of probes; `Validation` the rules and a
client that puts right what it is told. A payload is a tree, a function from
paths to nodes: the rules look at the fields they name, the sanity rules at every
named field at any depth (`Walk`), and the client puts a good node in the place of
each one the answer names, with all that hung from it (`Mended`).

### 2.7 Backup, Retention and Hook

`proc` is where each process is in `run_once` and what its run has made; `lock`
is the lockfile (absent, torn, or naming a run); `partials` and `files` carry
the runs that wrote them. `acquire_lock` is three steps (look, create, fill);
each artifact is two, pruning one per kind, where any subset of the removals may
fail. `Boot` is `recover_stale_lock`; `Crash` may come anywhere. `overlapped`
becomes true when a second run gets past the lock; the properties of single runs
are for behaviours in which that has not happened. A run waits without a timeout
for `pg_dump` (`Command::output`) and, in parts of the call, for the status hook
(`Waiting`): nothing makes these steps come. `abandoned` says that a process died
with a lockfile of its own, or that one could not be removed; then a lockfile may
stay. `Hook` is one call of the hook, with what of it the timeout does not cover:
writing the payload, which waits for a reader if the pipe is too small for it
(`Unread`), and reading the output of one that exited in time, which waits for
every process that has it open.

## 3. Runs

| Run | Instance | Shows |
|---|---|---|
| `FactStore_safety` | 2 facts, 2 dissents, 2 sessions, 2 payloads, User and AgentProposal, versions to 2 | `OnePendingPerContent`, `TrustFloor` |
| `FactStore_ledger` | 1 fact, 2 dissents, 2 sessions, 2 types, 2 trust tiers, fair | `ImplementsLedger`, `TransactionsEnd` |
| `FactStore_count` | 1 fact, 2 dissents | violated `DissentCountExact`: the recount trigger loses a concurrent change |
| `WriteQueue_safety` | 4 requests (1 replying), 2 workers, capacity 1, fair | `ImplementsContract`, `EveryCallerAnswered` |
| `Scanner_safety` | 2 locations sharing a chunk, one edited, one removed, a chunk that is refused, 2 workers, capacity 1, 1 fault | `IndexedIsStored`, `CopiesKept`, `PrunedIsGone` |
| `Scanner_converge` | the same with 1 worker, fair | `ScansConverge` |
| `Registry_safety` | 2 calls of any tool, 1 scanned location, 3 points of one text, 2 authors of one name, 1 fault | `PointersAgree`, `AttributionResolves`, `HiddenStaysHidden` |
| `Search_safety` | 3 points over 8 contents, a fact, an event; search, related and get; 1 failure or write | `OneHitPerText`, `ShortPageIsAll`, `DeletedNotFound` |
| `Reads_safety` | task: 2 hosts, days of 2 ticks, window 3, pages of 3, 3 events, 1 failed cycle, fair; build: the tables it may have left, 12 stores, budgets 1, 10, 24, 60; walk: 3 rows, orphans among them, 6 instants, 6 routes, pages of 1 and 2, 1 write | `TaskCatchesUp`; `BudgetKept`, `TruncationTold`, `KnowledgeOnce`; `ImplementsListing` |
| `Backup_safety` | the service and one ad-hoc process, 2 runs, 2 days, either strategy, 1 daily, fair; the hook | `RunOwnsItsFiles`, `ArtifactsWhole`, `RestorableStays`, `RunsLetGo`; `HookReturns` |
| `Service_safety` | access: 2 names, 5 author ids, 3 rows, 1 edit, 1 administrator's act, 1 fault, 1 request; connections: 3 of 2 peers, cap 2; 2 decay tasks, 3 facts, a merge; repair: 2 facts, 3 events, 2 agents; backfill: 5 points in pages of 2, 2 changes; every document of 4 lines of 9 kinds in 3 languages; 6 texts with right and wrong estimates; monitor: 2 units, 3 turns, 1 lost answer, 1 restart; health: 2 requests, 2 backends; 989 writes at the validators | `WrittenUnderOwnName`, `NeverLockedOut`, `EditTakesHold`; `CountExact`; `OrderedNeverDeadlock`, `WalkMissesNothing`; `RepairSettles`; `BackfillMissesNone`; `ContentKept`, `ChunksFit`; `AnswersHonest`; `EventsAlternate`; `HealthRecent`; `OneRoundIsEnough` |
| `Service_gate` | the same | violated `AcceptedFits`: a text the model refuses is answered 202 |

**Why these bounds.** Two sessions suffice for every pairwise conflict of the
fact store, and each row-lock cycle there has two members; two dissents of one
fact are what the trigger race and the one-pending rule need; two facts what a
clash on the unique index needs. A capacity of one with four requests reaches a
full channel with both workers busy and one request refused. Two locations with
one chunk in common are the least for one to attach, or be taken off, while the
other deletes; one fault may strike at any step. In `Registry` two calls are the
least that interleave, and three points leave room for a supersession and a copy
beside it. A walk of three rows in pages of one and two has a page that ends
inside a tick and one that crosses it. Two days and one daily slot make pruning
choose as soon as it can. The token limits of `Chunks` are scaled down in the
order they have in the code, so that one line in four overflows a chunk; the
texts of `Embedding` stand on either side of both limits with estimates that err
both ways. Every bound is a constant (`MaxVersion`, `MaxRuns`, `MaxDay`,
`MaxFaults`, `MaxTries`, `MaxEvents`, `MaxTick`, `MaxWrites`, `MaxTroubles`,
`MaxEdits`, `MaxAdmin`, `MaxMoves`, `MaxDisturb`, `MaxChanges`, `MaxLines`,
`MaxSends`, `MaxTurns`, `MaxLost`, `MaxRestarts`, `MaxTime`) that guards only
the start of something new: what is under way is never cut short.

`CHECK_DEADLOCK FALSE` stands in the configurations of `Search`, `Reads`,
`Registry` and `Service`: there a request, a walk, a document or a pair of calls
comes to its end and nothing is left to do. The other systems can always do
something, and TLC checks that they can. Symmetry is used in runs without
liveness only.

**Fairness.** `FactStore`: strong fairness of a session's next statement, since
PostgreSQL queues waiters on a row in order, and weak fairness of the deadlock
detector; losing a connection is never due. `WriteQueue`: weak fairness of each
worker, since tokio polls every ready task and store calls have timeouts.
`Scanner`: weak fairness of each scan, which a timer starts every hour, and
strong fairness of handlers and workers, since tokio's mutex is handed over in
FIFO order. `Backup`: weak fairness of a run's own steps (`OwnStep`), with the
download, which has a timeout of an hour; none of the steps at which it waits for
`pg_dump` or the hook, which nothing bounds. `Hook`: of the service's own steps,
never of the executable's. `Reads`: weak fairness of the summarisation
cycle, an interval task. `Access`: weak fairness of the reload, one task that
waits for the signal. Clients, edits, crashes, panics, restarts, signals,
failures and the calendar are under no obligation.

## 4. Proofs

Assumptions: the named `ASSUME`s of the modules, which say that `None` and
`Gone` are fresh values and that sets are what they should be. The modules that
`ServiceProofs` combines beside `Access` state theirs as definitions
(`LimitsAssumption`, `DecayAssumption`, `BackfillAssumption`,
`HealthAssumption`, `RepairAssumption`, `EmbeddingAssumption`,
`ValidationAssumption`, `ChunksAssumption`), which stand as hypotheses in the
theorems. The one of `Health` says that the time-to-live of the cache is not zero
(the code has 2 s). `ValidationAssumption`: payloads are trees, and for each field
the rules name there is a node which, alone in an object, no rule names.
`ChunksAssumption`: the sizes stand in the order of the code's (800, 200, 64 and
40 characters) and a window is wider than the floor by the gaps that may be at its
ends (`MinBody + 4 <= Target`, `MinBody + 1 <= Overlap`). TLC evaluates all of
them in the runs. All theorems hold for any number of sessions, facts, dissents,
workers, requests, locations, points, names, authors, connections, backends,
processes, lines and items, any payload, any capacity and any budget.

`FactStoreProofs`. The inductive invariant joins `TypeOK`, `RowLocks`,
`LocalsNeverStale`, `NoDanglingDissent` and `OnePendingPerContent`. None but the
first is inductive alone: that a dissent dangles nowhere needs the filer's lock
on its fact (`RowLocks`), that a resolver's locals are fresh needs that nobody
else holds its dissent, and that a pending content is unique needs that filers
of one fact exclude each other. From it follow the action properties
`AcknowledgedVersion`, `TrustFloor` and `CountRepaired`, and that every step of
the store is a step of `FactLedger` or a stutter (`ImplementsLedger`).

`WriteQueueProofs`. The inductive invariant joins `TypeOK`, `InOnePlace`,
`ReceiverOwned`, `AnswersTrue` and the facts that tie a worker's hands to the
fate of its job; `ImplementsContract` is proved step by step from it.

`ScannerProofs`. Whoever is between a read and its write-back holds the mutex
(`BookHeld`); so what it has read is still what the store holds (`ReadTrue`),
since of the steps that write a point only an insert is taken without the mutex,
and it takes a fresh id. A write-back that adds a location, or takes off one's
own, then loses no other (`NoCopyIsLost`). And a delete for a vanished file that
met no write of the file on its way has read every point that still carries it,
and will get no more (`PruneLeft`): when it is answered nothing is left
(`ForgottenIsGone`). `IndexedFilesAreStored` takes a second invariant,
`StoredInv`. A scan publishes its chunks in turn (`InTurn`); a probe that found
a point found its content, which never changes (`FoundRight`); the hash a scan
or a cursor row holds was the file's at the mtime beside it or since
(`Remembers`); while a site's points are being deleted its cursor row is of
other content, or of content that has come back (`ClearsOld`). Then every chunk
a scan has been told is accepted is stored, or on its way, or counted in `lost`,
and so is every chunk a cursor row claims (`Accounted`).

`ReadsProofs`. Bundles: the invariant follows the passes over the sections: what the
floors and the pool have spent is the sum over what was kept, and whatever was
left out has set the mark. `Given` and `Parted` tie this to what matched: until
the events give way the items are what matched, and afterwards they differ from it
in events only, with at least one summary there. From it `BudgetIsKept` and
`TruncationIsTold`, for any items and any order. `OnceInv` says that the rows in hand are of different
texts until they become items, and from then on no two items are of one text, or
of one key with knowledge among them: of two rows of one text one ranks before
the other, and only that one is kept. From it `KnowledgeIsOnce`.

Walks: `WalkRefinesListing` says that a client's walk is a walk of `Listing`, for
any rows, routes that merge (`Merged`; the plain ones repeat rows, see
`PagesDiffer`), page sizes and writes. The invariant `WalkInv` takes a page apart.
What was shown is ahead of the cursor in the order of the listing and what is in
hand is behind it (`WalkShown`, `WalkUnion`); a row that is owed, sure and not
shown is behind the cursor still (`WalkAhead`), and once its store has been read
for this page it is in hand or has a page of others in front of it, so that it is
behind the last the merge will show. A scroll of knowledge gives that because a
tick that is not `Packed` leaves a page of the scroll to what follows it, orphans
or not (`ScrollLeavesPage`). Writes only take rows out of what is owed: a row that
is not `Sure` after one is owed no more.

`BackupProofs`. The invariant is for behaviours in which no two runs passed the
lock. Then one process at most owns it, the lockfile names its run, the file it
is writing is there, every file is of one run alone, nothing is dated
later than the run, and of each kind it has made a file of its date is left
(`Apart`; `Shape` has the types, and a bound on the suffixes). From it
`RunsOwnTheirFiles` and `NoArtifactIsMixed`. `SomethingRestorable` says that no
step takes away the last pair to restore from; it needs that pruning keeps at
least one daily artifact, and the theorem says so (`DailyCount # 0`): the code
does not check the configured `daily_count`, and with 0 for it a run may prune
what it has just made.

`ServiceProofs`. Identities: the invariant says of the table under construction,
the table in force and the row a request carries that every name in it is bound
to an author of that name and has a scope. `OwnNameOnly`, `NobodyLockedOut` and
`OneTableOnly` follow, whatever the edits, reloads and author changes. Slots:
the counter's entry of a peer is the number of its open connections, and has no
entry at zero, so `CountExact`. Locks: a statement that takes its rows in id
order only waits for a row above all it holds; in a ring of waits the highest
such row would be above itself (`TasksNeverRing`). The decay walk and the
backfill: what was there all the time and has not been passed lies ahead of the
cursor (`Ahead`, `FillAhead`), so nothing is left at the end
(`WalksAreComplete`, `BackfillIsComplete`); for the walk this needs `BatchSize
<= Clamp`, which the property asks for too. Health: every time a cache entry, an
answer on its way or a card carries is one at which the backend was up no longer
ago than the time-to-live and its probes (`CardInv`, `CardsAreRecent`). Monitor:
what the service stored last of a unit is what the monitor last believes it
told, unless a post of that unit was in doubt (`ToldLast`, `NoEventTwice`).
Repair: a run that nothing has disturbed still has in hand every row of its
table that evidence speaks for, and has read no other (`RunTrue`); after one
complete run no event is owed an author, after two no fact either (`RunsSettle`,
`TwoRunsSettle`). Embedding: a text still on its way has had no answer, and the
backend has refused nothing (`OnItsWay`), so an answer is about the call it ends
(`AnswersAreHonest`).

Validators: `OneAnswerIsEnough` rests on what the rules read. A rule of a type
looks at one field of the root and names no other (`FieldByField`), so what it
says of a payload it says of any that is alike there; the sanity rules look at a
node and at whether an object is above it. After the client has put right what it
was told, a node that the answer named is a good one, any other that is left is
as it was, and what is above it too, because the client takes away only what hangs
from a named node (`MendedIsRight`). So each complaint of a second answer would
have been in the first.

Chunker: `ChunksAreSmall` needs the types alone, since the windows are halved
until they fit (`LimitKeeps`). `ContentIsKept` takes three invariants.
`ChunksTypes`. `Outline`: the stack of the loop is the list, in their order, of
the headings that no later one of their rank has closed, so that its titles are
the path that the document gives the next line (`PathOf`, which looks at the
document only). `Kept`: each character in a piece or in the body stands under its
own path; of a Markdown section that is still open all is in the body; every other
line is in the body or in a piece that is *enough* for it, that is, one with no
fewer characters than the floor or with all of its section in it. The last is what
the floor asks for, since a section may be cut into windows or packed with others
of its path, and a chunk that is left out must have been all of a small section.
It is inductive because joining takes nothing away (`TakenOver`) and because no
window that is only a part falls below the floor (`SlideKeeps`), which in turn
needs that a body never has three gaps in a row (`BodyIsTight`): the text has no
run of blank lines, and each line comes with one line break.

`SearchProofs`. A few facts about lists carry the rest: whoever counts those not
behind him has a place of his own, so what is kept of a list, cut from it or
appended to it is a list, and a cut of n leaves n members or all. `Base` says
call by call that every list on the page is a list, of ids of its kind and of
none that was deleted when the request came; what is deleted later is not
`dead`, and a restore takes an id out of `dead`, so each fetch keeps `Base`
whatever others write (`DeletedIsNotFound`). `OneEach` says that from the merge
on the page has one point of each text, since of two the later place falls out,
and that the page of `memory_related` has left the seed's text out since the
read of its neighbours (`OneHitForEachText`). `Complete` holds while nothing has
failed and nobody has written: the knowledge fetched reaches every live text, or
as many texts as the page has places, because a fetch of twice the limit holds
at least the limit of texts if none has more than two copies (`TextsFill`: a
point is told by its text and by whether it is the first of it); the text rows
are all there or fill a page alone; so a page after the merge shows all or is
full (`ShortPagesAreAll`).

`RegistryProofs`. A call may write back a whole memory it read long before, so
nothing can be said of the points alone. The *versions* of a memory are the
point, if there, and what calls in progress have read of it. `Lineage` says that
all versions supersede the same memory, that what a version names as its
successor supersedes this memory in every version of its own, and that a
replacement not yet marked supersedes the target of its call. Every step keeps
this: an insert takes a fresh id, of which there is no version; a mark names a
replacement that `Lineage` knows; a write-back, a read and an erasure make no
version that was not one. `PointersStayTrue` follows. `Attributed` adds that an
author whose row is about to be dropped has only points that were written
meanwhile, which the count of a removal and the move of a merge establish and
every write keeps by becoming stray (`AttributionHolds`). `Told` says that an
update past its check was told, or that a fault was spent (`HiddenStays`).

Model-checked only: all liveness (`TransactionsEnd`, `EveryCallerAnswered`,
`ScansConverge`, `TaskCatchesUp`, `RunsLetGo`, `HookReturns`, `EditTakesHold`),
which is out of the prover's reach. Every other property of a passing run is proved.

The attempts at proof changed the model where it was wrong: `HiddenStaysHidden`
had a form that four calls refute, and the first call of a request was a `CASE`
with arms that overlap, which in TLA+ may take either; TLC takes the first, and
no run could have shown it. `Sure` had excepted only a tick that fills a whole
scroll: four rows refute that (three of one tick, pages of two, scrolls of three),
one more than the run has, and the proof of `ScrollLeavesPage` asked for the form
it has now.

## 5. Findings

Two runs end in a violation by intent, each quoting what the repository says
(`PROJECT.json`, "findings"): the drift of `dissent_count` (`FactStore_count`)
and the size gate that lets an estimate stand for a count (`Service_gate`).

The modules state further promises that the code does not keep. They are
formulas TLC refutes when it is given them; no run is kept for each.

| Formula | What happens |
|---|---|
| `HardDeleteOrphans` (`FactStore`) | a hard delete of a fact with pending dissents is refused by its own trigger (migrations/0002_dissents.sql:61, 66) |
| `SuccessSurvives` (`WriteQueue`) | a shutdown drops writes that were answered 202 (sprints/001-initial-mvp/spec.md:376) |
| `FailedIsRetried` (`Scanner`) | a file whose reindex failed and whose old content comes back is skipped (klams-scanner/src/lib.rs:234) |
| `OneRunInFlight`, `FinishedArtifactsExist` (`Backup`) | the lockfile's look-then-write admits two runs; the third run of a day prunes its own artifacts (sprints/006-maintenance-and-backups/data-model.md:219, 221) |
| `FlagComesDown` (`Hook`) | a process that the hook left with its output open keeps the maintenance flag set (sprints/006-maintenance-and-backups/spec.md:306) |
| `SecondDeleteChangesNothing`, `EmptyIsRemovable` (`Registry`) | a second delete takes the deletion over; an author shown as empty is held by a dissent |
| `SecondRunChangesNothing` (`Repair`) | events recovered by one run are evidence for facts the next one moves (sprints/009-stability-attribution/spec.md:329) |
| `WindowSummarised` (`Summaries`) | events beyond the oldest 500 of the window are not reached (summarize/mod.rs:54, 245) |
| `FetchedIsLive`, `NearerFirst` (`Search`) | memory_get returns deleted and superseded knowledge; weighted fusion looks at ranks only (deploy/config/klams.example.toml:242) |
| `EventsRepresented` (`Context`) | when the matching events would take more than half of the budget, the newest summaries take the place of all of them, whichever events they name (klams-core/src/context.rs:160): a matching event of no summary in the bundle is gone, and `truncated` stays false (sprints/005-advanced-retrieval/spec.md:158 "never silently drops events without representation", data-model.md:17) |
| `DatumInOneSection` (`Context`) | facts are never compared with events (context.rs:139): a fact and an event of one repository and file are both in a bundle (the same spec.md:50, 317-321, data-model.md:42) |
| `PagesDiffer` (`Timeline`) | GET /memory/facts, /events and /dissents name a next_cursor and ignore it |
| `WindowKeepsWritesOut` (`Access`) | the flag is looked at on entry only, and not by the author tools (klams-mcp/src/maintenance.rs:3) |
| `UpIsTold` (`Watch`) | the Up of the monitor's own sink is posted before it listens, and dropped (klams-monitor/src/main.rs:13) |
| `StoredIsValid` (`Validation`) | memory_append_event, a promoted dissent and an amend under another type store what no rule has seen (sprints/002-safety-and-write-ops/spec.md:120) |

Others met while modelling and visible in the models: the repair and the
backfill overwrite an author written since they looked; `memory_update` keeps
only the first location of a memory, and brings back one that was deleted while
it embedded; a merge locks rows in no order beside the ordered batches; a
`batch_size` above 5000 ends the decay walk early; HTTP 429 counts as permanent
for the embedder; floors may starve a later section of a bundle; a `tags` search
drops facts and events; an edit by two `klams-token` processes loses one;
`klams-token` that reads a truncated file rewrites it without its other blocks;
behind a proxy all callers share one per-peer cap; a lockfile that does not
parse refuses every later run (`Torn`); a restore pairs artifacts by date; a `pg_dump`
that never ends keeps the maintenance flag and the lockfile, and so does a first
hook that is stuck where no timeout covers it; points without an author can end a
listing early.

## 6. Not modelled

The restore procedure (one sequential run of external tools); which files the
scanner's walk finds and the turns of several files on one host; snippets and
the wording of summaries; connecting, schema and index creation; the routing
table, error bodies and the client library, which keep no state; configuration,
logging and metrics, with the rows of telemetry nothing reads back; the
dashboard card's rendering; the measurement tools and the deployment scripts.
Float scores are abstracted to the order they induce. Content hashes do not
collide, and every knowledge point has one: the code never collapses points
without. A line of `Chunks` has ink in it, so no window is nearly all spaces and
falls below the floor for that. `Validation` does not reckon the size of the whole
payload anew when a node in it is put right. `Backup_safety` has two runs; what
needs three of a day (`FinishedArtifactsExist`) is beyond it, but not beyond the
theorems.

## 7. Next

In order of worth: `Restore` with its choice of artifacts; several files of one host in `Scanner`.
