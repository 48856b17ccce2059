# Formal model of the ArkTS language server

This directory holds TLA+ modules that model the stateful core of the ArkTS
language server, TLC configurations that check them on small instances, and
TLAPS proofs of the central results for every instance. Paths below are
relative to the repository's `src/` directory unless they start with `crates/`,
`docs/` or `tests/`.

Contents: 1 the system, 2 the modules, 3 the runs, 4 the proofs, 5 findings,
6 observations, 7 what is not modelled, 8 plan.

## 1. The system and its parts

The server is a TypeScript LSP process with one *semantic worker* thread per
workspace root (the TypeScript compiler runs there), short-lived verifier
workers for reference search, and a Rust *index sidecar* process with a SQLite
store. Everything in one JavaScript thread is atomic between two awaits; the
interleavings below come from awaits, messages between threads and processes,
timers, and threads or processes that die.

| Part | State it keeps | Operations | What makes it correct |
|---|---|---|---|
| Worker supervisor (`semantic/semantic-worker-supervisor.ts` and its queue, lane and coalescing helpers) | mutation queue, read queue, serial lane, detached reference lane, applied revision, state generation, failure, disposal | mutate, request, cancel, receive, pump, fail, dispose | worker state converges to the editor's; no result of older inputs is published; every promise settles |
| Worker runtime (`semantic/semantic-worker-runtime.ts`) | revision, running request, quarantine flag | apply mutation, run request, answer | revisions in sequence, every command answered or the worker is declared dead |
| Failure recovery, recycle, retirement, host (`semantic/semantic-worker-{failure-recovery,recycle,retirement,host}.ts`) | circuit, budget, active transaction, deferred journal, thread handles | workerFailed, admit, recover, run, defer, replaceWorker, dispose | one thread at a time, bounded restarts, documents replayed, nothing waits for ever |
| Engine proxy (`semantic/semantic-worker-proxy.ts`) | open documents, configuration, input revision | sync, close, configure, request, dispose | the parent is the authority that recoveries replay |
| Watchdog (`semantic/semantic-worker-watchdog.ts`) | outstanding commands and their deadlines | sent, invalidate, settled, check | a stalled worker is found out in bounded time, a worker that makes progress is not |
| Document store (`core/workspace/document-store.ts`, `workspace-content-changes.ts`, …) | overlays, cached documents, membership catalog, dependency closures, content revision, reset epoch, delta history | sync, close, workspaceFilesChanged, refreshProjectMembership, prepare | no compiler context is kept past a change it was not told of |
| Context admission (`core/types/type-context-reset.ts`, `prepare-context-entry.ts`) | applied revision and epoch of each context | reuse, update, rebuild, remove | as above |
| References (`semantic/references`, `lsp`) | result cache, index freshness, executor batches, verifier thread | search, verify, cache | an answer reflects every change it was told of; a complete answer names every reference |
| LSP layer (`lsp/`) | in-flight requests, shared operations, diagnostics per document, resolution tickets, pending watched paths | handlers, timers | nothing stale is published, nothing is lost |
| Index client (`index/`, `workspace/`) | sidecar process, pending calls, catalog status | query, update, restart, dispose | calls settle; `ready` covers every reported change; no process is left behind |
| Index sidecar and store (`crates/`) | catalog builds, generations, databases, leases, schema | build, publish, refresh, read, migrate, prune, collect | readers see committed states only; nothing needed is deleted; crashes lose nothing that was durable |
| Type engine, language service host, coordinator and memory policy (`core/types`, `semantic/coordinator`) | contexts, snapshots, retained groups, leases | queries, acquire, release, evict | answers come from one consistent set of snapshots |
| Project model, SDK, ArkUI, formatting | none across calls | parse, resolve, format | stateless; left to tests |

`PROJECT.json` lists every part with its status, and the hazards at the lines
where they bite.

Hard behaviours: one-shot notifications shared by several consumers; views held
across awaits; coalescing of queued edits; two lanes answering out of order;
worker death at any point, including during its own replacement; budget, queue,
history and cache limits; files rewritten by other programs between two reads;
several sidecars over one cache directory; crashes and power failures between
two writes; disposal racing everything.

## 2. The modules

| Module | Models |
|---|---|
| `WorkerSupervisor` | the supervisor, its endpoint and the worker's dispatch loop |
| `WorkerRecovery` | failure circuit, replacement transactions, thread handles, admission of requests, disposal |
| `Watchdog` | deadlines, phases and checkpoints of worker commands |
| `WorkspaceContents` | document store notifications and compiler context admission |
| `LanguageSession` | requests, abort scopes, request sharing, diagnostics scheduling and notifications of the LSP process |
| `FileChanges` | from the client's file watcher to membership and diagnosis |
| `ItemResolution` | deferred completion details and code actions |
| `CallHierarchy` | call hierarchy answers against files and buffers that move |
| `ReferenceRouting` | the parent's side of a reference search: cache, freshness of the index, fences |
| `ReferenceSearch` | the worker's side: batches, narrowing, fallback, merge |
| `VerifierClient` | the verification thread and its owner |
| `ReferenceProof` | which files the index names as candidates for a declaration |
| `ClassBinding` | which class a class extends, from captured files or from stored rows |
| `SourceStatements` | the statements the index's parser tells apart (shared by the last two) |
| `IndexClient` | the server's side of the sidecar process |
| `IndexCatalog` | sidecars that build, publish, refresh, read and prune over one cache directory |
| `PublishedIndex` | the abstract index that `IndexCatalog` implements |
| `SqliteStore` | tables, triggers, transactions and the in-memory store |
| `SchemaMigration` | opening databases that older releases left |
| `CacheGC` | collection of caches of workspaces that are gone or idle |
| `MC*` | the instances TLC checks |
| `WorkerSupervisorProofs`, `WorkerRecoveryProofs`, `LanguageSessionProofs`, `IndexCatalogProofs`, `WorkspaceContentsProofs` | the theorems about one component |
| `ServicesProofs` | the theorems about `CallHierarchy`, `FileChanges`, `VerifierClient`, `ReferenceSearch`, `ReferenceRouting`, `Watchdog` and `ItemResolution` |
| `DataServicesProofs`, `RequestServicesProofs` | that those theorems hold of the composites `MCDataServices` and `MCRequestServices` |

### WorkerSupervisor

`queue` is the supervisor's two queues, lanes, counters and revisions; `life`
its failure and disposal state, `req` and `edit` the promises it handed out,
`client` what the editor told it, `inbox`/`outbox` the message channel,
`worker` the thread. One action per public method (`EditDocument`,
`ChangeFiles`, `Request`, `CancelRequest`, `Dispose`), per callback (`Receive`,
`EndpointExit`, the termination and deadline continuations) and per step of the
worker. The recursion of `#pump` is the function `PumpAfter`. Texts are the
count of edits; paths are model values; a request's result is the pair of
worker states between which it was computed, which is what lets
`FreshResults` tell a consistent result from a mixed one.

### WorkerRecovery

The supervisor is reduced to "a command is in flight or not", and everything
about restarting is kept: `failure`, `blockedRevision`, `failedInputRevision`,
`restarts`, `automaticRestarts`, `probing`, `pending` of
`SemanticWorkerFailureRecovery`; `flow` (the active transaction with its phase),
`journal` and `changed` of `SemanticWorkerRecycle`; `worker`, `retirement` and
`nextEpoch` of the host. `alive` is the set of threads that really run,
`wdocs` the documents the current worker holds or has been sent.
`automaticTotal` and `probeTotal` are history counters for one property. The
check that a replacement has a thread id (`newThreadId < 1`) is left out, as a
thread that started has one; a stop whose promise rejects although the exit was
seen counts as a stop.

### Watchdog

Time passes in ticks that end with a `check()`; ages saturate where no
comparison tells them apart. `synchronize`, `program` and `checker` are one
commit phase. Commands run one after the other. A detached reference command
that begins while a serial one is suspended takes over the shared words with the
command and its phase; that overlap is not modelled, and with it go the comparisons
of ids by which a command leaves the words of another alone. The `healthy()`
callback and replies to other commands than the outstanding one are left out too.

### WorkspaceContents

One canonical root. `changes` is the `RootChanges` record, `overlay`, `cached`,
`catalog`, `closures` the store, `context` the applied identity of every
retained compiler context, `view` what a request holds between its prepare and
its use. Texts are not represented: `behind` is the set of paths whose
authoritative text changed, as far as the store was told, since the context or
the view read it. What the disk really holds enters as nondeterminism (which
paths are regular files, what a rescan finds).

Left out: notifications that are dropped because the store's cached text equals
the disk (their load witness, `watched-source-notifications.ts:48`, is a hazard
without a property); aliases that no recorded closure knows; catalogs cut at
their path or byte limit; resets that one root causes in another.

### LanguageSession

`req` is a request between `SemanticRequestRunner.run`'s start and end, `op` an
operation that one or several requests wait for (a `SharedOperation` of the
coalescer, or the engine call of a request that shares none), `diag` the state
of `createDocumentDiagnostics` (`task` is `pending`, `leases` the suspension
count, `settling` the diagnoses that suspensions wait for), `shown` what the
client was last told. `source` and `resource` count the changes in a workspace
and stand for every text; a document's text is the count at its last change, so
an answer is fresh if the counts it was computed from are those of the moment
it is returned. Versions start again when a document is reopened.

The engine is only assumed to settle each call, with a value for the inputs at
the time of the call, with `content-modified` if some input changed since, or
with an error. Notifications after `shutdown` are left out, as the protocol
forbids them. Requests about files on disk (`runDiskSourceRequest`) and
workspace symbols are left out; call hierarchy, code actions and completion
details have modules of their own.

The initial states include sessions at rest with open, diagnosed documents:
counts, versions and epochs are only compared, so they can be numbered from
any such moment, and the bound on changes is not spent on opening documents.

### FileChanges, ItemResolution, CallHierarchy

*FileChanges*: roots are disjoint, unsupported files and files outside the
roots are left out, and being a resource is membership in a constant set. Events
arrive in the order in which they happened. `merged` is a history variable: the
sources on disk whose pending creation a later write replaced and which the store
does not list (section 6).
*ItemResolution*: one workspace; listing is one step; equal requests are
coalesced in `LanguageSession`. An edit aborts the requests of its document and
those of the workspace's scope (`Outdated`), shutdown all of them; the queue is
left as the cancelled jobs leave it, one after the other (`Remaining`). *CallHierarchy*: the worker's files may be of
any age, a file is read in one step, files change only while a request runs,
and the shape checks of the adapter are left out.

### ReferenceRouting, ReferenceSearch, VerifierClient

*ReferenceRouting* has one root. A change is notified together with its
occurrence, a build may have read any file as early as its start, and a search
in the sidecar is answered in one step; only the bind status has two. Answers
of the worker are fenced by the supervisor. A proof is the revision it was
made at, the references of the other `includeDeclaration` value are stored
under the other key, and a build that finds nothing changed still advances the
generation. `MaxEvents` bounds changes, builds and failures together.
*ReferenceSearch* reduces the compiler to the files it loads; batches run one
at a time and a batch reads its files in one step; the budget of the exclusion
scan may run out after any subset. *VerifierClient* delivers a thread's `error`
before its `exit`, as Node does, and lets an idle thread crash.

### ReferenceProof, ClassBinding, SourceStatements

A document is a set of statements, and what the compiler makes of them is the
reference the answers are compared with. *ReferenceProof*: specifiers name
files of one directory, the catalog is the parse of the text, every file is
indexed or rejected (and a rejected file makes the index not ready); the order
in which bindings are followed is arbitrary; overloads and store errors are
left out. `RefersAsFollowed` is the part of the reference that the index follows;
what it leaves out is listed in section 6. *ClassBinding*: the caller asserts the capture before its IO and
before it accepts, which is the contract written in
`class-binding-input-snapshot.ts`; links and directories at a leaf are one
"special" kind, unreadable stands for oversized and invalid files, directory
identities and the targets of links do not change (so the witnesses of the root,
of overlays and of the configuration are left out: the model has fewer checks
than the code, and what it shows does not rest on them), each edit advances the
root's revision, a text is one
byte and `MaxVisited` stands for 32.

### IndexClient

Promises settle in steps of their own, so that all lines of one stdout chunk
are read before the code that awaits the first continues. Heartbeats are not
modelled, the overlay part of a search is one step, `partial` is reported as
`ready`, and timers fire only when the sidecar is wedged or dead. The sidecar may
be cancelled while it scans and while it activates, and a cancelled build may end
as `cancelled` or `degraded`. A close while
the process is dying waits for the request timer, as in the code.

### IndexCatalog and PublishedIndex

A file is the sequence of states committed since the last one known to be on
disk, a power failure keeps a prefix of each, of any length. A build stops when it
is cancelled or when the root cannot be read (`StopScan`); a source whose content
was hashed first and cannot be read any more aborts the build, one that cannot be
read or parsed otherwise is rejected. `control` is the published
pointer, `rt` and `build` what each process has open, reserved, read and built,
`log` the files, `retiring` the databases about to be deleted. The status
fields of an answer are dropped, retirement threads are merged, the scan is in
a fixed order and parses end in any order.
`PublishedIndex` has the committed states since the last durable one and the
state each full catalog was begun from; its steps are to begin, abandon or
commit a catalog (only over the state it was begun from), to commit a refresh
of one document, and to lose what is not durable. `ImplementsPublishedIndex` is
the refinement, with the states of the file that `control` names as the
abstract log; it is model-checked *and* proved.

### SqliteStore, SchemaMigration, CacheGC

SQLite is external. *SqliteStore*: the body of a write transaction is one step;
batches have unique URIs and at most one removal or rejection;
`validate_replacement` is left out; how a database becomes the active one is
`IndexCatalog`'s. *SchemaMigration*: the claims of one document are tracked,
the first creation happens under the exclusive lock, an opener may be killed
between any two transactions, the experimental layouts 109–111 are left out;
`history` remembers that a migration was interrupted and that two overlapped. *CacheGC*: ages saturate, versions stand for file
snapshots, the preview is left out, the release of a lock on Windows is
modelled, runs that find a collector busy or cooling down stutter, opening a
cache and recording its use are one step (so a kill between them, which leaves a
cache without a use record, is a kill before them), a deletion that stops half way
counts as not done, and keys in `Settled` are never opened, although their
workspaces come and go. The configuration of the maintenance is valid and the
sidecar is installed; otherwise `run()` throws, which is logged, and maintenance
never returns.

### The composites

`MCDataServices`, `MCIndexServices` and `MCRequestServices` place several small
instances side by side. A behaviour chooses one part in its initial state and
stays in it; the constant `Parts` says which are looked at, and the parts share
a pool of variables under the names their `WITH` clauses give them. A property
of a composite is the conjunction, over its parts, of the named properties of
the components, each stated in the component's module. Fairness of a
disjunction of actions of different parts is fairness of each, because only one
part's actions are ever enabled. Where a component has a proof module of its own,
the part is an instance of that module, which adds theorems and no behaviour.

## 3. The runs

| Run | Question | Properties | Bounds |
|---|---|---|---|
| `supervisor_edits` | do coalescing and the two lanes keep worker and results current? | Converged, QueuesAreSound, ResolvedEditsAreApplied, FreshResults | 2 documents, 1 file, a reader on each lane, 3 edits: two edits of one document with one of another between them is the shortest interesting sequence |
| `supervisor_faults` | does everything settle when the worker or the channel fails? | NoProtocolFault, NothingOrphaned, EveryEditSettles, DisposeEnds | 1 document, 2 requests, 2 edits, every fault and failing sends at every point |
| `supervisor_scheduling` | does any class starve? | EveryRequestSettles | 5 requests of 4 classes, reissued for ever, source limit 1 (a request at the limit settles as refused) |
| `recovery_replay` | safety of replacement, recycle and probes | SingleWorker, AwaitedWorkIsAlive, RecoveriesBounded, WithinBudget, Replayed, NoLateWorker | 2 interchangeable documents (symmetry), 1 explicit request, 3 inputs, limits of 1 and 2, 1 recycle; a behaviour has recycles or probes, not both |
| `session` | is what reaches the client current, and does everything that was deferred happen? | TypeOK, OperationsAreOwned, AnswersAreFresh, PublicationsAreCurrent, EveryRequestSettles, DiagnosticsCatchUp | 1 document, 2 requests at one position, 3 methods, 2 changes: a close and a reopen, a search aborted while a second one holds a lease, a change during the diagnosis of an earlier one |
| `catalog` | do two sidecars over one directory implement one index, and is what a catalog commits checked? | CacheFilesStay, ReadsAreCommitted, ImplementsPublishedIndex, CatalogCommitsAreSound | 1 document with 2 versions, 2 generations, 2 private files, one disturbance (crash, power failure, cancellation or edit) anywhere; a query races the catalogs of the other process, not its own (`OthersRead`; the theorems have no such bound) |
| `index_services` | does a catalog end on a failing disk, the client against a bad sidecar, collection of caches | ClientSessionsAreSound, CachesAreSafe, IndexWorkEnds, CachesAreCollected | parts `builds` (2 versions, the second too large), `searching`, `changing`, `caches` (two keys: the second cache lies beyond the limit of one scan, and its workspace may go too), `missing` (a workspace that goes and comes back) |
| `request_services` | what a request waits for | SearchAnswersAreExact, ResolutionsAreExact, RequestsEnd, RecoveryEnds, RecycleIsSafe | parts `recovery` (recycle, failing stops), `callers`, `routes` (1 search, 2 events), `repeats` (2 searches, 1 event), `executor` (three files in three units), `verifier` (2 jobs, 3 threads), `items` |
| `data_services` | are answers true of the files, buffers and rows they are about? | ContextsAreCurrent, StoresAreConsistent, FollowedReferencesAreCovered, SourcesAreFollowed, DeadlinesAreFair, BindingsAreExact | parts `views`, `scopes`, `aliases`, `buffers` (of `WorkspaceContents`: a history of 2 deltas and 3 revisions is long enough for a trimmed history and a context two takes behind), `shared`, `private`, `schema` (every released layout, three openers), `proof` (four files; every form of section 6 is among the texts), `classes`, `calls`, `watched` (4 events, so that a file can be deleted, created and written before a delivery), `deadlines`; the two requests are interchangeable |
| `supervisor_recreated_file`, `recovery_stale_journal`, `reference_star` | see findings | MembersConverged, ReplayIsCurrent, ReferencesAreCovered | violated, on the smallest instance that shows it |

Each limit of the code (queue lengths, history, budgets, caches) is a constant,
set low enough that it is reached. Runs that may stop say why in their `.cfg`.

**Fairness.** Weak fairness for promise continuations, timers (deadlines,
backoff), the delivery of posted messages and the exit of a terminated thread:
the event loop and the platform guarantee each. A worker is *not* assumed to
answer: it may hang, and the fairness on an outstanding command is "answered or
failed", which is what the watchdog provides (`Watchdog`'s `StallsAreBounded`).
In `LanguageSession` the engine settles every call, which is what the
supervisor and recovery runs show of it. Users are never assumed to act: the
searches and changes of `session` are finitely many, as a client that searches
without end keeps diagnosis suspended. In `IndexCatalog` the catalog thread and
the protocol loop are weakly fair, and `HandleUpdate` strongly, because the
publication lock it waits for is taken and released by others and the operating
system lets no waiter starve. In `IndexClient` the client, the reading of
lines and the timers are fair, the sidecar only while it is not mute. In
`CacheGC` the clock, a running collector, an administrator's run and the opening
of a cache are weakly fair, and the maintenance of a server strongly: its timer
fires again and again, and a run that meets the lock of an administrator's run
gives up and is scheduled anew, so it is not always the lock that it meets.

## 4. The proofs

The theorems about components hold for every set of documents, files, requests
and processes and every value of the limits; those about the two composites
carry them over to the properties that the runs check. Each inductive invariant
was checked with TLC on an instance before it was proved.

| Module | Theorem | Property |
|---|---|---|
| `WorkerSupervisorProofs` | ResultsAreFresh | FreshResults |
| | WorkerConverges | Converged |
| | LanesNeverDisagree | NoProtocolFault |
| | PromisesAreOwned | NothingOrphaned |
| | ResolvedMeansApplied | ResolvedEditsAreApplied |
| | QueueCountersAreExact | QueuesAreSound |
| `WorkerRecoveryProofs` | TypeCorrect, NobodyWaitsInVain, OneWorker, BoundedRecoveries, BudgetKept | (the types), AwaitedWorkIsAlive, SingleWorker, RecoveriesBounded, WithinBudget |
| | ReplayComplete, NoWorkerAfterDisposal, RecycleStaysSafe | Replayed, NoLateWorker, (RecycleIsSafe) |
| `LanguageSessionProofs` | SessionTypes, SharedWorkIsOwned, NoStaleAnswer, NoStaleDiagnostics | TypeOK, OperationsAreOwned, AnswersAreFresh, PublicationsAreCurrent |
| `IndexCatalogProofs` | CatalogIsSound, NeededFilesStay, QueriesAreCommitted, CatalogRefinesIndex, CommitsAreSound | (the invariant), CacheFilesStay, ReadsAreCommitted, ImplementsPublishedIndex, CatalogCommitsAreSound |
| `WorkspaceContentsProofs` | ContentsAreTold, ContentsTypes, KeptContextsAreCurrent, ResidentAnswersAreCurrent, DeltasAreContiguous, UsedContextsAreCurrent | (ContextsAreCurrent, its parts and the invariant behind them) |
| `ServicesProofs` | AnswersAreSnapshots, WatchedTypes, ChangesAreDiagnosed, MembersFollowDisk | (the parts of SourcesAreFollowed) |
| | VerifierIsExclusive, CompleteAnswersAreExact, AnswersSeeEveryChange | (the parts of SearchAnswersAreExact) |
| | ResolutionsStayExact | (ResolutionsAreExact) |
| | WatchdogIsConsistent, CancelledReadsAreGraced, CommitsEndInPeace, StallsAreFound, WatchdogIsFair | (DeadlinesAreFair, its parts and the invariant behind them) |
| `DataServicesProofs` | ContextsStayCurrent, SourcesStayFollowed, DeadlinesStayFair | ContextsAreCurrent, SourcesAreFollowed, DeadlinesAreFair |
| `RequestServicesProofs` | SearchAnswersStayExact, ResolutionsStayExact, RecycleStaysSafe | SearchAnswersAreExact, ResolutionsAreExact, RecycleIsSafe |

**WorkerSupervisorProofs.** `SupervisorInv` is a conjunction of named parts over
a state given by its components (queue, life, promises, channel, worker,
editor):

* `QueueInv`: queued reads are distinct, queued and active mutations carry
  disjoint sets of edits, each lane holds its own kind;
* `OwnInv`: each unsettled promise belongs to the queue or lane that settles it;
* `LifeInv`: what failure and disposal leave in queues and lanes;
* `LanesInv`: a lane's command is in one place, on its way, with the worker or
  on its way back;
* `RevisionInv`: revisions sent, applied and acknowledged are consecutive, also
  after a shutdown;
* `MatchInv` (while the supervisor listens): whatever is under way asks for or
  answers what a lane holds;
* `AppliedInv`: what was resolved, and what is acknowledged, is at the worker;
* `FreshInv`: a request whose cancellation cell is active has seen no mutation
  since it was sent, and what was computed for it comes from the worker's
  present state;
* `ConvInv`: the editor's text of a document is the last one that waits for it,
  or else the worker's; likewise for files that are gone and for dirty flags.

No handler preserves the parts one by one: each changes the queue and then runs
`#pump`, which moves several entries. The proof therefore shows that a handler
reaches a mid-handler state in which all parts hold, and, once, that `PumpAfter`
preserves them. `ConvInv` carries the weight of coalescing: merging a mutation
into a queued record, over records of other documents, has the effect of
applying both in order. Assumptions: documents, requests, mutation records and
`None` are different values, and limits are natural numbers.

The last part of the module is about the counters that the limits of the two
queues are compared with and that every handler adjusts; they are exact. Beside
`SupervisorInv`, whose shapes leave them arbitrary integers, `QueuesInv` says

* `Accounted`: the bytes of the queued mutations, the weights of the queued reads
  and the reads of each document are the sums over the queues;
* `Current`: a queued read has the generation of the queue;
* `Budgeted`: the generation, and the mutations that were applied, wait or are
  under way together, are at most the number of edits the client has made, which
  bounds every version and revision in a record, a message or a job.

Sums are taken by a recursive function. That it exists, and what appending,
removing or replacing an element does to it, is shown by a least counterexample
(`LeastNatural`, from the well-foundedness of the naturals), so no theorem with
an operator parameter is needed. `Within` says which queues a handler may leave:
draining, clearing lanes, releasing a read and `#pump` all stay within the queue
they start from, and a queue within a sound one is sound (`WithinSound`). Only
`#enqueueRequest` and `#enqueueMutation` are not of that form; the latter, which
replaces a record by its merger, is `JoinedAccounted`.

**WorkerRecoveryProofs.** `OneWorker` is not inductive; `HandleInv` adds that an
alive thread is the one behind `worker` or behind `retirement`, that epochs are
below `nextEpoch`, and that a worker is only started with no retirement
pending. `NobodyWaitsInVain` follows step by step from that: whatever takes the
worker away settles the requests that were sent to it, and whatever ends a
transaction settles the callers that wait. `BudgetInv` relates the totals, the automatic count, the input
revision of the last failure and the blocked revision: a budget is refilled
only after the inputs moved past the last failure, so an input revision pays
for at most `AutomaticLimit` automatic restarts and one probe.

`NoLateWorker` rests on `DisposeInv` (what a transaction
may still do once it is told to stop). `Replayed` rests on `HandleInv`,
`FlowInv`, `FirstInv` and `ReplayInv`: the records waiting in the batch and in
the journal end with the parent's text of every document they mention, and
every other document is at the worker or about to be replayed. `RecycleStaysSafe`
joins the safety theorems for a worker with the opt-in recycle.

**LanguageSessionProofs.** `SessionInv` is the type invariant, `Owned` (an
operation is live exactly while a request waits for it, they agree on kind and
document, and keys of live operations differ), `FreshInv` (whoever waits for an
operation that is out of date has been told so) and `DiagInv` (a task is for an
open document of a running session, and one that its epoch does not fence has
the document's text and saw the inputs of this moment).

**IndexCatalogProofs.** `CatalogInv` joins the types, `LogInv` and `ControlInv`
(what a file may begin with, and that the control row names an existing file no
older than the generation it states), `LockInv` and `PrivateInv` (a publication
excludes refreshes and other publications, and a file that was allocated and
not published is nobody else's), `FilesInv` (every file a process has pinned
exists), and per process `RtInv` and `BuildInv` (a refresh writes to the active
file, a query reads a state of its window, a session's parent has moved on from
the state it began from or still has that very state, and what it publishes is
sealed). The refinement maps each step to a step of
`PublishedIndex` or a stutter; the hard cases are publication (the base is
still the active state) and power failure (the abstract loss is exactly the
undurable suffix of the active file).

`CommitsAreSound` needs a second invariant, `CommitInv`, relative to the first.
`FingerprintInv` says that a file with a stored fingerprint has exactly one state,
with those rows and nothing rejected, and that no refresh is about to add one: that
is why a refresh may drop the fingerprint before it writes, and why a power failure
cannot bring older rows back under it. Per build, `ScanOk` follows a document from
the scan to its job, its stamp and its row (a row always has the version of its
stamp), `StageOk` says what each stage has finished (reuse compared all stamps with
the parent's fingerprint, a sealed build has no job left and saw no change),
`WitnessOk` ties the parent's rows to the fingerprint and the stamps to the disk at
the check of the sources, and `CancelOk` follows the one atomic cell on which a
cancellation and the publication race. A publication then leaves one state whose
rows are the stamps, parsed or reused.

**WorkspaceContentsProofs.** Neither a kept context nor a view is current by
itself; what holds is that somebody can still tell it what it lacks. `ContentsInv`
states that for a *holder*, which is a context or a view with a revision, an epoch
and the paths it is behind with: `Told` (each such path is open, or listed by the
pending span or by the deltas that start at the holder's revision) and `Listed`
(the same of every view, whenever it is used, for every context and for every
other view, because a context that is built from a view takes its identity over).
`ChangesInv` says what the record of changes remembers: whatever blocks the span
or asks for a reset has forgotten the history. A notification is one of four
outcomes (nothing that is not open, a new epoch, a barrier, a longer span), and
`HolderStep` shows each of them harmless. The theorems assume `Parameters`: the
constants have their types and `None` is no value of another kind. A take needs
that the trimmed history is a suffix within both limits; its `CHOOSE` is the
least of a set of numbers, and least elements exist by well-foundedness.

**ServicesProofs.** One invariant per component.

*Call hierarchies.* `CallInv`: an identity that was read while no document changed
is still what its file shows, or its stamp will never be the file's again; what
is not a snapshot when the first pass ends does not pass the second (`HeldInv`).

*Watched changes.* `WatchInv`: a change that has not been diagnosed is on its way,
as a report, a pending entry or the dirty mark of its root. `MemberInv` says of
every file that the last event about it that is under way tells whether it
exists, or else its pending entry does, or else the store knows, or else the file
is in `merged`, because a write replaced the entry that said so; a write about a
file in `merged` keeps it there, and it leaves once it is gone from disk or listed
again. No behaviour is excluded; both assume `WatchParameters`: each file has one
root and one domain.

*The verification thread.* `VerifierInv`: a thread that runs is the worker or the
one being stopped, and the worker has nothing to do but the job that runs on it.

*The executor.* `SearchInv` joins the shapes, `QueryInv` (a closed module has no
use of the constructor), `ScopeInv` (a scope without candidates is the whole
project, and candidates whose seed is right include every use) and `ProgressInv`
(what was found is what the searched files have; each candidate was searched, is
excluded or is still to come; a batch that ended has confirmed the seed). A
closure under dependencies contains what it starts from and is contained in every
closed set that does, by its definition as an intersection. Assumption:
`SearchParameters` (units and overlays are about the project's files).

*The routes.* `RouteInv` joins `GenerationInv` (generations are numbered in the
order in which their builds began), `BindInv` (a catalog run binds itself to what
the sidecar has), `Newer` and `FreshInv` (any generation above the baseline has
seen the latest change, and the index is trusted only when the committed one
has), `CacheInv` (whatever is cached was computed from the present inputs) and,
per search, `SearchOk` (while its inputs have not changed it uses the index only
if that is trusted, and what it holds has seen every change). Assumption:
`RouteParameters` (what is asked for has its type).

*Watchdog.* `WatchdogInv` is the types, `StartInv` (a command's start is
reported at most once, and only while its entry stands), `CancelInv` (of the ages
counted against a cancelled read one is at most the time the worker has been
silent), `InsideInv` (a read that was cancelled inside its Program commit is
never settling while the commit lasts) and `AgeInv` (an entry that has not
expired is younger than its turn and its own deadline). Assumption:
`WatchdogParameters` (every limit is positive, no command is the idle marker).

*Deferred details.* `ItemInv` is the types, `QueueInv` (one job has the worker,
the others wait once each, and the counter is their number), `HandleInv` (a record
of an open document is kept only while the document has the version and the text
it was listed for), `StoreInv` (each store holds handles of its kind, none twice),
`BytesInv` (the byte counter is the bytes of the stored code actions) and
`ResolutionInv` (a request that was not aborted has its handle's text, of a
document from its admission, of a file from the start of its job). The bytes of a
record are counted as pairs of a handle and a place, so that eviction, forgetting
and replacement are set differences and the library's theorems about cardinality
apply. Assumption: `ItemParameters` (sizes are natural numbers, and no request is
the mark of an idle worker).

**DataServicesProofs and RequestServicesProofs.** A behaviour of a composite stays in
the part it begins with (`PartStays`), and each of its steps is a step of that part,
so the part's theorem applies; the property of the composite follows because every
other part's conjunct holds vacuously. The lemmas `Same*` show that the part's
initial condition, next-state relation and property are those of the instance
the theorem is about. What a theorem assumes of its constants is proved of the
constants of the instance. `NoneAssumption` says that the model value `None` is no
other kind of value. None of these theorems uses fairness.

**Only model-checked.** Liveness, under fairness and ENABLED, is outside the
prover's reach: EveryEditSettles, EveryRequestSettles, DisposeEnds,
DiagnosticsCatchUp, RequestsEnd, RecoveryEnds, IndexWorkEnds, CachesAreCollected.
Of the safety properties, FollowedReferencesAreCovered and BindingsAreExact
compare an algorithm with a reference definition over closures, whose value for
every input needs induction over data; StoresAreConsistent,
ClientSessionsAreSound and CachesAreSafe have no proof yet.

## 5. Findings

* `supervisor_recreated_file`: created, deleted, created in one queued batch
  merges to `changed`, which the store does not take as an admission.
* `recovery_stale_journal`: a recovery captures the documents after its backoff
  and then flushes a journal that may hold older versions of them; the worker
  rejects the older version and the recovery fails. `Replayed` still holds: no
  such worker takes requests.
* `reference_star`: a file that imports or re-exports a declaration through a barrel
  with `export *` is left out of the candidates of an answer that counts as complete.

## 6. Observations

Met while modelling. Where a property has an exception, it is named here.

* A recycle that is active when an explicit request probes the circuit:
  `recover()` only waits for it (`semantic-worker-recycle.ts:128`). If the worker
  fails while the recycle waits for its witness, and a document is edited, the
  circuit closes without a replay, against
  `docs/plans/2026-10-24-worker-recovery-state-contract.md:14`. `Replayed` has
  the hypothesis `recycles = 0 \/ probeTotal = 0`, which excludes exactly this.
  A recycle that fails also leaves its journal, which a later recovery flushes.
* `SchemaMigration`: the first opener migrates under the exclusive lock. If it is
  killed on the way, two later openers may run the same migrations without it, and
  only the last two look at the version again under the write lock: one of them
  can set the version back under the other and a store be handed out without part
  of its schema (`schema_migrations.rs:156–220`;
  `docs/adr/0005-index-proof-trust-boundary.md:672`). The kill and the overlap are
  in the model; `OpenStoresHaveTheirSchema` excepts stores whose migration
  overlapped with another, and says that this takes an interrupted first opener.
* `FileChanges`: a creation merged with a write becomes `changed`
  (`workspace-file-change-coordinator.ts:150–154`, as
  `tests/workspace-file-change-coordinator.test.mjs:18–53` expects), which
  `document-store.ts:597` does not take as an admission (compare
  `docs/tdd/p1-call-hierarchy-post-review-hardening.md:53–57`; the finding
  `supervisor_recreated_file` is the same gap at the worker's queue). Such files are
  `merged`; `MembersFollowDisk` excepts them from what the store must list, and
  nothing else.
* `IndexCatalog`: a crash during the first creation leaves a cache that cannot
  be opened, by design (ADR 0034, lines 112–121); `CacheFilesStay` speaks of
  caches with a published catalog.
* `CacheGC`: a kill inside `record_use` leaves litter that makes a cache
  uncollectable.
* `IndexClient`: with two workspaces, progress may be begun and never ended
  (`default-workspace-symbol-service.ts:81`,
  `docs/tdd/e2-workspace-symbol-coordinator-hardening.md`).
* `Watchdog`: a delayed `synchronized` event of an earlier commit may turn the
  permission of a later commit to settling.
* `ReferenceProof`, further forms that are dropped although they refer to the
  declaration, all of them among the texts of the run and excepted by
  `RefersAsFollowed`: a file that imports `f` from it and `f as g` from another
  module; a default export re-exported under another name through a package
  entry, or used through a namespace member; an alias through a file that is
  not admitted; an ambiguous specifier one of whose candidates says
  `import {f}; export {f}`.

## 7. Not modelled, and why

Results of the TypeScript compiler (no small model predicts them); which
retained contexts are evicted under memory pressure (it decides speed, as an
evicted context is rebuilt from the store); syntax, formatting, SDK and project
file parsing (stateless); the structural validation of JSON messages; tracing.
The load witness of lazily read snapshots is the next stateful part to model.

## 8. Plan

1. Compiler contexts, leases and registries (`core/types`,
   `semantic/coordinator`): a leased context is never released.
2. Load witnesses and request input validation, for the hazard at
   `watched-source-notifications.ts:48`.
3. Proofs: the sessions of `IndexClient` and the collection of caches.
