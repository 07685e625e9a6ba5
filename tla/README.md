# Specifications of terraform-ls-rs

TLA+ models of the language server's stateful core and of the algorithms behind its
answers, the TLC runs that check them on small instances, and TLAPS proofs of the
properties that matter most for every instance. `PROJECT.json` lists the components,
the runs, the source lines each definition stands for, one faulty variant per property
(`... Faulty:` in the modules) that the property must catch, the hazards the properties
are for, the disagreements found and the theorems.

    tlc -workers 2 -config JobQueue.cfg MCJobQueue      # a run: see section 3
    tlapm IndexWorkerProofs.tla                         # proofs: see section 4

Paths below are relative to `src/crates/`.

## 1. The system

terraform-ls-rs is a language server. One process holds a `StateStore` of concurrent
maps; LSP handlers, one background worker, a file watcher, background tasks and
blocking threads all read and write it.

| Part | State | Operations | Hard behaviour | What makes it correct |
|---|---|---|---|---|
| Job queue (`tfls-state/src/jobs.rs`, worker in `tfls-lsp/src/indexer.rs`) | heap, `pending`, `in_flight`, `seq`, a `Notify` | `enqueue`, `try_next`, `complete`, `next`, `is_idle` | insert and notify are two steps; look and sleep are two steps; duplicates; panicking jobs | priority and FIFO order; no lost wake-up; `is_idle` only when everything asked for is done |
| Progress reporting (`tfls-lsp/src/progress.rs`) | a token's channel, the drain task, reporters in jobs and callbacks | begin, report, end, drop | the client answers late or never; callbacks report from other threads; jobs panic | every token begun is a whole stream: begin, reports, end; no job waits for the client for ever |
| State store (`tfls-state/src/store.rs`, `document.rs`) | `documents`, `definitions_by_name`, `references_by_name`, `index_lock` | `upsert_document`, `apply_and_reparse_document`, `reparse_document`, `remove_document` | a mutation is many map accesses; readers take no index lock | indexes mirror documents; no torn document; no leftovers |
| Diagnostics pass (`tfls-engine/src/pipeline.rs`, `module.rs`, `snapshot.rs`, `tfls-diag`) | the guard of one document; facts about the module | references, unused declarations, ~50 rules | reads indexes in the middle of mutations; facts gathered in two ways; facts of other files | a file's own names are never flagged; both ways agree; gates open only where they may |
| Document sync (`tfls-lsp/src/handlers/document.rs`, `formatting.rs`, `backend.rs`) | `open_docs`, `doc_locks`, the stored document | did_open, did_change, did_save, did_close, formatting | edits delivered out of order; awaits between steps; close and reopen | the server's copy is the editor's buffer |
| Positions and formatting edits (`tfls-parser/src/position.rs`, `handlers/formatting.rs`) | - | positions to offsets and back; minimal diff, range and on-type formatting | editor, server, rope and diff each count lines their own way; the user types meanwhile | both mean the same place; the edits give the formatted text and leave the user's lines alone |
| Version catalogues (`tfls-provider-protocol/src/registry_versions.rs`, `tool_versions.rs`, `git_refs.rs`, `tfls-engine/src/prefetch.rs`) | files under `$XDG_CACHE_HOME`, 24 hours valid | fetch with fallback, rewrite, prefetch, look up for diagnostics | tasks and processes rewrite one file in place; one registry of two fails | an outage blanks nothing; no constraint is called unmatched for want of a release |
| Diagnostics publishing (`handlers/document.rs`, `indexer.rs`) | messages to the editor, fingerprints | publish, peers' refresh, coalescing | results computed concurrently arrive in any order | the last word is about the last text |
| Disk-driven indexing (`indexer.rs`, `tfls-engine/src/index.rs`, `handlers/workspace.rs`) | watcher events, jobs, files read and not stored yet | ParseFile, FileRemoved, module indexing, scans | the open check and the upsert are two steps | a disk read never replaces an open buffer |
| Scan tracker (`store.rs` `dir_scans`, `indexer.rs`) | a state per directory, scan jobs | `mark_scan_scheduled`, `mark_scan_completed`, ScanDirectory, BulkWorkspaceScan, child scans | several tasks mark directories; scans can fail | tracked directories get indexed; Completed means indexed |
| Lock file cache (`store.rs`) | `locks`, `locks_mtime` | `lock_file_for`, `invalidate_lock` | two maps and the file system, from many threads | never an answer that is out of date |
| Schema installation (`indexer.rs`, `store.rs`) | `schemas`, `installed_provider_versions`, `functions`, `fetched_schema_dirs` | FetchSchemas, FetchFunctions, enrichment, mtime gate | init during a fetch; late enrichment; two jobs on one map | what is installed is what is on disk, and all of it |
| Index cache (`tfls-state/src/index_cache.rs`) | a snapshot file | capture, save (temporary file + rename), load, hydrate, sweep | crash between write and rename; two servers; stale snapshot | old or new file whole; never stale or over an open buffer |
| Version gates (`tfls-core/src/version_constraint.rs`, `module.rs`) | - | constraint operators, lowest admitted version | pre-releases, `~>`, upper bounds | a gate opens only if every admitted version has the feature |
| Unknown-value analysis (`tfls-diag/src/unknown_value.rs`, resolver in `module.rs`) | - | for_each, count and import ids through locals, data, resources, modules and comprehensions | circles through any of them; fields told apart | ends; flags what is unknown at plan and nothing else |
| Types of variables (`tfls-core/src/variable_type.rs`, `tfls-engine/src/index.rs`, `handlers/code_action.rs`) | `assigned_variable_types` | rebuilt with each directory; suggest a type; compare a default with its type | several callers in the order of a hash map; `any` stands for unknown, conflict and optional | a suggested type fits what it was inferred from; no valid default is flagged |
| Edits over several files (`tfls-lsp/src/handlers/rename.rs`, `code_action.rs`, `code_action_scope.rs`) | - | rename, conversions, stubs, gathering | scopes from a selection to the workspace; files that do not parse, whose places and contents the server knows in part or as they were | references follow what is renamed; resources keep their state |
| Parser, single-file rules, formatter, walker, schema protocol, read-only handlers, command line | none shared, or I/O | pure functions and I/O | - | tested as functions |

How they interact. The editor's messages become handler futures, polled by one task
and free to interleave at every `await`; the CPU-heavy part of a handler runs on a
blocking thread. Handlers mutate the store directly (open, change, close) and queue
jobs. The watcher task turns file events into jobs and removals. The single worker
takes one job at a time and indexes files, marks directories, installs schemas,
reporting progress as it goes. The enrichment task and rayon threads write the store as
well. All of them share the store through per-key guards of its maps; `index_lock`
excludes mutators from one another, `doc_lock` orders edits and formatting of one document.

## 2. The modules

| Module | Models | State and actions |
|---|---|---|
| `JobLanes` | the promise of the queue | four FIFO lanes, one job in hand; request, take, finish |
| `JobQueue` | `jobs.rs`, worker loop | one action per critical section of the mutex or operation of `Notify`: `EnqueueNew`/`EnqueueDuplicate`/`NotifyOne` for a producer, `TakeJob`/`FindNothing`/`AwaitNotified`/`Complete` for the worker |
| `ProgressReporting` | `progress.rs` | per token: the request and its answer or time-out, the senders alive, the channel `tx`, the drain task, what is written to the client (`wire`) |
| `IndexWorker` | jobs that report, composed of the two above | the worker takes a job, its token goes through its life, and the queue's `Complete` comes when the job has dropped its reporter; a panic drops it early |
| `StateStore` | `store.rs`, `document.rs`, reads of `pipeline.rs` | one action per map access of a mutator (`phase` is how far it is), `pass` a diagnostics pass |
| `AtomicStore` | what `store.rs` promises its callers | calls served one at a time, with one instant of effect on the document each, names filed for it in the meantime, documents that readers hold; `StateStore` has the refinement mapping |
| `DocumentSync` | life-cycle handlers and disk paths, one document | editor, disk and transport as environment; handlers split at their awaits; loaders split into pick, read, open check and upsert |
| `TextEdits` | `position.rs`, `formatting.rs` | a text the server formats, the edits it answers, the editor's buffer; the three ways to count lines; the diff as any pairing of equal lines |
| `VersionCatalog` | registries', CLI releases' and git tags' catalogues, prefetch, diagnostics' lookup | a file per feed, tasks that check, read, ask, truncate and write feed by feed; releases, the clock, dying processes |
| `DiagnosticsPublish` | what handlers and jobs push | tasks of two documents of one module; each is begun, applied, computed (against what the peers' texts are then), pushed, its peers refreshed if the fingerprint changed and it is not superseded |
| `ScanTracker` | `dir_scans`, directory and bulk scans, did_open's indexing | handlers and worker, one action per marking, indexing or queueing |
| `LockFileCache` | `lock_file_for`, `invalidate_lock`, one directory | every stat, parse and map access an action |
| `SchemaInstall` | fetch jobs, enrichment, mtime gate, one init root | the worker's job step by step; init, handlers and watcher beside it |
| `IndexCache` | `index_cache.rs` with scan, watcher and buffers | servers that start, hydrate, scan, capture, write, rename and crash, over a disk that changes |
| `VersionConstraints` | `version_constraint.rs` | operators: order of keys, each constraint operator, the lower bound, the gate |
| `ModuleRules` | rules that look at other files of a module | `docs` (blocks of each file), `diags` (what is reported), edits of one file; the facts from the store and from the bulk scan's snapshot; the fingerprint |
| `UnknownValues` | `unknown_value.rs`, `module.rs` output resolver | a call stack `frames` over one query of a small program; one step per call of the mutually recursive functions; the nodes an answer can depend on |
| `PlanTimeValues` | what Terraform makes of the same programs | operators over a program of `UnknownValues`: the nodes in reach of the query, the value of an expression at plan time, whether Terraform refuses it |
| `VariableTypes` | `variable_type.rs` | the types, expressions and values that nest up to a depth, and functions on them: what a constraint or an expression is read as, how the shapes of branches merge, satisfaction; beside them the values Terraform makes of the same expressions and accepts for the same constraints |
| `ModuleInputs` | `rebuild_assigned_variable_types_for_dir`, the rule on defaults | one variable, what each module block and tfvars file gives it, the types kept; edits of blocks and files, rebuilds of directories |
| `SuggestedTypes` | `merge_types`, the suggestion of `code_action.rs` | operators over the state of `ModuleInputs`: how observed types merge, the type written into the variable's block |
| `WorkspaceEdits` | `rename.rs`, conversions, stubs, gathering | a workspace of items (`text`) and the server's copy of it: the bodies conversions and gathering walk (`body`), what the indexes list (`known`) and where (`located`: a block, a name, an old place); syntax errors that come and go (`Spoil`, `Lose`, `Mend`), edits taken one after the other, each with the reparse that follows (`Apply`) |

`MC...` modules hold instances. `JobQueue` has the refinement mapping from the heap to the
lanes. `MCStateStore`, `MCSync`, `MCBackground`, `MCDiagnostics` and
`MCAnalyses` put two or three specifications that share no state side by side: in a
behaviour one of them moves while the others have not begun. `...Proofs` modules hold the
theorems, each about the specifications of one run or part of one, and `QueueLemmas` what they share.

What rests on what. `StateStore` shows that a mutator under `index_lock` is, to other
mutators and to readers, one step on one document (`ServesAtomically`); the other modules rely on that and make an upsert or an edit one
action. `JobQueue` shows that jobs run in priority order and once per wait; the
queues inside `SchemaInstall`, `ScanTracker`, `IndexCache` and `DocumentSync` rely on
it. `IndexWorker` shows that reporting progress changes nothing of this.
`DiagnosticsPublish` takes what a pass computes as the pair of texts it read;
`ModuleRules` says what it computes from them, and when a peer may be left alone.

Abstractions, beyond leaving out logging and formatting:

- A text is its parse outcome and the names it declares and refers to (`StateStore`), or
  the session and version that wrote it (`DocumentSync`), or its number
  (`DiagnosticsPublish`, `IndexCache`), or a set of blocks (`ModuleRules`,
  `WorkspaceEdits`).
- A document of `StateStore` contributes one location per name, and all documents belong
  to one module directory.
- A file's content and its modification time are one number in `LockFileCache` (a
  rewrite always changes the time), but not in `SchemaInstall`, where an init may leave
  the directory's time unchanged, nor in `IndexCache`, where a file may change under the
  same size and time.
- Handlers hold no guard over an `await`; their steps up to the first `await` are not
  interleaved with other handlers but are with all other tasks.
- The bulk scan's two tokens are two jobs in a row; a client without the capability gets
  no token at all. The client reads what is written to it but need not answer.
- A `tests/` directory's module under test is not a second scan request. The walk of a
  bulk scan is the constant `Workspace`; child modules below `.terraform/modules` lie
  outside it.
- `ModuleRules`: one table of thresholds stands for the five version-gated tables, one
  rule for each family of rules that read the same facts.
- `UnknownValues`: an expression is one of the forms the analysis tells apart; a
  conditional, an operator and a call of any other function are one form.
- `VariableTypes`: keys are two, strings stand for those that convert, and a value is its
  kind or a structure of kinds. Shapes that come from provider schemas are left out. The
  edits of `ModuleInputs` are those of callers and tfvars files; the variable's own block
  is fixed.
- `WorkspaceEdits`: an edit is applied before anything else is typed (the versions it
  carries, or does not, are section 5's). What a recovered body or a scan misses is any
  `MaxMissed` items; what a rename hits where places are old is any of the words looked for
  in that file. Two references of a file that read alike are one item.
- `TextEdits`: an offset is a number of characters (one per character that UTF-8 or UTF-16
  would make several units of, but for the columns, where units count). The formatter's
  result is any short text, or the text with one line changed, removed or preceded by
  another.
- `VersionCatalog`: a list of releases is its length, lists only grow, the clock ticks once
  per `CACHE_TTL` and no task outlasts a tick (requests give up after 20 seconds); a new
  file under the old one's name is written in two steps, truncation and contents.
- `sources`, `rebuilt`, `rejected`, `owed`, `seen`, `fetched`, `failed`, `bulk_done`, `closed`, `told`, `crossed`,
  `had`, `missed`, `prefetched`, `goal`
  and the like are history variables: no guard reads them, properties only.

## 3. The runs

Passing runs; between them every action fires:

| Run | Instance | Shows |
|---|---|---|
| `JobQueue` | 2 jobs of which one reports, 2 producers, 4 priorities, 3 accepted requests, 3 tokens of 1 report | the queue implements `JobLanes`; `IdleMeansServed`, `NoLostWakeup`; whatever the client does, the worker serves the queue as fairly as one whose jobs report nothing and what is queued is taken (`ServesQueue`); tokens are whole streams and all end |
| `StateStore` | 2 documents, 2 names, 3 texts, 2 mutators, 1 reader, versions 0-1; then a prefetch and a completion, 2 feeds, 1 release | the store implements `AtomicStore`; indexes mirror documents, no torn document, own names resolve; a request that does not fail is answered with every release a day old, one that fails with what was on disk, and after a prefetch diagnostics know what is a day old |
| `Sync` | 2 sessions, 3 versions, 2 disk changes, 2 messages under way, reordering, formatting, saves, deletions, worker and module indexing; then every text of 3 characters of 5 kinds and every short result | the stored copy is the editor's buffer once all is served, outside two named windows; formatting never reads an older text than it was sent for; convergence; editor and server mean the same places; formatting edits give the formatted text |
| `Background` | 2 callers of the lock file cache, 2 writes, deletions, invalidations; 2 inits, plugin or CLI, enrichment; 3 directories, 3 files, 1 handler, bulk scan | no stale lock file unless two callers crossed; every init is noticed and installed, plugin schemas end up enriched; scheduled means covered, only a close uncovers a Completed directory, nested modules are tracked, scans end |
| `IndexCache` | 2 servers, 1 file, 3 texts of which 1 does not parse, 1 stamp, 1 write, 1 edit, crashes everywhere | no document has the symbols of another text; the store follows the disk; the cache file is only replaced by a whole one |
| `Diagnostics` | a module of 2 files, a test file and a caller, of 3 blocks among 23; then 5 tasks, 2 at once, over 2 documents and 3 texts | snapshot and store agree on a module's facts; gates open only where they may; moving a block between files changes nothing; a peer left alone after an edit was right already; what the editor shows in the end is about the last texts |
| `Analyses` | 3 items or syntax errors in 3 files of 2 modules and 2 edits; every program of a small grammar over two modules that call one another; one variable of a module with 4 module blocks in 2 directories, a tfvars file and 3 edits, and 13 declared types against 13 defaults | references follow what is renamed as far as the server knows them, moves are recorded, blocks filed in place; the analysis ends, flags only what may be unknown, misses nothing outside named exceptions; a suggested type accepts the values it was inferred from, a flagged default is one Terraform may refuse or cut down |

Runs that TLC refutes, each a disagreement between the code and what a comment or the
repository's README says of it (`findings` in `PROJECT.json` quotes them):

| Run | What happens |
|---|---|
| `SyncClobber` | module indexing reads the disk and finds the document closed; did_open stores the buffer; the upsert replaces it by the disk's text, version 0 |
| `LockFileTwo` | two callers interleave their two inserts, and an old parse stays under the new modification time |
| `FunctionsLost` | the FetchFunctions job that start-up queues after FetchSchemas clears the provider functions the fetch has merged |
| `CallersAccumulate` | a second directory that calls the module is rebuilt, and the types it passes replace those of the first |
| `ComprehensionTerminates` | an inner comprehension over a field of the outer loop variable that reuses its name sends the analysis round for ever |

Bounds, and why they are enough. The queue needs two producers to have one between
unlock and notify while the other is done; two jobs give one waiting behind one in hand,
and a job queued again while it runs. One job that reports and one that does not show
each what the other changes; three tokens cover three accepted requests. The store needs
two mutators to contend, two documents to declare the same name, and a text of each kind
(refers only, declares and refers, no body); versions 0 and 1 give a newer, an equal and an older
batch. Reordering shows with two edits under way and a third to come; a second session is what a late edit of
the first can spoil; a write and a deletion, or two writes, let a loader hold an old
text while the disk moves on. One writer between stat, parse and store suffices for a
stale cache entry, a second one for it to happen on a warm cache; `LockFileTwo` has a third
(and `FreshUnlessMixed` is proved for every number). Two inits
let one land in every step of the other's fetch. A root of two files, a child and a
grandchild give a directory with an opened and an unopened file, a nested call and a
directory the walk does not reach. Two servers are what can meet at one cache file.
A line break and what stands before and after it are a
text of three; a prefetch and a completion are two writers and a reader of one file, and a
second completion adds only a third. Three blocks are a definition, a use and what stands between them (a version, a
provider); five tasks are an open of each document, two edits that overlap and one more.
Three items are two blocks and a reference, or a block, a reference and a moved block; a
file with a syntax error takes the place of one. One missed item a file makes a body or an
index differ from the text; an item erased from a buffer without a body makes the index the
older one. Breakable are one file that blocks are moved from and the one they are moved to.
Three module blocks in one directory give a merge of three observations, in any order;
another directory and a tfvars file are what can replace them. Types and expressions nest
four deep (`Depth`), as the deepest that are listed do: a list of objects with an optional
list, a field of each element of an object of objects.
`MaxSeq` bounds accepted requests, `MaxReports` reports, `MaxPending` messages under way,
`MaxSessions`, `MaxVersion`, `MaxWrites`, `MaxEdits`, `MaxInits`, `MaxTasks`, `Concurrent`,
`MaxText`, `MaxResult`, `MaxReleases`, `MaxBlocks`, `MaxMissed` and `MaxOffers` what users, tools and the runtime do; the code has none of
these bounds, and they only cut behaviours short (which is why deadlock is not checked in
the runs that can reach them; `StateStore` has no such end and is checked for deadlock).

Fairness. `JobQueue`: the worker, the drain tasks and a producer that has inserted and not
yet notified are runnable tasks of the runtime, and a job's own work comes to an end;
nobody is obliged to enqueue and the client to answer nothing (a request is given up
after its time-out). `ServesQueue` says that every job is taken because requests are bounded: the code gives
a Low job no protection from a never-ending stream of urgent ones. `Sync`: a handler that
can go on is polled (one weak fairness for all of them together, in behaviours in which the
document moves), which tokio guarantees;
the editor is obliged to nothing. `Background`: the worker, and the watcher's answer to
a pending LockFileChanged; enrichment, handlers and inits are not, and
did_open handlers need no fairness, because a directory is scheduled and queued in one
step. `Analyses`: the analysis is one thread that goes on.

## 4. The proofs

TLAPS proves the following for all values of the constants. `QueueLemmas` holds what the
proofs have in common: what a queue says after an element was put in, taken out or moved
forward, and the least of some numbers.

- `IndexWorkerProofs`, the queue: `TypeCorrect`, `IdleIsServed`, `WakeupsAreNotLost`. `IInv`
  adds to the types that `pending` is exactly the set of jobs in the heap, each there once
  (`PendingMirrorsHeap`), that `in_flight` counts the job in hand (`FlightMirrorsWorker`),
  and that `owed = pending`. `IdleMeansServed` is not inductive alone: an empty heap says
  nothing of `owed` without the mirror, and popping an entry removes its job from
  `pending` rightly only if no other entry carries it.
  `QueueImplementsLanes`: the queue implements `JobLanes`, initial states and every step.
  A lane's content is the heap's entries of one priority in the order of their sequence
  numbers, given by the place of each entry (how many of its lane have no greater
  number); `LaneInv` adds to `IInv` that the heap is finite, its numbers are different and
  at most `seq`, and the lanes are filled without gaps. Inserting takes the place behind
  the last, popping the first place of the most urgent lane, and all others move up by one.
- `IndexWorkerProofs`, the tokens: `TokensTypeCorrect`, `TokenStreamsAreWhole`. What a
  token's stream may look like depends on where its job and its drain task are, so the
  invariant `Tidy` gives each situation its shape (`Orderly`): nothing queued or written
  without a drain task; while the job works, only reports queued, and as many queued and
  written as were told, after the begin; once the end is queued, exactly one end, with
  late reports of callbacks behind it only; once the task is closed, the end last.
  `StreamIsWhole` alone is not inductive: writing an element says nothing of what is
  queued behind it.
  The composition: `WorkerImplements`, that each step of the worker with its jobs is a
  step of `JobQueue` or leaves its variables, and a step of `ProgressReporting` or leaves
  its; the theorems above then hold of the specification the run checks
  (`WorkerIdleIsServed`, `WorkerWakeupsAreNotLost`, `WorkerImplementsLanes`,
  `WorkerStreamsAreWhole`).
- `StateStoreProofs`: `TypeCorrect`, `OwnNamesAlwaysResolve`, `IndexesAgree`,
  `DocumentsAreWhole`, `LocationsAreSingle` and `StoreServesAtomically`.
  `CoreInv` = types, `LockDiscipline` (whoever is inside a mutator holds the lock, with
  arguments that fit its phase) and `LockFree` (a held lock has a holder inside).
  `PassState` says a pass's document is stored and none of its own names flagged; it
  is inductive because a mutation of that document has to wait for the pass's guard
  (`GuardProtects`). `IndexState` says what the indexes hold in the middle of a
  mutation too: nothing of a document whose entries have been taken out, the new
  names once they are in, `DeclaredIn`/`ReferredIn` otherwise; `Lost` marks documents
  that rejected a batch and have not been through a whole mutation since. Each
  action is proved apart for the mutated document (`OwnIndex`) and for the others
  (`OthersIndex`). That no location is doubled follows from the same invariant.
  `DocumentsAreWhole` needs only the types and that parsing and the
  rope's replacement are one step under the exclusive guard.
  `StoreServesAtomically` is the refinement of `AtomicStore`: with the invariants above,
  each action of a mutator is a step of the call it serves (`MutateAtomic`) or leaves what
  callers see alone. A call in place has taken effect once `get_mut` has let it change the
  document, an upsert with its last step; in between, what is filed for the document is
  some of its names or of those to come, each once (`FluxAfter`).
- `BackgroundProofs`, the lock file cache: `LockTypeCorrect`, `FreshUnlessMixed`,
  `LoneCallerNeverStale`. `LockInv` says the disk holds the newest content (`DiskNewest`),
  that what a caller parsed is no older than what it saw in its stat (`CallState`), and
  that the stored parse is no older than the stored time whenever one caller stored both
  (`CacheState`). The last is what two callers break, so the invariant cannot be had
  without the exception, and with one caller the exception is empty.
  Schemas: `InstallTypeCorrect`, `SchemasStayCurrent`, `EnrichmentArrives`. The core
  (`InstallInv`) is "outdated schemas have a fetch due", where due means a job in the
  queue, an event under way, a check that will find the time changed, or a fetch that has
  not yet looked at the disk; it is preserved because the gate records the time it read
  before the fetch reads the disk. `BareIsEnriched` is its counterpart for enrichment.
  The scan tracker: `ScanTypeCorrect`, `ScheduledCovered`, `CompletedStays`,
  `ChildrenAreTracked`. `ScanInv` = types, what the worker (`WorkerState`) and a did_open
  handler (`OpenerState`) have scheduled and indexed at each of their steps,
  `ScheduledIsCovered` itself, that a completed directory's files have been stored unless
  closed (`ParsedPresent`), and that the calls of a stored file are tracked or about to be
  (`CallsFollowed`). Coverage is not inductive without the worker's state: a scan that has
  left the queue covers its directory only while the worker is at it.
- `DocumentSyncProofs`, the buffer and its copy: `TypeCorrect`, `ServedInSync`, `FormatsFresh`.
  `InSync` speaks of states with nothing under way; the invariant behind it, `SessionState`,
  of all others. Either the editor's didOpen is still to be served and every later version
  waits behind it (`Arriving`, `AllWait`), or it was served (`Served`) and every version of the
  buffer is `Accounted` for: it waits in the transport or for `doc_lock`, or the store has it
  or a newer one, or the disk-driven paths destroyed it; and what the store holds under the
  newest version is the newest text (`Faithful`). Late edits of an earlier session wait
  before all of this one's, which is why they can spoil it only while `AllWait`.
  `FormatOrder`: what stands behind a format request is newer than the buffer it was sent
  for, through every reordering of edits; hence no request reads an older text.
  Positions: `PlacesAlwaysAgree`, for texts of any length. The server's and the editor's
  line tables are compared break by break (`TextBreaks`, `LineBegins`, `LineEnds`), columns
  through the units of the characters before them; where an induction on the text would be
  natural, the least counterexample serves.
  Edits: `EditsFormat`, for texts of any length, any result of the formatter and any pairing
  of equal lines in order. A text is cut into its lines (`Cuts`, `LinesCut`). Two texts whose
  paired lines agree (`PairedTexts`) are stretches of one text between the gaps, and the
  edits are the gaps (`Answers`): `EditsMake`. The server's line positions are where the
  editor has the cuts, in the text as asked (`LinePlaces`) and in the one with a line typed
  over (`TypedPlaces`), except the end of a last line without a break, which is then paired
  with a last line (`LastWithLast`) and so begins and ends no edit. `EditsInv` says what is
  answered before the user types (`Answered`) and, once the buffer or a range is
  settled, that the edits would give the goal. As the property, the theorem is about
  `Counted` texts: with a break that the server's positions do not count it is false.
- `CacheProofs`, the index cache: `TypeCorrect`, `CacheIsReplacedWhole`, `SymbolsBelong`,
  `ServersFollowDisk`. `SymbolState` carries the goodness of documents through capture,
  file and hydration. `FollowInv` says of every server and file, at each step of its scan,
  queue and worker: what is stored or read and about to be stored is what the disk holds,
  or a job or an event about the file is still to come.
  Catalogues: `CatalogTypeCorrect`, `AnswersStayCurrent`, `DiagnosticsAlwaysKnow`.
  `CatalogInv` says of every file what it `Covers` in each of its states (whole, emptied,
  mixed, absent) and of every task what it knows at each step (`Sound`): what it received
  is at least what was a tick old when it asked, and what it goes back to is what was on
  disk. A tick preserves it only because no task outlasts one, as the model says. That a
  feed the prefetch did not leave out stays `Fresh` gives the diagnostics theirs.
- `DiagnosticsProofs`, the rules: `GateAdmitsNoOlder` is a fact about the lower bound of a
  conjunction of constraints for all versions, operator by operator, and
  `SupersededOnlyByKnown` its use. `PeersMayRest`: diagnostics are a function of the files
  (`diags = AllReported(docs)`), and equal fingerprints give peers equal facts, rule by rule.
  `ScanAndStoreAgree`: the bulk scan's facts are a fold over the module's files, the store's
  answers quantify over them; that the fold computes `Gathered` is shown by a least number of
  files where it would not. It rests on `DocsInv`: blocks are finitely many, test files
  configure nothing, and no file of a module calls that module; without the last the two
  differ, since the store looks for callers in other directories and the scan in all files.
  `FilesDoNotMatter`: two modules with the same blocks in other files (`Rearranged`) answer
  every question alike (`SameQuestions`, `SameAnswers`), and what one file reports another
  reports that holds the block (`ReportMoves`, rule by rule); the one report without a block,
  the missing `required_version`, moves to the file that has become the primary one.
  Publishing: `PublishTypeCorrect`, `LastTextsAreShown`. `DiagnosticsSettle` is about the end;
  `PublishInv` says of every state that the newest result sent for a document is of its
  stored text and of its peers' stored fingerprints, or a task that will compute such a
  result is due (`Known`). It needs what is under way of which task (`Flights`), that
  overtaken results are the oldest under way (`LateOnes`), what a task still has to do
  (`TaskState`), and that where edits of a document do not overlap each compares with the
  text it replaces (`LockState`).
- `AnalysesProofs`, the edits over files: `ItemsStayWhole`, `ReferencesAreKept`, `MovesAreRecorded`,
  `BlocksAreFiled`. An edit of the workspace maps each item by itself, so each theorem is
  about one request: what becomes of an item that refers and of what it refers to.
  The invariant (`TextInv`) is that items are well-formed, which rules out an edit that
  leaves a block of one family with the address of another, and that a body, and an index
  whose places are those of the text, have nothing the text has not (`CopyInv`): an edit
  computed from them then finds what it means to change. It is kept because the copy goes
  through the same map as the text (`ApplyDoes`, `ApplyInv`). `RenameReaches` says that
  where all occurrences are listed at their places the rename changes each of them and
  nothing else, and `RenameBoth` what that makes of declarations and references.
  Defaults: `DefaultsFlaggedRightly`, for types and defaults that nest to any depth. The types,
  expressions and values are given level by level (`TypesTo`, `TermsTo`, `ValuesTo`), each
  level made of the one below, and what is defined by going down one of them is a function
  `X` with `XBy` its step. `Recursion` shows by counting up the levels that a step which
  looks only at the parts of its argument has such a function, and `TypeOfIs`, `ShapeIs`,
  `SatisfyingIs` and the like that each `X` is one. With that, an induction over the levels is one over
  the numbers up to `Depth` (`LevelByLevel`). The
  theorem is `AcceptedSatisfies`: if a type accepts every value of a constant and drops no
  attribute of one (`Kept`), the shape of the constant satisfies what the type was read as, form by form of the constant. For a
  conditional it needs that shapes which both satisfy a type merge into one that does
  (`MergeSatisfies`), and everywhere that a constant has some value and every value of a part
  occurs in a value of the whole (`ConstantsHaveValues`, `PicksReach`). `ConstantValues`
  says that these values are among those the types are asked about.
  Unknown values: `AlarmsHaveCauses`, for any modules, expressions of any size and schemas.
  What an answer depends on is given without recursion, as whatever is in every set of nodes
  that holds the query and, with a node, its parts (`Closed`). `AnalysisInv` says of each such
  set that every call still to make is about a node of it, with loop variables bound to
  nodes of it (`Placed`), and that a call out of a resource's configuration stands in every
  closed set that holds the parts of the node which read that configuration (`GoodFrame`);
  the latter turns "this resource has been seen on the way here" into a resource that
  depends on itself. `ExpandOutcome` shows, form by form and question by question, that a
  call answers yes for a cause in the set or leads to calls that are placed in it; the
  comprehension (`LoopIs`), the flattened fields of elements (`FlattenFollows`, by counting
  up) and a module's output, which starts with nothing seen, are the cases with work in
  them. The exception had to be restated for the proof: a resource whose configuration
  reads another of its own attributes is reported although no name is defined by itself,
  so what is excepted is a resource that refers to itself (`Circular`), which Terraform
  refuses as well.

Assumptions, besides bounds being numbers: null values are not values of what they stand
for (`NothingAssumption`, `QueueAssumption`, ...); the parser's result is a function of the
text (`StoreAssumption`); an open document has a version of at least 1 (`SyncAssumption`);
prefetches and completions are different tasks (`CatalogAssumption`); a module's files are
finitely many and ordered, for the order of paths decides which is the primary one,
test files and callers are apart from them, thresholds are versions (`RulesAssumption`);
the file a kind of block is filed in is one of its directory (`EditConstants`); keys have an
order and a depth is a number (`KeysAssumption`, `DepthAssumption`), a variable's type is
one of the types or missing (`InputsAssumption`); the rules ask three questions
(`ProgramsAssumption`). TLC
evaluates all of them in the runs. What the proofs needed and TLC had not shown missing:
`MaxVersion > 0`, and that home files belong to the workspace.

Only model-checked:

- Every liveness property (`ServesQueue`, `BegunEnds`, `Converges`, `InitNoticed`,
  `ScansEnd`, `AnalysisEnds`): the prover does not treat fairness and ENABLED.
- The second half of `VerdictRight`, that nothing Terraform would refuse is overlooked, and
  `SuggestionFits`: about what recursive definitions compute for nested data. The library's
  induction theorems take an operator as a parameter, which the installed provers cannot
  instantiate, and `PlanTimeValues` and `SuggestedTypes` declare RECURSIVE operators, which
  those of `VariableTypes` no longer are. The merge of observations also depends on their
  order, and goes down two types at once. The first half of `VerdictRight` is
  `ReportsHaveCauses` for the smallest closed set; the set of all of them is beyond TLC.

## 5. Disagreements seen without a run of their own

Documents and indexing:

- `handle_disk_removal` checks `is_open`, then removes; a did_open in between loses its
  document and later edits do nothing, against `indexer.rs:733` "NEVER drop an OPEN
  buffer". Same kind of window as `SyncClobber`. Once such a write has reset the version
  to 0, a reordered older edit that arrives late is applied as well.
- A change of an earlier session that still waits for `doc_lock` when the document is
  reopened has the higher version and replaces the reopened buffer, against
  `capabilities.rs:17-19` "the server's rope is always exactly the editor's buffer".
- A disk read begun before a close and stored after a reopen, or a load of a file
  deleted meanwhile, leaves text that is neither the editor's nor the disk's
  (`indexer.rs:1222-1227`); a removal handled while a ParseFile load is under way brings
  the deleted file back.
- A file changed between its read by the scan and the start of the watcher is never
  noticed (`FollowsDisk` excepts it).
- did_close leaves its directory Completed while its file leaves the store, against
  `store.rs:103-104` "guaranteed to be in". `CompletedUnlessClosed` excepts it.
- The bulk scan completes directories without asking for child scans, although
  `tfls-engine/src/module.rs:576-577` expects the indexer to populate them
  recursively. `ChildrenTracked` excepts these directories.
- A batch rejected midway returns before `add_to_indexes`, against `store.rs:697`
  "`add_to_indexes` always runs". Unreachable with FULL sync; `rejected` keeps the
  properties precise about it. `README.md:113` of the repository calls sync
  "Incremental"; the capability is FULL.
- An enrichment task of an earlier fetch may re-install older schemas after a later
  fetch, while `installed_provider_versions` is documented as "populated alongside"
  the schemas (`store.rs:120-121`). `SchemasCurrent` therefore speaks of the worker's
  installs only.
- `index_cache.rs:357-358` promises a "direct write" when the rename fails; the code
  (369-375) removes the temporary file and returns the error.
- `index_cache.rs:9-11` and `indexer.rs:502-508` say hydrated entries are not parsed again;
  `parse_and_upsert_files` (`tfls-engine/src/index.rs:138-143`) skips only open documents and
  those with a body, and a hydrated one has none.

Formatting and catalogues:

- `minimal_text_edits` takes the line numbers of the diff for ropey's (`formatting.rs:82-88`),
  although `position.rs:7-16` says why ropey's lines are not the editor's: ropey counts a
  break at VT, FF, NEL, LS and PS too. In a file with one of them above a changed line the
  edits replace other lines than the formatter changed, against "Unchanged lines are never
  touched" (`:73`). A carriage return on its own is a line for editor, diff and ropey and
  none for the server's positions, with the same effect. `EditsGiveFormatted` excepts both.
- `OnDiskVersionCache` reads the tool-versions files as lists of strings
  (`pipeline.rs:647-649`), while `tool_versions.rs:234-253` writes objects: the lookup fails
  and no `required_version` is ever found unmatched, against `version_constraint.rs:5-12`
  (`tfls-diag`). The model's diagnostics know no CLI release.
- `is_provider_cached` and `is_module_cached` are content with the file of either registry, of
  whatever age and even torn, `tool_versions::is_cached` with two of any age; only
  `is_repo_tags_cached` looks at the age. What one registry failed to give, or a dying
  process truncated, no prefetch brings back, and nothing but a completion renews what has
  expired, against "24h disk cache" (`version_prefetch.rs`). `DiagnosticsKnow` excepts
  these feeds.

Diagnostics:

- The fingerprint of a file leaves out sensitive flags, `default_tags` of provider
  blocks and calls of provider functions, which rules of peers read
  (`handlers/document.rs:166-171`, `:348-350`). `PeersRefreshed` excepts these.
- Coalescing keeps the newest edit's diagnostics only while results arrive in the order
  they were computed (`document.rs:270-271`, `:303-305`, `:393-396`), and the comparison of
  fingerprints only while edits of one document do not overlap (`:304-309`).
  did_close refreshes no peers.
- An untyped, unreferenced variable of a root module that cannot be applied is reported
  neither as unused nor as untyped, against "matching `unused_declarations`'s own gating"
  (`typed_variables.rs:6-12`, `pipeline.rs:204-209`).
- Test files beside a module count as its configuration, despite `pipeline.rs:103-107`.
- The snapshot compares paths as they are written, the store's adapter tolerates symbolic
  links. `extract_required_version` reads the first `required_version` only.
  `min_admitted_version` is documented as the "Lowest version that satisfies every constraint"
  and ignores `>` and `!=`, which errs on the quiet side (`GateSound`).
- `standard_module_structure`'s `should_flag` ignores its `present` argument; an edit of a
  caller's module block does not refresh the child module's files;
  `module_locked_provider_version` looks the source up by the local key.
- The unknown-value analysis takes the loop variables of `%{ for }` template directives for
  resources and flags them; it overlooks comprehensions over objects with computed keys,
  and keys no loop variable occurs in; the index of `for k, v in [..]` is treated as an
  element.

Edits over files:

- A conversion in module scope rewrites the `from` of `moved` blocks that exist
  (`emit_null_resource_traversal_edits`, `code_action.rs:1214-1273`), against "idempotent"
  (`:1707-1710`, `:1978-1980`). A selection of null_resource blocks gets no `moved` block at
  all (`:1788-1792`, `:1912-1915`).
- rename is said to produce an edit "that renames every occurrence of the symbol under the
  cursor to `new_name`, across all indexed files" (`rename.rs:66-67`). Six ways it does not, all in the model:
  - A file with a syntax error is scanned (`document.rs:240-276`), and a declaration's place
    is then its name within the quotes (`fallback_symbols.rs:189-229`).
    `narrow_quoted_label` (`rename.rs:245-251`) looks there for the name with its quotes, finds
    nothing, and the declaration keeps its name while its references change.
  - A buffer of which no body can be made keeps the symbols and references it had
    (`document.rs:207-213`): what was written since is missed, and edits go to the places
    where things used to be. (In a file that was opened so, the scan's
    places are right until the next edit.)
  - An output is read as `module.m.out`, which is indexed as a reference to `m`
    (`references.rs:18-30`, `:179-181`); renaming the output leaves these as they are.
  - An attribute that repeats the name of what it is read of takes the edit
    (`rfind_ident`, `:268-293`): `var.x.x` becomes `var.x.z`.
  - A local has no label, so its definition stays.
  - The key of a resource is `type.name`: its label is not found, and in a reference the
    new name replaces the type along with the name.

  `ReferencesKept` says what holds outside these cases. rename acts on the workspace although
  `navigation.rs:71-80` says a module is a directory.
- The stubs for undefined variables are worked out from the references the store holds,
  which for a buffer without a body are those of an earlier text (`code_action.rs:569-593`):
  one may be declared that nothing refers to any more, and one that is missing be
  overlooked. `FiledInPlace` speaks of modules whose text is known.
- Conversions and moved outputs carry no document version, though `rename.rs:153-159`
  says they mirror one another. `emit_null_resource_actions` calls
  `module_supports_terraform_data` inside `for_each_doc_in_scope`, which
  `code_action_scope.rs:80-83` forbids.

Types of variables:

- When the last caller of a module goes, the entry it left stays (`CallersAccumulate` shows
  the opposite mistake), against "a removed caller or deleted tfvars file doesn't leave a
  stale type hanging around" (`tfls-engine/src/index.rs:388-390`). The types are rebuilt with
  scans only, never after an edit.
- `merge_types` treats `any` as its identity and as the result of a conflict, so that what
  [string, number, string] merges to depends on the order, which is a hash map's, against
  "we skip rather than guess" (`code_action.rs:3076-3079`); a key only some callers pass
  keeps its type in the suggested object, against "missing keys collapse to `Any`".
  `SuggestionFits` therefore speaks of observations a reader would give one type.
- `toset([..])` and `tolist([..])` of literals get the shape of an object of their elements,
  which is right for the keys of a for_each and wrong as a type; `lookup` takes its default's
  type only where nothing else tells. `SuggestionFits` excepts these.
- A default that is a comprehension is flagged against a tuple or an object type it
  satisfies, against "never a false positive on valid config" (`variable_type.rs:815-822`).
  `NoFalseMismatch` excepts it.
- A default with an attribute its object type does not name is flagged
  (`variable_type.rs:795-799`; tests `satisfies_object_extra_field_flagged` and
  `flags_object_extra_field`), although Terraform accepts it and drops the attribute:
  intended (`:768-769`), and yet not the "intentionally conservative" of `:756-757` nor
  "never a false positive on valid config" (`:815-822`). `Accepts` is Terraform's rule,
  `Drops` says which values lose something; `NoFalseMismatch` lets a default be flagged for
  the one or the other.
- A default `["a"]` suggests `tuple([string])`, which refuses longer lists; a suggestion
  taken from callers is not compared with an empty default (`{}` or `[]`), which is then
  flagged by the rule on defaults.
- `CallerScopedLookup::local_shape` (`index.rs:536-575`) has no guard against a local that
  refers to itself.
- `rebuild_unknown_module_vars_for_dir` is said to converge "over the successive scan
  rebuilds" (`index.rs:203-211`); each directory is rebuilt once in a scan, in the order of
  a hash map. Of two module blocks of a directory that call one child, the bits
  of the one read last count (`index.rs:275-288`), against "OR-join across caller sub-maps"
  (`module.rs:270-271`).

## 6. What is not modelled, and why

- The parser, the schema-driven validation of one block, the other single-file rules, the
  formatter, the walker, completion, hover, navigation, inlay hints, documentation search
  and the edits of one expression: functions of one text (and of schemas that do not change
  under them), whose cases the repository tests by example; their outcomes appear as
  constants or choices. They are most of the lines of the code.
- The provider protocol, the registry documentation and its cache, the command line, the editor
  integrations: I/O.
- Within modelled parts: failing fetches in `SchemaInstall` (the recorded time is by design
  not retried); a panic inside a mutator of `StateStore`; pull diagnostics and severity
  overrides; the map of unknown module variables (section 5 says what reading it showed);
  shapes of provider attributes; other scans' competition with two did_open handlers in
  `ScanTracker`, whose safety was explored without a violation but whose liveness takes too
  long. `DocumentSync` and `IndexCache` state a `TypeOK`
  that no run checks; section 4 says where it is proved.
- dashmap's shards, tokio's scheduler and tower-lsp's transport are modelled from how the
  code uses them.

Worth doing next: the map of unknown module variables over successive scans; the
evaluation of `PlanTimeValues` and the merge of `SuggestedTypes` with functions in place of
RECURSIVE operators, level by level as in `VariableTypes`.
