# Airship: a TLA+ verification project

Airship is an agent workbench that runs entirely in a browser page: no server of
its own, several pages and devices that share one encrypted store, turns of
several conversations running at once in one page. What can go wrong in it is
seldom one function. It is an answer that is lost after a write was applied, a
page that closes between two writes, a Stop that falls between an approval and
an effect, a conversation that was deleted and restored under a reader. This
directory models the parts where those things are decided, checks them with TLC
on small instances and proves the central results with TLAPS for every size.

Paths below are relative to `src/src/` of the repository unless they say otherwise.

## 1. Inventory

| Part | State it keeps | Operations | What makes it hard |
|---|---|---|---|
| Encrypted object journal (`storage/encrypted-object-journal.ts`) | per conversation a head object or a deletion marker, immutable segments | create, list, read, append, delete, finish a deletion, reclaim a failed append | several pages over one store; lost answers; partial reclamation; IDs that are reused |
| Object stores (`storage/google-drive-object-store.ts`, `s3-object-store.ts`, `local-device-object-store.ts`) | objects with ETags; on Drive an index file and a cache of it; on the device a pointer to a generation of record files | get, putIfAbsent, compareAndSwap, list, trash, sweep, export, restore, destroy | conditional writes built from index rewrites; requests that arrive late; first opens and restores cut in half |
| Ciphertext cache (`storage/client-ciphertext-cache.ts`, `caching-object-store.ts`) | pages, an index record that tabs share, each tab's view of it | read through, evict, flush, reconcile | merges of views that are already old |
| EventJournal (`core/journal.ts`), memory backend (`core/memory-journal.ts`) | a promise chain per conversation | append, appendAtHead, deleteSession | state read before an await and used after it; callers that abort |
| Tool approval (`tools/registry.ts`, `approvals/*.ts`) | tickets, closed operations, live requests, unread outcomes, provenance, the active policy | review, executeApproved, request, decide, settleAll, defer, resume, replace | a person, a timer, an abort, a mode switch and the page racing for one request |
| Agent turn (`core/agent.ts`), its history, session audit (`core/session-audit.ts`) | the events of a conversation | admission, model steps, tool batches, compaction, terminal events | Stop, other tabs, the other engine, appends that lose their answer |
| PRIME (`prime/*`): agent loop and session authority, kernel host, subagent registry, harness store | a driver's queue and event cache; a worker and its jobs; children and their sinks; entries and refinements | run, steer, abort, dispose; exec, cancel, restart; spawn, send, stop, reap; refine, roll back | abandoned reviews, hard cancellation, listeners that call back, caches of several tabs |
| Vault (`vault/*.ts`) | manifest, files, reclamation queue; configuration, key, probe and runtime of a page | write, remove, sweep; configure, attach, probe, cancel; adopt | late swaps, probes that were superseded, adoption that fails half way |
| Sessions and profiles (`sessions/*.ts`, `profiles/*.ts`) | events in the conversations' logs; a catalogue under one head | star, move, select, delete, fork, re-pin; edit, adopt a release | clocks that disagree, projections read one log at a time |
| Terminal (`terminal/manager.ts`, `workspace-sync.ts`) | a process per tab, a lease file, a mount and its baseline | start, stop, renew, quiesce; capture, reconcile, mount | tabs of several pages, shells that write while a sync runs |
| Inference fabric (`inference/`) | bindings, streams | activate, stream | wire formats |
| Browser Git, execution packs, retrieval | virtual files, indexes | commands | mostly I/O and parsing |
| UI shell (`ui/`) | presentation | | about a third of the code; what it does to the parts above is in their modules |

How the parts meet. The UI starts turns of one of the two engines; a turn appends
its events through EventJournal, which serialises the page's own writers per
conversation and hands each append to the backend in force; a Vault's
backend is the encrypted object journal over one of the stores, beneath the
ciphertext cache. For every tool call the turn asks the registry for a review,
which asks the conversation's policy, which asks the page's one approval broker;
the decision is journaled, then the call executes against the ticket the review
left. One AbortSignal per turn reaches all of them. The coordinator decides which
Vault a page works on, and an adoption moves the page's work there. Pages share
nothing but the stores.

What makes each part correct:

* journal backend: a committed conversation stays readable and never forks; a
  write lands only where its caller looked; nothing deleted stays behind
  unreachable; an interrupted deletion can be finished;
* append queue: the page's writers never refuse or reorder each other, a
  cancelled append is not in the log, nothing blocks the queue;
* approvals: no effect without authority, each approval spent once and on what
  was reviewed, nothing after Stop, a record that names a person only if a person
  answered, and every review ends;
* turns: the audit accepts what an engine wrote, requests are well formed, what
  was stopped is not acted on again, one turn and one engine at a time, and every
  admitted turn gets its terminal event;
* PRIME: a job's effects end before its result, a child settles once, a
  refinement builds on what is stored;
* stores: each write takes effect once, atomically, under its precondition;
* vault: nothing in use is swept, only what was probed is ready, a move loses
  nothing;
* library and catalogue: what a page derives from a log is true of one head of
  it, and no edit is overwritten unseen;
* terminal: no process out of reach, and neither side's work is lost.

The hazards behind these, each at its line, are listed in `PROJECT.json`.

## 2. Modules

| Module | Models |
|---|---|
| `JournalBackend` | the contract of every journal backend (abstract specification): one conversation that is absent or holds a log under an incarnation |
| `EncryptedJournal`, `EncryptedJournalProofs` | the encrypted object journal over an unreliable store; that committed conversations stay readable; what its heads promise, and that it implements `JournalBackend` |
| `EventJournal`, `EventJournalProofs` | the append queue of one page over a backend that others write too; its theorems |
| `ToolApproval`, `ToolApprovalProofs` | registry, policies and broker for all conversations of a page; its theorems |
| `Transcript` | `materializeMessages`: the provider history computed from a journal |
| `TurnAudit` | the session audit's walk over turns, with its own copy of the history |
| `CoreTurn`, `ConversationProofs` | turns under the core engine, over `Transcript` and audited by `TurnAudit`; that they are serial, and the theorems of `SessionLibrary` |
| `PrimeTurn` | turns under the PRIME engine, over the same two |
| `KernelHost`, `KernelHostProofs` | PRIME's kernel host: queue, worker, bridge, timers, kill and boot; its theorems |
| `SubagentRegistry` | spawned children, their sessions and sinks |
| `HarnessStore` | entries and refinements over IndexedDB, with each tab's cache |
| `ObjectStore` | the contract of every object store (abstract specification) |
| `DriveStore`, `DriveStoreProofs` | the Google Drive store and the sweep of untracked bodies; its theorems and its refinement of `ObjectStore` |
| `S3Store`, `S3StoreProofs` | the S3 store; its theorems and its refinement of `ObjectStore` |
| `LocalStore` | the Local Device vault over OPFS or IndexedDB |
| `CiphertextCache` | the read-through cache of a Vault's tabs |
| `VaultWorkspace`, `VaultProofs` | manifest, files, reclamation queue and its sweep; its theorems, those of `VaultCoordinator` and of `ProfileCatalog` |
| `VaultCoordinator` | configuration, key, probes and runtime of a page |
| `VaultAdoption` | the move of a page's work into a Vault |
| `SessionLibrary` | favourites, the active conversation, deletes, forks, inspections, re-pins |
| `ProfileCatalog` | the catalogue's edits, its stores, and its union with a release |
| `TerminalSession`, `TerminalSync` | a tab's process, lease and authority; the files of the mount |

Composition. `EncryptedJournal` implements `JournalBackend`; `DriveStore`,
`S3Store` and `LocalStore` implement `ObjectStore`, which is what
`VaultWorkspace` and `EncryptedJournal` assume of their store; `CoreTurn` and
`PrimeTurn` extend `Transcript` and run `TurnAudit` beside the journal they
write; `SessionLibrary` and `VaultAdoption` assume the journal contract.

The `MC` modules instantiate these for TLC. `MCEncryptedJournal` and
`MCToolApproval` give the model values of one module each. The others are suites:
`MCTurns`, `MCPrime`, `MCDrive`, `MCStores`, `MCVault`, `MCPage` and `MCSettles`
hold several instances of several components, called scenarios. The variable
`scenario` is chosen in the initial state and never changes, each instance steps
only in its own scenario, and a property of a suite says what must hold in which
scenario. Components of a suite that never run together share variables of the
same name. `MCTurns`, `MCVault`, `MCStores`, `MCDrive` and `MCPrime` extend the component
they are mainly about, `CoreTurn`, `VaultWorkspace`, `S3Store`, `DriveStore` and
`KernelHost`, and their configurations give its constants: the properties of that
component they check are the very definitions the theorems are about. In the scenarios
of the others its variables keep their initial values (in `MCPrime` the ones its property
speaks of do), and in `MCTurns` its journal stays empty, PRIME writing one of its own
(`plog`). The other scenarios of `MCDrive`, the core scenarios of `MCTurns` and
*listeners* of `MCPrime` are the same component under other bounds, over the same
variables, so its properties hold in all of them.

Each module begins with what it models and what it abstracts from; what follows
is how to read the larger ones.

### EncryptedJournal

One conversation ID. `head` is the object under the head key and `store` the
set of segment objects; everything else is per page: `pc` says at which store
call the page is inside a backend call, `loaded` is the head record the call
loaded (with its ETag, which identifies the bytes), `mine` the segment an append
owns, `todo` the segments still to be read or trashed, `known` the head the
page's caller was shown. `published` and `retired` are history variables.

Each `await` on the store ends a step, so one backend call is several actions:
`AppendLoad`, `AppendPut`, `AppendCas`; `DeleteLoad`, `DeleteCas`,
`SweepBatch` once per batch of `MAX_SEGMENT_TRASH_BATCH`, `Retire`; `CreatePut`,
`CreateGet`, `CreateRestore`; `ReadLoad`, `ReadSegment`; `ReclaimCheck`,
`ReclaimTrash`. The actions ending in `Throws` are the same calls failing: the
write has or has not been applied. `Crash` closes the page at any await.
Consecutive store calls stay one step only where nobody else can act on the
object in between: the verification read and the trash of an attempt's own
segment, and the read that follows a refused retirement and changes nothing.

Digests chain over all earlier events, so a head is represented by its log. One
modelled event is one appended batch and one segment. Encryption, envelope
parsing and record validation are left out; what `parseHead` demands of the
segment chain is kept (`ParsesHead`).

Three constants describe stores and releases: `AbsentReclaimed` (does `trash`
confirm a key that is already gone), `IndexCache` (may `get` answer from an index
the page cached), `LegacyCleanup` (may an older release remove completed markers).
`Tokenless` are the pages whose callers hold heads without an incarnation token.

### EventJournal

Calls are numbered in the order they are made and each is where its
promise chain is: queued behind `pred`, reading the head, committing, done.
`settled` are the links of `trackAppend` that have settled, `tail` is
`appendQueue.get(sessionId)`. Other clients move the head (`RemoteMove`), the
backend fails with or without applying the write, signals fire at any time.
`createSession` and the projections of titles, pins and recency into the record
are not in this module; the window between a new session's record and its first
batch is in `SessionLibrary`.

### ToolApproval

Operations of several conversations go through `review`: `digest`, then the
policy in force (`PolicyAllows` or `PolicyAsks`), `asked` in the broker,
`settled`, `decided` when the policy has resumed, `returned` from the registry,
`closed` when the decision is journaled. Every action on the other side of the
race is there: `Decide`, `DenyAll`, `Expire`, `PageWithdraws`, `Abort`,
`Replace`, `FocusSession`, `Defer`, `Resume`. `Abort` is one step because abort
listeners run synchronously when the signal fires. A registry refusal for an
unknown tool, invalid arguments or an operation that was reviewed before leads
nowhere and is the absence of a step. The size limits of the ledgers are far
above the requests a page can have in flight (`ApprovalAssumption`).

### Transcript, TurnAudit, CoreTurn, PrimeTurn

`log` is the durable journal: records with a type, a turn, an operation and the
payload fields that decide the history. `Transcript` computes from it what a
request contains, as `materializeMessages` does: the latest compaction, injected
context, answered calls, the salvage of cancelled turns. `TurnAudit` is the
audit as an automaton with `Step(audit, event)`; it edits its own copy of the history
event by event, so `AuditAccepts` compares two computations of the same thing
across every interleaving. A turn's `pc` is the await it stands at. An append is
one step that succeeds, is refused by the turn's signal, throws, or is applied
and throws. In `PrimeTurn` the loop's listeners, the direct appends of the
session and a review the loop has abandoned are separate sources of records, and
`seen` is the session's incremental cache of the journal.

### KernelHost, SubagentRegistry, HarnessStore

`KernelHost` models one thread exactly: `stack` holds the synchronous frames
still to run and `micro` the promise continuations, so re-entrant listeners and
the order of two awaits of one promise are as in the browser.
`SubagentRegistry` has a child's phases (admitted, building, running, settled),
its sink's queue and the owner's turn. `HarnessStore` has IndexedDB's
transactions as a queue in opening order and each tab's cache beside the store.

### ObjectStore, DriveStore, S3Store, LocalStore, CiphertextCache

`ObjectStore` says what the layers above rely on: one call per page, applied
once under its precondition, refused truthfully, and, if it failed, applied,
lost or `late`. The three stores map their own request records to it. In
`DriveStore` a mutation uploads a body, loads the index, rewrites it under
If-Match and may lose the race, the answer or its page between any two requests;
gets and fills of the index cache run beside it. `LocalStore` has every file
system call as a step and tears a file whose first write does not end.
`CiphertextCache` has the shared directory and index record and each tab's view.

### VaultWorkspace, VaultCoordinator, VaultAdoption

`VaultWorkspace` shows each store request of a write, a removal, the entry in the
reclamation queue and the sweep, over `ObjectStore`'s guarantees. `VaultCoordinator` has one
step per synchronous method and per await of a probe; `generation` and
`controller` are the code's own fences, and a probe's `revived` and `left` are history:
it put back a runtime the coordinator had let go of, over a cache that was in use. `VaultAdoption` copies catalogue, files and
conversations step by step while the page it leaves and other devices go on writing.

### SessionLibrary, ProfileCatalog, TerminalSession, TerminalSync

In `SessionLibrary` every choice is an event in a conversation's log and every
projection reads the logs one at a time; stamps are drawn in any order because
the clocks of two browsers agree on nothing. `ProfileCatalog` computes an edit,
validates and hashes it, and commits if its checkpoint is still the head.
`TerminalSession` has each async call of a page as a task that advances one
await at a time, and `Overlap` names the tasks another call may meet; `eluded`,
`displaced` and `robbed` are history, of starts that a stop or another start overtook.
`TerminalSync` has a sync's export, comparison, checks, writes,
confirmation and remount as steps, with the Editor and the shells between them; `adopted`
and `bare` are history, of outgoing syncs and failed mounts.

## 3. Runs

| Run | Shows | Instance |
|---|---|---|
| `journal` | `CommittedReadable`, `ShownHeadIsPrefix`, `NoStrandedCiphertext`, `MutationsLandWhereRead`, and that the backend implements `JournalBackend` | 2 pages (one tokenless), 2 events, 2 segments, batches of 1, 4 IDs a page, 1 fault |
| `journal_stale` | `StaleReadsMisleadNoWrite`: a store that answers from a cached index, beside an older release that removes markers | 2 pages, 1 event, 2 segments, 3 IDs a page, 1 fault |
| `queue` | `ConflictsComeFromOutside`, `CommittedInCallOrder`, `AbortedCommitsNothing`, `EveryCallReturns` | 3 calls, 1 move of another client, 1 failure |
| `approval` | `EffectsAuthorized`, `RunsOnceAsReviewed`, `RecordsNameWhoAnswered`, `NothingSurvivesAbort` | 2 calls of 6 kinds, all modes, 2 argument values, a broker of 1 |
| `turns` | `AuditAccepts`, `HistoriesAreWellFormed`, `StoppedRequestsStayStopped`, `OneTurnOneEngine` | `MCTurns` |
| `prime` | `JobsAreContained`, `ChildrenSettleOnce`, `RefinementsBuildOnWhatIsStored`, `RollbacksAreExact` | `MCPrime` |
| `drive` | `KeepsContract`, `IndexedBodiesAreKept`, `ReadsOwnWrites` | `MCDrive` |
| `stores` | `KeepsContract`, `ListingsAreSound`, `OneVault`, `CacheIsAccounted` | `MCStores` |
| `vault` | `CommitsReplaceWhatTheySaw`, `ReferencedFilesAreStored`, `ReadyIsProbed`, `AdoptionLosesNothing` | `MCVault` |
| `page` | `MovesLand`, `DeletesWhatWasRead`, `DerivedFromOneHead`, `CatalogIsChained`, `ProcessesStayInReach`, `NoWorkIsLost` | `MCPage` |
| `settles` | `EverythingSettles`: what must eventually happen, under fairness | `MCSettles` |
| `drive_cache` (violated) | a stale fresh-head check loses a committed segment | 2 pages, 1 event, 1 fault |

A property of a suite is a conjunction of properties of its components, each
guarded by the scenario it is checked in; the components' own modules state and
explain them one by one. Properties about a step are actions there, and the suite
checks `[][scenario = ... => Action]_vars`. A refinement in a suite is checked as
the initial condition and the next-state relation of the abstract module under
the same guard (the last part of `OneVault`). `KeepsContract` of `drive` excepts one step,
`SpentRefusal`: the refusal of a swap whose retries are spent (`RefusalsAreTrue` below).

For each property one changed definition is listed that breaks it (`mutants` in
`PROJECT.json`). The modules hold such a changed definition, marked as a fault
and standing before the real one, for every conjunct of every suite property:
each conjunct was seen to fail in its scenario with its fault in place, so no
scenario is too small for what it is there for.

### Scenarios and bounds

* `turns`. *batches*: one core turn with read batches, unknown, denied and
  throwing calls, two steps and a journal fault. *histories*: two turns,
  completed, failed, stopped or compacted anywhere. *compaction*: three turns
  of one step with summaries, injected context and slash prompts, so that a summary can be
  cut by a later one. *races*, the configuration's constants: two tabs, the other
  engine's claim, a model change, a crash and a fault. `OneTurnOneEngine` is checked
  in these four. *lanes*, *tabs*, *lost*, *stopped*: PRIME turns
  through each lane of the loop, with a second authority, with an append that
  fails or loses its answer, and with Stop, the host's signal and dispose.
* `prime`. *spawning*: two spawns for two names; *messages*: one child, three
  messages; *jobs*: three jobs, a fault, a terminate or restart; *listeners*:
  three jobs and listeners that call back; *edits*: two tabs and proposals that
  edit a key twice; *rollbacks*: two tabs and refinements rolled back over edits,
  deletions and re-creations, also the rollback itself; *alone*: one tab whose transactions
  fail, with a proposal that edits a key twice.
* `drive`. *calls*: two pages, one key, four calls, three rewrites a call;
  *faults*: three such calls and a fault; *sweeps*: two keys removed and swept while written; *opening*: two pages
  find no index; *reads*: gets and cache fills beside writes.
* `stores`. *bucket*, *listing*: two pages' writes and deletions of two keys under every fault
  S3 answers with, and listings of up to three pages with unanswered reads; *records*, *founding*, *restoring*: Local Device
  writes with crashes and a full disk, first opens under two keys while the
  browser gains OPFS, restores and destruction; *one_tab*, *busy_tab*, *two_tabs*: the
  cache under one call at a time, under two calls of one tab with refused writes and
  removals, and under two tabs with crashes and a lock that is not granted. The budgets
  are of one or two pages, so that evictions happen.
* `vault`. *files*: two pages write, read and remove two files, with late swaps
  and sweeps at any age;
  *probing*: three probes, re-probes of a ready Vault among them, crossed by up to five
  commands over two vaults and two keys; *retaining*: the same over a store that cannot remove a
  probe's objects; *moving*,
  *refused*, *newborn*: an adoption with two or three attempts into a blank, a foreign and
  a used Vault.
* `page`. *favorites*, *orders*, *active*, *forks*, *repins*: two pages, up to three
  conversations, stamps in any order; *editing*, *sharing*, *memory*, *upgrades*:
  one to three owners of a catalogue, and in *upgrades* three releases, one of which ships
  another theme and one of which repaints a theme in use; *tab*: one page whose starts, restarts,
  closes, handovers and exit handlers meet one another; *heartbeat*: one call at a time, with
  renewals and faults of storage; *lease*: two pages and one tab with reloads; *handlers*: two pages that
  start again while an exit handler or an earlier start goes on; *life*, *shared*, *fence*: one or
  two tabs over one or two files, with the operator's own syncs and failed mounts in *shared*.

Why the bounds suffice for the cases of interest. Four IDs a page in `journal`
allow create, append, delete and the restore of the same ID with both pages
involved, which is what the incarnation fence is about; two segments with batches
of one put a crash between two batches and reach the segment limit; one fault is
one lost answer, one crash or one partial batch at any await. Three queued calls are a
predecessor, a call that leaves, and a call behind it. Two operations and a
broker of one make a request meet a full broker. In the suites two actors, one or
two objects and one or two faults are enough for every race the conjuncts are
about, as their faults show; counters are bounded by named constants
(`MaxFaults`, `MaxCalls`, `MaxRevisions` and so on) that appear in guards only.

Deadlock is checked for `journal` and `journal_stale`, whose pages can always
start another call.
The other instances make a bounded number of calls and then stop.

### Fairness

* `EncryptedJournal`: weak fairness of a page's progress, because a store that
  answers resolves the awaited promise. Nobody is assumed to repeat a deletion: a
  page that closed leaves a session no list shows, so nothing in the code takes it up.
* `VaultWorkspace`: the same for the steps of a call, and strong fairness of the next
  sweep, which is somebody pressing "Reclaim storage" again.
* `EventJournal`, `SessionLibrary`, `VaultCoordinator`, `VaultAdoption`,
  `CoreTurn`, `PrimeTurn`, `TerminalSync`, `SubagentRegistry`: weak fairness of the steps of a
  call, because every awaited promise resolves or rejects; nothing is assumed of
  signals, people or other clients.
* `ToolApproval`, `KernelHost`, `TerminalSession`: in addition the timers, which
  the browser fires.
* `LocalStore`, `CiphertextCache`: strong fairness of a step that waits for a
  Web Lock, because waiting requests are granted in order.

Failures are bounded in every instance, so a store recovers. `settles` holds one
instance of each of these; the components keep their state in the same
variables `v1`, `v2`, ... there, and `Owed` is what somebody waits for: an open call, of
the journal among others, an aged entry of the queue, a review, an
admitted turn, a job, a child, a starting terminal, a raised fence. A child whose turn was
refused before its loop began is excepted by name (`Stranded`): such refusals happen in the
run. The component modules state the same conditions one by one (`CallsReturn`,
`ReviewsSettle`, `AdmittedTurnsTerminate`, `CallsSettle` and so on).

### Finding

`drive_cache`. The fresh-head check that protects a committed append whose
answer was lost is a plain `get`. On Google Drive a `get` may come from the
page's cached index, which a read refills between the write's forced reload
and its PATCH and which a PATCH without an answer does not clear. The check
can then see the old head and trash a segment the new head names.

### Where code and comments part

While the modules were written, TLC found further places where the code does
something else than a comment, a doc or a test next to it says. They are not
runs of this project, but the properties that show them are in the modules.
A run deals with such a case in one of two ways. The entries marked (*in the run*) happen in
its instances: the property names the case as an exception, in its comment and in its
formula, and everything else is claimed in the states that follow it too. For each of these it was
checked that the property without its exception is violated in the instance, so the exception is not
idle. The entries without the mark are statements of their own that no run checks, or cases
that an instance leaves out (a call kind, a fault or a proposal that is not enabled); each was obtained by
enabling it in a small instance.

Journal and agents:

* `EncryptedJournal!CleanupCompletes` (*in the run* `settles`, which claims only that the
  calls return): on Drive a
  retried deletion resubmits keys whose trash answers `not-indexed`, which
  `hasConfirmedReclamation` does not accept (`storage/encrypted-object-journal.ts:432`,
  against lines 418-419); and on any store the retry that the error asks for has no caller
  once the page is closed (`sessions/library.ts:232`).
* `CoreTurn!CheckpointIsTrue`: a call that runs when Stop arrives ends, and its outcome is
  refused; the checkpoint then says it never ran (`core/agent.ts:736`, against 1502).
* `CoreTurn!ApprovalsMatchTheirMode`: a review that waits through a mode switch is
  recorded under the old mode (`ui/app.tsx:8199`, against `core/session-audit.ts:1024`).
* `PrimeTurn!ApprovedCallsAnswered` (`prime/runtime/session.ts:1642`, against 385),
  `ReviewRecordsAccepted` (1292, against 1257), `DisposedMeansStopped` (518, against 514),
  `OneTerminalEach` (1729, against 1710) and `TurnsNeverOverlap` with kernel notices
  and a second tab (1892, against 621).
* `SubagentRegistry!EveryChildSettles`, but for `Stranded` (*in the run*): a turn refused before
  its loop emits no agent_end (`prime/runtime/agent-factory.ts:188`, against 102);
  `ParentHearsFinality` (`prime/runtime/subagent-registry.ts:77`, against
  `prime/subagents/registry.ts:20`); `ReapSparesRunning` (`registry.ts:398`, against 392).
* `KernelHost!NoJobStranded`: exec while restart awaits its kill, and a listener
  that boots before `killPromise` is recorded (`prime/kernel/kernel-host.ts:641`
  against 583; 1333 against 1343); `GuestCodeIsContained` with both together: a
  listener's exec boots a worker while restart awaits its kill, restart lets go of
  that boot and starts a second worker, and nothing terminates the first (641).
* `HarnessStore!FailedRefinementsChangeNothing` with two tabs that create one key
  (`prime/harness/harness.ts:331`), `OwnWritesAreSeen` with two calls that hydrate
  (`store.ts:650`), `RollbackSparesRecreated` (*in the run*: `RollbackRefusesDrift` excepts a key
  that the refinement deleted, somebody created again and the rolling tab knew; `store.ts:986`,
  against `PORT.md:34`), refusals of proposals that edit a key twice (*in the run*:
  `RefusalsMeanDrift` excepts them; `store.ts:935`), `EventsAreKept` for two applies in one tick (`store.ts:895`, against 589).

Stores and Vault:

* `DriveStore!RefusalsAreTrue` (`storage/google-drive-object-store.ts:196`, against
  `docs/STORAGE_CONFORMANCE.md:21`) and, with `SlowCommits`, `CommitsNameKeptBodies`
  (494, against `storage/object-store.ts:139`).
* `LocalStore!OnlyNamedKeysChange` for a trash beside a write
  (`storage/local-device-object-store.ts:438`), `RecordsParse` (1454),
  `VaultOpens` (1034), `RuntimeKeepsItsVault` (637, against 623).
* `CiphertextCache` against `docs/CLIENT_STORAGE_ACCELERATION.md:85-97`. *In the run*:
  `RowsKeptAlways`, where `RowsKept` excepts a reconciliation's write over rows flushed since its
  listing and a page stored again by another tab (`storage/client-ciphertext-cache.ts:376`);
  pages without a row after a crash or a refused removal, which `Ceiling` and `Accounted`
  except as `orphans` (299); a budget for each tab and a page for each put that overlaps, in
  `Ceiling`; rows of pages that another tab removed, in `NoPhantom`. Left out:
  `RecordWithinBudget` with two puts of one tab (302), `NoPhantom` with two calls of
  one tab (333). And `NotServedOnceTrashed` (`caching-object-store.ts:162`, against 45).
* `VaultWorkspace!SupersededFilesAreFound` (`vault/reclamation-queue.ts:149`, against 59).
* `VaultCoordinator` (*in the run*): a re-probe that was superseded while it removed its
  objects puts its runtime back and shows it as ready (`vault/coordinator.ts:606`, against
  607; 644, against 452). `ReadyIsProbed`, `CachesAreClosed`, `ReadinessIsTheRunningProbes`
  and `RuntimeIsKept` name the runtimes so revived, the caches so left and such late claims,
  and nothing else.
* `VaultAdoption!OwnCopyIsNotRefused` after a pin changed (`vault/runtime-adoption.ts:250`,
  against 151), `NothingIsLeftBehind` (`ui/app.tsx:7000`, against 7330), `SeedIsWhole`
  (`ui/app.tsx:7061`, against `vault/runtime-adoption.ts:37`).

Sessions, profiles and terminal:

* `SessionLibrary!RetryIsNotRefused` (`sessions/library.ts:232`, against 214),
  `DeletedChoiceIsReported` (`sessions/profile-cockpit.ts:121`, against 97),
  `ForkSeedComesFirst` (`core/journal.ts:236`, against `docs/SESSION_LIBRARY.md:82`).
* `ProfileCatalog` (*in the run*): a release that repaints a theme some profile is pinned to
  is refused with its skills, and a catalogue that holds a theme of another release is
  written at every start (`profiles/catalog.ts:285`, 290, against 272). `BuiltInsArrive` says that then
  nothing changes, and `AdoptionIsStill` excepts such catalogues.
* `TerminalSession` (*in the run*): `OneWriter` excepts a page whose exit handler or earlier
  call released the lease after a later start had acquired it (`terminal/manager.ts:1017`);
  `ClosedTabsAreStopped` and `UnmountedOnlyWhenQuiet` except the process of a start that was
  acquiring its lease when a stop looked for something to stop, or was called while a close
  went on (405); these and `LiveProcessesArePublished` except one that a second start
  displaced (440). Statements no run checks: `SuppressedMeansTaken` (1361, against 84),
  `DeadLeaseIsTaken` (1293).
* `TerminalSync` (*in the run*): `UnseenRevisionsSurvive` excepts a revision that an outgoing sync
  took into the baseline (`terminal/workspace-sync.ts:165`); `OnlyShellChangesArePublished`
  and `BaselineDescribesMount` except a mount that failed (185, against 175);
  `ShellWorkIsAdoptedFirst` and `LiveShellKeepsItsMount` except the operator's own sync beside a
  live shell (`manager.ts:718`). Statements no run checks: `OwnWritesAreNoConflict` (137,
  against 135), `MountComesBack` (73).

## 4. Theorems

All proofs are checked by tlapm without assumptions other than the named
assumptions on the constants, which TLC evaluates on the runs. Every theorem
follows the same plan: an inductive invariant, a lemma per action that it
preserves it, and the property read off the invariant (or, for a property of
steps, off the invariant and the step). Frame lemmas carry most of the weight:
an action that writes only the acting page's entries is reduced once to that
page's conjuncts (lemmas like `OwnStep` and `OnePageMoves`), so an action's lemma treats
only what the action really disturbs.

### EncryptedJournalProofs

`LiveHeadsReadable`: `Spec => []CommittedReadable`, for any number of pages,
events, IDs, segments and faults, assuming that reads are fresh (`FreshStore`;
the finding shows why that is needed).

`CommittedReadable` is not inductive: it does not say why the segment a page is
about to trash is not one the live head names. `LiveInv` adds that: keys bear
the page and the number of the ID they were drawn with (`KeysDrawn`), an attempt's
segment is referenced nowhere before its own compare-and-swap (`Unpublished`) and is
stored by then (`Stored`), what goes to `reclaimTrash` is not in the live head
and can no longer get there (`Orphan`), and a sweep works on segments of a deleted
incarnation only (`SweepsDeleted`).

The second part of the module is what holds on any store, stale reads and older
releases included:

* `JournalTyped`, `ShownHeadsArePrefixes` (`ShownHeadIsPrefix`),
  `CiphertextNotStranded` (`NoStrandedCiphertext`);
* `MutationsLand` (`MutationsLandWhereRead`) and `StaleReadsAreHarmless`
  (`StaleReadsMisleadNoWrite`), under `Tokened`: every caller holds a token, or no
  read is stale and no marker is removed by an older release. Without either, a
  caller that names no incarnation may land on a second one with the same log, which
  is what the token is for.

And with fresh reads `JournalImplementsBackend`: `Spec => ImplementsJournalBackend`,
each step a step of `JournalBackend` or none.

The reason a stale head does no harm is that it once was the stored one.
`HeadInv` therefore speaks of all heads that decide anything (`Observed`: stored,
loaded, cached): each is well formed, names published segments only, and its log
is a prefix of the stored log while its incarnation lives. Incarnations are
compared by ID, so this rests on a restore's ID being unseen by any caller,
call, cache or deletion until it is installed (`Reserved`). Swept segments stay
gone (`SweptGone`), and a sealed segment extends the loaded head (`SealedAppend`).

### EventJournalProofs

For any number of calls, moves and failures: `QueueTyped`, `SingleWriter`,
`NoSelfConflict` (`ConflictsComeFromOutside`), `CallOrder`
(`CommittedInCallOrder`), `AbortsLeaveNothing` (`AbortedCommitsNothing`): all
safety properties of the queue.

`QueueInv` says that settled links are downward closed, that a call in the
backend has only settled calls before it, and that settled calls are over.
From it follow the single writer, that a commit comes after everything in the
log (`LogInv`), and that the head an append read still fits unless another
client moved it (`FitInv`).

### ConversationProofs: CoreTurn

`TurnsAreSerial`: `Spec => []OneTurnOneEngine`, for any number of turns and tabs, any
replies, decisions, faults and crashes, assuming `CoreAssumption`. A core turn and the
other engine's claim are never both in the journal, a turn is requested once and only
after every earlier turn has ended, and every record of a turn lies between its request
and its one end.

An admission decides on a snapshot that may be old by the time it is written: the
preflight looked at the history, then awaited. What makes it right is that the append
names the head of the snapshot and the journal only grows. So `Preflights` says of a
turn that has passed its preflight: if the head it saw is still the length of the log,
no claim is in the log and every turn in it has ended; `Claim` says the same of the other
engine's claim, with no turn requested. A turn that was admitted holds the newest request and no
end follows it (`Holders`); there is only one such turn (`OneHolder`), so what it writes
is inside it, and an end it writes is its only one. The hard case is a terminal whose
append throws: the catch block either still holds the request or finds it ended. A
turn whose request is durable though its answer was lost is `refused` and writes
nothing more; `Journal` brackets what is written without saying that every turn ends, which is
a matter of liveness (`EverythingSettles`) and of crashes.

### ConversationProofs: SessionLibrary

For any pages, conversations, calls, routes, stamps and faults, assuming
`LibraryAssumption`: `StableSnapshotsAgree` (`SnapshotsAgree`), `ForksAreTrueToOneHead`
(`ForksDescribeTheirSource`), `DeletionsWereRead` (`DeletesWhatWasRead`),
`RePinsNameTheirRoute` (`RePinNamesRoute`) and `UnracedChoicesWin` (`ChoiceWins`). The
`page` run checks the same definitions, through instances.

A page reads a conversation in several steps while others write, so what it derives is
true of one head only if the reads agree. `LibraryInv` says why they do: a log only grows
and a deleted conversation does not come back (`Onward`), so what a call has read is a
beginning of the log for as long as the conversation lives, no shorter than the head it
had before the read (`OwnRead`); if the head is the same after the read, the events are
exactly those of the head. A fork's lineage then stays true because what it names of its source is
below a head that no append moves (`Sourced`).

That a choice wins needs more, because a view is read one log at a time and its newest
choice is picked by generation and stamp, and the stamps of two browsers come in any order.
`ChoiceInv` says that every log in a view is a beginning of the stored one (`View`) and
that at any time the generations and stamps of all choices are bounded (`Counted`). A
set of bounded choices has a newest (`Newest`), so the generation a choice counts from is
a number no smaller than any it saw, and one more is above all of them
(`NextGenerationWins`).

### ToolApprovalProofs

For any conversations, operations, calls, modes and arguments: `ApprovalTyped`,
`NoUnauthorizedEffect` (`EffectsAuthorized`), `OneEffectPerReview`
(`RunsOnceAsReviewed`), `RecordsAreHonest` (`RecordsNameWhoAnswered`),
`StoppedTurnsLeaveNothing` (`NothingSurvivesAbort`), and three that no run states
by itself: `OutcomesAreRead` (a settled request's outcome reaches its policy and is
never evicted), `ProvenanceIsKept`, `NoEffectAfterAbort`.

Authority is lost between the broker and the journal unless something says that
the unread outcome is the person's: `OutcomesKept` has exactly one unread outcome per
settled review, which tells an answer from everything else, and since there is at most
one per operation the ledger's eviction never reaches it. `Untouched` says what each
stage of a review has not yet written, `Backed` and `Attributed` carry authority
and author along the stages, and `SpentOnce` says that an approval is a ticket,
an execution or an effect, never two of them.

### VaultProofs: VaultWorkspace

For any pages, paths, revisions and faults: `WorkspaceTyped`, `LiveFilesAreStored`
(`ReferencedFilesAreStored`: the committed manifest and every read in progress
name stored files), `NoLostWrite` (`CommitsReplaceWhatTheySaw`: the queue names no
live file, and a commit changes one path and replaces the revision its writer saw).

Neither is inductive, for two reasons that the proof had to make explicit. A
revision that is out of the manifest must never return, though a sweep, a
queue entry, a page's pending record or a late swap of the queue may still carry it:
`Superseded` collects all of these carriers, and what is superseded is never named.
And a write is dangerous only while the store would still apply its swap: `InForce`
and `LateInForce` speak of swaps whose ETag is still the manifest's, whose new revision
is then stored, unknown to anybody else and recorded over the current one (`Fresh`).
A commit takes every other swap out of force.

### VaultProofs: VaultCoordinator

For any vaults, keys, probes, commands and faults: `CoordinatorTyped`, `ReadyWasProbed`
(`VaultCoordinator!ReadyIsProbed`), `NoCacheIsLeaked` (`CachesAreClosed`),
`OnlyTheRunningProbeIsReady` (`ReadinessIsTheRunningProbes`) and `ProbesKeepTheRuntime`
(`RuntimeIsKept`), the four parts of the property of the run `vault`, under
`CoordinatorAssumption` alone: re-probes of a store that can reclaim are included. The
properties name the one thing that goes wrong with them, a runtime put back by a re-probe
that was superseded while it removed its objects, so the theorems say that nothing else does,
also after that.

Nothing in `ReadyIsProbed` says why a late probe does no harm. `CoordinatorInv` does:
a probe runs while it waits and its generation is the coordinator's, and then it is
the controller's, works on the configured vault and the attached key, and retains the
runtime in use, or one that was put back is in use (`Runs`, `Strayed`). Every command that changes
any of these draws a generation,
and the catch block of a probe that does not run changes only itself (`Caught`).
A runtime that returns would be mistaken for another if two had the same cache, so the
invariant follows all runtimes that the coordinator or a waiting probe knows (`Known`,
`Distinct`); that a re-probe's retained runtime is over what the re-probe worked on (`Matches`) is why
putting it back in time is right.

### VaultProofs: ProfileCatalog

For any pages, releases, profiles, skills and themes, in both stores: `CatalogTyped`,
`NoCommitIsOverwritten` (`HeadsAreChained`), `CheckpointsAreCurrent`
(`CheckpointsAreHeads`), `EveryEditIsValid` (`EditsAreValid`), `ProfilesAreNeverLost`
(`HistoryIsRetained`), `AuthoredSkillsSurvive` (`AuthoredSkillsSurviveReleases`),
`ReleasesArrive` (`BuiltInsArrive`) and `AdoptionWritesOnlyNews` (`AdoptionIsStill`): the
parts of `CatalogIsChained` of the run `page`. Nothing is assumed of the releases: they may add,
drop and repaint themes.

The operators come first: each edit makes a good catalogue of a good one and follows it
(`EditIsGood`), where good is typed, valid and clean: a profile that is not there names
no skill, without which removing a skill could bring one about. A union with a release
follows its catalogue (`UnionFollows`) and is valid exactly if it repaints no theme a profile
is pinned to (`UnionIsGood`); one that is counted as a change differs from its catalogue, or the
catalogue holds a theme the release lacks (`UnionChanges`). `CatalogInv` then says that tags are drawn in order, so a checkpoint
with the head's tag is the head (`Checkpointed`), and that what a page is about to
commit was made from its checkpoint (`Proposed`).

### S3StoreProofs

For any pages, keys, contents, faults and page sizes: `S3Typed`,
`ListingsSound` (`ListingsAreSound`) and `S3KeepsContract` (`KeepsContract`), the
refinement of `ObjectStore`.

`S3Inv` ties a page's open request to its call (`Sent`), keeps each key of a trash
in one place, to do, in flight, reclaimed or retained (`Receipts`), and says of a
listing that every key held all along up to the continuation token is listed
(`Listed`). That a page turn preserves the last needs `PageFacts`: a page that is not
the last is not empty, has a greatest key, and skips no key below it.

### DriveStoreProofs

For any pages, keys, contents, retry budget and bounds: `DriveTyped`, `OneIndexFile`,
`OwnWritesAreRead` (`ReadsOwnWrites`), and, with `~SlowCommits`, `IndexedBodiesStay`
(`IndexedBodiesAreKept`) and `ContractIsKept` (`KeepsContract`), the refinement of
`ObjectStore`. `SlowCommits` is an upload that waits the sweep's safety age for its
commit; with it a body can be swept before it is named (`CommitsNameKeptBodies`).

`DriveInv` has two parts. `PagesInv` holds without `~SlowCommits`: every index a page
holds was read from the first index file and equals it as long as its ETag does
(`Seen`), a call about to rewrite the index has found its precondition in the index it
loaded (`Found`), a rewrite on the wire is one its call could send (`Applied`), and
cache, running fill and waiting get are as new as the page's last commit unless the
epoch marks them stale (`ReadInv`). `BodyInv` is about files: index files created in a
race stay empty, no file has two keys, and a file that a call or a late rewrite may
still enter (`Claims`) is claimed once, named nowhere, young and whole, while what is
on its way to the trash is unclaimed. If-Match gives the rest: a rewrite that Drive
applies was computed from the entries it replaces, so it names what was named before
and the one file its page claimed (`CommitBodies`), and its effect on the objects is that of
its request (`ObjectsApply`).

### KernelHostProofs

For any jobs, budgets, faults and calls, listeners that call back included: `TypesHold`,
`EffectsComeFirst` (`EffectsPrecedeResults`), `CancellationsHold`
(`CancellationIsFinal`), `TimersHold` (`TimersBelongToTheJob`) and `JobsSettleOnce`
(`SettlesOnce`). `JobsStayContained` (`JobsAreContained`) adds that the only live worker
is the host's and runs the host's unsettled job; it assumes that no listener calls back
or that nobody calls `restart()`, the two cases the run `prime` has as scenarios. With
both the statement is false (end of section 3).

The host's state is mostly in transit: a result is owed by the queue, by the host or
by a kill that captured it, and frames and continuations that will act on it later hold
nothing but a name. `Base` says of each frame and each continuation what it relies on
(`FrameHolds`, `ContHolds`), that no two of them are about the same kill (`Apart`,
`Distinct`), and where each unsettled job is (`Owned`, `KillsInv`). So a job that a
listener cancels, finishes or kills between two frames is found settled by the frame
that comes back to it. `Base` is inductive for every interface.

`Guest` is about the worker: boots are numbered by epochs, the host's worker is that of
the epoch in force, and a worker whose boot is not over runs nothing. It is preserved as
long as `Orderly` holds: a boot that nobody awaits any more is not under way when the
browser answers it, and `restart()` resumes to a host without a worker. Two separate
invariants give `Orderly`. Without re-entrant listeners there is at most one frame
and one kill, nothing boots while a kill is in progress, and a boot that `restart()` let
go of is followed by its start (`Single`). Without `restart()` no boot is let go of
(`~Detached`).

### Only model-checked

Liveness under fairness is beyond the prover (`EverythingSettles`,
`EveryCallReturns`); so is what the recursive projections of `Transcript` and
`TurnAudit` compute, which would need induction over logs (`AuditAccepts`,
`HistoriesAreWellFormed`, the part of `StoppedRequestsStayStopped` about requests), and the
order of the favourites, a fold over moves (`MoveLands`, `VoidedMovesAreDead`). So far
also PRIME's turns, children and harness, the ciphertext cache, adoption, and the
refinement of `ObjectStore` by `LocalStore`, and the terminal (`ProcessesStayInReach`,
`NoWorkIsLost`).

## 5. Plan

Proofs, in the order of importance:

1. the refinement of `ObjectStore` by `LocalStore`: the S3 and Drive proofs give the
   shape, the generations on disk are what is new;
2. `HarnessStore`: batches build on what is stored;
3. `SubagentRegistry`: a child settles once.

## 6. Not modelled

* The inference fabric and provider wire formats (`inference/`, `prime/ai/`): parsers and
  encoders of streams. What a turn sees of them, a reply or an error, is an input
  of `CoreTurn` and `PrimeTurn`.
* Browser Git, the execution packs and shell, retrieval, indexing and the memory graph:
  they wrap libraries or compute over text and files, with little state of their own
  that outlives a call.
* The UI shell (`ui/`), the companion extension and the release scripts: presentation,
  relays and build steps. The callbacks of the shell that change modelled state
  (approval modes, catalogue edits, adoption) are actions of the modules concerned.
* Encryption, envelopes, byte ranges and size limits of data, wording, token
  estimates and the text of summaries.
* Within modelled parts: what `PROJECT.json` notes for each component.
