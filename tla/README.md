# Samaktha, specified in TLA+

This directory specifies Samaktha, a personal assistant that plans a user's
request, runs it with tools and model providers under approvals, and remembers
what happened. The modules are translated from the Python source under `src/app`;
TLC checks them on small instances, and TLAPS proves the safety of twenty-six of its
parts for every value of their constants.

Contents: 1 inventory, 2 how the code is read, 3 modules, 4 runs, 5 what the
runs check, 6 bounds and fairness, 7 proofs, 8 what the code does not keep,
9 not modelled, 10 plan.

## 1. Inventory

A request enters by the terminal, the voice session or the API. The execution
coordinator gives it a record and a task; the orchestrator plans it (planning,
references, memory), the workflow engine schedules the plan's tasks, the runtime
engine runs each under the CAP gate and governance, with tools and providers at
the end. Checkpoints, sessions, memories, evidence and audit are what is left on
disk. All of it lives in one asyncio process, apart from worker threads for files
and mail, child processes, and a second process that may share the data directory.

| Component | State | What is hard | What makes it correct |
|---|---|---|---|
| Execution coordinator, state machine (`core/execution_coordinator.py`, `core/contracts/state.py`) | a record and a task per execution, semaphore, resolved approvals, checkpoint generations | cancel, timeout and completion race; a handler saves several checkpoints and can die between them; a denial keeps the status | one verdict per execution, durable, earned, with nothing running behind it; answers never lost; everything settles |
| Workflow and runtime engines (`workflow/`, `runtime/`) | completed, failed, marked tasks; consumed permits, attempts, recovered results | pauses drop siblings' results; retries after an unknown outcome; recovery from a checkpoint | dependencies first, no mutation twice, COMPLETED means done |
| CAP, permits, governance, tool framework (`core/cap/`, `runtime/governance.py`, `governance/`, `tools/framework/`) | permits with digest and expiry, remembered permissions, policies, run records, audit chain | inputs edited between approval and dispatch; expiry; timeouts over running tools | a tool runs only what was authorised, and is on record |
| Checkpoint store (`runtime/checkpoint.py`) | cache, files, integrity index | two files replaced one after the other; failing writes; old files that come back | what was acknowledged is neither lost nor replaced by something older |
| Orchestrator pipeline, conversation state (`core/orchestrator/`, `conversation/`) | bounded states per session, pending questions, references | overlapping requests of a session; eviction; output filters on several paths | references and answers stay with their session and principal; what was withheld stays withheld |
| Planning (`core/gambit/`, `intelligence/planning.py`) | none between requests | many detectors in one order; lacking arguments; tools that come and go | the plan does what was said, with its evidence first |
| Reminders (`tools/reminder.py`) | reminders, their table, due lists in flight | changes while a callback is awaited; crash between ringing and saving | what is due rings, once; nothing cancelled comes back |
| Notes, tasks, contacts, calendar (`tools/`, `db/base.py`) | entities in memory, rows | failing writes and deletes; dates with and without a zone | what was acknowledged survives, what was erased stays erased |
| Providers (`providers/`, `router/`) | cooldowns, cached status | fallback inside retry; status read outside the lock | no call to a cooling provider, nothing local leaves, nobody written off for good |
| Plugins (`plugins/`) | lifecycle, registry of tools, calls in flight | failure half-way through a load; rivals for a tool | loaded means enabled, with its dependencies and its own tools |
| Evidence (`evidence/`) | events and summaries in one database of two processes | writes, failures and retention between each other's statements | numbering without gaps; the final status is the verdict |
| Sessions, memory, formation, skills (`memory/`, `core/gambit/learning.py`) | session files, index, LRU cache; memories, retrieval cache; patterns and skills | rotation, eviction, crash and failed writes between files; scope behind a cache | acknowledged turns are kept under numbers of their own; nobody is served another scope |
| Voice, API, terminal (`voice/`, `api/`, `tui/`, `shell/`) | microphones, streams, queues, windows, the session on screen | barge-in, clients that leave, answers that outlive a switch | silence after barge-in; no answer changes afterwards; input comes back |
| Internet, mail, files, documents, shell (`internet/`, `communication/`, `tools/`, `fileparsers/`) | caches, retries, threads, trees with links, child processes | redirects to private addresses; a send whose answer is lost; output without end | nothing outside is reached, lost or changed; "sent" and "ok" are true |
| Setup and process start (`setup/`, `config/`, `runtime/safety.py`, `bootstrap.py`) | settings, credentials, instance lock, signing key | a transaction over two stores; two processes that start at once | completed setup was tested; one key and one mutator |

Left out: retrieval scoring, diagnostics, prompt and response wording, audio
devices, protocol adapters (section 9). `PROJECT.json` lists every component with
its status, its sources and what is abstracted, and every hazard with its line.

## 2. How the code is read

- **One action is one run of the event loop between two awaits.** Code without an
  await is atomic for other coroutines, but not for a crash: where a handler
  saves several times, the checkpoints it leaves behind are kept (`window`), or
  each write is an action (`SessionStore`, `ProductSetup`, `ProcessStart`).
- **Threads and other processes** interleave freely with the loop: a tool that
  timed out in a worker thread, a mail that is still being sent, a second process.
- **What is outside** (a tool's effect, a provider's answer, a client, the clock) is
  an action of its own that may come at any time or never. Effects are counted
  there, so that "at most once" is about the world and not about a flag.
- **Data is reduced to what a property tells apart.** A text is the set of signals
  a detector looks for, a file is the version of its content, a digest is the
  content it was computed from, a principal is a name.
- **Ghost variables** record only what a property compares with: what was
  acknowledged, agreed to, or torn by a failure. No guard of an action reads one.

## 3. Modules

    Verdict (abstract)
      ^  OneVerdict: refinement mapping
    ExecutionCoordinator ---- ExecutionCoordinatorProofs
    WorkflowRuntime, Planning ----------------------- WorkflowRuntimeProofs
    CheckpointStore, ShellCommands, ProcessStart,
      ProductSetup, Documents, InternetAccess ------- MachineProofs
    ProviderFailover, ApiExecution, VoiceStreaming,
      VoiceSession ---------------------------------- ServingProofs
    ReminderScheduler, PersonalStores --------------- PersonalProofs
    RequestPipeline, EvidenceTrail, GovernanceAudit,
      PluginLifecycle, MemoryFormation -------------- RequestProofs
    ToolAuthority, Terminal, LocalFiles ------------- ToolAuthorityProofs
    SessionStore, SkillLearning, Correspondence,
      MemoryService --------------------------------- SessionStoreProofs

Every module names the functions its definitions stand for in comments, and
`PROJECT.json` maps each definition to its lines.

| Module | Code | State and actions |
|---|---|---|
| ExecutionCoordinator | `core/execution_coordinator.py` | `rec` is the durable part of `_ActiveExecution`, `task` where its asyncio task is suspended, `cancelling` a `CancelledError` still to come, `waiters` the calls that await the task, `disk` the checkpoint, `window` the ones the latest handler wrote before. Start, answer, cancel, timeout, the pipeline's outcomes, prune, crash, restart, recover |
| Verdict | | each execution is open until decided, and a decision never changes |
| WorkflowRuntime | `workflow/engine.py`, `runtime/engine.py`, `runtime/executor.py`, `resume_pipeline` | `NextBatch`, `FinishBatch` are the scheduling loop, `RunStep(t)` the stages of `RuntimeEngine.run`; `armed[t]` says that an effect may still land, `effects[t]` how often it did; `disk` is the plan's checkpoint with `recovery_safe` |
| ToolAuthority | `core/cap/`, `runtime/governance.py`, `governance/engine.py`, `tools/framework/dispatcher.py` | permits by digest, risk, approval, expiry, remembered permissions, rules that change, edits of the plan, dispatch with timeout and retry, records |
| CheckpointStore | `runtime/checkpoint.py` | cache, files, index in memory (`anchor`) and on disk; a save that succeeds, is refused, fails before or after the file, or is cut by a crash between the two replacements |
| RequestPipeline | `core/orchestrator/engine.py`, `conversation/` | bounded states per session, requests with their stage; references, questions, filters, memory formation, eviction |
| Planning | `core/gambit/`, `intelligence/planning.py` | a request is a set of signals; intent, arguments, tasks, availability, optimisation, stages |
| GovernanceAudit | `governance/audit.py` | the chain of entries, its rows, reload |
| EvidenceTrail | `evidence/` | two connections with their transactions, numbering, summaries, retention |
| ReminderScheduler | `tools/reminder.py` | the dictionary, the table, `poll[p]`: what is left of a due list and the callback it awaits |
| PersonalStores | `tools/notes.py`, `tasks.py`, `contacts.py`, `calendar.py`, `storage.py` | items in memory and rows, failing writes, restarts |
| SessionStore | `memory/session_manager.py`, `session_store.py`, `session_index.py` | files per session, index, LRU cache; `job` is the operation that holds the lock and the next file it writes |
| MemoryService, MemoryFormation | `memory/` | memories by scope, retrieval cache, deletion; classification, revision, recall |
| SkillLearning | `core/gambit/learning.py`, `reflection.py`, `memory/skills.py` | reflection, candidates, duplicates, decay, merge, retirement |
| ProviderFailover | `providers/`, `router/router.py`, `runtime/reliability.py` | cooldown timers, cached status, candidates, attempts |
| PluginLifecycle | `plugins/manager.py` | records, registry, loads with rollback, calls in flight |
| VoiceSession, VoiceStreaming | `voice/` | managers and microphones, spoken approvals; chunks through a bounded queue to the speaker |
| ApiExecution | `api/` | calls with deadlines, event streams, the limit's windows |
| Terminal | `tui/`, `shell/command_router.py`, `agent/production.py` | the session on screen, inputs, answers in flight, approvals, questions |
| InternetAccess | `internet/` | searches with retries and cache, ranking; fetches with redirects and addresses |
| Correspondence | `communication/`, `integrations/email_smtp.py` | letters, attempts, threads that outlive a call, history and rows |
| LocalFiles | `tools/filesystem.py`, `tools/security.py` | a tree with links, protected paths and what lies outside |
| Documents | `fileparsers/`, `tools/document.py` | blocks of a text; parser chain, OCR engines, cache |
| ShellCommands | `tools/shell.py` | process, two pipes, reader, timeout, termination |
| ProductSetup | `setup/`, `config/store.py` | the wizard's fields, tests, the transaction and its rollback |
| ProcessStart | `runtime/safety.py`, `bootstrap.py`, `cli.py`, `personality/lifecycle.py` | lock, key creation and repair, bootstrap, profile |

`ToolAuthority` opens what `WorkflowRuntime` leaves to choice (`Permitted`, the
executor's outcomes); `CheckpointStore` opens what the coordinator takes as one
save; `RequestPipeline` and `Planning` open the pipeline that the coordinator
treats as an environment. The components meet at these choices and share no
variables.

## 4. Runs

Components that share no state share a run: the MC module extends them, a
variable `part` chosen in the initial state says which one runs, and the others
keep one initial state. Their state spaces add up and do not multiply, and every
action of every component is taken in its own part.

| Run | Components | Instance | Distinct states |
|---|---|---|---|
| `coordinator` | ExecutionCoordinator, Verdict | 2 executions, 1 active and 1 pending slot, 1 retained, an approval each, 1 crash; resumption may raise and approved tasks may pause again; fairness | 253,461 |
| `workflow_join` | WorkflowRuntime | two branches of two that join, an approval, an unroutable mutation, raising runs, 2 attempts, 2 crashes; fairness | 31,878 |
| `interaction` | WorkflowRuntime, Terminal, ShellCommands | a chain of 4 (internal, mutation with approval, read, mutation), 2 attempts, 2 crashes; 3 sessions, 4 inputs, 2 approvals, 2 tasks; limit 2, pipes of 2, 6 chunks, 2 commands; fairness of terminal and shell | 136,049 |
| `machine` | CheckpointStore, ProcessStart, ProductSetup, LocalFiles, Documents | 2 ids of 2 generations used twice, 1 cached, failing writes, old files, 1 crash; 2 processes of 2 starts; 2 hosted providers, 2 secrets, 4 edits; 9 paths with links, a protected key and a name like it; texts of 5 lines, 2 versions of a file | 1,068,960 |
| `personal` | ReminderScheduler, PersonalStores | 2 reminders, 2 callers of `check_due`, 1 tick, 1 edit, 1 stop or crash; 5 items, 3 changes; fairness of the scheduler | 154,688 |
| `providers` | ProviderFailover, VoiceStreaming, ApiExecution | 2 requests, 3 providers, cooldown 1, 2 attempts; 3 chunks, a queue of 2; 2 calls, one of them a stream, limit 1, window 3; fairness | 129,974 |
| `authority` | ToolAuthority | a task with four kinds of plan, scopes read and write, 2 arguments, lifetime 1, clock 2, 1 retry, 2 runs; fairness of the executor | 595,620 |
| `requests` | RequestPipeline, EvidenceTrail, GovernanceAudit | 3 requests, 2 sessions, 2 principals, a registry of 1; 2 processes, 3 events; 4 audit entries, clock 2 | 326,223 |
| `stores` | SessionStore, MemoryService | 2 sessions, 2 principals, 1 entry kept, 1 cached, 3 turns, 1 crash or failed write; 3 readers, 2 memories | 2,020,515 |
| `services` | PluginLifecycle, VoiceSession, InternetAccess, Correspondence | 3 plugins (a dependency, a rival for a tool), 1 call; 2 managers, 2 answers; 2 searches over 3 services, 9 raw answers (one a chain of four duplicates), 2 hosts, 2 redirects; 2 letters, 2 people, 2 attempts | 1,716,383 |
| `knowledge` | Planning, SkillLearning, MemoryFormation | every pair of 17 contested signals; 9 reports, 2 patterns, 2 skills; 8 texts, 3 turns, a window of 3 | 939,847 |
| `coordinator_answer_crash` | ExecutionCoordinator | 1 execution, 1 crash: a violation (section 8) | |

Each run takes between 10 seconds and two minutes with two workers.

## 5. What the runs check

A property whose name ends in `Safe` is the conjunction of a component's
properties, invariants and action properties alike. The table lists the parts with
the definition in which a plausible bug breaks each of them and the operator of the
module that has that bug; TLC finds every one under the configuration of the run.
`PROJECT.json` lists one mutant per conjunction.

| Property | Part | Says | Broken by |
|---|---|---|---|
| `CoordinatorSafe` | `TypeOK` | types and bounds | `SettleVerdict` as `SettleVerdictRaw` |
|  | `TerminalHasNoTask` | the losers of the race between completion, cancel and timeout do no work | `RequestCancel` as `RequestCancelByEvent` |
|  | `VerdictDurable` | whichever checkpoint a crash leaves, a restart shows the verdict a client was shown | `Interrupted` as `InterruptedOrLate` |
|  | `RestoreIsLegal` | a restart asks for no transition the state machine refuses | `RestoredStatus` as `RestoredStatusUnsafe` |
|  | `CompletedHasResult` | COMPLETED, shown or saved, has a completed result | `SettleVerdict` as `SettleVerdictHopeful` |
|  | `AnswersDurable` | no approval is answered twice, over crashes too | `AllowTrail` as `AllowTrailLate` |
|  | `CancelReturns` | a cancel or timeout that returns leaves a decided execution, whatever its task did meanwhile | `FinishCancel` as `FinishCancelTrusting` |
| `JoinSafe` | `DoneIsReal` | a task counts as completed, in memory or on disk, only if its effect landed | `FailsUnknown` as `FailsUnknownKept` |
|  | `NeverStranded` | an unfinished plan always has something ready or in flight, after any recovery | `Blocked` as `BlockedDirectly` |
|  | `DependenciesFirst` | no task runs before all it depends on took effect | `Ready` as `ReadyOnceHandled` |
|  | `AtMostOncePerProcess` | until a crash that holds of parallel plans too, although a pause forgets siblings that ran | `Claimed` as `ClaimedNever` |
| `ChainSafe` | `TypeOK` | types and bounds | `MayRetry` as `MayRetryAlways` |
|  | `AtMostOnce` | no mutation takes effect twice, through retries, pauses, crashes and recoveries | `MayRetry` as `MayRetryUnknown` |
|  | `SafeCheckpointCovers` | a checkpoint marked safe accounts for every dispatched mutation | `SaveOutcome` as `SaveOutcomeSafe` |
|  | `CompletedMeansDone` | COMPLETED means that every task took effect | `SettledStatus` as `SettledStatusHopeful` |
| `TerminalSafe` | `TerminalTypeOK` | types and bounds | `Creates` as `CreatesAside` |
|  | `ActiveIsStored` | the session on the screen is in the store, whatever was deleted or switched to meanwhile | `SwitchedTo` as `SwitchedToAny` |
|  | `AnsweredAsPressed` | an execution is answered with a button of its own approval and the decision on it | `Takes` as `TakesAny` |
|  | `TokensStayTogether` | every token is shown in the message of its own answer | `TurnsOff` as `StaysOn` |
|  | `DeletedIsGone` | a deleted session leaves neither files nor memories, unless a step failed or an answer was running | `Forgets` as `ForgetsNothing` |
|  | `DeletesOnlyTheAsked` | a session is removed only in answer to a question that named it and was not superseded | `Asks` as `AsksFirst` |
| `ShellSafe` | `ShellTypeOK` | types and bounds | `ProcessWrites` as `ProcessWritesOn` |
|  | `AnswerEndsProcess` | an answer of the tool leaves no process of it running | `Killed` as `KilledNot` |
|  | `OutputBounded` | no more than the limit and one chunk is kept | `StopsAt` as `StopsAtNever` |
|  | `OkIsWhole` | ok means a good end and all output read, or more than the limit | `Done` as `DoneOnExit` |
| `CheckpointSafe` | `TypeOK` | types and bounds | `Cached` as `CachedAhead` |
|  | `NeverServesOlder` | never older than the latest acknowledged save, even when an old file comes back | `Accepts` as `AcceptsListed` |
|  | `AckedIsDurable` | an acknowledged record is what a restart restores, whatever failed for its neighbours in the index | `Anchored` as `AnchoredOnce` |
|  | `AckedNotOverwritten` | a save only replaces something older than itself | `Stale` as `StaleByCache` |
| `StartSafe` | `StartTypeOK` | types and bounds | `LoadedProfile` as `LoadedProfileRaw` |
|  | `OneMutator` | of the processes that run a guarded command one is past the guard, however the earlier ones ended | `LockHeld` as `LockHeldPerCommand` |
|  | `OneKeyForAll` | every running process uses the whole key that is on disk, over racing creators, crashes and repairs | `Settles` as `SettlesShort` |
|  | `KeyIsPrivate` | a key that is in use, or read by its creator, grants nobody else access | `WritesKey` as `WritesKeyUnhardened` |
|  | `StrangersChangeNothing` | under an identity the installation does not belong to, the key file is neither changed nor created | `Mismatch` as `MismatchOfExisting` |
|  | `KeyKept` | a whole key is never replaced | `Creates` as `CreatesOver` |
|  | `CurrentMeansReady` | a bootstrap state that says "current" stands for initialised stores | `InitializesStores` as `InitializesStoresAnyway` |
|  | `SelectionSurvives` | after an acknowledged activation a start finds a registered personality | `Chooses` as `ChoosesInPlace` |
| `SetupSafe` | `SetupTypeOK` | types and bounds | `Primary` as `PrimaryNone` |
|  | `CompletedWasChecked` | complete only for a document the validator found ready, after crashes and failed rollbacks too | `DocumentFor` as `DocumentForRerun` |
|  | `FailureUndoesAll` | a failed commit leaves settings and secrets as they were, unless its rollback failed | `WritesCredential` as `WritesCredentialNoted` |
|  | `ProviderWasTested` | the provider of a completed setup answered with the very key that is stored | `ProviderPart` as `ProviderPartKeyless` |
|  | `ServerWasTested` | the same of a verified mail server, but for the two cases of section 8 | `SmtpPart` as `SmtpPartServer` |
|  | `AcceptanceIsCurrent` | "send acceptance verified" is about the server and password in use | `SmtpChanged` as `SmtpServerChanged` |
| `FilesSafe` | `FilesTypeOK` | types and bounds | `WithParents` as `WithoutParents` |
|  | `OutsideStaysOutside` | what is outside the root is not changed, read or copied in, through no link | `TreeOK` as `TreeOKShallow` |
|  | `LostOnlyIfAsked` | content is lost only by a request that allowed to replace or delete it, or by a failure | `MayReplace` as `MayReplaceFile` |
|  | `ProtectedKept` | a protected path is changed by nobody but the user, nor a tree that holds it; only what is copied or moved to a directory above it may (section 8) | `Permitted` as `PermittedScope` |
| `DocumentsSafe` | `DocumentsTypeOK` | types and bounds | `StartsEngine` as `StartsEngineForever` |
|  | `WrittenIsReadBack` | every line that carries text is in the document once it is parsed again; a sheet made of tables is the exception | `BlockAt` as `BlockAtPastTable` |
|  | `BlocksDisjoint` | no line is written twice | `BlockAt` as `BlockAtRereads` |
|  | `ServedIsOwn` | the cache serves a version its own text, unless it changed while it was recognised | `CacheSlot` as `CacheSlotAny` |
|  | `FailsLast` | a read fails only after every parser and engine did | `NextParser` as `NextParserGivesUp` |
| `ReminderSafe` | `TypeOK` | types and bounds | `Later` as `LaterAlways` |
|  | `RowsMatch` | memory and table agree between any two steps | `Settle` as `SettleUnsaved` |
|  | `NoOverlap` | overlapping passes never await callbacks of one reminder at once | `Firing` as `FiringNone` |
|  | `GoneStaysGone` | no late callback and no restart brings a reminder back | `Settle` as `SettleBlindly` |
| `PersonalSafe` | `PersonalTypeOK` | types and bounds | `Persists` as `PersistsText` |
|  | `OneZone` | the calendar never mixes events with and without a zone, but for a failed delete | `Incomparable` as `ComparesNothing` |
|  | `AckedSurvives` | what was reported as stored, or something newer, is in the table until a delete was reported | `ChangeItem` as `ChangeItemEarly` |
|  | `ErasedStaysErased` | what was reported as deleted is in neither copy and does not come back | `DeleteItem` as `DeleteItemRowKept` |
| `ProviderSafe` | `TypeOK` | types and bounds | `MayRetry` as `RetryOnceMore` |
|  | `RetriesNotMultiplied` | one call per provider and attempt, and no more than the attempts allowed | `FailsForModel` as `FailsForModelInPlace` |
|  | `LocalStaysLocal` | a request that requires a local model reaches no cloud provider, by no fallback | `Candidates` as `AllCandidates` |
|  | `NeverWrittenOff` | a cached "unavailable" always carries the timer that ends it | `Refresh` as `RefreshTimerOnly` |
|  | `NeverCallsCooling` | no request calls a provider whose cooldown runs | `Marked` as `MarkedTimerOnly` |
| `ApiSafe` | `ApiTypeOK` | types and bounds | `HasRoom` as `HasRoomOver` |
|  | `LimitIsHonest` | a window takes no more than the limit, refuses only when full, and Retry-After leads out of it | `RetryAfter` as `RetryAfterRounded` |
|  | `VerdictStands` | the last event of a stream and the status of a 200 stay true | `Settles` as `SettlesLate` |
|  | `AnsweredIsOver` | nothing works for a request that was answered with an end | `GivesUp` as `GivesUpWaiter` |
| `AuthoritySafe` | `TypeOK` | types and bounds | `Issue` as `IssueLong` |
|  | `OnlyAuthorised` | an effect that needs approval lands only with the inputs somebody allowed | `Reissue` as `ReissueForCurrent` |
|  | `MutatesOnce` | a mutation lands once per permit, over timeouts, retries and a second dispatch | `Retries` as `RetriesIgnoringEffects` |
|  | `RunsRecorded` | every run that was not cancelled is on record | `Finish` as `FinishUnrecorded` |
|  | `GovernanceHasTheLastWord` | no permit starts a tool that governance denies | `GovernanceAllows` as `GovernanceAllowsPermit` |
| `PipelineSafe` | `PipelineTypeOK` | types and bounds | `Touched` as `TouchedUnbounded` |
|  | `ReferencesStayInSession` | "it" resolves to nothing another session said, read or found | `StateOf` as `StateOfAny` |
|  | `AnsweredOnceByItsOwner` | a question is answered once, by its principal, in its session | `Consumed` as `ConsumedKept` |
|  | `ShownIsFiltered` | no path shows sensitive provider text or a credential | `Withheld` as `WithheldOnce` |
|  | `WithheldIsNotFormed` | what CAP withheld is not formed into memory | `Formed` as `FormedRaw` |
| `TrailSafe` | `EvidenceTypeOK` | types and bounds | `Begin` as `BeginDeferred` |
|  | `SequencesGapless` | events are numbered without gap or repetition, as the summary counts them | `DeletesExpired` as `DeletesEvents` |
|  | `FinalIsTheVerdict` | the final status in the evidence is the coordinator's, unless a cancel came too late | `IsTerminal` as `IsTerminalAny` |
|  | `OnlyEndedIsForgotten` | retention forgets only what has ended | `Outdated` as `OutdatedAny` |
| `SessionSafe` | `TypeOK` | types and bounds | `Cached` as `CachedUnbounded` |
|  | `NeverDeleted` | only a deletion takes an entry off the disk | `WriteJob` as `WriteJobNoArchive` |
|  | `TurnsUnique` | no two entries share a turn number | `AppendHistory` as `AppendHistoryByLength` |
|  | `AckedIsKept` | an acknowledged turn is in the history or the archive on disk | `WriteArchive` as `WriteArchiveOver` |
|  | `IndexedHasFiles` | a restart finds the files of every session in the index, failed writes or not | `WriteMetadata` as `WriteMetadataIndexes` |
|  | `CacheCoherent` | between operations a cached session is what files and index say | `Unindex` as `UnindexKeepsCache` |
| `MemorySafe` | `MemoryTypeOK` | types and bounds | `Bounded` as `BoundedNever` |
|  | `ServedInScope` | a reader is served memories of its own scope, whatever was cached for whom | `CacheKey` as `CacheKeyShort` |
|  | `DeletedStaysDeleted` | a memory reported deleted is in neither store and no update brings it back | `DeletedRows` as `DeletedRowsKept` |
|  | `LiveIsPersisted` | what the process knows is on disk | `WriteFails` as `WriteFailsLate` |
|  | `RecentIsLive` | the recent cache shows no memory the store lost | `Blanked` as `BlankedNot` |
| `PluginSafe` | `TypeOK` | types and bounds | `CallEnds` as `EndUnmatched` |
|  | `DependenciesLoaded` | a loaded plugin has the dependencies of its manifest loaded | `LoadedDependents` as `ActiveDependents` |
|  | `LoadedIsEnabled` | only an enabled plugin is loaded | `Disable` as `DisableKeepsLoaded` |
|  | `LoadedOwnsItsTools` | a loaded plugin's tools are in the registry as its own, and no rival displaces them | `Taken` as `NeverTaken` |
|  | `UnloadSparesCalls` | no unload while a tool of the plugin is being called | `MayUnload` as `MayUnloadInUse` |
| `VoiceSafe` | `NoOrphanMicrophone` | an open microphone belongs to a manager the session knows | `ToggleOff` as `ToggleOffForgets` |
|  | `AllowedByConsent` | a task is allowed only by a yes given while it was the pending one | `AsksAloud` as `AsksAloudWithResult` |
|  | `VoiceTypeOK` | types and bounds | `WaitsForAnswer` as `WaitsForNothing` |
| `InternetSafe` | `InternetTypeOK` | types and bounds | `Retries` as `RetriesOver` |
|  | `ServedIsCurrent` | an answer is of the query and category asked and not too old | `Live` as `LiveStored` |
|  | `HeadersStayHome` | the caller's headers reach only the host the caller named | `HeadersFor` as `HeadersKept` |
|  | `StaysOutside` | no request goes to an address that is not allowed, in any hop | `ResolvesAllowed` as `ResolvesToSome` |
|  | `RedirectsBounded` | one request more than the redirects allowed | `TooMany` as `TooManyLate` |
|  | `BestSurvive` | of a result and its duplicates, direct or through others, one at least as good is kept, or the list is full of better ones | `Collapsed` as `CollapsedLast` |
|  | `HighIsCorroborated` | HIGH confidence rests on two domains, one of them authoritative | `Agreeing` as `AgreeingResults` |
|  | `GivesUpLast` | a search gives up on a service only after its retries | `Retryable` as `RetryableStatus` |
| `OutboxSafe` | `OutboxTypeOK` | types and bounds | `MayTryAgain` as `MayTryOnceMore` |
|  | `UnsubmittedNeverArrives` | what was reported refused, drafted or unsubmitted never arrives | `Abandons` as `AbandonsUnsent` |
|  | `OnlyAgreedArrives` | no copy leaves without its approval, or to others than its addressees | `Refused` as `RefusedUnasked` |
|  | `AcceptedReachesAll` | "sent" means accepted for every addressee | `Accepted` as `AcceptedForSome` |
|  | `CopiesAreExcused` | a second copy belongs to an attempt whose acceptance the client could not know | `Resent` as `ResentUntilDelivered` |
|  | `TrailIsComplete` | every outcome is in the history once, and the rows are the entries | `PrunedRow` as `PrunedLastRow` |
| `PlanningSafe` | `PlanningTypeOK` | types and bounds | `AnswerRequest` as `AnswerKeepsRan` |
|  | `NothingDangles` | a dependency names a task of the plan, but for a write that names one path twice (section 8) | `Optimized` as `OptimizedByTool` |
|  | `RoutedAsSaid` | a request to forget reaches no file tool, a payload is data, a memory search stays on the machine | `DetectIntent` as `DetectIntentFilesFirst` |
|  | `EvidenceFirst` | a provider task runs after all tool tasks of its plan | `Chained` as `ChainedToRoot` |
|  | `PlannedIsAvailable` | a plan names only tools that are available and actions they support | `InputErrors` as `InputErrorsComposed` |
|  | `ActsOrAnswers` | no plan both changes something and asks the provider | `FileSteps` as `FileStepsReasoned` |
|  | `StagesFollowDependencies` | the stages never contradict the dependencies | `StageOf` as `StageOfEarlyVerify` |
| `SkillsSafe` | `SkillsTypeOK` | types and bounds | `IndexedWith` as `IndexedBefore` |
|  | `RateIsCurrent` | a skill's rate is that of its counts | `WithSuccess` as `WithSuccessUnrated` |
|  | `LearnedFromSuccess` | every skill was first seen in a plan that succeeded without errors | `SuccessfulPatterns` as `SuccessfulPatternsAny` |
|  | `OneRecordPerPattern` | one pattern has one record, retired or not | `FindDuplicate` as `FindDuplicateActive` |
|  | `ActiveIsConfident` | no active skill has low confidence | `Decayed` as `DecayedActive` |
|  | `RetiredStaysRetired` | nothing that is learned, recorded or merged revives a retired skill | `Merged` as `MergedRevives` |
| `FormationSafe` | `FormationTypeOK` | types and bounds | `StoredType` as `StoredTypeOwn` |
|  | `TransientIsNotKept` | no memory comes from an internet answer or a deleted session, whichever writes failed | `Transient` as `TransientUnlessTyped` |
|  | `AnswersAreNotFacts` | an answer made from memories is not promoted to a fact | `Forms` as `FormsRetrieved` |
|  | `NoDuplicates` | the same words of one kind and scope are kept once within the window of the check | `Duplicates` as `DuplicatesByClass` |
|  | `StatedIsRemembered` | what a user stated is remembered where that user sees it, or in the history of its revision | `Revised` as `RevisedWithoutHistory` |
|  | `AnswersHaveQuestions` | every answer in a session follows its request, also when answered twice | `SessionPart` as `SessionPartSkipsFailed` |
|  | `RecalledIsSource` | recall serves what its reader may see, and only what a user or a document said | `Rereads` as `RereadsAnywhere` |
|  | `CompleteMeansAll` | a recalled session that is not called partial has every entry its count stands for | `Partial` as `PartialIfEmpty` |

Beside the conjunctions, these stand alone in their runs:

| Property | Run | Says | Broken by |
|---|---|---|---|
| `RetentionBound` | `coordinator` | at most `MaxRetained` finished executions are kept, none that is open is forgotten, also right after a restart | `Pruned` as `PrunedOffByOne` |
| `OneVerdict` | `coordinator` | refinement of `Verdict`: an execution is decided once, whoever wins the race, through pruning and crashes. The verdict is read off the record while the process lists it, and otherwise off what a restart would restore | `FinishCancel` as `FinishCancelUnchecked` |
| `EveryExecutionSettles` | `coordinator` | every execution ends or waits for its user, and no cancel or timeout call waits for ever | `RecoverPending` as `RecoverPendingNever` |
| `ComesToRest` | `workflow_join` | the scheduler never spins or starves: a plan ends or waits for its user, again and again | `Finished` as `FinishedUnblocked` |
| `InputComesBack` | `interaction` | no answer, error or command leaves the user without an input line | `Restores` as `RestoresIfStarted` |
| `EveryCommandAnswered` | `interaction` | also one that never ends and one that blocks on output nobody reads | `Expires` as `ExpiresIfReading` |
| `NotifiedOnce` | `personal` | a one-shot reminder rings once per caller of `check_due`, once more only for a stop or crash inside its callback | `Settle` as `SettleOpen` |
| `DueIsServed` | `personal` | what is due gets its callback while the loop runs, unless a naive `due_at` makes every pass raise | `Due` as `DueUnlessSnoozed` |
| `EveryRequestEnds` | `providers` | neither the fallback nor the retries above it go on for ever | `Attempt` as `AttemptOnce` |
| `SilentAfterBargeIn` | `providers` | after the user has cut in no further chunk is spoken | `Cancelled` as `CancelledUnflushed` |
| `EveryAnswerEnds` | `providers` | producer, consumer and speaker never end up waiting for each other, as long as no device has failed | `PutsEnd` as `PutsNoEnd` |
| `EveryCallAnswered` | `providers` | a call whose pipeline hangs meets its deadline | `StreamTurns` as `StreamTurnsNoDeadline` |
| `EveryTaskRests` | `authority` | retries and timeouts of the executor end | `TimesOut` as `TimesOutForever` |
| `ChainVerifies` | `requests` | no untampered log is reported as tampered with, over restarts and equal stamps, while every row could be written | `ReloadedSeq` as `ReloadedSeqZero` |
| `AwaitingIsAnswerable` | `coordinator_answer_crash` | violated, section 8 | |

## 6. Bounds and fairness

**Why the bounds are enough.**

- Executions meet only at the semaphore, at admission and at the pruning of
  finished records; two of them with one slot of each kind make each of these bind.
  One approval tells answered from unanswered, and `MayRepause` brings it back.
- One crash reaches every point of every handler. A second one matters where
  recovery itself saves checkpoints, and is explored in the workflow runs.
- A chain of four with mutations on both sides of a read is the smallest plan where
  an internal task, an approval, an uncertain mutation and a later mutation meet;
  the join adds siblings, transitive blocking and paused siblings. Two attempts are
  a retry and its exhaustion. Effects are counted to `Many` (2): once, or more.
- Two checkpoint ids are needed for one to rewrite the shared index while the other's
  file is ahead; two generations and a second use of an id exercise its reuse.
- A stale due list needs two reminders, one to be awaited and one to go stale; with
  one tick a due time is past, present or never comes.
- `Keep`, `CacheBound`, `MaxTalks`, `MaxEntries` and `Limit` are 1 or 2, so rotation,
  eviction, pruning and refusal happen within the few steps that a run allows.
- Three events of two processes suffice for a number to be read by one and used by
  the other; three providers for a local one, a hosted one and one that is unusable.
- In `knowledge` the inputs are enumerated: every pair of the signals that detectors
  contest, every report shape, every text shape.

Every cap of a counter is a named constant in a guard (`MaxCrashes`, `MaxEdits`,
`Horizon` and their like) and apart from the
types no property reads one. Symmetry is declared for the
checkpoint ids (`machine`) and the requests (`requests`) only, where all properties
are safety properties. `CHECK_DEADLOCK FALSE` stands in every configuration because
the system may stop: all executions ended, all inputs used, the window closed.

**Fairness** is weak throughout, and each part says what justifies it.

| Component | Fair | Because |
|---|---|---|
| ExecutionCoordinator | `TaskStep(e)`, `Restart` | the loop runs every ready task; a pipeline ends, since tools and providers have timeouts; a dead process is started again, and the application's lifespan calls `recover_pending` |
| WorkflowRuntime | `EngineStep`, `RunStep(t)` | the same for the scheduler and for each executor |
| ToolAuthority | `Executor(t)` | the dispatcher's timeout ends every attempt |
| ReminderScheduler | `CheckDue(p)`, `Return(p)` | the poll loop comes round; a callback returns, since the notification tool has a timeout |
| ProviderFailover | `Attempt(r)`, an answer or failure | every adapter call has a timeout |
| ApiExecution | `Handler(c)`, `DeadlinePasses(c)`, the cancelled task of a call that expires or leaves | `wait_for` holds the deadline; the pipeline itself may hang |
| VoiceStreaming | `Streaming`, `Speaking`, `Playing` | the three tasks of the loop run when they can |
| Terminal | `RunsCommand`, `StartsMessage`, `StartsResume`, `EndsStream` | the UI loop handles what it has accepted; the coordinator ends every execution, so its stream ends |
| ShellCommands | `TimesOut`, `Terminates` | the timer and the escalation to a kill; the process need never end |

Nothing is assumed of users, clients, the clock, crashes, or effects landing.

## 7. Proofs

TLAPS checks the safety of twenty-seven modules for every value of their constants: any
number of executions, reminders, sessions, requests, tasks or plans, and any
number of crashes, failed writes and retries. The assumptions are the
`…Assumption` of each module: bounds are natural numbers, those the code itself
requires to be positive are positive, plans are acyclic (the engine refuses
others), the default principal is one of the principals, the
messages of a run and the learned skills are finitely many, and a request is a record
of the kinds the parser reads off a text.

| Theorem | Module | States |
|---|---|---|
| `CoordinatorIsSafe`, `RetentionHolds`, `ImplementsVerdict` | ExecutionCoordinatorProofs | `CoordinatorSafe`, `RetentionBound`, `OneVerdict` |
| `CrashKeepsVerdict`, `AnswersSurvive`, `RestartGetsThrough`, `CompletionIsEarned`, `CallsReturnDecided`, `Invariance` | ExecutionCoordinatorProofs | the parts of `CoordinatorSafe` one by one, and the invariant |
| `ReminderIsSafe`, `RingsOnce` | PersonalProofs | `ReminderSafe`, `NotifiedOnce` |
| `TableIsCurrent`, `FiringExcludes`, `NeverResurrected` | PersonalProofs | the parts of `ReminderSafe` |
| `PersonalIsSafe`, `PersonalInvariance` | PersonalProofs | `PersonalSafe` |
| `JoinIsSafe`, `PlanInvariance` | WorkflowRuntimeProofs | `JoinSafe` for every acyclic plan |
| `ChainIsSafe` | WorkflowRuntimeProofs | `ChainSafe` for chains of any length |
| `PlanningIsSafe`, `PlanningInvariance` | WorkflowRuntimeProofs | `PlanningSafe` for any requests |
| `AuthorityIsSafe` | ToolAuthorityProofs | `AuthoritySafe` |
| `TerminalIsSafe`, `TerminalInvariance` | ToolAuthorityProofs | `TerminalSafe` |
| `FilesAreSafe`, `FilesInvariance` | ToolAuthorityProofs | `FilesSafe` |
| `CheckpointIsSafe`, `StoreInvariance` | MachineProofs | `CheckpointSafe` |
| `PipelineIsSafe`, `PipelineInvariance` | RequestProofs | `PipelineSafe` |
| `TrailIsSafe`, `TrailInvariance` | RequestProofs | `TrailSafe` |
| `ChainHolds` | RequestProofs | `ChainVerifies` |
| `PluginIsSafe`, `PluginInvariance` | RequestProofs | `PluginSafe` |
| `FormationIsSafe`, `FormationInvariance` | RequestProofs | `FormationSafe` |
| `SessionIsSafe`, `SessionInvariance` | SessionStoreProofs | `SessionSafe` |
| `SkillsAreSafe`, `SkillInvariance` | SessionStoreProofs | `SkillsSafe` |
| `OutboxIsSafe`, `OutboxInvariance` | SessionStoreProofs | `OutboxSafe` |
| `MemoryIsSafe`, `MemoryInvariance` | SessionStoreProofs | `MemorySafe` |
| `ShellIsSafe`, `ShellInvariance` | MachineProofs | `ShellSafe` |
| `StartIsSafe`, `StartInvariance` | MachineProofs | `StartSafe` |
| `SetupIsSafe`, `SetupInvariance` | MachineProofs | `SetupSafe` |
| `DocumentsAreSafe`, `DocumentsInvariance` | MachineProofs | `DocumentsSafe` |
| `InternetIsSafe`, `InternetInvariance` | MachineProofs | `InternetSafe` |
| `ProviderIsSafe`, `ProviderInvariance` | ServingProofs | `ProviderSafe` |
| `ApiIsSafe`, `ApiInvariance` | ServingProofs | `ApiSafe` |
| `SilenceHolds` | ServingProofs | `SilentAfterBargeIn` |
| `VoiceIsSafe`, `VoiceInvariance` | ServingProofs | `VoiceSafe` |

None of these properties is inductive. What each proof adds:

- **Coordinator** (`Inv` = `TypeOK` and `Sound(e)` for each execution). That a restart
  shows the verdict needs that no late task overwrites its checkpoint: a decided
  execution has a task only if `timeout_execution` decided it, and that task is being
  cancelled (`LiveWhenFinal`, `CancellingIsLive`). Cancel and timeout read the record
  again after they waited, so `WaitersBlock` says what can have happened meanwhile.
  A denial leaves the status AWAITING_APPROVAL while a task runs: `AnswerInFlight`
  keeps a second answer out. `NeverLeftApproved` and `Restorable` carry
  `RestoreIsLegal`; `DownIsBlank` and `UnlistedIsFinal` say what is true of an
  execution no process lists. `CommitSound` covers every handler that ends in a save,
  `Undisturbed` every other execution. For `RetentionHolds`, every subset of the
  executions has a least element (`Least`), which makes pruning by age a bound
  (`PruningBounds`). `ImplementsVerdict` maps every step to a step of `Verdict` or to a
  stutter; across crash, restart and pruning by `VerdictSteady`.
- **Reminders** (`Inv`): only a running loop awaits callbacks (`LoopOnly`), so what
  follows an await meets a memory equal to the table; a dead process holds nothing
  beyond the table (`Within`). `RingsOnce` counts: each notification is paid for by a
  caller that has the reminder behind it and cannot notify it again, and a stop or
  crash refunds at most one notification per caller (`Counted`); what was pruned or
  cancelled keeps its count (`Forgotten`).
- **Workflow, any plan** (`PlanInv`): handled tasks are disjoint (`Apart`), what is
  recorded took effect (`Earned`), an exposed mutation is a claimed one (`Once`), and
  who waits for an answer knows for which (`Asked`). That an unfinished plan has
  something ready is shown at its least unhandled task, by well-founded induction.
- **Workflow, chains** (`ChainInv`): `ChainOrder` says that what is handled, in
  flight, or on disk is a prefix of the chain, so at most one mutation is uncertain at
  a time; `ChainRecord` that a checkpoint marked safe covers all but that one. The
  hypothesis `Chain` (`Linear`, no unroutable task, no raising `run`) is what
  `TaskDecomposer` emits and the code's own routers do. For parallel plans
  `AtMostOnce` is false (section 8), so the hypothesis cannot be dropped.
- **Tool authority** (`Authorised` = `TypeOK` and `Guarded(t)`): a permit that allows
  what needs approval is for inputs somebody allowed (`PermitEarned`), what acts does so
  under such a permit for the inputs as they are and a mutation has used it up
  (`ActsByPermit`, `ActsOnce`), what waits has not acted (`NotYet`), and the runs of a
  task are on record but for the one that goes on (`OnRecord`, `Handed`).
- **Terminal** (`TerminalInv`): a queued answer to an approval was pressed
  (`Queueable`), the question on the screen is the router's question, and a session
  deleted under a running answer is excused. Without a key or button in mid-answer there
  is one task or one stream, and the input bar is on only while no answer runs
  (`Orderly`); from this it follows that no token strays.
- **Files** (`FilesInv` = `Sound(files)`, and what the last operation may have lost): above
  what exists there are directories, and what leads out of the root through a link is
  refused because a path is judged by where it leads (`CanonicalIs`, an induction over
  its components). A tree that may be copied, moved or deleted holds no link and nothing
  protected (`TreeOKIs`); copying and renaming are one-to-one and keep what is above
  above (`MovedThere`, `MovedInOrder`), so the result is a tree again (`CopySound`,
  `RenameSound`). The proof corrected `ProtectedKept`: the smaller world checked before
  held no name that a copy could land on. It is assumed that links which matter lead
  out of the root.
- **Checkpoints** (`StoreInv`): neither the index on disk nor the entries in memory fall
  behind what was acknowledged (`Ahead`), no record is of an execution not yet started
  (`Started`) or behind its own acknowledged save (`Onward`), and a record whose last
  save was acknowledged is in both and in its file (`Settled`).
- **Pipeline** (`PipelineInv`): the registry lists every state that is not fresh, once
  (`Listed`); what a session remembers came from its own requests and its open question
  has no answer yet (`Proper`), what a request refers to and answers was in its
  session (`Coherent`).
- **Evidence** (`TrailInv`): a process that holds the reservation has read the last
  number of the trail it appends to, since nobody else can write meanwhile; what a
  call has still to emit tells the verdict of its execution unless a cancellation was
  overtaken (`Truthful`), and what retention is about to delete has ended (`CallOK`).
- **Audit** (`AuditInv`): while every row was written, the log is the rows in order,
  stamps rise with the numbers (`Chained`), and the rows sorted by stamp and number are
  that log again (`ReloadsAll`): an increasing function on 1..n within 0..n-1 leaves no
  choice (`Growing`). That the clock is not set back is an assumption (section 8).
- **Plugins** (`PluginInv`): what a load has passed of its target's closure is loaded
  (`LoadOK`), so a plugin that is started finds its dependencies loaded and shares no
  tool with them (`NeedsAreLoaded`); hence the tools a failed reload puts back were not
  given to a dependency it loaded meanwhile (`ReloadOK`). An instance always comes with
  all its tools on the record, in the registry under its name (`RecordOK`), which is why
  checking the record's list protects every call. The theorem assumes what section 8
  shows to be needed: that operations do not overlap (`OneAtATime`) and that a manifest
  names at most one dependency (`SingleDependencies`).
- **Personal stores** (`PersonalInv`): a row is its entity or an older state of it in
  the same zone, and a row whose entity is gone from memory is what a failed delete left
  (`ItemOK`); so a restart, which takes the rows for the truth, loses only what was
  never acknowledged.
- **Sessions** (`SessionInv`): index, metadata and cached object agree, also after
  writes that raise (`Filed`), an unfinished write only adds to what the files hold
  (`Clean`, `Continues`), so a crash between archive and memory file can repeat an entry
  and never lose one, and every number is used once (`NumberedOnce`).
- **Skills** (`SkillInv`): every record of the store is `Fit` (its counts, the rate of
  those counts, trusted only as an active one) and alone with its pattern, which is why
  a new observation finds the one record there is; `NotBack` goes with each change of a
  record. That the planner injects only records there are needs `RankedAll`: the order
  by score and number gives every place from 1 on to exactly one active record.
- **Outgoing messages** (`OutboxInv`): every copy is paid for by an attempt (`Counts`),
  the stage of a message tells what can have left (`StageOK`), and what its caller was
  told stays true after late deliveries and restarts (`Truthful`). In the first process
  the numbers of the history are those of its entries and every message told of has
  one (`FirstTrail`); the rows a restart reads are in order by `RankedAll` again.
- **Formation** (`FormationInv`): a statement stays remembered because a memory may only
  become one that stands for all it stood for (`Follows`): a preference in new words
  keeps the old ones, and nothing else is ever put in other words. A session's history
  has at most as many entries as are counted for it (`JournalOK`); one missed or skipped
  entry leaves it shorter forever, so equal lengths mean a whole history.
- **Memory** (`MemoryInv`): the words of a memory, in the process and on disk, are its
  owner's (`Owned`), and every cached retrieval holds what anybody who finds it by its
  key may see (`Retrievals`), which is why the session and the workspace belong to the
  key. The caches are filled one entry after the other (`WithRecent`); that this keeps
  them bounded, without doubles and within what was put in is an induction over that
  recursion (`WithRecentIs`), from the first place where it would fail.
- **Shell** (`ShellInv`): a reader stops only at the end of the output or over the
  limit (`StopsForReason`), which is what makes `ok` mean a whole output.
- **Process start** (`StartInv`): who is past the guard holds the lock (`Holds`); two who
  are past it belong to two Windows users, and only one of them writes a key, into an
  empty file (`Excludes`). What a process read is the key on disk or too short to be
  one, and a key once whole and private stays so (`KeyGrows`).
- **Setup** (`SetupInv`): what a commit has written is noted with the secret it replaced
  (`Noted`), and what is still to do is exactly what separates the vault from the
  draft's secrets (`ToDo`, `WritesReach`), so that a finished commit, or a finished
  rollback, leaves one whole state. A verification in the wizard is of what the
  controller holds, which the fields have not left since (`ProviderProven`,
  `ServerProven`), so the document is true of the credentials once its writes are done
  (`InstallOK`). The provider ids differ from the words for "none" and "later".
- **Documents** (`DocumentsInv`): what is proved of a text holds for every text. The
  recursion that cuts it into blocks has a value at every line (`BlocksAre`, by
  induction down from the last one), the blocks from a line on cover it and what
  follows, and none reaches back before it. For the reader, a parser or engine is
  passed only once it failed, and the cache holds a foreign text only for a version
  that changed while it was recognised (`strayed`).
- **Internet** (`InternetInv`): going through an answer, each result already met has one
  at least as good among those kept that is its duplicate, directly or through others
  (`CollapseKeeps`, `SelectedKeeps`, by induction along the answer). The order by score,
  url and position gives every place to one result (`PlacesOf`), so the cut leaves out
  only results that are no better (`RankedGives`). A cached answer is of its own key and
  expires when its category says (`EntryOK`), and the hop of a fetch has one request
  more than redirects once it is sent (`FetchOK`). The proof corrected `BestSurvive`:
  it said "directly or through a third", which four results that are duplicates in a
  chain refute; the run now has such an answer.
- **Planning** (`PlanningInv`): the first rule that holds decides (`RulesAre`), so what a
  branch leads to tells what the text says (`LeadsWhereSaid`). The steps are laid out by
  the rank of their kinds with the provider right after its one tool step (`Laid`);
  optimiser, resolver, skills and stages each keep for every task the step it stands for
  (`StandFor`, `PlanStands`, `StagesOf`), since what a loop that skips elements leaves is
  the others in order (`ChosenIs`, by induction along the sequence). Only two paths of
  one name are told apart by nothing (`ToldApart`), which is the exception of
  `NothingDangles`. That what has run is closed under the dependencies (`Closed`) needs
  that tasks of one id have the same needs (`OneNeed`).
- **Providers** (`ProviderInv`): what is left of an attempt has a call in hand for every
  candidate still to try, so the calls are counted before they happen (`Dutiful`); a
  cached status without a running timer means no cooldown (`Timed`), although the status
  is read outside the lock.
- **API** (`ApiInv`): a task at work for a decided execution has a handler that waits for
  it (`Fine`), so no answer can be sent before it ends; the limiter's count is what the
  latest window let in (`Counts`). `WindowIs` and `RetryIsLong` are the arithmetic of
  windows and of the rounded Retry-After.
- **Voice** (`Silenced`): after a barge-in the end is the next thing the consumer gets,
  also when a `put` that waited for room comes after the cancellation.
- **Voice session** (`VoiceInv`): while no start overlapped another, what listens is the
  manager in use or one that is being stopped (`Attended`), and a yes in hand was given
  for the task that is pending, so it cannot allow another one.

The proofs share a shape: one lemma per action says that a step keeps the invariant of
the item it touches, one lemma covers the items it does not touch, and a last one puts
the actions together.

**Only model-checked**: liveness, since fairness and ENABLED are beyond the prover. Every
safety invariant that a run checks is proved.

## 8. What the code does not keep

`coordinator_answer_crash` shows one claim refuted: "state and signed checkpoints
support pause/restart and recovery" (`docs/ARCHITECTURE_STATE.md:104`).
`submit_approval` saves the answered id before the status leaves AWAITING_APPROVAL; a
crash there leaves an execution whose approval can never be answered. `ResumeMayRaise`
(a denial's pipeline raises) and `MayRepause` (an approved task pauses again) reach the
same state without a crash.

More claims fail whose definitions stay in the modules, without a run:

| Definition | Claim | What happens |
|---|---|---|
| `ActiveBound` (ExecutionCoordinator) | active executions are bounded (`tests/stress/test_p12_runtime_concurrency.py:416`) | `_run_resume` takes no slot of the semaphore |
| `TerminalResultAgrees` (ExecutionCoordinator) | the result says what the status says | a cancel that waits while a timeout decides writes its own result; a crash inside `timeout_execution` loses it |
| `FinishedIsReported` (WorkflowRuntime) | a finished plan is reported so | resumed after its last batch was saved, it has nothing to do and is reported FAILED (`workflow/engine.py:305`) |
| `CompletedMeansDone` with `MayAbort` | results represent reality (`docs/ARCH_tool_hardening_plan.md:47`) | a `run` that raises leaves a result without routing, and an earlier COMPLETED one becomes the execution's (`orchestrator/engine.py:1680`) |
| `AtMostOnce` for parallel plans | | a sibling's checkpoint sets the shared `recovery_safe` while a mutation is in flight; `TaskDecomposer` emits chains, for which it is proved |
| `NeverRefused` (CheckpointStore) | a bad checkpoint never keeps the program from starting (`tests/production/test_p6_runtime_reliability.py:274`) | a crash inside the very first save leaves a file without an index, and the constructor raises at every later start (`checkpoint.py:452`) |
| `AckedSurvives`, `RestoresThisRun` (CheckpointStore) | | a crash between the two replacements makes an acknowledged execution unloadable; an id used again after pruning is never saved |
| `LoopFires` (ReminderScheduler) | "The loop polls for due reminders and fires registered callbacks" (`reminder.py:115`) | a `due_at` without a zone, the only kind the goal parser produces, raises in each pass before anything fires (`reminder.py:199`) |
| `CancelledCannotFire` (ReminderScheduler) | a cancelled reminder cannot fire (`tests/security_adversarial/test_p13_scheduler.py:100`) | cancelled during another's callback it is still in the due list (`reminder.py:305`) |
| `EveryAnswerEndsAnyway` (VoiceStreaming) | "Voice loop recovers" | a synthesis error kills the consumer and the producer blocks (`voice_manager.py:279`); a playback error kills the speaker's worker and `drain` never returns |

The models follow the code in what else a reader may not expect:

- **Pipeline.** Once a session has a search result, the last generated text is no
  longer updated; the credential filter runs after memory formation; withheld text can
  come back through a later reference; a session's executions are listed only after
  `wait` returns.
- **Audit.** The rows are read back by time stamp first (`audit.py:29`): a clock set
  back between two entries reorders them, and `verify_chain` reports tampering. The
  clock of the model is not set back.
- **Tool authority.** A cancelled run leaves no governance record; `records or
  ExecutionRecordStore()` (`governance/engine.py:67`) replaces an empty durable store;
  an answer to an expired permit raises and the task stays.
- **Plugins.** Only the last dependency of a list is kept (`dependencies.py:64`, against
  `docs/PLUGINS.md:151`); a load that overlaps another takes a plugin that is still
  starting for a loaded one; a failed start leaks tools; a failed reload leaves a stopped
  instance ACTIVE; one unresolvable record makes every load fail; `update_plugin` and
  `load_directory_safe` always fail.
- **Providers.** A stream that fails after some tokens goes on with the next provider's
  from the start; the health counters are never fed.
- **Sessions, memory.** Rotation cuts the cached object before the archive is written;
  after a failed write the retry is taken for a duplicate; a crash inside the deletion
  leaves an index entry without metadata. Updated content keeps its old privacy level; a
  row whose deletion failed cannot be deleted until a restart; deletion looks at the
  newest 1000 only; retirement and merging of skills are not stored.
- **Formation.** The question mark is stripped before "questions do not form memories"
  is asked; a correction writes no row and is gone after a restart.
- **Personal stores.** An update with a text date makes that item's store raise until a
  restart; one naive event makes agenda and every aware event raise; a row whose
  deletion failed returns after a restart.
- **API.** A cancel drops the waiting reply of `/execute`; a 504 may be sent for a
  completed execution; denied and awaiting streams end without a final event; twice
  the limit passes across a window's edge.
- **Terminal.** F1 or an approval during a stream enables the input again; Allow pressed
  after `/switch` goes to the session on screen and is lost; deleting another session
  resets the active counter; a stream of a deleted session creates it again.
- **Voice.** A spoken yes is also a new request; overlapping starts leak an open
  microphone.
- **Internet, mail.** The cache has no bound and "c++" shares a key with "c#"; a body is
  read whole before its bound is checked. After a restart new history entries overwrite
  old rows; a send that timed out goes on in its thread, and a retry duplicates it.
- **Files, documents, shell.** A move with overwrite removes its destination first; a
  failed write truncates. The enforcer looks at a destination, not at the names a tree or
  a file takes below it (`filesystem.py:212`), so a copy or move to a directory may make
  a protected path in it and, with overwrite, replace it (against
  `docs/pilot/PILOT_SCOPE.md:10`). A spreadsheet with a table drops all other text; a result of
  OCR is cached under a key computed afterwards. Cancellation and the dispatcher's
  own timeout leave the process running (against `shell.py:10`); over-limit output
  blocks it until its timeout.
- **Planning.** The optimiser drops a repeated task others depend on; "delete" and
  "update" of notes or tasks are routed to "create".
- **Setup, start.** A preset applied after a successful test keeps it verified; a crash
  between credential and settings pairs an old verified document with a new secret; a
  failed step of the rollback leaves the rest undone. A crash while the key file is
  written makes every later start raise; `personality set` writes without the lock.
- **Evidence.** `cancel_execution` emits `execution_cancelled` also when the task ended
  otherwise; most emitters have no caller.

## 9. Not modelled

Retrieval scoring, `intelligence` apart from planning, diagnostics, developer tools,
prompts and presentation have no protocol to get wrong: they compute or print.
Outside are devices, recognisers, synthesisers, parser libraries and the adapters'
wire formats; what they answer is a choice. In what is modelled, signatures and digests
are equality of content, backoff and delays are the freedom to be late, metrics and
logs are left out because nothing reads them back. `delete_checkpoint`,
`AgentLoop.run_agent_step`, most evidence emitters and the skills' reflection wiring
have no caller in the application. The note of each component in `PROJECT.json` says
what of it is left out.

## 10. Plan

1. Done: the components of section 3, and the proofs of section 7.
2. Refinement of the coordinator's single save by `CheckpointStore`, and of
   `WorkflowRuntime`'s `Permitted` by `ToolAuthority`.
