# go-mamacord in TLA+

Mamacord is a Discord bot whose features are plugins: Starlark programs that the
bot loads from signed bundles, swaps while it runs, schedules, and gives a
versioned key-value store. A dashboard administers it over HTTP, and a
marketplace installs plugins from git. This directory models the parts of the
bot where goroutines, processes, database rows, files and leases interleave, and
the contract between host and plugin. TLC checks the models on small instances,
and TLAPS proves what matters most for instances of any size.

Paths below are relative to `src/internal/` unless they begin with `docs/`,
`cmd/` or `apps/`.

    tlc -workers 2 -config ReminderLease_batch.cfg MCReminderLease.tla
    tlapm ReminderLeaseProofs.tla

`PROJECT.json` lists the runs, the source lines of every definition (`map`), the
mutants that show that each property can fail, the hazards and the theorems.

## 1. Inventory

### Components with a protocol

| component | state | operations | with whom it interacts |
|---|---|---|---|
| plugin generations (`runtime/plugins/starlark/generation`) | the current generation, pending retirements and their channel; per generation: accepting, active callbacks, drained, released, cancelled | Activate, Invoke/Check, Close, finishRetirement, Acquire, BeginDrain, Drain, Release | the host builds a generation for each load; every callback enters through it |
| plugin host (`runtime/plugins/host/load.go`, `registry.go`, `commands.go`) | the served plugin set, its metadata, the command creates | LoadAll, loadOne, Close, Infos, CommandCreatesFiltered | called by the bot's reload; replaced sets close their generation managers; reads bundles and installed rows |
| plugin admission and effects (`runtime/plugins/host/effects.go`) | per call: the admitted plugin, the state read, the attempt, whether an operation took effect | plan, admit, readmit, authorize, run, execute the outcome, retry | reads and writes the key-value store; runs programs through a generation |
| versioned store (`storage/postgres/plugins/kv.go`) | rows with a version | get, put, delete, compare-and-swap, compare-and-delete | called by effects and by the guild configuration |
| plugin contract (`runtime/plugins/contract`) | none | validate definitions, invocations, outcomes, decisions; compile and resolve routes | host, bridge and generations |
| interaction dispatcher (`runtime/discord/interactions`) | handler slots, rejection slots, rejection queue | Launch, handler, launchRejection, the loop of a rejection goroutine | receives every Discord interaction |
| command and component routing (`runtime/discord/appcmd`, `pluginbridge`, `router`) | per interaction: the plan and the state of the response | restrictions, cooldown, enabled switches, plan, admission, deferral, run, reply, error reply | between dispatcher, host and Discord |
| cooldowns (`runtime/discord/router/cooldown`) | last use by user and key | Take | called by routing |
| plugin automation (`runtime/discord/pluginbridge/automation.go`) | event slots, token buckets | FireEvent, RunJob | gateway events and cron jobs |
| reminders (`runtime/discord/automation/reminders.go`, `storage/postgres/automation/reminders.go`) | rows with schedule, failure count and lease | create, delete, list, claim due rows, run one, finish | polled by the scheduling runtime's interval task |
| scheduling runtime (`scheduling/runtime.go`) and scheduler (`runtime/discord/automation`) | the cancel function and the cron of the current run; the plan | Start, Stop, Restart, interval task, cron jobs | restarted by reloads; jobs call plugins and the reminder poll |
| module catalog and reload (`runtime/discord/catalog*`, `lifecycle.go`) | stored module states, the snapshot, Discord's commands, `ready` | Start, Reload, enable/disable/reset a module, Refresh, Close | drives host, catalog, registration and scheduler |
| marketplace and bundles (`marketplace`, `bundles`, `storage/postgres/marketplace`) | source, sync, install and trust rows; git checkouts; bundle directories, their state file, caches | upsert, delete and sync a source, search, install, update, uninstall, trust | called by the admin API and by `mamacord plugins`; the host loads its bundles |
| migrations (`migration`) | applied migrations, their history, the schema | Up, Status | every process that opens the database |
| application (`app`, `config`, `ops`, `cmd/mamacord`) | settings, store, servers, bot, startup error | Start, Close, the commands of the program | starts and ends everything above |
| admin API (`adminapi`) and guild configuration (`guildconfig`) | OAuth states, sessions, cached guild lists and the calls that fetch them, documents, warnings, audit | sign in and out, the routes of managers and of the owner | calls Discord, the stores, the marketplace and the bot |

Stateless or out of reach (Starlark author API and compiler, gateway handlers,
builtin commands, texts, first-party plugins, dashboard): listed in
`PROJECT.json` with the reason they are left out.

### How a call goes through the system

A Discord interaction takes a dispatcher slot. Its handler takes the user's
cooldown, plans a route from the host's served set, loads the plugin's state, is
authorized against both, perhaps defers its answer, and runs the program through
the plugin's generation manager, which counts it as a callback of the current
generation. The outcome is a list of operations on the store and on Discord, and
at most one reply; a versioned write that lost a race makes the call read,
authorize and run again. Meanwhile a reload may load the plugins anew from
bundles that the marketplace replaces, swap the served set, close the old one
(which drains its generations), refresh the catalog, register commands and
restart the scheduler, whose interval task polls reminders that other processes
poll too. Other processes, perhaps of another build, migrate the same database.

### Hard behaviour, and what correctness means

* **Generations**: a callback may be admitted, run, outlive the drain deadline
  and be cancelled while swaps and closes overlap. No callback runs on a
  released generation; the current generation always serves; one swap never
  surfaces to a caller; Close waits for every retirement; no generation is
  dropped silently.
* **Admission**: the plugin and its state change between authorization and
  execution. What runs is what was authorized; effects are not repeated by
  retries; no accepted update of the state is lost.
* **Interactions**: each has one first reply and a deadline, and half a dozen
  places that may send it. Discord refuses no reply that a handler sends, every
  interaction gets one, and what the contract accepts can be sent.
* **Reminders**: processes crash between claim and finish, leases expire under
  a worker that is still sending. Two workers share a reminder only across an
  expired lease; no occurrence is skipped; an abandoned reminder is claimed again.
* **Scheduler**: fields change under a lock, work happens after it. No run is
  lost alive, no cron keeps running behind the runtime's back, Stop waits for
  jobs.
* **Reload**: no lock spans a reload. The served plugin set is never closed,
  none is forgotten open; a reload that succeeds undisturbed takes effect everywhere.
* **Marketplace**: rows, directories and a checkout change in separate steps
  that fail or overlap. The row names a bundle that is there, what is served
  was verified, new code is not enabled unseen.
* **Processes**: nothing but the database orders two of them. The schema is a
  log; a process runs on the schema of its build; servers end before what they
  use; a signal ends a process wherever it is.
* **Admin API**: rights come from a cache that several requests fill. One
  session per login, rights of bounded age, an audit log that tells the truth.
* **Dispatcher**: buffered channels are the only synchronisation. A queued
  rejection is never stranded; nothing is answered twice.

## 2. Modules

| module | models | extends | proofs |
|---|---|---|---|
| `PluginGeneration` | generation manager and generations | | `PluginGenerationProofs` |
| `ReminderLease` | reminder service and store | | `ReminderLeaseProofs` |
| `SchedulerRuntime` | scheduling runtime | | `SchedulerRuntimeProofs` |
| `ModuleReload` | bot lifecycle, reload, host, catalog, registration | `SchedulerRuntime` | `SchedulerRuntimeProofs` |
| `PluginAdmission` | admission, effects, versioned store | | `PluginAdmissionProofs` |
| `InteractionDispatcher` | dispatcher | | `InteractionPipelineProofs` |
| `PluginContract` | definitions, routes, invocations, outcomes (no state) | | `InteractionPipelineProofs` |
| `InteractionPipeline` | routing, cooldowns, automation, admission, replies | `PluginContract`, `InteractionDispatcher` | `InteractionPipelineProofs` |
| `Marketplace` | marketplace, bundles, loading of one plugin | | `MarketplaceProofs` |
| `MigrationLog` | abstract: the schema as a log | | |
| `AppLifecycle` | command line, configuration, migrations, startup and shutdown | implements `MigrationLog` (INSTANCE) | `AppLifecycleProofs` |
| `AdminApi` | sessions, guild lists, configuration, warnings, scaffolds | | `AdminApiProofs` |

A module that runs check has an `MC...`
module that gives names to model values, the symmetry sets and the small inputs,
and the configurations give the constants their values. The dispatcher and the
contract are checked in the pipeline that extends them.

Conventions. One action is what a goroutine does between two points where others
may act: a critical section, a channel operation, one statement on the database,
one call that blocks. A variable that is a function of callers holds a local of
the code, or says where the call stands. Variables marked *history* are read by
properties only, never by a guard. Operators named `X_Y` under a comment
"Mutation" are `X` with a plausible bug; nothing uses them except the mutants.

### PluginGeneration

State: `current`, `pending`, `retired` and `closed` are the manager's fields (a
channel is a number; `closed` holds the closed ones, and the manager is built
with a closed channel, so `closed = {0}`); `accepting`, `active`,
`drainClosed`, `released`, `cancelled` are a generation's. Actions follow the
code's locks: `CheckReady`, `Swap`/`RefuseDuplicate`, `DrainPrevious` are
Activate; `ReadCurrent`, `Acquire`/`AcquireRefused`, `FinishCallback`,
`Retry`/`GiveUp` are Invoke and Check, whose loops are the same; `DrainReturns`,
`DrainDeadline`, `GraceDeadline`, `ReleaseRetired`, `FinishRetirement` are the
retirement goroutine with its two deadlines; the `CloseManager` family is Close
with its context. The loader disposes of a refused generation
(`DrainRefused`, `ReleaseRefused`).

Simplification: Activate's "already current" return needs a second activation of
one generation, which no loader makes (`host/load.go:168-295` builds one per
load), so it has no action.

### ReminderLease

State: `row` (exists, enabled, next run, failures, lease) and, per worker, what
the poll keeps: its `now`, the rows as the SELECT returned them (`snap`), the
batch. `SelectCandidates` and `ClaimCandidates` are the SELECT and the guarded
UPDATEs of one transaction (READ COMMITTED: they see different states);
`ClaimFails` is a claim that is rolled back, `ClaimLost` one whose commit took effect
but reported an error, so that the rows are leased and nobody runs them;
`RejectSchedule`, `SendSucceeds`, `SendFails` decide as `runOne` does, and
`FinishRun`, `FinishFails` are the conditional UPDATE and its failure, which the
code ignores. A worker is cancelled by the scheduler (and then still walks its
batch), and a process crashes at any point. An attempt whose send returns an
error counts as a possible delivery. Time is `clock`, in the unit of the
lease; a message is nothing but the attempt to send it.

### SchedulerRuntime

A run is one Start that passed its guard, numbered. `handle` and `cronHandle`
are the two fields of the runtime; the actions are the critical section and the
steps after it: create the run, spawn the interval task, start the cron; take
the fields, cancel the run, stop the cron, wait for its jobs. Every caller has
a context of its own (`over` holds those that ended), and a run ends when it is
cancelled or when the context of the caller that started it ends. A Start that
was overtaken by a Stop starts its cron late, under a context that is already
cancelled.

### ModuleReload

It adds to the scheduler's state the stored module states, the plugins on disk,
the host's served set, the loaded sets that are open, the catalog snapshot,
Discord's commands and `ready`. Its calls are Bot.Start, reload, enable,
disable, reset and Bot.Close; each goes through put, load, swap, close the
replaced set, read the states, read the infos, store the snapshot, read the
commands, register, and the scheduler's own actions for the restart. Every
step that the code may return an error from has that outcome, and every query
under a caller's context fails when that context has ended. `disturbed` is history:
the operators' calls that began before the bot was ready or beside another
operator's call, or that another one followed.

Simplifications: a loaded set is named by the call that loaded it (each call
loads once); a plugin is its module, with one job that has its name; LoadAll's
four-second close of the replaced set is taken to complete (what happens when it
does not is `PluginGeneration`'s subject); reading the enabled ids and the
host's commands is one step; the interval task, which is independent of the
plan, is left to `SchedulerRuntime`.

### PluginAdmission

State: one versioned `row` of the store (a value is the set of calls whose
update it contains, version 0 is no row), how often the plugin was loaded, which
load is served, which are closed, and per call the plugin admitted, the row
read, the attempt and the operations left. A program is any of the operation
lists of `Programs`; an operation is a compare-and-swap, compare-and-delete,
put, delete, another effect (`act`), or a reply, and is plain, guarded or
best-effort. Each of them may fail before it took effect, or after (`TakesEffect`). `Replace`, `Unload` and
`CloseReplaced` change the served plugin between any two steps. One key stands
for all of a plugin's state; `BeginRun` with a refused second readmission is
unreachable in the code and has no action. `overwritten` is history: a write that
took effect removed the row or ignored its version.

### InteractionDispatcher

`call` says where an interaction's own goroutine stands, `worker` where the
rejection goroutine it launched stands. The steps are the operations on the
three buffered channels and the reading of the queue's length: take a slot or
not, return or panic, take a rejection slot, enqueue or drop, kick, run,
receive or find the queue empty, give the slot back, look at the queue again.

### PluginContract

Operators only. A definition is the sequence of its cogs and the sequence of its
items (commands before their children, then components, modals, listeners and
tasks, cog by cog), so a path, a route and the checks above an item are functions
of positions. Commands nest three deep at most, which `ValidDefinition` enforces as
the code does, so `Path`, `RootKind` and what an item inherits look up two parents
and need no recursion: that is what makes them provable about. `ValidDefinition` is `Definition.Validate` with the compiler's
duplicate routes; `Signatures` is the route table that `Compile` builds;
`ValidInvocation`, `Resolves`, `AcceptedOutcome` and `AcceptedDecision` are what
the host asks before and after it runs a program. Whether a single text, number,
id, colour or URL is in order is one Boolean, `sound`; how the values of an
invocation relate to each other and to the definition is kept.

### InteractionPipeline

It composes the dispatcher with the handlers it runs and with the contract.
`call` and `worker` are the dispatcher's; `run` says where each handler stands:

* routing: `CheckRestrictions`, `ReadClock`, `Take` (the tracker's critical
  section, with a time that was read before it), `Dispatch`, `CheckEnabled`,
  `MakePlan`;
* admission: `Admit` (first, after a deferral, or as a retry), `Defer`,
  `RunAdmitted`; a retry that is admitted starts its three attempts anew;
* the program: `Invoke`, `InvokeStale` (its generation was replaced),
  `ExecuteReply`, `ExecuteEffect`, `EffectFails`, `EffectConflicts`;
* the answer: `AnswerNothing`, `AnswerWith`, `ReportError`, then `Deliver`,
  `DeliveryFails` (the request is lost, or only its answer) or `Refuse`; and
  `Reject`, the dispatcher's own answer for an interaction that found no slot or
  whose handler panicked, which is a first reply whatever was sent before;
* automation: `Fire` (an event slot), `TakeToken`, `NextListener`.

`view` is what Discord shows the user: nothing, "thinking", a message, a modal,
choices. `Accepts` says which reply Discord takes in which view, and is external:
it follows from how the code uses the responders. `Reload`, `Unload` and `Tick`
change plugin and time between any two steps. A bundle whose definition does not
compile leaves the old one served (`Loaded`). `taken`, `effects`, `refused`, `lost`
and `interrupted` are history. An effect is recorded with who caused it, the bundle
and route it ran, and the bundle that was loaded when the run began, also when it
took effect and reported an error; a refusal with whose interaction it was and
whether handler or dispatcher sent the reply; `interrupted` are the handlers that
panicked after their first reply.

A situation ("cast") is one to three interactions, a sequence of bundles to load,
whether the plugin is unloaded, how far the clock runs and how many calls fail.
The casts enumerate the ways an interaction can go; their product is not
explored.

### Marketplace

State: the rows of the catalog (sources, sync records, the plugin's install row,
its module state, signer and vendor), the files (a checkout per source, the
plugin's root with its active bundle, bundle directories, caches, temporary
copies), the requests under way, and a load by the host. A request takes one step
per call: lock, fetch, record for a sync; label, scan, check, copy, place,
activate, put the row, disable the module for an install or update; remove files,
store, cache, row, state for an uninstall; and a failure at each step that does
I/O; a sync may also fail after it moved the checkout. No transaction spans them, and
the only lock is that of a source's checkout, per process. `ResolveBundle`,
`VerifyBundle`, `HashBundle`, `BuildGeneration`, `Recheck`, `VerifyAgain` and
`LoadFails` are `loadOne`: signature, hash, compilation, hash and signature again,
with anybody's steps between any two.

The contents of a directory are the commit they came from and whether they differ
from it: because somebody edited them since, who may put them back, or because the
copy was made while a sync was moving the checkout and mixes two commits.
`swapped` and `evaded` are history: during this load, or the load of what is served,
another revision or the verified contents were put into the directory after the
signature was checked. The local and the cached backend are explored; the object
store is in the module and `Backends` of the run leaves it out.

### AppLifecycle and MigrationLog

State: environment files, the database (`applied`, `history`, `executed`) and per
process its command, settings, build, its run of `Up` and the parts of its `App`;
the addresses that are listened on; requests to the admin server. `Up` is one
action per statement (`LoadApplied`, `ExecMigration`, `RecordState`,
`CommitMigration`); a row inserted by an uncommitted transaction makes the other
process wait, as the primary key does. Startup follows `Start` part by part, each
of which may fail; `Close` ends the parts in the code's order; signals and
crashes come at any point.

`MigrationLog` is the abstract specification: a log of migrations that is only
ever appended to, in the order of the versions. `AppLifecycle` implements it:

    Schema == INSTANCE MigrationLog
        WITH Migrations <- Checksums,
             log <- [i \in DOMAIN history |-> [version |-> history[i],
                                               migration |-> executed[i]]]
    MigrationsAppend == Schema!Spec

The mapping pairs what was recorded with what was executed, so a version recorded
twice, a migration run without its record and a record out of order all break it.

### AdminApi

State: OAuth states and sessions, the cached guild list of each access token and
the request that is fetching it, documents, warnings, audit rows, scaffolded and
signed plugins, what users are in guilds, and per request where it stands and
what it has read. Time is in units of the cache's lifetime. Each route goes
through its guards (session, the CSRF token where the route asks for it and the method
is not GET, owner or guild) and then its own steps;
`FetchStep` is the leader's call to Discord, whose result its followers share. A
route that only calls Discord or another component after its guards is one step
there. The document of a guild is modelled with the fields that properties tell
apart, through `Normalize`, `Save` (which leaves out what is empty) and `Load`
(which fills in defaults).

## 3. Runs

| run | instance | checks |
|---|---|---|
| `generation_closes` | 3 generations (2 share an id), 1 dispatch, 1 Close, fair; 549 k states | `NoCallbackOnReleased`, `CloseWaitsForRetirements`, `NoSilentLeak`, `RetirementEnds` |
| `reminder_batch` | 2 reminders (1 unparsable), 2 workers, batches of 2, 3 ticks, fair; 467 k | `LeaseExclusive`, `AttemptsLeaseApart`, `NeverDisabledEarly`, `NoOccurrenceSkipped`, `DueIsReclaimed` |
| `scheduler_calls` | 2 callers, 2 runs, 1 job, fair; 10 k | `NoOrphanedRun`, `EndedRunStops`, `CallsReturn` |
| `reload_overlap` | Start, 2 operators, Close, 1 builtin, 1 plugin, symmetry; 1.8 M | `ServedSetIsOpen`, `OpenSetsAreHeld`, `StopLeavesNoJob`, `ReloadTakesEffect` |
| `admission_calls` | 2 calls, 5 programs, 3 loads, symmetry; 1.1 M | `NoLostUpdate`, `EffectsOfOneRun`, `RunsWhatWasAuthorized` |
| `pipeline_interactions` | up to 3 interactions, 2 slots, 5 bundles, fair dispatcher; 200 k | `RepliesFit`, `AnsweredAtTheEnd`, `AcceptedIsAnswerable`, `EffectsAuthorized`, `CooldownKept`, `PlansResolve`, `QueueIsAttended`, `RejectionsEnd` |
| `marketplace_requests` | 2 operators and a command line, 1 source, 2 commits, 7 casts; 3.5 M | `RowHasBundle`, `ServedIsVerified`, `EnabledWasReviewed`, `SyncRecordMovesForward` |
| `app_processes` | 2 processes, 4 builds, 1 request, 4 casts, fair; 229 k | `StoreIsMigrated`, `ServersSeeLiveParts`, `MigrationsAppend`, `CancelledEnds` |
| `adminapi_requests` | 1 user, 1 guild, 3 requests, 9 casts, fair; 345 k | `OneSessionPerLogin`, `AuthorizedRecently`, `OneFetchPerToken`, `AuditTellsTruth`, `WaitersAnswered` |
| `reload_scheduler`, `adminapi_saved`, `pipeline_selects` | the smallest that shows it | violations, section 6 |

Why the bounds are enough.

* Three generations allow the two replacements that make a dispatch answer stale, a
  duplicate id, and activations before and after a Close, so that a later one makes
  a new channel while the Close waits on the one it captured. A generation's
  callbacks are interchangeable. The theorems cover any number, more Closes included.
* Two workers are needed for every race of claims and for a takeover; a third
  would meet a lease that is either live or expired, as the second does. Three
  ticks let a lease of one tick expire and its successor finish, and let the same
  reminder be attempted again until it is switched off. `Year` is beyond the clock.
* Two restarts, each a Stop and a Start, put every step of Start and of Stop
  between any two of another call.
* In `reload_overlap` three calls overlap at will (`ThreeOverlap`): Bot.Start, one
  reload and Bot.Close, or two reloads in a bot that is up - two loads that swap in
  either order, and a close before, between or after them; and two reloads one
  after the other, of which the first may have failed anywhere. Calls change the
  row of the plugin; the builtin module's says "off" or is missing
  (`OneRowChanges`).
* Two calls and three loads reach both readmissions and a row that is deleted and
  made again; `NoLostUpdate` needs two writers.
* With two handler slots, one rejection slot and one place in the queue, three
  interactions exhaust the slots, and three panics overflow the rejections. The
  other casts take one interaction of each kind through its outcomes, failures and
  reloads, or two of one user at the same time.
* Two commits are an update; one is signed and the other is not, in production or
  not. Two requests to one process and a command line beside it are the three
  relations two requests can have (same lock, other lock, other operation).
* Two processes race for each migration; four builds give an older, a newer, an
  edited and a refused set of files, and three launches let a process start again
  after a crash.
* Three requests are a leader, a follower, and one that comes after. The clock
  passes the cache's lifetime, the time a stale list may be used and a session's
  end.

Deadlock is checked in `generation_closes`, where the idle dispatcher may always
start again. In the others every call is made once and clocks and casts are
bounded, so the instance really stops, and the configuration says
`CHECK_DEADLOCK FALSE`; that goroutines do not wait on each other for ever is
what the liveness properties are for.

Bounds in guards: `MaxClock` (ReminderLease), `MaxRuns` and `MaxFirings`
(SchedulerRuntime, ModuleReload), `MaxLoads` (PluginAdmission), `MaxCommits`
(Marketplace), `MaxTime` (AdminApi), `cast.horizon` and `cast.faults`
(InteractionPipeline), `cast.launches` (AppLifecycle). Two bounds are constraints of
a configuration: `ThreeOverlap` and `OneRowChanges` (MCModuleReload).

The type invariants (`TypeOK`, `ReloadTypeOK`, `MarketTypeOK`, `LifecycleTypeOK`,
`AdminTypeOK`) stand in their modules. No run lists them, as each is a theorem.
`InteractionPipeline` adds no type invariant to the dispatcher's: `PipelineInv`
(section 5) says of a handler's record what its proofs need.

Tests of the repository that exercise the same behaviour on one schedule each:
`generation/manager_test.go:40`, `TestAdmissionRunsOnceAfterAuthorization`,
`TestAdmissionReauthorizesAgainstReplacementGeneration` and
`TestProductionStarlarkHostRetriesVersionedStateConflict` (host), the lease
tests of the reminder store (`reminders_test.go:132`), and
`TestRuntimeRestartsIntervalTasks` (`scheduling/runtime_test.go:11`).

## 4. Fairness

Only the runs marked fair assume it, always weak and of one goroutine's steps
unless stated otherwise.

* Generations: the steps of a loader, a retirement goroutine, a Close and a
  dispatch that has begun. The two deadlines are timers, so they fire. Nothing
  is assumed of the callback: `RetirementEnds` holds although a callback may
  never return.
* Reminders: time passes, a started poll goes on (its calls have timeouts), and
  claims that can be committed again and again are committed once (strong
  fairness of `ClaimCandidates`: the database does not fail for ever). Crashes,
  cancellations and deletions are not fair. `DueIsReclaimed` asks in addition that
  some worker keeps running, which the interval task does as long as its
  process lives.
* Scheduler: the steps of a call, the interval task's function, and jobs, which
  return because each runs under a 15-second timeout. Two steps are strongly
  fair: a task at its select cannot ignore a done context for ever, as Go
  chooses between ready channels at random (`TaskEnds`), and a wait group that
  reaches zero releases its waiter (`StopReturns`).
* Dispatcher: every goroutine takes its next step; a handler need not return. The
  pipeline assumes no more: handlers, Discord and the store may stall.
* Processes: a process takes its next step, and so does a request that is being
  handled. The second matters: the admin server's Shutdown has no deadline, so
  `CancelledEnds` rests on handlers that return. A process that waits for another
  one's uncommitted row is not fair to go on until that transaction ends, which it
  does because its process goes on or crashes.
* Admin API: a leader's call to Discord ends (the HTTP client has a timeout) and
  its goroutine goes on. Nothing else is fair.
* Marketplace and reloads: none; their properties are safety properties.

## 5. Proofs

The theorems hold for every value of the constants that satisfies the named
assumptions. `PROJECT.json` lists them; the arguments are these.

* **PluginGeneration.** `DispatchInv` adds to the type that a generation's
  counter equals the callbacks running on it, that released means drained and
  quiet, that a generation in the manager was never taken out, and that a
  dispatch that holds a replaced generation has seen a swap for each attempt.
  It is needed because `NoCallbackOnReleased` alone says nothing of the counter
  that Release trusts. `RetirementInv` orders the channels: a Close that has
  captured one is owed only retirements counted on that channel, which is
  closed only when none is left; each generation has one drainer, so no
  retirement is counted twice. From the two follow `CallbacksAreSafe`,
  `CurrentAlwaysServes`, `OneSwapIsAbsorbed`, `ChannelMatchesPending`,
  `CloseIsComplete`; `DisposalInv` gives `NothingLeaksSilently`, and
  `DrainIsFinal` follows from the counter.
* **ReminderLease.** `LeaseInv` ties a worker's local time to the lease in the
  row: whoever holds a reminder under a live lease is the row's lease, and
  every attempt recorded for the row's occurrence is older than the lease of
  anyone who may try it next. `OneHolderPerLease` and `OneAttemptPerLease`
  follow. `NothingSkipped` and `ForwardOnly` are action properties proved from
  the same invariant: only `FinishRun` under the row's own lease changes the
  next run, and then the occurrence is the one claimed. `DisabledAfterFailures`
  needs `CountsInv` besides: wherever a count of failures is (in the row, in an
  old snapshot of it, in the verdict about to be written), it is at most the
  number of attempts that failed. A send adds one to a count and one attempt to
  the history, and it is a new one because `LeaseInv` keeps a sender a lease
  apart from every attempt at its occurrence.
* **SchedulerRuntime.** `RunInv`: the two fields agree, a Start between its
  steps holds a run that exists, and no cron is ahead of its run. With it,
  `RunsAreHeld` and `StrayCronsAreCancelled`. `StopInv` says that a cron is taken
  out of the handle by one Stop only, and that none has a job once its Stop is
  past the wait; without the first part, another Stop could still be stopping the
  cron this one has waited for (`StopsLeaveNoJob`).
* **ModuleReload.** The calls of the bot run the scheduler's actions among
  stages of their own, so the invariants of the runtime are stated for any set of
  stages and proved again for all calls (`ReloadsLeaveNoJob`,
  `ReloadsLoseNoRun`). `SetInv` follows a loaded plugin set through its life: not
  loaded, loaded and held by the one call that loaded it, served, taken out
  and held by the one call that replaced it, closed. It gives `ServedSetsAreOpen`
  and `NoSetIsForgotten` for any number of operators. `ReloadInv` follows an
  undisturbed reload: everybody else rests (the start is over, the other operators
  have returned or not begun, nobody closes), so what the call has read is still
  what there is (`ReadSoFar`), and its restart carries the fresh plan through a
  Stop and finds the fields still clear at its Start (`RestartSoFar`).
  `ReloadsTakeEffect` follows for any number of operators, and whatever earlier
  calls left half done, as each stage is written whole and not adjusted.
* **PluginAdmission.** `Granted` says that the plugin and row granted stay with
  the call until it is sent back (`OnlyAuthorizedRuns`). `EffectInv` says that a
  call whose operations took effect is past any retry (`EffectsNotRepeated`).
  `UpdateInv` says that each committed update is in the row, and that a call
  about to swap holds a read that is a past value of the row: equal versions,
  equal values. `NothingLost` needs no assumption on the programs; the property
  itself speaks of histories in which only versioned writes changed the row
  (`overwritten` remembers that another write did). After a put or a delete a
  version is no proof of an unchanged row, since a row made again starts at
  version 1.
* **InteractionDispatcher.** `FullMeansHeld` (no rejection slot is free only if
  a goroutine holds one) gives `QueueNeverStranded`; `DispatchInv`, by which an
  interaction is in one place only (its own goroutine, the queue, or one
  worker), gives `OneAnswer`.
* **InteractionPipeline.** `PipelineDispatches` is a refinement: each step of the
  composition is a step of the dispatcher or leaves its variables alone, so what
  is proved of the dispatcher holds of it (`PipelineRejectsOnce`). `PipelineInv`
  says of each handler what its record may hold where it stands (`HandlerWell`:
  the state of the response, the stage, the reply that is next, the outcome left
  to execute, the terminal reply), and ties that to the other side (`Agrees`): what
  the user sees is what the handler takes it for, unless the answer to one of
  its replies was lost. `RepliesFit` alone is not inductive, as it says nothing of
  the state a handler carries past a deferral. `EndInv` adds how an interaction ends:
  while a rejection of it is pending or was dropped it has no answer, unless its
  handler panicked after one, and once nothing is pending it has an answer, a failed
  call, a dropped rejection or such a panic. It needs `DispatchInv`, by which an
  interaction that is handled has no rejection. From the two follow
  `RepliesAlwaysFit` and `HandlersAnswer`, and `AcceptedAnswersFit` from `PipelineInv`
  alone. `TrackerInv` (every recorded pass is at most as late as the
  tracker's last use of its key) makes `CooldownsAreKept` inductive. `EffectInv`
  carries the admission to the execution: while a handler stands between them,
  its user passes the plain checks of the route in the bundle that was admitted,
  what the user did leads to that route by that bundle's definition, and what is
  left to execute is within that bundle's capabilities (`EffectsWereAllowed`).
* **PluginContract**, proved with the pipeline. There is no induction over a
  definition, and none is needed: nesting is bounded, and the rest is about
  positions. `PathsOfNested` says what the path of an item is at each depth,
  `SignaturesAre` what each entry of the route table stands for, and
  `MatchesAreEqual` that two signatures which one invocation matches are one. The
  last is where the cases are: the validator keeps apart the routes of items, of
  suggestions and of checks, and suggestions that share a route are told apart by
  the command's path and the option's name. Hence `ResolutionIsUnambiguous`: Resolve
  never answers "matches multiple signatures" for a definition that compiles.
* From the two, the agreements between components. `EffectsAreAuthorized`: the
  checks that the host collects for a route by walking the definition down
  (`checksForRoute`) are all those of the item and above it (`ChecksOfLineage`), so
  passing them means being entitled to what the path names, also when the route was
  planned by another bundle than the one that ran. It rests on the guard that an
  admitted route resolves in the bundle that is admitted, and on routes belonging to
  one item; only routes that suggest may be shared, see section 6.
  `PlansAreResolved`: `StateKept` says which state of the response a handler's
  program runs in, from the item's deferral and whether an answer goes to a message,
  through deferrals that are delivered or whose answer is lost; the signature of the
  planned item accepts exactly that state and what a user can enter
  (`PlannedResolves`), and `ResolutionIsUnambiguous` does the rest.
* **Marketplace.** `MarketInv` adds to the three safety properties what the
  requests under way have done already: an install that has placed its bundle
  finds it there until it writes the row (`PlacedIsThere`), a checkout's lock is
  held by the request that syncs it (`LocksHeld`), what a load looked at first was
  verified, and as long as nobody swaps the files they stay of that revision, so that
  code read from other contents means that the last check finds other contents
  (`LoadKnowsFirst`), and a checkout is never behind its record nor a label
  behind its checkout while there is no command line beside the server
  (`RecordsFollowCheckouts`, from which the action property
  `SyncRecordsMoveForward` follows). `Prepared` says that a request has what its
  stage needs.
* **AppLifecycle.** `SchemaInv` says that state table and history record what was
  executed, in the order of the versions; that a migration under way has seen a
  prefix of the schema and found its own checksums there; and that at most one
  process has an uncommitted row. `StagesHaveParts` says which parts of the App
  exist at each stage of Start and Close; `RequestsAreServed` that a request under
  way is in a process whose admin server is still up or shutting down. They give
  `StoresAreMigrated` and `ServersBeforeParts`. `SchemaImplementsLog` is the refinement of `MigrationLog`:
  a commit appends one migration whose version is not in the log, and every other
  step, a crash included, maps to a stutter.
* **AdminApi.** `AdminInv`: a state opens a session once (`StatesAreSpentOnce`),
  a token belongs to the login that got it (`TokensAreOwned`), a token's call is
  led by the one request that stands in it (`LeadersCall`), a cached list, and a
  list that a request has in hand, was true when it was fetched (`ListsWereTrue`),
  what a reply or an audit row says happened (`RepliesWereTrue`, `AuditIsTrue`).
  They hold for any users, requests and restarts of the server
  (`SessionsAreOpenedOnce`, `AuthorizationIsRecent`, `OneLeader`, `AuditIsHonest`).

What the proofs assume of the constants, and why the code justifies it:

* sets of actors are finite where they are counted, capacities and times are
  natural numbers, positive where the code has a positive literal or refuses
  another value; `None`, `Nobody` and `Past` are nobody, and a value that marks
  "nothing" is not a value;
* `CacheTTL <= StaleWhileRateLimited` (AdminApi `TimesAreNatural`): the code's
  literals are so;
* `CastsAreWellFormed` (AppLifecycle, AdminApi, InteractionPipeline): a cast names
  existing bundles, settings and users; a list that is cached at the start was
  true when it was cached; an interaction is of a kind the router knows;
* `BootIsNoOperator` (ModuleReload): the goroutine that starts the bot serves no
  requests;
* `TextsAreNotEmpty` (PluginContract): the patterns of names, handlers and routes
  match no empty text (`runtime/plugins/contract/definition.go:347-351`);
* `DefinitionsAreWellFormed` (InteractionPipeline): a bundle's definition is written
  as `IsDefinition` says, which is the nesting of the code's types (only commands
  contain, options and permissions are a command's) and not what the validator
  checks - that a definition compiles is never assumed, a bundle that does not is
  not served; a bundle's state keys passed the manifest's own validation; what a
  program may return is a list of operations, and what a check denies with is a
  message, the only form a decision of the code has
  (`runtime/plugins/contract/operation.go`);
* `UsersSendWhatTheySee` (InteractionPipeline): Discord sends who uses it, in which
  guild and with which permissions, and lets a user enter for a command, a button or
  a modal what it was given options and fields for. It is asked of the bundle the
  user was shown, which need not be the one that is served. Selects are left out,
  as their values are refused (section 6).

Some theorems state properties that no run repeats: `CurrentServes`,
`StaleMeansReplacedTwice`, `ChannelOpenWhilePending`, `DrainedIsFinal`,
`ScheduleMovesForward`, `StrayCronIsCancelled`, `AnsweredOnce`, the effects of
`EffectsWereAllowed`, and the type invariants.

Only model-checked:

* the liveness properties `RetirementEnds`, `DueIsReclaimed`, `EndedRunStops`,
  `CallsReturn`, `RejectionsEnd`, `CancelledEnds` and `WaitersAnswered`, as fairness
  and ENABLED are out of the prover's reach. Every other property of a passing run
  is stated by a theorem.

## 6. Disagreements with the documentation

Three runs state what the repository says and find it violated by the code.

* `reload_scheduler` (`SchedulerSurvivesReload`, docs/reference.md:241). A
  restarted run derives from the context of the call that asked for the reload
  (`scheduling/runtime.go:55`), which ends when the slash command or the request
  is done. The interval task stops then, and cron jobs run under a context that
  is already cancelled.
* `adminapi_saved` (`ConfigIsKept`, `guildconfig/config.go:19`). Save leaves out
  `AllowChannelReminders` when it is false and Load takes true for a missing
  field, so the switch the dashboard offers
  (`apps/dashboard/src/pages/ServerDashboardPage.tsx:1515`) cannot be turned off.
* `pipeline_selects` (`SelectsReachTheHandler`, docs/discord-api-coverage.md:56).
  The values of a select become option values without a name
  (`runtime/discord/router/input.go:146`), which `Invocation.Validate` refuses
  (`runtime/plugins/contract/invocation.go:215`), so every select submission
  ends with the generic error. `PlansResolve` leaves selects out for this reason.

Met on the way and not made into runs:

* Reloads are not serialised: one that read the module states before another
  call's change, and stores its snapshot after that call's refresh, leaves the
  catalog at the old state (docs/reference.md:239). `ReloadTakesEffect` therefore
  speaks of reloads that overlap no other call.
* With every plugin disabled the set of enabled ids is empty, which
  `CommandCreatesFiltered` (`runtime/plugins/host/commands.go:46`) takes for "no
  filter" (docs/reference.md:232). `ReloadTakesEffect` asks for equality only
  when some plugin is enabled.
* `MAMACORD_SLASH_COOLDOWN_BYPASS` is documented as command paths
  (docs/reference.md:267), and the policy compares the root name only.

Behaviour that no document contradicts and that a maintainer may want to know:

* an uninstall that overlaps an install can leave an install row without files,
  and a failed install a root without state file; a command line does not share
  the server's lock of a source, whose checkout may also move while another request
  copies it (`marketplace/manager.go:287`);
* the loader hashes a bundle, compiles it file by file
  (`runtime/plugins/starlark/compile/loader.go:89`) and hashes it again. Files that
  were others in between and are the verified ones again at the second hash
  (`runtime/plugins/host/load.go:207`, `:259`) are not noticed, whether they were
  edited and put back or the plugin was removed and installed again;
  `ServedIsVerified` excepts loads during which that happened;
* a handler that panics after its first reply gets a rejection, which is a first reply
  again (`runtime/discord/interactions/dispatcher.go:50-56`,
  `runtime/discord/pluginbridge/component.go:87-89`): Discord refuses it, and after a
  deferral the user is left with "thinking". `RepliesFit` and `AnsweredAtTheEnd`
  except exactly these handlers;
* of two overlapping restarts of the scheduler the one that starts last may carry the
  older plan (`runtime/discord/automation/scheduler.go:60`);
* warnings are counted before one is inserted, so two at once may exceed the limit,
  or both miss the threshold of a timeout; a leader that hangs up hands its
  cancellation to all who joined its fetch; of two scaffolds of one id, both of
  which found none, the later may end with a signature of the earlier's files;
* the limiter's time may go back, since the clock is read before its lock; a
  custom id that is too long is refused after the program's effects;
* suggestions of several commands may share a route, and `checksForRoute` then takes
  the checks of the first of these commands for all of them
  (`runtime/plugins/host/effects.go:422-467`); `EffectsAuthorized` leaves such routes
  out;
* `doctor` accepts production with unsigned plugins, which `app.New` refuses;
  `Bot.Close` does not wait for the goroutines of interactions.

## 7. Abstractions and their cost

Message contents, embeds and locales are left out; a command or a route is what
the contract tells apart. In `PluginAdmission` authorization is a choice between
pass and deny; in `InteractionPipeline` it is computed. In `ModuleReload` a load
finds some set of plugins or fails; in `Marketplace` it is followed for one
plugin. The modules therefore meet at interfaces that are modelled twice, once in
full and once as a choice; no run composes reloads, marketplace and interactions.
Discord's API is an effect that succeeds, fails, or fails after it took effect; in
the last case the models record that it took place. Slowmode and purge act on the
channel the request names (`adminapi/guilds/operations.go:249-257`, `:315-323`); the
admin model has no channels and takes them for actions on the guild. The files a load
reads one by one are one reading of the whole directory, at any moment between the
two hashes.
The clock of all processes is one clock; the code compares times of different
processes, and skew between them is not modelled. PostgreSQL is READ COMMITTED,
one action per statement where another transaction can come between. Casts
replace products: a behaviour that needs what two casts have, and no cast has
both, is not explored.

## 8. Not modelled, and the plan

| next | what it adds | hazards |
|---|---|---|
| 1. abstract specifications | PluginGeneration implements "a served generation that is swapped atomically"; ReminderLease implements at-least-once delivery per occurrence; PluginAdmission implements an atomic counter | all of theirs, as refinement |
| 2. several state keys in PluginAdmission | states read one query per key, rows made again | atomicity, stale state |
| 3. the object store in a run | uploads and downloads that fail half-way | partial failure |
| 4. command registration | conversion of creates, global or per guild, stale commands | partial failure |
| 5. composition of Marketplace and ModuleReload | an install that asks for a reload while another runs | interleaving |

Partly modelled: the component list of `PROJECT.json` says what is left out of
each. Three hazards have no property: the combination of several keys' states
and the older snapshot or plan of two overlapping reloads, about which the code
promises nothing, and a row that is made again at version 1 (the note of the hazard
says why `NoLostUpdate` excludes it).

Left out for good: the Starlark interpreter, author API and compiler (an
embedding of third-party code; a bundle is represented by the definition it
compiles to), HTTP and Discord I/O, gateway handlers (translation without state),
builtin commands, texts and localisation, the dashboard, metrics, and first-party
plugins (data to the runtime).
