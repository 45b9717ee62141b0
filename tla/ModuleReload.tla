----------------------------- MODULE ModuleReload -----------------------------
(***************************************************************************)
(* Reloading the modules of a running bot (runtime/discord/catalog.go and  *)
(* lifecycle.go): write the module state, load the plugins, swap them into *)
(* the host, rebuild the catalog snapshot, register the commands and       *)
(* restart the scheduler of module SchedulerRuntime.                       *)
(*                                                                         *)
(* The calls come from the bot's start, from admin requests and from slash *)
(* commands.  No lock spans a reload, so the calls interleave between any  *)
(* two steps, and each runs under the context of its own caller: the       *)
(* application's for Start, the request's for the others.                  *)
(*                                                                         *)
(* A plugin is its module; its one job has its name.  A loaded plugin set  *)
(* is named by the call that loaded it.  A step that uses a local for the  *)
(* last time clears it.                                                    *)
(***************************************************************************)
EXTENDS SchedulerRuntime

CONSTANTS
    Boot,           \* the goroutine of Bot.Start
    Operators,      \* handlers of admin requests and slash commands
    Closers,        \* the goroutine of Bot.Close
    Builtin,        \* toggleable builtin modules
    DefaultOn       \* modules the seed file enables

Plugins == Jobs
Modules == Builtin \cup Plugins

ASSUME CallersAreThese == Callers = {Boot} \cup Operators \cup Closers
ASSUME BootIsNoOperator == Boot \notin Operators

VARIABLES
    stored,         \* module_states rows: "on", "off" or "unset"
    disk,           \* the plugins a load finds on disk
    hosted,         \* the plugins of Host.plugins
    served,         \* the call that loaded Host.plugins, Nobody for none
    open,           \* loaded plugin sets that are not closed
    snapshot,       \* the catalog: "on", "off" or "absent"
    registered,     \* modules whose commands Discord has
    ready,          \* Bot.ready
    change,         \* what a call wants of a module, or none of it
    found,          \* LoadAll's local: nextPlugins
    replaced,       \* LoadAll's and Close's local: the set taken out
    states,         \* Refresh's local: the rows it read
    infos,          \* Refresh's local: host.Infos()
    toRegister,     \* Register's local: the commands it read
    failed,         \* calls that returned an error
    disturbed       \* history: operators' calls that began before the bot was
                    \* ready or beside another one, or that another one followed

hostVars  == <<hosted, served, open>>
botVars   == <<stored, disk, snapshot, registered, ready>>
callVars  == <<change, found, replaced, states, infos, toRegister, failed>>
reloadVars == <<hostVars, botVars, callVars, disturbed>>

vars == <<schedulerVars, reloadVars>>

NoRows == [m \in Modules |-> "unset"]
NoChange == [module |-> "none", to |-> "none"]

Init ==
    /\ InitScheduler
    /\ stored \in [Modules -> {"on", "off", "unset"}]
    /\ disk \in SUBSET Plugins
    /\ hosted = {}
    /\ served = Nobody
    /\ open = {}
    /\ snapshot = [m \in Modules |-> "absent"]
    /\ registered = {}
    /\ ready = FALSE
    /\ change = [p \in Callers |-> NoChange]
    /\ found = [p \in Callers |-> {}]
    /\ replaced = [p \in Callers |-> Nobody]
    /\ states = [p \in Callers |-> NoRows]
    /\ infos = [p \in Callers |-> {}]
    /\ toRegister = [p \in Callers |-> {}]
    /\ failed = {}
    /\ disturbed = {}

\* A call moves on; what the scheduler keeps is left alone.
Goto(p, stage) ==
    /\ at' = [at EXCEPT ![p] = stage]
    /\ UNCHANGED <<fieldVars, runVars, over>>

SchedulerCallSame == UNCHANGED <<op, localVars>>

\* An operator's call begins.
Enter(p) ==
    /\ p \in Operators
    /\ at[p] = "idle"
    /\ LET others == {q \in Operators \ {p} : at[q] # "idle"}
           undisturbed == ready /\ \A q \in others : at[q] = "done"
       IN  disturbed' = disturbed \cup others
                            \cup (IF undisturbed THEN {} ELSE {p})
    /\ SchedulerCallSame

-----------------------------------------------------------------------------
(* The entry points. *)

BeginStart ==
    /\ at[Boot] = "idle"
    /\ Goto(Boot, "load")
    /\ SchedulerCallSame
    /\ UNCHANGED reloadVars

\* /plugins reload, /modules reload and their admin routes.
BeginReload(p) ==
    /\ Enter(p)
    /\ Goto(p, "load")
    /\ UNCHANGED <<hostVars, botVars, callVars>>

\* SetModuleEnabled and ResetModule look the module up in the snapshot first.
BeginChange(p, m, to) ==
    /\ Enter(p)
    /\ snapshot[m] # "absent"
    /\ change' = [change EXCEPT ![p] = [module |-> m, to |-> to]]
    /\ Goto(p, "put")
    /\ UNCHANGED <<hostVars, botVars, found, replaced, states, infos,
                   toRegister, failed>>

RefuseChange(p, m) ==
    /\ Enter(p)
    /\ snapshot[m] = "absent"
    /\ failed' = failed \cup {p}
    /\ Goto(p, "done")
    /\ UNCHANGED <<hostVars, botVars, change, found, replaced, states, infos,
                   toRegister>>

\* PutModuleState, or DeleteModuleState for a reset.
PutState(p) ==
    /\ at[p] = "put"
    /\ p \notin over
    /\ stored' = [stored EXCEPT ![change[p].module] = change[p].to]
    /\ change' = [change EXCEPT ![p] = NoChange]
    /\ Goto(p, "load")
    /\ SchedulerCallSame
    /\ UNCHANGED <<hostVars, disk, snapshot, registered, ready, found, replaced,
                   states, infos, toRegister, failed, disturbed>>

-----------------------------------------------------------------------------
(* Host.LoadAll. *)

\* Every plugin found on disk is built before any of them serves.
LoadPlugins(p) ==
    /\ at[p] = "load"
    /\ p \notin over
    /\ found' = [found EXCEPT ![p] = disk]
    /\ open' = open \cup {p}
    /\ Goto(p, "swap")
    /\ SchedulerCallSame
    /\ UNCHANGED <<hosted, served, botVars, change, replaced, states, infos,
                   toRegister, failed, disturbed>>

\* swapState, under the host's lock.
SwapState(p) ==
    /\ at[p] = "swap"
    /\ replaced' = [replaced EXCEPT ![p] = served]
    /\ hosted' = found[p]
    /\ found' = [found EXCEPT ![p] = {}]
    /\ served' = p
    /\ Goto(p, "close")
    /\ SchedulerCallSame
    /\ UNCHANGED <<open, botVars, change, states, infos, toRegister,
                   failed, disturbed>>

\* Mutation: closes the set the host serves by then.
CloseReplaced_Reread(p) ==
    /\ at[p] = "close"
    /\ open' = open \ {served}
    /\ replaced' = [replaced EXCEPT ![p] = Nobody]
    /\ IF p \in Closers
       THEN /\ op' = [op EXCEPT ![p] = "stop"]
            /\ Goto(p, "stop")
       ELSE /\ Goto(p, "states")
            /\ UNCHANGED op
    /\ UNCHANGED <<localVars, hosted, served, botVars, change, found, states,
                   infos, toRegister, failed, disturbed>>

\* closePlugins on what was taken out, by LoadAll and by Host.Close.
CloseReplaced(p) ==
    /\ at[p] = "close"
    /\ open' = open \ {replaced[p]}
    /\ replaced' = [replaced EXCEPT ![p] = Nobody]
    /\ IF p \in Closers
       THEN /\ op' = [op EXCEPT ![p] = "stop"]
            /\ Goto(p, "stop")
       ELSE /\ Goto(p, "states")
            /\ UNCHANGED op
    /\ UNCHANGED <<localVars, hosted, served, botVars, change, found, states,
                   infos, toRegister, failed, disturbed>>

-----------------------------------------------------------------------------
(* catalog.Runtime.Refresh. *)

ReadStates(p) ==
    /\ at[p] = "states"
    /\ p \notin over
    /\ states' = [states EXCEPT ![p] = stored]
    /\ Goto(p, "infos")
    /\ SchedulerCallSame
    /\ UNCHANGED <<hostVars, botVars, change, found, replaced, infos,
                   toRegister, failed, disturbed>>

ReadInfos(p) ==
    /\ at[p] = "infos"
    /\ infos' = [infos EXCEPT ![p] = hosted]
    /\ Goto(p, "store")
    /\ SchedulerCallSame
    /\ UNCHANGED <<hostVars, botVars, change, found, replaced, states,
                   toRegister, failed, disturbed>>

\* A row wins over the seed file's default.
Resolve(rows, m) ==
    IF rows[m] # "unset" THEN rows[m]
    ELSE IF m \in DefaultOn THEN "on" ELSE "off"

StoreSnapshot(p) ==
    /\ at[p] = "store"
    /\ snapshot' = [m \in Modules |->
           IF m \in Builtin \cup infos[p] THEN Resolve(states[p], m)
                                          ELSE "absent"]
    /\ states' = [states EXCEPT ![p] = NoRows]
    /\ infos' = [infos EXCEPT ![p] = {}]
    /\ Goto(p, "sync")
    /\ SchedulerCallSame
    /\ UNCHANGED <<hostVars, stored, disk, registered, ready, change, found,
                   replaced, toRegister, failed, disturbed>>

-----------------------------------------------------------------------------
(* The rest of reloadModules and of Start. *)

EnabledModules == {m \in Modules : snapshot[m] = "on"}

\* CommandCreates: the host's commands filtered by EnabledPluginIDs; a filter
\* that is empty lets every plugin through.
Registrable ==
    LET enabled == EnabledModules \cap Plugins
    IN  (EnabledModules \cap Builtin) \cup
        (IF enabled = {} THEN hosted ELSE hosted \cap enabled)

ReadCommands(p) ==
    /\ at[p] = "sync"
    /\ toRegister' = [toRegister EXCEPT ![p] = Registrable]
    /\ Goto(p, "register")
    /\ SchedulerCallSame
    /\ UNCHANGED <<hostVars, botVars, change, found, replaced, states, infos,
                   failed, disturbed>>

\* The requests to Discord do not take the caller's context.
Register(p) ==
    /\ at[p] = "register"
    /\ registered' = toRegister[p]
    /\ toRegister' = [toRegister EXCEPT ![p] = {}]
    /\ Goto(p, IF p = Boot THEN "open" ELSE "restart?")
    /\ SchedulerCallSame
    /\ UNCHANGED <<hostVars, stored, disk, snapshot, ready, change, found,
                   replaced, states, infos, failed, disturbed>>

\* EnabledPluginJobs: jobs the host has, of modules the catalog enables.
EnabledJobs == hosted \cap EnabledModules

\* Mutation: plans the jobs of disabled modules too.
PlanRestart_AllJobs(p) ==
    /\ at[p] = "restart?"
    /\ ready
    /\ wanted' = [wanted EXCEPT ![p] = hosted]
    /\ op' = [op EXCEPT ![p] = "restart"]
    /\ Goto(p, "stop")
    /\ UNCHANGED <<taken, cronTaken, made, reloadVars>>

\* The plan is made before Restart is entered.
PlanRestart(p) ==
    /\ at[p] = "restart?"
    /\ ready
    /\ wanted' = [wanted EXCEPT ![p] = EnabledJobs]
    /\ op' = [op EXCEPT ![p] = "restart"]
    /\ Goto(p, "stop")
    /\ UNCHANGED <<taken, cronTaken, made, reloadVars>>

SkipRestart(p) ==
    /\ at[p] = "restart?"
    /\ ~ready
    /\ Goto(p, "done")
    /\ SchedulerCallSame
    /\ UNCHANGED reloadVars

\* Bot.Start opens the gateway and starts the scheduler itself.
OpenGateway ==
    /\ at[Boot] = "open"
    /\ Boot \notin over
    /\ wanted' = [wanted EXCEPT ![Boot] = EnabledJobs]
    /\ op' = [op EXCEPT ![Boot] = "start"]
    /\ Goto(Boot, "start")
    /\ UNCHANGED <<taken, cronTaken, made, reloadVars>>

BecomeReady ==
    /\ at[Boot] = "done"
    /\ Boot \notin failed
    /\ Goto(Boot, "up")
    /\ ready' = TRUE
    /\ SchedulerCallSame
    /\ UNCHANGED <<hostVars, stored, disk, snapshot, registered, callVars,
                   disturbed>>

\* The steps that can return an error, which ends the call where it stands.
Fallible == {"put", "load", "states", "sync", "register", "open"}

Fails(p) ==
    /\ at[p] \in Fallible
    /\ failed' = failed \cup {p}
    /\ Goto(p, "done")
    /\ SchedulerCallSame
    /\ UNCHANGED <<hostVars, botVars, change, found, replaced, states, infos,
                   toRegister, disturbed>>

-----------------------------------------------------------------------------
(* Bot.Close, once App.Start has returned: on the end of its context, or
   because the bot did not start. *)

BeginClose(p) ==
    /\ p \in Closers
    /\ at[p] = "idle"
    /\ (Boot \in over /\ at[Boot] = "up") \/ Boot \in failed
    /\ ready' = FALSE
    /\ Goto(p, "hostClose")
    /\ SchedulerCallSame
    /\ UNCHANGED <<hostVars, stored, disk, snapshot, registered, callVars,
                   disturbed>>

\* Mutation: clears the host before it collects what to close.
HostClose_Forgets(p) ==
    /\ at[p] = "hostClose"
    /\ hosted' = {}
    /\ served' = Nobody
    /\ Goto(p, "close")
    /\ SchedulerCallSame
    /\ UNCHANGED <<open, replaced, botVars, change, found, states, infos,
                   toRegister, failed, disturbed>>

\* Host.Close, under the host's lock.
HostClose(p) ==
    /\ at[p] = "hostClose"
    /\ replaced' = [replaced EXCEPT ![p] = served]
    /\ hosted' = {}
    /\ served' = Nobody
    /\ Goto(p, "close")
    /\ SchedulerCallSame
    /\ UNCHANGED <<open, botVars, change, found, states, infos, toRegister,
                   failed, disturbed>>

\* Installing, updating and removing plugins changes what a load finds.
DiskChanges ==
    /\ \E plugins \in SUBSET Plugins : plugins # disk /\ disk' = plugins
    /\ UNCHANGED <<schedulerVars, hostVars, stored, snapshot, registered, ready,
                   callVars, disturbed>>

-----------------------------------------------------------------------------
CallStep(p) ==
    \/ PutState(p)
    \/ LoadPlugins(p) \/ SwapState(p) \/ CloseReplaced(p)
    \/ ReadStates(p) \/ ReadInfos(p) \/ StoreSnapshot(p)
    \/ ReadCommands(p) \/ Register(p)
    \/ PlanRestart(p) \/ SkipRestart(p) \/ Fails(p)
    \/ HostClose(p)

EntryStep(p) ==
    \/ BeginReload(p)
    \/ BeginClose(p)
    \/ \E m \in Modules :
           \/ RefuseChange(p, m)
           \/ \E to \in {"on", "off", "unset"} : BeginChange(p, m, to)

\* The interval task, which nothing here waits for, stays with SchedulerRuntime.
SchedulerStep ==
    /\ \/ \E p \in Callers : StopStep(p) \/ StartStep(p) \/ ContextEnds(p)
       \/ \E n \in Runs : JobStep(n)
    /\ UNCHANGED reloadVars

Next ==
    \/ BeginStart \/ OpenGateway \/ BecomeReady \/ DiskChanges
    \/ \E p \in Callers : EntryStep(p) \/ CallStep(p)
    \/ SchedulerStep

Spec == Init /\ [][Next]_vars

-----------------------------------------------------------------------------
(* Properties *)

ReloadStages ==
    Fallible \cup {"idle", "swap", "close", "infos", "store", "restart?", "up",
                   "hostClose"}

Change == [module : Modules, to : {"on", "off", "unset"}] \cup {NoChange}

\* Every variable holds a value of its kind.
ReloadTypeOK ==
    /\ at \in [Callers -> RuntimeStages \cup ReloadStages]
    /\ stored \in [Modules -> {"on", "off", "unset"}]
    /\ disk \in SUBSET Plugins
    /\ hosted \in SUBSET Plugins
    /\ served \in Callers \cup {Nobody}
    /\ open \in SUBSET Callers
    /\ snapshot \in [Modules -> {"on", "off", "absent"}]
    /\ registered \in SUBSET Modules
    /\ ready \in BOOLEAN
    /\ change \in [Callers -> Change]
    /\ found \in [Callers -> SUBSET Plugins]
    /\ replaced \in [Callers -> Callers \cup {Nobody}]
    /\ states \in [Callers -> [Modules -> {"on", "off", "unset"}]]
    /\ infos \in [Callers -> SUBSET Plugins]
    /\ toRegister \in [Callers -> SUBSET Modules]
    /\ failed \in SUBSET Callers
    /\ disturbed \in SUBSET Operators

\* The plugin set the host serves has not been closed by anyone, however the
\* reloads and the close overlap (host/registry.go:49-65).
ServedSetIsOpen == served # Nobody => served \in open

\* Every plugin set that is open is served, about to be served, or held by the
\* call that took it out and will close it: none is forgotten open, and each is
\* closed once.
OpenSetsAreHeld ==
    /\ \A q \in open :
           \/ served = q
           \/ at[q] = "swap"
           \/ \E p \in Callers : at[p] = "close" /\ replaced[p] = q
    /\ \A p, q \in Callers :
           p # q /\ at[p] = "close" /\ at[q] = "close"
              /\ replaced[p] # Nobody => replaced[p] # replaced[q]

Closing == \E p \in Closers : at[p] # "idle"
AllCallsReturned ==
    \A p \in Callers : at[p] \in {"idle", "done", "up"}

\* The last reload, when it began in a ready bot, went through to the restart and
\* overlapped no other operator's call, took effect everywhere, whatever the
\* calls before it left half done: the snapshot shows the stored state, Discord
\* has the commands of the enabled modules (and of no other, while some plugin is
\* enabled) and the scheduler runs their jobs (catalog.go:40-58).
ReloadTakesEffect ==
    \A p \in Operators :
        at[p] = "done" /\ op[p] = "restart" /\ p \notin disturbed /\ ~Closing =>
            /\ \A m \in Builtin \cup hosted : snapshot[m] = Resolve(stored, m)
            /\ EnabledModules \subseteq registered
            /\ EnabledModules \cap Plugins # {} => registered = EnabledModules
            /\ handle = made[p] /\ plan[handle] = EnabledJobs

\* docs/reference.md:241: "/modules reload and /plugins reload ... restart the
\* scheduler when it is present and ready."  When no call is under way in a
\* ready bot, the scheduler's run is alive.
SchedulerSurvivesReload ==
    ready /\ Boot \notin over /\ AllCallsReturned =>
        handle # 0 /\ ~Ended(handle)

=============================================================================
