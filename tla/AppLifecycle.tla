----------------------------- MODULE AppLifecycle -----------------------------
(***************************************************************************)
(* Processes of the program from start to end: the command line            *)
(* (cmd/mamacord), its environment and environment files                   *)
(* (internal/config), the migration of the database that all of them share *)
(* (internal/migration), and the startup and shutdown of the bot process   *)
(* (internal/app) with its ops server, admin server and Discord bot.       *)
(*                                                                         *)
(* Nothing but the database orders two processes: there is no lock around  *)
(* a migration, and each process has the migration files of its own build. *)
(* The admin server answers requests before the bot exists and while a     *)
(* signal ends the process.                                                *)
(***************************************************************************)
EXTENDS Naturals, Sequences, FiniteSets

CONSTANTS
    Processes,
    Requests,       \* requests to the admin servers
    Checksums,      \* contents of migration files
    Casts,          \* what takes part: commands, environments, builds, faults,
                    \* and the bound on processes started
    None

Commands == {"run", "dev", "init", "doctor", "plugins",
             "migrate up", "migrate status"}
Modes == {".env.dev", ".env.prod"}
Roles == {"control", "gateway", "scheduler"}
Settings == {"roles", "token", "prod", "unsigned", "admin", "ops",
             "dashboard", "malformed"}

\* A migration file.
Migration == [checksum : Checksums, kind : {"normal", "destructive"}]

ASSUME NoneIsNoProcess == None \notin Processes
ASSUME CastsAreWellFormed ==
    \A c \in Casts :
        /\ c.commands \subseteq Commands
        /\ \A shell \in c.shells : shell = [s \in Settings |-> shell[s]]
        /\ c.builds \subseteq Seq(Migration)
        /\ c.launches \in Nat

VARIABLES
    cast,           \* what takes part in this behaviour
    envFiles,       \* .env.dev and .env.prod in the working directory
    \* The database.
    applied,        \* schema_migration_state, a sequence by version
    history,        \* schema_migration_history: versions in insertion order
    executed,       \* the migrations whose SQL is part of the schema
    \* Each process.
    proc,           \* where it is, its command, its settings, its build
    migration,      \* its run of Runner.Up
    app,            \* the parts of its App
    port,           \* who listens on the admin and the ops address
    request,        \* requests to admin servers
    launches

dbVars == <<applied, history, executed>>
vars == <<cast, envFiles, dbVars, proc, migration, app, port, request, launches>>

-----------------------------------------------------------------------------
(* The environment (config/environment.go).  A setting that is not given is *)
(* None; "malformed" stands for any value that does not parse.              *)

Unset == [s \in Settings |-> None]

\* What loadEnvFile leaves: variables that exist are not set again.
Effective(shell, file) ==
    [s \in Settings |-> IF shell[s] # None THEN shell[s] ELSE file[s]]

RuntimeRoles(e) == IF e.roles = None THEN Roles ELSE e.roles
HasRole(e, role) == role \in RuntimeRoles(e)
UsesDiscordRuntime(e) == HasRole(e, "gateway") \/ HasRole(e, "scheduler")
ControlAPIEnabled(e) == e.admin = TRUE /\ HasRole(e, "control")
ProdMode(e) == e.prod = TRUE
AllowUnsigned(e) == e.unsigned = TRUE

\* loadFromEnv.
Loads(e, requireToken) ==
    /\ e.malformed # TRUE
    /\ requireToken /\ UsesDiscordRuntime(e) => e.token = TRUE
    /\ ControlAPIEnabled(e) /\ ProdMode(e) => e.dashboard = TRUE

\* runDevCommand sets these before it loads the configuration.
DevSettings(e) ==
    [e EXCEPT !.prod = FALSE,
              !.admin = IF e.admin = None THEN TRUE ELSE e.admin,
              !.unsigned = IF e.unsigned = None THEN TRUE ELSE e.unsigned]

\* autoLoadEnvFile: the file a command reads, the first that exists.
Candidates(command) ==
    CASE command \in {"dev", "init"} -> <<".env.dev">>
      [] command = "doctor" -> <<".env.prod", ".env.dev">>
      [] OTHER -> <<".env.prod">>
Found(command) ==
    {i \in DOMAIN Candidates(command) : envFiles[Candidates(command)[i]] # None}
LoadedFile(command) ==
    LET first == CHOOSE i \in Found(command) : \A j \in Found(command) : i <= j IN
    IF Found(command) = {} THEN Unset ELSE envFiles[Candidates(command)[first]]

\* runInitCommand: the file it writes, without a token or dashboard settings
\* unless they were given as flags.
InitFile(mode, flags) ==
    [flags EXCEPT !.prod = (mode = ".env.prod"),
                  !.unsigned = (mode = ".env.dev"),
                  !.admin = IF mode = ".env.dev" THEN TRUE ELSE flags.admin]

\* runDoctorCommand: its exit status.
DoctorSucceeds(e) ==
    Loads(e, FALSE) /\ (UsesDiscordRuntime(e) => e.token = TRUE)

-----------------------------------------------------------------------------
(* State. *)

NoApp == [store |-> "none", ops |-> "none", admin |-> "none", bot |-> "none",
          discordStartErr |-> FALSE]
NoMigration == [at |-> "off", seen |-> {}, version |-> 0]
Off == [at |-> "off", command |-> None, env |-> Unset, build |-> <<>>,
        cancelled |-> FALSE, status |-> None]

Init ==
    /\ cast \in Casts
    /\ envFiles = [f \in Modes |-> None]
    /\ applied = <<>>
    /\ history = <<>>
    /\ executed = <<>>
    /\ proc = [p \in Processes |-> Off]
    /\ migration = [p \in Processes |-> NoMigration]
    /\ app = [p \in Processes |-> NoApp]
    /\ port = [a \in {"admin", "ops"} |-> None]
    /\ request = [r \in Requests |-> [at |-> "none", to |-> None, bot |-> None]]
    /\ launches = 0

At(p, stage) == proc[p].at = stage
Env(p) == proc[p].env
Goto(p, stage) == proc' = [proc EXCEPT ![p].at = stage]

\* The process ends with a status; a listener and a transaction end with it.
Exit(p, status) ==
    proc' = [proc EXCEPT ![p].at = "exited", ![p].status = status]

\* run: Start returned, and the deferred Close begins.  Cancellation is no error.
StartReturns(p, failed) ==
    proc' = [proc EXCEPT ![p].at = "close admin",
                         ![p].status = IF failed THEN 1 ELSE 0]

Failing == "faults" \in cast.may
NoDatabase == UNCHANGED dbVars

-----------------------------------------------------------------------------
(* The command line (cmd/mamacord/main.go). *)

\* runMain up to the choice of a command.  A forbidden file (.env, .env.local,
\* ...) or a malformed one ends it before; the cast has such an environment.
Launch(p) ==
    /\ proc[p].at \in {"off", "exited"}
    /\ launches < cast.launches
    /\ launches' = launches + 1
    /\ \E command \in cast.commands, shell \in cast.shells, build \in cast.builds :
        LET env == Effective(shell, LoadedFile(command))
            used == IF command = "dev" THEN DevSettings(env) ELSE env IN
        proc' = [proc EXCEPT ![p] = [Off EXCEPT !.at = command,
                                                !.command = command,
                                                !.env = used,
                                                !.build = build]]
    /\ app' = [app EXCEPT ![p] = NoApp]
    /\ migration' = [migration EXCEPT ![p] = NoMigration]
    /\ UNCHANGED <<cast, envFiles, dbVars, port, request>>

\* runInitCommand, with and without --force.
InitCommand(p) ==
    /\ At(p, "init")
    /\ \E mode \in Modes, force \in BOOLEAN, flags \in cast.shells :
        IF ~force /\ envFiles[mode] # None
        THEN Exit(p, 1) /\ UNCHANGED envFiles
        ELSE /\ envFiles' = [envFiles EXCEPT ![mode] = InitFile(mode, flags)]
             /\ Exit(p, 0)
    /\ UNCHANGED <<cast, dbVars, migration, app, port, request, launches>>

\* runDoctorCommand: it changes nothing.
DoctorCommand(p) ==
    /\ At(p, "doctor")
    /\ Exit(p, IF DoctorSucceeds(Env(p)) THEN 0 ELSE 1)
    /\ UNCHANGED <<cast, envFiles, dbVars, migration, app, port, request, launches>>

\* The configuration of the other commands; app.New refuses unsigned plugins in
\* production, and every one of them opens the database next.
Configure(p) ==
    /\ proc[p].at \in {"run", "dev", "plugins", "migrate up", "migrate status"}
    /\ LET server == proc[p].command \in {"run", "dev"}
           fine == /\ Loads(Env(p), server)
                   /\ server => ~(ProdMode(Env(p)) /\ AllowUnsigned(Env(p))) IN
       IF fine THEN /\ Goto(p, "storage")
                    /\ migration' = [migration EXCEPT ![p].at = "tables"]
               ELSE Exit(p, 1) /\ UNCHANGED migration
    /\ UNCHANGED <<cast, envFiles, dbVars, app, port, request, launches>>

-----------------------------------------------------------------------------
(* Runner.Up and Runner.Status (migration/migrate.go).  A build is the      *)
(* sequence of its migration files: a checksum and a kind each.             *)

Defined(p) == 1..Len(proc[p].build)
Definition(p, v) == proc[p].build[v]
Sum(p, v) == Definition(p, v).checksum

\* Mutation: only the versions are compared.
AppliedMatches_Versions(p) == \A v \in DOMAIN applied : v \in Defined(p)

\* validateAppliedChecksums.
AppliedMatches(p) ==
    \A v \in DOMAIN applied : v \in Defined(p) /\ applied[v] = Sum(p, v)

\* The open transactions that inserted the state row of a version.
Claims(v) == {q \in Processes : /\ migration[q].at \in {"recorded"}
                                /\ migration[q].version = v}

\* An error of Up is an error of OpenRuntimeStore, which closes the database.
MigrationFails(p, failed) ==
    /\ migration' = [migration EXCEPT ![p] = NoMigration]
    /\ IF proc[p].command \in {"run", "dev"} THEN StartReturns(p, failed)
       ELSE Exit(p, 1)

\* ensureMetadataTables and loadAppliedState, with the check of the checksums.
LoadApplied(p) ==
    /\ migration[p].at = "tables"
    /\ IF AppliedMatches(p)
       THEN /\ migration' = [migration EXCEPT ![p].at = "next",
                                              ![p].seen = DOMAIN applied]
            /\ UNCHANGED proc
       ELSE MigrationFails(p, TRUE)
    /\ NoDatabase
    /\ UNCHANGED <<cast, envFiles, app, port, request, launches>>

Pending(p) == Defined(p) \ migration[p].seen

\* Mutation: the versions are sorted the other way.
NextPending_Last(p) == CHOOSE v \in Pending(p) : \A w \in Pending(p) : v >= w

NextPending(p) == CHOOSE v \in Pending(p) : \A w \in Pending(p) : v <= w

\* The first pending version: refused, or its SQL runs in a transaction.  Once
\* another process has committed the same version the SQL may fail.
ExecMigration(p) ==
    /\ migration[p].at = "next"
    /\ proc[p].command # "migrate status"
    /\ Pending(p) # {}
    /\ LET v == NextPending(p) IN
        \/ /\ Definition(p, v).kind # "destructive"
           /\ migration' = [migration EXCEPT ![p].at = "exec", ![p].version = v]
           /\ UNCHANGED proc
        \/ /\ \/ Definition(p, v).kind = "destructive"
              \/ v \in DOMAIN applied
           /\ MigrationFails(p, TRUE)
    /\ NoDatabase
    /\ UNCHANGED <<cast, envFiles, app, port, request, launches>>

\* The inserts into schema_migration_state and its history: a second row of the
\* same version waits for the first transaction, and violates the primary key if
\* that one commits.
RecordState(p) ==
    /\ migration[p].at = "exec"
    /\ Claims(migration[p].version) = {}
    /\ IF migration[p].version \in DOMAIN applied
       THEN MigrationFails(p, TRUE)
       ELSE /\ migration' = [migration EXCEPT ![p].at = "recorded"]
            /\ UNCHANGED proc
    /\ NoDatabase
    /\ UNCHANGED <<cast, envFiles, app, port, request, launches>>

\* The rows of the state are keyed by version: v follows what is there, or it
\* would not be a sequence (MigrationsAppend checks that it does).
CommitMigration(p) ==
    /\ migration[p].at = "recorded"
    /\ LET v == migration[p].version IN
        /\ applied' = [w \in DOMAIN applied \cup {v} |->
                          IF w = v THEN Sum(p, v) ELSE applied[w]]
        /\ history' = Append(history, v)
        /\ executed' = Append(executed, Sum(p, v))
        /\ migration' = [migration EXCEPT ![p].at = "next",
                                          ![p].seen = @ \cup {v}]
    /\ UNCHANGED <<cast, envFiles, proc, app, port, request, launches>>

\* Up returns: the store is open.  The other commands end here; what "plugins"
\* does with the store is in Marketplace.
Migrated(p) ==
    /\ migration[p].at = "next"
    /\ proc[p].command = "migrate status" \/ Pending(p) = {}
    /\ migration' = [migration EXCEPT ![p].at = "done"]
    /\ IF proc[p].command \in {"run", "dev"}
       THEN /\ app' = [app EXCEPT ![p].store = "open"]
            /\ Goto(p, "bundles")
       ELSE Exit(p, 0) /\ UNCHANGED app
    /\ NoDatabase
    /\ UNCHANGED <<cast, envFiles, port, request, launches>>

\* Any of its statements fails, or its context is cancelled.
MigrationError(p) ==
    /\ migration[p].at \notin {"off", "done"}
    /\ \/ Failing /\ MigrationFails(p, TRUE)
       \/ proc[p].cancelled /\ MigrationFails(p, FALSE)
    /\ NoDatabase
    /\ UNCHANGED <<cast, envFiles, app, port, request, launches>>

-----------------------------------------------------------------------------
(* App.Start (app/lifecycle.go): runStartupSequence. *)

After(stage) ==
    CASE stage = "bundles" -> "trust"
      [] stage = "trust" -> "i18n"
      [] stage = "i18n" -> "marketplace"
      [] stage = "marketplace" -> "ops server"
      [] stage = "ops server" -> "admin server"
      [] stage = "admin server" -> "start ops"
      [] stage = "start ops" -> "start admin"
      [] stage = "start admin" -> "init bot"
      [] stage = "init bot" -> "start bot"
      [] stage = "start bot" -> "wait"
Initializers == {"bundles", "trust", "i18n", "marketplace", "ops server",
                 "admin server"}

\* validatePluginTrust: production needs a key in the file or a signer.
TrustedKeys(p) == ProdMode(Env(p)) => "trusted keys" \in cast.may

\* initBundleRepository to initAdminServer: they read files and the database.
Initialize(p) ==
    /\ proc[p].at \in Initializers
    /\ \/ /\ At(p, "trust") => TrustedKeys(p)
          /\ app' = [app EXCEPT
                ![p].ops = IF At(p, "ops server") /\ Env(p).ops = TRUE
                           THEN "built" ELSE @,
                ![p].admin = IF At(p, "admin server") /\ ControlAPIEnabled(Env(p))
                             THEN "built" ELSE @]
          /\ Goto(p, After(proc[p].at))
       \/ /\ \/ At(p, "trust") /\ ~TrustedKeys(p)
             \/ Failing
             \/ At(p, "trust") /\ proc[p].cancelled
          /\ StartReturns(p, ~proc[p].cancelled)
          /\ UNCHANGED app
    /\ NoDatabase
    /\ UNCHANGED <<cast, envFiles, migration, port, request, launches>>

\* Server.Start: without a server or with the address free; else Listen fails.
StartServer(p, stage, name) ==
    /\ At(p, stage)
    /\ CASE app[p][name] = "none" ->
             Goto(p, After(stage)) /\ UNCHANGED <<app, port>>
         [] app[p][name] = "built" /\ port[name] = None ->
             /\ port' = [port EXCEPT ![name] = p]
             /\ app' = [app EXCEPT ![p][name] = "serving"]
             /\ Goto(p, After(stage))
         [] OTHER -> StartReturns(p, TRUE) /\ UNCHANGED <<app, port>>
    /\ NoDatabase
    /\ UNCHANGED <<cast, envFiles, migration, request, launches>>

StartOps(p) == StartServer(p, "start ops", "ops")
StartAdmin(p) == StartServer(p, "start admin", "admin")

\* keepControlPlaneRunning: Start returns only if there is no server.
KeepControlPlaneRunning(p) ==
    /\ app' = [app EXCEPT ![p].discordStartErr = TRUE]
    /\ IF app[p].admin = "none" /\ app[p].ops = "none"
       THEN StartReturns(p, ~proc[p].cancelled)
       ELSE Goto(p, "wait")

\* initDiscordBot: a.bot is set only when New succeeded.
InitDiscordBot(p) ==
    /\ At(p, "init bot")
    /\ IF ~UsesDiscordRuntime(Env(p)) THEN Goto(p, "wait") /\ UNCHANGED app
       ELSE \/ /\ app' = [app EXCEPT ![p].bot = "built"]
               /\ Goto(p, "start bot")
            \/ Failing /\ KeepControlPlaneRunning(p)
    /\ NoDatabase
    /\ UNCHANGED <<cast, envFiles, migration, port, request, launches>>

\* startDiscordBot: Bot.Start sets ready last (ModuleReload has its steps).
StartDiscordBot(p) ==
    /\ At(p, "start bot")
    /\ \/ /\ app' = [app EXCEPT ![p].bot = "ready"]
          /\ Goto(p, "wait")
       \/ /\ Failing \/ proc[p].cancelled
          /\ KeepControlPlaneRunning(p)
    /\ NoDatabase
    /\ UNCHANGED <<cast, envFiles, migration, port, request, launches>>

-----------------------------------------------------------------------------
(* The end of a process. *)

\* SIGINT or SIGTERM cancels the context of every command but the quick ones.
Signal(p) ==
    /\ "signals" \in cast.may
    /\ proc[p].at \notin {"off", "exited"}
    /\ ~proc[p].cancelled
    /\ proc' = [proc EXCEPT ![p].cancelled = TRUE]
    /\ NoDatabase
    /\ UNCHANGED <<cast, envFiles, migration, app, port, request, launches>>

\* Start waits for the context.
StopWaiting(p) ==
    /\ At(p, "wait")
    /\ proc[p].cancelled
    /\ StartReturns(p, FALSE)
    /\ NoDatabase
    /\ UNCHANGED <<cast, envFiles, migration, app, port, request, launches>>

ClosePart(p, stage, part, next) ==
    /\ At(p, stage)
    /\ app' = [app EXCEPT ![p][part] = IF @ = "none" THEN @ ELSE "closed"]
    /\ Goto(p, next)
    /\ NoDatabase
    /\ UNCHANGED <<cast, envFiles, migration, request, launches>>

InFlight(p) == {r \in Requests : request[r].at # "none" /\ request[r].to = p}
Unlisten(p, name) ==
    port' = [port EXCEPT ![name] = IF @ = p THEN None ELSE @]

\* Mutation: the address stays open while the requests are waited for.
StopListening_Open(p) ==
    /\ At(p, "close admin")
    /\ UNCHANGED port
    /\ Goto(p, "drain admin")
    /\ NoDatabase
    /\ UNCHANGED <<cast, envFiles, migration, app, request, launches>>

\* App.Close: the admin server stops listening, then Shutdown waits, without a
\* deadline, for the requests it accepted.
StopListening(p) ==
    /\ At(p, "close admin")
    /\ Unlisten(p, "admin")
    /\ Goto(p, "drain admin")
    /\ NoDatabase
    /\ UNCHANGED <<cast, envFiles, migration, app, request, launches>>

\* Mutation: Close does not wait for the requests.
CloseAdmin_AtOnce(p) ==
    /\ ClosePart(p, "drain admin", "admin", "close ops")
    /\ UNCHANGED port

CloseAdmin(p) ==
    /\ InFlight(p) = {}
    /\ ClosePart(p, "drain admin", "admin", "close ops")
    /\ UNCHANGED port

CloseOps(p) ==
    /\ ClosePart(p, "close ops", "ops", "close bot")
    /\ Unlisten(p, "ops")

CloseBot(p) ==
    /\ ClosePart(p, "close bot", "bot", "close store")
    /\ UNCHANGED port

CloseStore(p) ==
    /\ ClosePart(p, "close store", "store", "exited")
    /\ UNCHANGED port

\* The process is killed: transactions roll back, listeners close.
Crash(p) ==
    /\ "crashes" \in cast.may
    /\ proc[p].at \notin {"off", "exited"}
    /\ Exit(p, 137)
    /\ migration' = [migration EXCEPT ![p] = NoMigration]
    /\ app' = [app EXCEPT ![p] = NoApp]
    /\ port' = [a \in DOMAIN port |-> IF port[a] = p THEN None ELSE port[a]]
    /\ request' = [r \in Requests |->
            IF request[r].to = p THEN [at |-> "none", to |-> None, bot |-> None]
            ELSE request[r]]
    /\ NoDatabase
    /\ UNCHANGED <<cast, envFiles, launches>>

-----------------------------------------------------------------------------
(* Requests to the admin server (app/admin_runtime.go).                     *)

\* A request is accepted by whoever listens on the address.
Arrive(r) ==
    /\ "requests" \in cast.may
    /\ request[r].at = "none"
    /\ port["admin"] # None
    /\ request' = [request EXCEPT ![r] =
                      [at |-> "accepted", to |-> port["admin"], bot |-> None]]
    /\ NoDatabase
    /\ UNCHANGED <<cast, envFiles, proc, migration, app, port, launches>>

\* Every method reads a.bot, which Start writes without synchronisation: a
\* request may miss a bot that is there.  Without one it is answered with 503.
ReadBot(r) ==
    /\ request[r].at = "accepted"
    /\ \E seen \in {"none", app[request[r].to].bot} :
        request' = [request EXCEPT ![r].at = "working", ![r].bot = seen]
    /\ NoDatabase
    /\ UNCHANGED <<cast, envFiles, proc, migration, app, port, launches>>

\* The service behind it uses the store and, if it was there, the bot.
Answer(r) ==
    /\ request[r].at = "working"
    /\ request' = [request EXCEPT ![r] = [at |-> "none", to |-> None, bot |-> None]]
    /\ NoDatabase
    /\ UNCHANGED <<cast, envFiles, proc, migration, app, port, launches>>

-----------------------------------------------------------------------------
(* Specification. *)

MigrationStep(p) ==
    \/ LoadApplied(p) \/ ExecMigration(p) \/ RecordState(p)
    \/ CommitMigration(p) \/ Migrated(p) \/ MigrationError(p)
CommandStep(p) == InitCommand(p) \/ DoctorCommand(p) \/ Configure(p)
StartupStep(p) ==
    \/ Initialize(p) \/ StartOps(p) \/ StartAdmin(p) \/ InitDiscordBot(p)
    \/ StartDiscordBot(p)
ShutdownStep(p) ==
    \/ StopWaiting(p) \/ StopListening(p) \/ CloseAdmin(p) \/ CloseOps(p)
    \/ CloseBot(p) \/ CloseStore(p)
ProcessStep(p) ==
    CommandStep(p) \/ MigrationStep(p) \/ StartupStep(p) \/ ShutdownStep(p)
RequestStep(r) == ReadBot(r) \/ Answer(r)

Next ==
    \/ \E p \in Processes : Launch(p) \/ ProcessStep(p) \/ Signal(p) \/ Crash(p)
    \/ \E r \in Requests : Arrive(r) \/ RequestStep(r)

\* A process that can go on does, and a handler returns.
Fairness ==
    /\ \A p \in Processes : WF_vars(ProcessStep(p))
    /\ \A r \in Requests : WF_vars(RequestStep(r))

Spec == Init /\ [][Next]_vars /\ Fairness

-----------------------------------------------------------------------------
(* Properties. *)

\* Every variable keeps its type; the state table has a row per history row.
LifecycleTypeOK ==
    /\ cast \in Casts
    /\ history \in Seq(Nat) /\ executed \in Seq(Checksums)
    /\ DOMAIN applied = DOMAIN history
    /\ \A f \in Modes : envFiles[f] = None \/ DOMAIN envFiles[f] = Settings
    /\ \A p \in Processes :
        /\ proc[p].command \in Commands \cup {None}
        /\ proc[p].cancelled \in BOOLEAN
        /\ migration[p].at \in {"off", "tables", "next", "exec", "recorded", "done"}
        /\ app[p].bot \in {"none", "built", "ready", "closed"}
        /\ app[p].store \in {"none", "open", "closed"}
        /\ \A s \in {"ops", "admin"} : app[p][s] \in {"none", "built", "serving", "closed"}
    /\ \A a \in DOMAIN port : port[a] \in Processes \cup {None}
    /\ launches \in 0..cast.launches

\* Whatever processes migrate the database at once, with whatever builds, the
\* schema is a log: version by version, each run and recorded exactly once.
Schema == INSTANCE MigrationLog
    WITH Migrations <- Checksums,
         log <- [i \in DOMAIN history |-> [version |-> history[i],
                                          migration |-> executed[i]]]
MigrationsAppend == Schema!Spec

\* A process that opened its store runs on a schema that has every migration of
\* its build, with the contents its build has; also when another process, of
\* another build, applied them while it was looking.
StoreIsMigrated ==
    \A p \in Processes :
        app[p].store = "open" =>
            \A v \in Defined(p) : v \in DOMAIN applied /\ applied[v] = Sum(p, v)

\* App.Close ends servers before what they use: while a request is handled its
\* store is open and the bot it found is not closed, and the ops server reports
\* on an open store.
ServersSeeLiveParts ==
    /\ \A r \in Requests : LET to == request[r].to IN
        request[r].at = "working" =>
            /\ app[to].store = "open"
            /\ request[r].bot # "none" => app[to].bot # "closed"
    /\ \A p \in Processes : app[p].ops = "serving" => app[p].store = "open"

\* A process that got its signal ends, whatever it was doing: it does not wait
\* for ever for a transaction of another one, or for requests that keep coming.
CancelledEnds ==
    \A p \in Processes : proc[p].cancelled ~> At(p, "exited")
=============================================================================
