-------------------------- MODULE AppLifecycleProofs --------------------------
(***************************************************************************)
(* Processes of any number, of any builds, that start, migrate one         *)
(* database, serve and end: the schema is a log, an open store has the     *)
(* schema of its build, and servers see live parts.                        *)
(***************************************************************************)
EXTENDS AppLifecycle, SequenceTheorems, TLAPS

Statuses == {None} \cup Nat
ClosingStages ==
    {"close admin", "drain admin", "close ops", "close bot", "close store"}
Stages ==
    Commands \cup Initializers \cup ClosingStages \cup
    {"off", "storage", "start ops", "start admin", "init bot", "start bot",
     "wait", "exited"}
RunningStages == {"init bot", "start bot", "wait"}
OpenStages == Initializers \cup {"start ops", "start admin"} \cup RunningStages
MigrationStages == {"off", "tables", "next", "exec", "recorded", "done"}
ServerStates == {"none", "built", "serving", "closed"}
BotStates == {"none", "built", "ready", "closed"}
\* What a setting may be: absent, a flag, or whatever some shell gives it.
Given == {None} \cup BOOLEAN \cup
    {shell[s] : shell \in UNION {c.shells : c \in Casts}, s \in Settings}
Environments == [Settings -> Given]

Processing ==
    [at : Stages, command : Commands \cup {None}, env : Environments,
     build : Seq(Migration), cancelled : BOOLEAN, status : Statuses]
Migrating == [at : MigrationStages, seen : SUBSET Nat, version : Nat]
Parts ==
    [store : {"none", "open", "closed"}, ops : ServerStates,
     admin : ServerStates, bot : BotStates, discordStartErr : BOOLEAN]
Serving ==
    [at : {"none", "accepted", "working"}, to : Processes \cup {None},
     bot : BotStates \cup {None}]

Bare(p) ==
    /\ app[p].store = "none" /\ app[p].ops = "none"
    /\ app[p].admin = "none" /\ app[p].bot = "none"

\* What each variable is made of; the state table is typed by SchemaIsLog.
Typed ==
    /\ cast \in Casts
    /\ envFiles \in [Modes -> Environments \cup {None}]
    /\ history \in Seq(Nat)
    /\ executed \in Seq(Checksums)
    /\ proc \in [Processes -> Processing]
    /\ migration \in [Processes -> Migrating]
    /\ app \in [Processes -> Parts]
    /\ port \in [{"admin", "ops"} -> Processes \cup {None}]
    /\ request \in [Requests -> Serving]
    /\ launches \in 0..cast.launches

\* The schema ends with, or went past, the first n migrations of p's build.
Reached(p, n) ==
    /\ n <= Len(executed)
    /\ n <= Len(proc[p].build)
    /\ \A v \in 1..n : executed[v] = Sum(p, v)

\* The state table and the history say what was run; versions are positions.
SchemaIsLog ==
    /\ applied = executed
    /\ history = [i \in 1..Len(executed) |-> i]

\* What a migration knows: it saw the versions up to some number, all with its
\* own checksums; it runs the next one, and inserts its row only if nobody has.
MigrationsFollow ==
    \A p \in Processes :
        /\ migration[p].at = "next" =>
              \E k \in 0..Len(executed) : migration[p].seen = 1..k /\ Reached(p, k)
        /\ migration[p].at \in {"exec", "recorded"} =>
              /\ migration[p].version \in 1..Len(proc[p].build)
              /\ migration[p].seen = 1..(migration[p].version - 1)
              /\ Reached(p, migration[p].version - 1)
        /\ migration[p].at = "recorded" => migration[p].version > Len(executed)

\* Two transactions never hold a row at once.
OneRecorder ==
    \A p, q \in Processes :
        migration[p].at = "recorded" /\ migration[q].at = "recorded" => p = q

OpenStoresAreMigrated ==
    \A p \in Processes :
        app[p].store = "open" => Reached(p, Len(proc[p].build))

SchemaInv ==
    SchemaIsLog /\ MigrationsFollow /\ OneRecorder /\ OpenStoresAreMigrated

\* Until its migration ended a process is at its storage and has no parts; its
\* servers and its bot need an open store, and are closed in their order.
HasParts(p) ==
    /\ migration[p].at \notin {"off", "done"} => At(p, "storage")
    /\ proc[p].at \in Commands \cup {"off", "storage"} => Bare(p)
    /\ proc[p].at \in OpenStages => app[p].store = "open"
    /\ proc[p].at \in ClosingStages => app[p].store = "open" \/ Bare(p)
    /\ proc[p].at \in {"close bot", "close store", "exited"} => app[p].ops # "serving"
    /\ app[p].bot = "closed" => proc[p].at \in {"close store", "exited"}
StagesHaveParts == \A p \in Processes : HasParts(p)

\* The address of the admin server and the requests it accepted lead to a
\* process that serves them.
Listens(p) ==
    app[p].admin = "serving" /\ proc[p].at \in RunningStages \cup {"close admin"}
Handles(p) ==
    /\ app[p].admin = "serving"
    /\ proc[p].at \in RunningStages \cup {"close admin", "drain admin"}
RequestsAreServed ==
    /\ \A p \in Processes : port["admin"] = p => Listens(p)
    /\ \A r \in Requests :
        request[r].at # "none" =>
            request[r].to \in Processes /\ Handles(request[r].to)

LifecycleInv == Typed /\ SchemaInv /\ StagesHaveParts /\ RequestsAreServed

-----------------------------------------------------------------------------
(* The settings of a process. *)

\* A setting is unset, true or false.
LEMMA SettingsAreGiven == None \in Given /\ TRUE \in Given /\ FALSE \in Given
BY DEF Given

\* An environment may leave every setting unset.
LEMMA UnsetIsEnvironment == Unset \in Environments
BY SettingsAreGiven DEF Unset, Environments

\* The shells of a cast are environments (CastsAreWellFormed).
LEMMA ShellsAreEnvironments ==
    ASSUME NEW c \in Casts, NEW shell \in c.shells
    PROVE  shell \in Environments
<1>1. shell = [s \in Settings |-> shell[s]]
  BY CastsAreWellFormed
<1>2. \A s \in Settings : shell[s] \in Given
  BY DEF Given
<1>3. [s \in Settings |-> shell[s]] \in Environments
  BY <1>2 DEF Environments
<1> QED BY <1>1, <1>3

\* The commands, builds and launches of a cast are of their types (CastsAreWellFormed).
LEMMA CastsAreTyped ==
    ASSUME NEW c \in Casts
    PROVE  /\ c.commands \subseteq Commands
           /\ c.builds \subseteq Seq(Migration)
           /\ c.launches \in Nat
BY CastsAreWellFormed

\* A shell over a file is an environment,
LEMMA EffectiveIsEnvironment ==
    ASSUME NEW shell \in Environments, NEW file \in Environments
    PROVE  Effective(shell, file) \in Environments
BY DEF Effective, Environments

\* so are the settings dev adds,
LEMMA DevSettingsAreEnvironment ==
    ASSUME NEW e \in Environments
    PROVE  DevSettings(e) \in Environments
BY SettingsAreGiven DEF DevSettings, Environments, Settings

\* those init writes,
LEMMA InitFileIsEnvironment ==
    ASSUME NEW mode \in Modes, NEW flags \in Environments
    PROVE  InitFile(mode, flags) \in Environments
BY SettingsAreGiven DEF InitFile, Environments, Settings

\* and those a command loads from the first file it finds.
LEMMA LoadedFileIsEnvironment ==
    ASSUME Typed, NEW command \in Commands
    PROVE  LoadedFile(command) \in Environments
<1> DEFINE first == CHOOSE i \in Found(command) : \A j \in Found(command) : i <= j
<1>1. CASE Found(command) = {}
  BY <1>1, UnsetIsEnvironment DEF LoadedFile
<1>2. CASE Found(command) # {}
  <2>1. /\ DOMAIN Candidates(command) \in {1..1, 1..2}
        /\ \A i \in DOMAIN Candidates(command) : Candidates(command)[i] \in Modes
    BY DEF Candidates, Modes
  <2>2. Found(command) \subseteq 1..2
    BY <2>1 DEF Found
  <2>3. \E i \in Found(command) : \A j \in Found(command) : i <= j
    BY <1>2, <2>2
  <2>4. first \in Found(command)
    BY <2>3
  <2>5. /\ Candidates(command)[first] \in Modes
        /\ envFiles[Candidates(command)[first]] # None
    BY <2>1, <2>4 DEF Found
  <2>6. envFiles[Candidates(command)[first]] \in Environments
    BY <2>5 DEF Typed
  <2> QED BY <1>2, <2>6 DEF LoadedFile
<1> QED BY <1>1, <1>2

-----------------------------------------------------------------------------
(* Typing is kept. *)

\* The first states are typed.
LEMMA InitTyped == Init => Typed
<1> SUFFICES ASSUME Init PROVE Typed
  OBVIOUS
<1>1. Off \in Processing
  BY UnsetIsEnvironment DEF Off, Processing, Stages, Statuses
<1>2. NoMigration \in Migrating
  BY DEF NoMigration, Migrating, MigrationStages
<1>3. NoApp \in Parts
  BY DEF NoApp, Parts, ServerStates, BotStates
<1>4. 0 \in 0..cast.launches
  BY CastsAreTyped DEF Init
<1>5. request \in [Requests -> Serving]
  BY DEF Init, Serving
<1> QED BY <1>1, <1>2, <1>3, <1>4, <1>5 DEF Init, Typed, Modes

\* Every stage a process goes to is one.
LEMMA StagesGoOn ==
    \A stage \in Initializers \cup {"start ops", "start admin", "init bot",
                                     "start bot"} : After(stage) \in Stages
BY DEF After, Initializers, Stages

\* Launching a process keeps the types.
LEMMA LaunchTyped ==
    ASSUME Typed, NEW p \in Processes, Launch(p)
    PROVE  Typed'
<1>1. PICK command \in cast.commands, shell \in cast.shells, build \in cast.builds :
        LET env == Effective(shell, LoadedFile(command))
            used == IF command = "dev" THEN DevSettings(env) ELSE env IN
        proc' = [proc EXCEPT ![p] = [Off EXCEPT !.at = command,
                                                !.command = command,
                                                !.env = used,
                                                !.build = build]]
  BY DEF Launch
<1> DEFINE env == Effective(shell, LoadedFile(command))
           used == IF command = "dev" THEN DevSettings(env) ELSE env
<1>2. cast \in Casts /\ command \in Commands /\ build \in Seq(Migration)
  BY CastsAreTyped DEF Typed
<1>3. used \in Environments
  BY <1>2, ShellsAreEnvironments, LoadedFileIsEnvironment, EffectiveIsEnvironment,
     DevSettingsAreEnvironment
<1> HIDE DEF used, env
<1>4. [Off EXCEPT !.at = command, !.command = command, !.env = used,
                  !.build = build] \in Processing
  BY <1>2, <1>3 DEF Off, Processing, Stages, Statuses
<1>5. proc' \in [Processes -> Processing]
  BY <1>1, <1>4 DEF Typed, used, env
<1>6. NoApp \in Parts /\ NoMigration \in Migrating
  BY DEF NoApp, Parts, ServerStates, BotStates, NoMigration, Migrating, MigrationStages
<1>7. launches' \in 0..cast.launches
  BY <1>2, CastsAreTyped DEF Launch, Typed
<1> QED BY <1>5, <1>6, <1>7 DEF Launch, Typed, dbVars

\* The three ways a process moves change where it is, and perhaps its status.
Moves(p, stage) ==
    /\ proc' \in [Processes -> Processing]
    /\ \A q \in Processes : proc'[q].build = proc[q].build /\ (q # p => proc'[q] = proc[q])
    /\ proc'[p].at = stage

\* Goto moves one process to a stage.
LEMMA GotoMoves ==
    ASSUME Typed, NEW p \in Processes, NEW stage \in Stages, Goto(p, stage)
    PROVE  Moves(p, stage)
<1> DEFINE moved == [proc[p] EXCEPT !.at = stage]
<1>1. proc \in [Processes -> Processing]
  BY DEF Typed
<1>2. moved \in Processing /\ moved.build = proc[p].build /\ moved.at = stage
  BY <1>1 DEF Processing
<1>3. proc' = [proc EXCEPT ![p] = moved]
  BY <1>1 DEF Goto
<1> QED BY <1>1, <1>2, <1>3 DEF Moves

\* An exit moves one process to its end.
LEMMA ExitMoves ==
    ASSUME Typed, NEW p \in Processes, NEW status \in Nat, Exit(p, status)
    PROVE  Moves(p, "exited")
<1> DEFINE moved == [proc[p] EXCEPT !.at = "exited", !.status = status]
<1>1. proc \in [Processes -> Processing]
  BY DEF Typed
<1>2. moved \in Processing /\ moved.build = proc[p].build /\ moved.at = "exited"
  BY <1>1 DEF Processing, Stages, Statuses
<1>3. proc' = [proc EXCEPT ![p] = moved]
  BY <1>1 DEF Exit
<1> QED BY <1>1, <1>2, <1>3 DEF Moves

\* A start that returns leads to the shutdown.
LEMMA StartReturnsMoves ==
    ASSUME Typed, NEW p \in Processes, NEW failed \in BOOLEAN, StartReturns(p, failed)
    PROVE  Moves(p, "close admin")
<1> DEFINE moved == [proc[p] EXCEPT !.at = "close admin",
                                    !.status = IF failed THEN 1 ELSE 0]
<1>1. proc \in [Processes -> Processing]
  BY DEF Typed
<1>2. moved \in Processing /\ moved.build = proc[p].build /\ moved.at = "close admin"
  BY <1>1 DEF Processing, Stages, ClosingStages, Statuses
<1>3. proc' = [proc EXCEPT ![p] = moved]
  BY <1>1 DEF StartReturns
<1> QED BY <1>1, <1>2, <1>3 DEF Moves

\* A migration that fails leads a server to its shutdown and ends a command.
LEMMA MigrationFailsMoves ==
    ASSUME Typed, NEW p \in Processes, NEW failed \in BOOLEAN, MigrationFails(p, failed)
    PROVE  /\ Moves(p, "close admin") \/ Moves(p, "exited")
           /\ migration' \in [Processes -> Migrating]
           /\ migration' = [migration EXCEPT ![p] = NoMigration]
<1>1. /\ migration' = [migration EXCEPT ![p] = NoMigration]
      /\ migration' \in [Processes -> Migrating]
  BY DEF MigrationFails, Typed, NoMigration, Migrating, MigrationStages
<1>2. StartReturns(p, failed) \/ Exit(p, 1)
  BY DEF MigrationFails
<1> QED BY <1>1, <1>2, StartReturnsMoves, ExitMoves

\* The commands keep the types.
LEMMA CommandTyped ==
    ASSUME Typed, NEW p \in Processes, CommandStep(p)
    PROVE  Typed'
<1>1. CASE InitCommand(p)
  <2>1. Exit(p, 0) \/ Exit(p, 1)
    BY <1>1 DEF InitCommand
  <2>2. proc' \in [Processes -> Processing]
    BY <2>1, ExitMoves DEF Moves
  <2>3. envFiles' \in [Modes -> Environments \cup {None}]
    <3>1. PICK mode \in Modes, flags \in cast.shells :
              \/ UNCHANGED envFiles
              \/ envFiles' = [envFiles EXCEPT ![mode] = InitFile(mode, flags)]
      BY <1>1 DEF InitCommand
    <3>2. InitFile(mode, flags) \in Environments
      BY ShellsAreEnvironments, InitFileIsEnvironment DEF Typed
    <3> QED BY <3>1, <3>2 DEF Typed
  <2> QED BY <1>1, <2>2, <2>3 DEF InitCommand, Typed, dbVars
<1>2. CASE DoctorCommand(p)
  <2>1. Exit(p, 0) \/ Exit(p, 1)
    BY <1>2 DEF DoctorCommand
  <2>2. proc' \in [Processes -> Processing]
    BY <2>1, ExitMoves DEF Moves
  <2> QED BY <1>2, <2>2 DEF DoctorCommand, Typed, dbVars
<1>3. CASE Configure(p)
  <2>1. \/ Goto(p, "storage") /\ migration' = [migration EXCEPT ![p].at = "tables"]
        \/ Exit(p, 1) /\ UNCHANGED migration
    BY <1>3 DEF Configure
  <2>2. proc' \in [Processes -> Processing]
    BY <2>1, GotoMoves, ExitMoves DEF Stages, Moves
  <2>3. migration' \in [Processes -> Migrating]
    <3>1. migration \in [Processes -> Migrating]
      BY DEF Typed
    <3> QED BY <2>1, <3>1 DEF Migrating, MigrationStages
  <2> QED BY <1>3, <2>2, <2>3 DEF Configure, Typed, dbVars
<1> QED BY <1>1, <1>2, <1>3 DEF CommandStep

\* The next migration is the one after those that were seen.
LEMMA NextIsAfterSeen ==
    ASSUME Typed, NEW p \in Processes, NEW k \in Nat, migration[p].seen = 1..k,
           Pending(p) # {}
    PROVE  NextPending(p) = k + 1 /\ k + 1 \in 1..Len(proc[p].build)
<1>1. Len(proc[p].build) \in Nat
  BY LenProperties DEF Typed, Processing
<1>2. Pending(p) = (k + 1)..Len(proc[p].build)
  BY <1>1 DEF Pending, Defined
<1>3. k + 1 \in Pending(p) /\ \A w \in Pending(p) : k + 1 <= w
  BY <1>1, <1>2
<1>4. \A v \in Pending(p) : (\A w \in Pending(p) : v <= w) => v = k + 1
  BY <1>1, <1>2, <1>3
<1> QED BY <1>1, <1>2, <1>3, <1>4 DEF NextPending

\* A migration keeps the types; SchemaInv says that what it reads is there.
LEMMA MigrationTyped ==
    ASSUME Typed, SchemaInv, NEW p \in Processes, MigrationStep(p)
    PROVE  Typed'
<1>1. CASE LoadApplied(p)
  <2>1. CASE AppliedMatches(p)
    <3>1. DOMAIN applied \subseteq Nat
      BY LenProperties DEF SchemaInv, SchemaIsLog, Typed
    <3>2. migration' \in [Processes -> Migrating]
      <4> DEFINE m == [migration[p] EXCEPT !.at = "next", !.seen = DOMAIN applied]
      <4>1. migration \in [Processes -> Migrating]
        BY DEF Typed
      <4>2. m \in Migrating
        BY <3>1, <4>1 DEF Migrating, MigrationStages
      <4>3. migration' = [migration EXCEPT ![p] = m]
        BY <1>1, <2>1, <4>1 DEF LoadApplied
      <4> QED BY <4>1, <4>2, <4>3
    <3> QED BY <1>1, <2>1, <3>2 DEF LoadApplied, Typed, NoDatabase, dbVars
  <2>2. CASE ~AppliedMatches(p)
    <3>1. MigrationFails(p, TRUE)
      BY <1>1, <2>2 DEF LoadApplied
    <3> QED BY <1>1, <3>1, MigrationFailsMoves DEF LoadApplied, Moves, Typed, NoDatabase, dbVars
  <2> QED BY <2>1, <2>2
<1>2. CASE ExecMigration(p)
  <2>1. CASE MigrationFails(p, TRUE)
    BY <1>2, <2>1, MigrationFailsMoves DEF ExecMigration, Moves, Typed, NoDatabase, dbVars
  <2>2. CASE /\ migration' = [migration EXCEPT ![p].at = "exec",
                                              ![p].version = NextPending(p)]
             /\ UNCHANGED proc
    <3>1. PICK k \in 0..Len(executed) : migration[p].seen = 1..k
      BY <1>2 DEF ExecMigration, SchemaInv, MigrationsFollow
    <3>2. NextPending(p) \in Nat
      <4>1. Len(executed) \in Nat
        BY LenProperties DEF Typed
      <4>2. k \in Nat
        BY <4>1
      <4>3. Pending(p) # {}
        BY <1>2 DEF ExecMigration
      <4>4. NextPending(p) = k + 1
        BY <3>1, <4>2, <4>3, NextIsAfterSeen
      <4> QED BY <4>2, <4>4
    <3>3. migration' \in [Processes -> Migrating]
      <4> DEFINE m == [migration[p] EXCEPT !.at = "exec", !.version = NextPending(p)]
      <4>1. migration \in [Processes -> Migrating]
        BY DEF Typed
      <4>2. m \in Migrating
        BY <3>2, <4>1 DEF Migrating, MigrationStages
      <4>3. migration' = [migration EXCEPT ![p] = m]
        BY <2>2, <4>1
      <4> QED BY <4>1, <4>2, <4>3
    <3> QED BY <1>2, <2>2, <3>3 DEF ExecMigration, Typed, NoDatabase, dbVars
  <2> QED BY <1>2, <2>1, <2>2 DEF ExecMigration
<1>3. CASE RecordState(p)
  <2>1. CASE MigrationFails(p, TRUE)
    BY <1>3, <2>1, MigrationFailsMoves DEF RecordState, Moves, Typed, NoDatabase, dbVars
  <2>2. CASE migration' = [migration EXCEPT ![p].at = "recorded"] /\ UNCHANGED proc
    BY <1>3, <2>2 DEF RecordState, Typed, NoDatabase, dbVars, Migrating, MigrationStages
  <2> QED BY <1>3, <2>1, <2>2 DEF RecordState
<1>4. CASE CommitMigration(p)
  <2> DEFINE v == migration[p].version
  <2>1. v \in Nat /\ v \in 1..Len(proc[p].build) /\ Sum(p, v) \in Checksums
    <3>1. v \in 1..Len(proc[p].build)
      BY <1>4 DEF CommitMigration, SchemaInv, MigrationsFollow
    <3>2. proc[p].build \in Seq(Migration)
      BY DEF Typed, Processing
    <3>3. proc[p].build[v] \in Migration
      BY <3>1, <3>2, ElementOfSeq
    <3>4. Len(proc[p].build) \in Nat
      BY <3>2, LenProperties
    <3> HIDE DEF v
    <3> QED BY <3>1, <3>3, <3>4 DEF Sum, Definition, Migration
  <2>2. history' \in Seq(Nat) /\ executed' \in Seq(Checksums)
    BY <1>4, <2>1, AppendProperties DEF CommitMigration, Typed
  <2>3. migration' \in [Processes -> Migrating]
    <3> DEFINE m == [migration[p] EXCEPT !.at = "next", !.seen = @ \cup {v}]
    <3>1. migration \in [Processes -> Migrating]
      BY DEF Typed
    <3>2. m \in Migrating
      BY <2>1, <3>1 DEF Migrating, MigrationStages
    <3>3. migration' = [migration EXCEPT ![p] = m]
      BY <1>4, <3>1 DEF CommitMigration
    <3> QED BY <3>1, <3>2, <3>3
  <2> QED BY <1>4, <2>2, <2>3 DEF CommitMigration, Typed
<1>5. CASE Migrated(p)
  <2>1. migration' \in [Processes -> Migrating]
    BY <1>5 DEF Migrated, Typed, Migrating, MigrationStages
  <2>2. app' \in [Processes -> Parts]
    <3>1. app \in [Processes -> Parts]
      BY DEF Typed
    <3>2. app' = [app EXCEPT ![p].store = "open"] \/ UNCHANGED app
      BY <1>5 DEF Migrated
    <3> QED BY <3>1, <3>2 DEF Parts
  <2>3. Goto(p, "bundles") \/ Exit(p, 0)
    BY <1>5 DEF Migrated
  <2>4. proc' \in [Processes -> Processing]
    BY <2>3, GotoMoves, ExitMoves DEF Stages, Initializers, Moves
  <2> QED BY <1>5, <2>1, <2>2, <2>4 DEF Migrated, Typed, NoDatabase, dbVars
<1>6. CASE MigrationError(p)
  <2>1. MigrationFails(p, TRUE) \/ MigrationFails(p, FALSE)
    BY <1>6 DEF MigrationError
  <2> QED BY <1>6, <2>1, MigrationFailsMoves
          DEF MigrationError, Moves, Typed, NoDatabase, dbVars
<1> QED BY <1>1, <1>2, <1>3, <1>4, <1>5, <1>6 DEF MigrationStep

\* The startup of a server keeps the types.
LEMMA StartupTyped ==
    ASSUME Typed, NEW p \in Processes, StartupStep(p)
    PROVE  Typed'
<1>0. app \in [Processes -> Parts]
  BY DEF Typed
<1>1. CASE Initialize(p)
  <2>1. CASE Goto(p, After(proc[p].at))
    <3>1. Moves(p, After(proc[p].at))
      BY <1>1, <2>1, GotoMoves, StagesGoOn DEF Initialize
    <3>2. app' \in [Processes -> Parts]
      <4>1. PICK o \in ServerStates, a \in ServerStates :
                \/ app' = [app EXCEPT ![p].ops = o, ![p].admin = a]
                \/ UNCHANGED app
        BY <1>0, <1>1 DEF Initialize, Parts, ServerStates
      <4> DEFINE parts == [app[p] EXCEPT !.ops = o, !.admin = a]
      <4>2. parts \in Parts
        BY <1>0 DEF Parts
      <4>3. app' = [app EXCEPT ![p] = parts] \/ UNCHANGED app
        BY <1>0, <4>1
      <4> QED BY <1>0, <4>2, <4>3
    <3> QED BY <1>1, <3>1, <3>2 DEF Initialize, Moves, Typed, NoDatabase, dbVars
  <2>2. CASE StartReturns(p, ~proc[p].cancelled) /\ UNCHANGED app
    BY <1>1, <2>2, StartReturnsMoves DEF Initialize, Moves, Typed, NoDatabase, dbVars
  <2> QED BY <1>1, <2>1, <2>2 DEF Initialize
<1>2. ASSUME NEW stage \in {"start ops", "start admin"}, NEW name \in {"ops", "admin"},
             StartServer(p, stage, name)
      PROVE  Typed'
  <2>1. CASE Goto(p, After(stage)) /\ UNCHANGED <<app, port>>
    BY <1>2, <2>1, GotoMoves, StagesGoOn
       DEF StartServer, Moves, Typed, NoDatabase, dbVars
  <2>2. CASE /\ Goto(p, After(stage))
             /\ app' = [app EXCEPT ![p][name] = "serving"]
             /\ port' = [port EXCEPT ![name] = p]
    <3>1. app' \in [Processes -> Parts]
      BY <1>0, <2>2 DEF Parts, ServerStates
    <3>2. port' \in [{"admin", "ops"} -> Processes \cup {None}]
      BY <2>2 DEF Typed
    <3>3. Moves(p, After(stage))
      BY <2>2, GotoMoves, StagesGoOn
    <3> QED BY <1>2, <3>1, <3>2, <3>3 DEF StartServer, Moves, Typed, NoDatabase, dbVars
  <2>3. CASE StartReturns(p, TRUE) /\ UNCHANGED <<app, port>>
    BY <1>2, <2>3, StartReturnsMoves DEF StartServer, Moves, Typed, NoDatabase, dbVars
  <2> QED BY <1>2, <2>1, <2>2, <2>3 DEF StartServer
<1>3. ASSUME KeepControlPlaneRunning(p)
      PROVE  /\ app' \in [Processes -> Parts]
             /\ proc' \in [Processes -> Processing]
  <2>1. app' \in [Processes -> Parts]
    BY <1>0, <1>3 DEF KeepControlPlaneRunning, Parts
  <2>2. Goto(p, "wait") \/ StartReturns(p, ~proc[p].cancelled)
    BY <1>3 DEF KeepControlPlaneRunning
  <2> QED BY <2>1, <2>2, GotoMoves, StartReturnsMoves DEF Stages, Moves
<1>4. CASE InitDiscordBot(p)
  <2>1. \/ Goto(p, "wait") /\ UNCHANGED app
        \/ Goto(p, "start bot") /\ app' = [app EXCEPT ![p].bot = "built"]
        \/ KeepControlPlaneRunning(p)
    BY <1>4 DEF InitDiscordBot
  <2>2. app' \in [Processes -> Parts]
    BY <1>0, <1>3, <2>1 DEF Parts, BotStates
  <2>3. proc' \in [Processes -> Processing]
    BY <1>3, <2>1, GotoMoves DEF Stages, Moves
  <2> QED BY <1>4, <2>2, <2>3 DEF InitDiscordBot, Typed, NoDatabase, dbVars
<1>5. CASE StartDiscordBot(p)
  <2>1. \/ Goto(p, "wait") /\ app' = [app EXCEPT ![p].bot = "ready"]
        \/ KeepControlPlaneRunning(p)
    BY <1>5 DEF StartDiscordBot
  <2>2. app' \in [Processes -> Parts]
    BY <1>0, <1>3, <2>1 DEF Parts, BotStates
  <2>3. proc' \in [Processes -> Processing]
    BY <1>3, <2>1, GotoMoves DEF Stages, Moves
  <2> QED BY <1>5, <2>2, <2>3 DEF StartDiscordBot, Typed, NoDatabase, dbVars
<1> QED BY <1>1, <1>2, <1>4, <1>5 DEF StartupStep, StartOps, StartAdmin

\* Closing one part moves on to the next,
LEMMA PartTyped ==
    ASSUME Typed, NEW p \in Processes, NEW stage, NEW next \in Stages,
           NEW part \in {"store", "ops", "admin", "bot"}, ClosePart(p, stage, part, next)
    PROVE  app' \in [Processes -> Parts] /\ Moves(p, next)
<1>1. app \in [Processes -> Parts]
  BY DEF Typed
<1>2. app' \in [Processes -> Parts]
  BY <1>1 DEF ClosePart, Parts, ServerStates, BotStates
<1> QED BY <1>2, GotoMoves DEF ClosePart

\* and frees a port.
LEMMA UnlistenTyped ==
    ASSUME Typed, NEW p \in Processes, NEW name \in {"admin", "ops"}, Unlisten(p, name)
    PROVE  port' \in [{"admin", "ops"} -> Processes \cup {None}]
BY DEF Typed, Unlisten

\* The shutdown keeps the types.
LEMMA ShutdownTyped ==
    ASSUME Typed, NEW p \in Processes, ShutdownStep(p)
    PROVE  Typed'
<1> USE DEF Typed, NoDatabase, dbVars
<1>1. CASE StopWaiting(p)
  BY <1>1, StartReturnsMoves DEF StopWaiting, Moves
<1>2. CASE StopListening(p)
  <2>1. "drain admin" \in Stages
    BY DEF Stages, ClosingStages
  <2> QED BY <1>2, <2>1, UnlistenTyped, GotoMoves DEF StopListening, Moves
<1>3. CASE CloseAdmin(p)
  <2>1. "close ops" \in Stages
    BY DEF Stages, ClosingStages
  <2> QED BY <1>3, <2>1, PartTyped DEF CloseAdmin, ClosePart, Moves
<1>4. CASE CloseOps(p)
  <2>1. "close bot" \in Stages
    BY DEF Stages, ClosingStages
  <2> QED BY <1>4, <2>1, PartTyped, UnlistenTyped DEF CloseOps, ClosePart, Moves
<1>5. CASE CloseBot(p)
  <2>1. "close store" \in Stages
    BY DEF Stages, ClosingStages
  <2> QED BY <1>5, <2>1, PartTyped DEF CloseBot, ClosePart, Moves
<1>6. CASE CloseStore(p)
  <2>1. "exited" \in Stages
    BY DEF Stages
  <2> QED BY <1>6, <2>1, PartTyped DEF CloseStore, ClosePart, Moves
<1> QED BY <1>1, <1>2, <1>3, <1>4, <1>5, <1>6 DEF ShutdownStep

\* A signal keeps the types.
LEMMA SignalTyped ==
    ASSUME Typed, NEW p \in Processes, Signal(p)
    PROVE  Typed'
<1>1. proc \in [Processes -> Processing]
  BY DEF Typed
<1>2. proc' \in [Processes -> Processing]
  BY <1>1 DEF Signal, Processing
<1> QED BY <1>2 DEF Signal, Typed, NoDatabase, dbVars

\* A crash keeps the types.
LEMMA CrashTyped ==
    ASSUME Typed, NEW p \in Processes, Crash(p)
    PROVE  Typed'
<1>1. proc' \in [Processes -> Processing]
  BY ExitMoves DEF Crash, Moves
<1>2. migration' \in [Processes -> Migrating]
  BY DEF Crash, Typed, NoMigration, Migrating, MigrationStages
<1>3. app' \in [Processes -> Parts]
  BY DEF Crash, Typed, NoApp, Parts, ServerStates, BotStates
<1>4. port' \in [{"admin", "ops"} -> Processes \cup {None}]
  BY DEF Crash, Typed
<1>5. request' \in [Requests -> Serving]
  BY DEF Crash, Typed, Serving
<1> QED BY <1>1, <1>2, <1>3, <1>4, <1>5 DEF Crash, Typed, NoDatabase, dbVars

\* Requests keep the types.
LEMMA RequestTyped ==
    ASSUME Typed, RequestsAreServed, NEW r \in Requests, Arrive(r) \/ RequestStep(r)
    PROVE  Typed'
<1>0. request \in [Requests -> Serving]
  BY DEF Typed
<1>1. CASE Arrive(r)
  <2>1. port["admin"] \in Processes \cup {None}
    BY DEF Typed
  <2>2. [at |-> "accepted", to |-> port["admin"], bot |-> None] \in Serving
    BY <2>1 DEF Serving
  <2> QED BY <1>0, <1>1, <2>2 DEF Arrive, Typed, NoDatabase, dbVars
<1>2. CASE ReadBot(r)
  <2>1. PICK seen \in {"none", app[request[r].to].bot} :
            request' = [request EXCEPT ![r].at = "working", ![r].bot = seen]
    BY <1>2 DEF ReadBot
  <2>2. request[r].to \in Processes
    BY <1>2 DEF ReadBot, RequestsAreServed
  <2>3. seen \in BotStates
    BY <2>1, <2>2 DEF Typed, Parts, BotStates
  <2> DEFINE reading == [request[r] EXCEPT !.at = "working", !.bot = seen]
  <2>4. reading \in Serving
    BY <1>0, <2>3 DEF Serving
  <2>5. request' = [request EXCEPT ![r] = reading]
    BY <1>0, <2>1
  <2>6. request' \in [Requests -> Serving]
    BY <1>0, <2>4, <2>5
  <2> QED BY <1>2, <2>6 DEF ReadBot, Typed, NoDatabase, dbVars
<1>3. CASE Answer(r)
  <2>1. [at |-> "none", to |-> None, bot |-> None] \in Serving
    BY DEF Serving
  <2> QED BY <1>0, <1>3, <2>1 DEF Answer, Typed, NoDatabase, dbVars
<1> QED BY <1>1, <1>2, <1>3 DEF RequestStep

\* Every step keeps the types.
LEMMA NextTyped ==
    ASSUME Typed, SchemaInv, RequestsAreServed, [Next]_vars
    PROVE  Typed'
<1>1. CASE UNCHANGED vars
  BY <1>1 DEF vars, dbVars, Typed
<1>2. ASSUME NEW p \in Processes, Launch(p) \/ ProcessStep(p) \/ Signal(p) \/ Crash(p)
      PROVE  Typed'
  BY <1>2, LaunchTyped, CommandTyped, MigrationTyped, StartupTyped, ShutdownTyped,
     SignalTyped, CrashTyped DEF ProcessStep
<1>3. ASSUME NEW r \in Requests, Arrive(r) \/ RequestStep(r)
      PROVE  Typed'
  BY <1>3, RequestTyped
<1> QED BY <1>1, <1>2, <1>3 DEF Next

-----------------------------------------------------------------------------
(* The schema. *)

\* The checksums of a build and the schema, as sequences.
LEMMA SchemaIsTyped ==
    ASSUME Typed
    PROVE  /\ Len(executed) \in Nat /\ DOMAIN executed = 1..Len(executed)
           /\ \A p \in Processes : Len(proc[p].build) \in Nat
BY LenProperties DEF Typed, Processing

\* A step that leaves the database alone, and of each process either its build
\* or nothing of its migration and its store, keeps the invariant.
LEMMA SchemaKept ==
    ASSUME SchemaInv, UNCHANGED dbVars,
           \A q \in Processes :
              /\ \/ migration'[q] = migration[q] /\ proc'[q].build = proc[q].build
                 \/ migration'[q].at \in {"off", "tables", "done"}
              /\ app'[q].store = "open" =>
                    app[q].store = "open" /\ proc'[q].build = proc[q].build
    PROVE  SchemaInv'
<1> USE DEF dbVars
<1>1. \A q \in Processes : \A n :
          proc'[q].build = proc[q].build /\ Reached(q, n) => Reached(q, n)'
  BY DEF Reached, Sum, Definition
<1>2. SchemaIsLog'
  BY DEF SchemaInv, SchemaIsLog
<1>3. MigrationsFollow'
  BY <1>1 DEF SchemaInv, MigrationsFollow
<1>4. OneRecorder'
  BY DEF SchemaInv, OneRecorder
<1>5. OpenStoresAreMigrated'
  BY <1>1 DEF SchemaInv, OpenStoresAreMigrated
<1> QED BY <1>2, <1>3, <1>4, <1>5 DEF SchemaInv

\* Only the process p changed what it knows of the schema.
LEMMA OneMigrationMoves ==
    ASSUME Typed, SchemaInv, UNCHANGED <<dbVars, proc, app>>, NEW p \in Processes, NEW m,
           migration' = [migration EXCEPT ![p] = m],
           m.at = "next" => \E k \in 0..Len(executed) : m.seen = 1..k /\ Reached(p, k),
           m.at \in {"exec", "recorded"} =>
              /\ m.version \in 1..Len(proc[p].build)
              /\ m.seen = 1..(m.version - 1)
              /\ Reached(p, m.version - 1),
           m.at = "recorded" =>
              /\ m.version > Len(executed)
              /\ \A q \in Processes \ {p} : migration[q].at # "recorded"
    PROVE  SchemaInv'
<1> USE DEF dbVars
<1>1. \A q \in Processes : migration'[q] = IF q = p THEN m ELSE migration[q]
  BY DEF Typed
<1>2. \A q \in Processes : \A n :
          Reached(q, n)' <=> Reached(q, n)
  BY DEF Reached, Sum, Definition
<1>3. SchemaIsLog'
  BY DEF SchemaInv, SchemaIsLog
<1>4. MigrationsFollow'
  BY <1>1, <1>2 DEF SchemaInv, MigrationsFollow
<1>5. OneRecorder'
  BY <1>1 DEF SchemaInv, OneRecorder
<1>6. OpenStoresAreMigrated'
  BY <1>2 DEF SchemaInv, OpenStoresAreMigrated
<1> QED BY <1>3, <1>4, <1>5, <1>6 DEF SchemaInv

\* A migration that fails leaves schema and log alone.
LEMMA FailureKeepsSchema ==
    ASSUME Typed, SchemaInv, NEW p \in Processes, NEW failed \in BOOLEAN,
           MigrationFails(p, failed), UNCHANGED <<dbVars, app>>
    PROVE  SchemaInv'
<1>1. /\ migration' = [migration EXCEPT ![p] = NoMigration]
      /\ \A q \in Processes : proc'[q].build = proc[q].build
  BY MigrationFailsMoves DEF Moves
<1>2. \A q \in Processes : migration'[q] = migration[q] \/ migration'[q].at = "off"
  BY <1>1 DEF Typed, NoMigration
<1> QED BY <1>1, <1>2, SchemaKept

\* What a process reads of the log is a prefix of what is there.
LEMMA LoadKeepsSchema ==
    ASSUME Typed, SchemaInv, NEW p \in Processes, LoadApplied(p)
    PROVE  SchemaInv'
<1>1. CASE AppliedMatches(p)
  <2> DEFINE m == [migration[p] EXCEPT !.at = "next", !.seen = DOMAIN applied]
             n == Len(executed)
  <2>1. migration' = [migration EXCEPT ![p] = m]
    BY <1>1 DEF LoadApplied, Typed
  <2>2. DOMAIN applied = 1..n /\ n \in 0..n
    BY SchemaIsTyped DEF SchemaInv, SchemaIsLog
  <2>3. m.at = "next" /\ m.seen = 1..n
    BY <2>2 DEF Typed, Migrating
  <2>4. Reached(p, n)
    <3>1. \A v \in 1..n : v \in 1..Len(proc[p].build) /\ executed[v] = Sum(p, v)
      BY <1>1, <2>2 DEF AppliedMatches, Defined, SchemaInv, SchemaIsLog
    <3>2. n \in Nat /\ Len(proc[p].build) \in Nat
      BY SchemaIsTyped
    <3>3. n <= Len(proc[p].build)
      BY <3>1, <3>2
    <3> QED BY <3>1, <3>2, <3>3 DEF Reached
  <2>5. UNCHANGED <<dbVars, proc, app>>
    BY <1>1 DEF LoadApplied, NoDatabase
  <2> HIDE DEF m
  <2> QED BY <2>1, <2>2, <2>3, <2>4, <2>5, OneMigrationMoves
<1>2. CASE MigrationFails(p, TRUE)
  BY <1>2, FailureKeepsSchema DEF LoadApplied, NoDatabase
<1> QED BY <1>1, <1>2 DEF LoadApplied

\* The SQL of a migration is pending until its commit.
LEMMA ExecKeepsSchema ==
    ASSUME Typed, SchemaInv, NEW p \in Processes, ExecMigration(p)
    PROVE  SchemaInv'
<1>1. CASE MigrationFails(p, TRUE)
  BY <1>1, FailureKeepsSchema DEF ExecMigration, NoDatabase
<1>2. CASE /\ migration' = [migration EXCEPT ![p].at = "exec",
                                            ![p].version = NextPending(p)]
           /\ UNCHANGED proc
  <2> DEFINE m == [migration[p] EXCEPT !.at = "exec", !.version = NextPending(p)]
  <2>1. PICK k \in 0..Len(executed) : migration[p].seen = 1..k /\ Reached(p, k)
    BY DEF ExecMigration, SchemaInv, MigrationsFollow
  <2>2. k \in Nat
    BY SchemaIsTyped
  <2>3. NextPending(p) = k + 1 /\ k + 1 \in 1..Len(proc[p].build)
    <3>1. Pending(p) # {}
      BY DEF ExecMigration
    <3> QED BY <2>1, <2>2, <3>1, NextIsAfterSeen
  <2>4. m.at = "exec" /\ m.seen = 1..k /\ m.version = k + 1
    BY <2>1, <2>3 DEF Typed, Migrating
  <2>5. migration' = [migration EXCEPT ![p] = m]
    BY <1>2 DEF Typed
  <2>6. UNCHANGED <<dbVars, proc, app>>
    BY <1>2 DEF ExecMigration, NoDatabase
  <2>7. m.version - 1 = k
    BY <2>2, <2>4
  <2> HIDE DEF m
  <2> QED BY <2>1, <2>3, <2>4, <2>5, <2>6, <2>7, OneMigrationMoves
<1> QED BY <1>1, <1>2 DEF ExecMigration

\* So is its record, and two processes never record the same version.
LEMMA RecordKeepsSchema ==
    ASSUME Typed, SchemaInv, NEW p \in Processes, RecordState(p)
    PROVE  SchemaInv'
<1>1. CASE MigrationFails(p, TRUE)
  BY <1>1, FailureKeepsSchema DEF RecordState, NoDatabase
<1>2. CASE /\ migration[p].version \notin DOMAIN applied
           /\ migration' = [migration EXCEPT ![p].at = "recorded"]
           /\ UNCHANGED proc
  <2> DEFINE m == [migration[p] EXCEPT !.at = "recorded"]
  <2>1. migration[p].at = "exec" /\ Claims(migration[p].version) = {}
    BY DEF RecordState
  <2>2. /\ m.at = "recorded" /\ m.version = migration[p].version
        /\ m.seen = migration[p].seen
    BY DEF Typed, Migrating
  <2>3. /\ m.version \in 1..Len(proc[p].build)
        /\ m.seen = 1..(m.version - 1)
        /\ Reached(p, m.version - 1)
    BY <2>1, <2>2 DEF SchemaInv, MigrationsFollow
  <2>4. m.version > Len(executed)
    BY <1>2, <2>2, <2>3, SchemaIsTyped DEF SchemaInv, SchemaIsLog
  <2>5. m.version = Len(executed) + 1
    BY <2>3, <2>4, SchemaIsTyped DEF Reached
  <2>6. \A q \in Processes : migration[q].at # "recorded"
    <3> SUFFICES ASSUME NEW q \in Processes, migration[q].at = "recorded" PROVE FALSE
      OBVIOUS
    <3>1. /\ migration[q].version > Len(executed)
          /\ migration[q].version \in 1..Len(proc[q].build)
          /\ migration[q].version - 1 <= Len(executed)
      BY DEF SchemaInv, MigrationsFollow, Reached
    <3>2. migration[q].version = m.version
      BY <2>5, <3>1, SchemaIsTyped
    <3> QED BY <2>1, <2>2, <3>2 DEF Claims
  <2>7. migration' = [migration EXCEPT ![p] = m]
    BY <1>2 DEF Typed
  <2>8. UNCHANGED <<dbVars, proc, app>>
    BY <1>2 DEF RecordState, NoDatabase
  <2> HIDE DEF m
  <2> QED BY <2>2, <2>3, <2>4, <2>6, <2>7, <2>8, OneMigrationMoves
<1> QED BY <1>1, <1>2 DEF RecordState

\* A commit appends: the next version, with the checksum its process has for it.
LEMMA CommitAppends ==
    ASSUME Typed, SchemaInv, NEW p \in Processes, CommitMigration(p)
    PROVE  /\ migration[p].version = Len(executed) + 1
           /\ Sum(p, Len(executed) + 1) \in Checksums
           /\ Len(executed) + 1 <= Len(proc[p].build)
           /\ executed' = Append(executed, Sum(p, Len(executed) + 1))
           /\ history' = Append(history, Len(executed) + 1)
<1> DEFINE v == migration[p].version
<1>1. /\ v \in 1..Len(proc[p].build)
      /\ Reached(p, v - 1)
      /\ v > Len(executed)
  BY DEF CommitMigration, SchemaInv, MigrationsFollow
<1>2. v = Len(executed) + 1
  BY <1>1, SchemaIsTyped DEF Reached
<1>3. v <= Len(proc[p].build)
  BY <1>1, SchemaIsTyped
<1>4. proc[p].build[v] \in Migration
  BY <1>1, ElementOfSeq DEF Typed, Processing
<1>5. executed' = Append(executed, Sum(p, v)) /\ history' = Append(history, v)
  BY DEF CommitMigration
<1> HIDE DEF v
<1>6. Sum(p, v) \in Checksums
  BY <1>4 DEF Sum, Definition, Migration
<1> QED BY <1>2, <1>3, <1>5, <1>6 DEF v

\* A commit appends one migration to both the schema and the log.
LEMMA CommitKeepsSchema ==
    ASSUME Typed, SchemaInv, NEW p \in Processes, CommitMigration(p)
    PROVE  SchemaInv'
<1> DEFINE n == Len(executed)
           sum == Sum(p, n + 1)
<1>1. /\ migration[p].version = n + 1 /\ sum \in Checksums
      /\ n + 1 <= Len(proc[p].build)
      /\ executed' = Append(executed, sum) /\ history' = Append(history, n + 1)
  BY CommitAppends
<1>2. n \in Nat /\ DOMAIN executed = 1..n /\ executed \in Seq(Checksums)
  BY SchemaIsTyped DEF Typed
<1>3. /\ executed' \in Seq(Checksums) /\ Len(executed') = n + 1
      /\ \A i \in 1..n : executed'[i] = executed[i]
      /\ executed'[n + 1] = sum
  BY <1>1, <1>2, AppendProperties
<1>4. DOMAIN executed' = 1..(n + 1)
  BY <1>3, LenProperties
<1>5. UNCHANGED <<proc, app>>
  BY DEF CommitMigration
<1>6. \A q \in Processes : \A k \in 0..n : Reached(q, k) => Reached(q, k)'
  <2> SUFFICES ASSUME NEW q \in Processes, NEW k \in 0..n, Reached(q, k)
               PROVE  Reached(q, k)'
    OBVIOUS
  <2>1. \A i \in 1..k : executed'[i] = executed[i]
    BY <1>2, <1>3
  <2> QED BY <1>2, <1>3, <1>5, <2>1 DEF Reached, Sum, Definition
<1>7. SchemaIsLog'
  <2>1. applied' = executed'
    <3>1. applied' = [w \in 1..(n + 1) |-> IF w = n + 1 THEN sum ELSE executed[w]]
      <4>1. (1..n) \cup {n + 1} = 1..(n + 1)
        BY <1>2
      <4> QED BY <1>1, <1>2, <4>1 DEF CommitMigration, SchemaInv, SchemaIsLog
    <3>2. \A w \in 1..(n + 1) : executed'[w] = IF w = n + 1 THEN sum ELSE executed[w]
      BY <1>2, <1>3
    <3>3. executed' = [w \in 1..(n + 1) |-> executed'[w]]
      BY <1>3, <1>4, LenProperties
    <3> QED BY <3>1, <3>2, <3>3
  <2>2. history' = [i \in 1..(n + 1) |-> i]
    <3>1. history \in Seq(Nat) /\ Len(history) = n
      BY <1>2, LenProperties DEF SchemaInv, SchemaIsLog, Typed
    <3>2. /\ history' \in Seq(Nat) /\ Len(history') = n + 1
          /\ \A i \in 1..n : history'[i] = history[i]
          /\ history'[n + 1] = n + 1
      BY <1>1, <1>2, <3>1, AppendProperties
    <3>3. history' = [i \in 1..(n + 1) |-> history'[i]]
      BY <3>2, LenProperties
    <3>4. \A i \in 1..n : history[i] = i
      BY DEF SchemaInv, SchemaIsLog
    <3>5. \A i \in 1..(n + 1) : history'[i] = i
      BY <1>2, <3>2, <3>4
    <3> QED BY <3>3, <3>5
  <2> QED BY <1>3, <2>1, <2>2 DEF SchemaIsLog
<1>8. /\ \A q \in Processes \ {p} :
            migration'[q] = migration[q] /\ migration[q].at # "recorded"
      /\ migration'[p].at = "next"
      /\ migration'[p].seen = 1..(n + 1)
  <2>1. \A q \in Processes \ {p} : migration'[q] = migration[q]
    BY DEF CommitMigration, Typed
  <2>2. \A q \in Processes \ {p} : migration[q].at # "recorded"
    BY DEF CommitMigration, SchemaInv, OneRecorder
  <2>3. migration'[p].at = "next" /\ migration'[p].seen = migration[p].seen \cup {n + 1}
    BY <1>1 DEF CommitMigration, Typed, Migrating
  <2>4. migration[p].seen = 1..n
    <3>1. migration[p].seen = 1..((n + 1) - 1)
      BY <1>1 DEF CommitMigration, SchemaInv, MigrationsFollow
    <3> QED BY <1>2, <3>1
  <2>5. (1..n) \cup {n + 1} = 1..(n + 1)
    BY <1>2
  <2> QED BY <2>1, <2>2, <2>3, <2>4, <2>5
<1>9. \A k \in Nat : k = n + 1 => Reached(p, k)'
  <2>1. Reached(p, n)
    <3>1. Reached(p, (n + 1) - 1)
      BY <1>1 DEF CommitMigration, SchemaInv, MigrationsFollow
    <3> QED BY <1>2, <3>1
  <2>2. \A i \in 1..(n + 1) : executed'[i] = Sum(p, i)
    BY <1>2, <1>3, <2>1 DEF Reached
  <2> SUFFICES ASSUME NEW k \in Nat, k = n + 1 PROVE Reached(p, k)'
    OBVIOUS
  <2> QED BY <1>1, <1>2, <1>3, <1>5, <2>2 DEF Reached, Sum, Definition
<1> HIDE DEF n, sum
<1>10. MigrationsFollow'
  <2> SUFFICES ASSUME NEW q \in Processes
               PROVE  /\ migration'[q].at = "next" =>
                            \E k \in 0..Len(executed') :
                                migration'[q].seen = 1..k /\ Reached(q, k)'
                      /\ migration'[q].at \in {"exec", "recorded"} =>
                            /\ migration'[q].version \in 1..Len(proc'[q].build)
                            /\ migration'[q].seen = 1..(migration'[q].version - 1)
                            /\ Reached(q, migration[q].version - 1)'
                      /\ migration'[q].at = "recorded" =>
                            migration'[q].version > Len(executed')
    BY DEF MigrationsFollow
  <2>1. CASE q = p
    <3>1. n + 1 \in Nat /\ n + 1 \in 0..Len(executed')
      BY <1>2, <1>3
    <3>2. \E k \in 0..Len(executed') : k = n + 1 /\ Reached(q, k)'
      BY <1>9, <2>1, <3>1
    <3> QED BY <1>8, <2>1, <3>2
  <2>2. CASE q # p
    <3>1. migration'[q] = migration[q] /\ migration[q].at # "recorded"
      BY <1>8, <2>2
    <3>2. migration[q].at = "next" =>
              \E k \in 0..n : migration[q].seen = 1..k /\ Reached(q, k)
      BY DEF SchemaInv, MigrationsFollow, n
    <3>3. migration[q].at = "exec" =>
              /\ migration[q].version \in 1..Len(proc[q].build)
              /\ migration[q].seen = 1..(migration[q].version - 1)
              /\ Reached(q, migration[q].version - 1)
      BY DEF SchemaInv, MigrationsFollow
    <3>4. migration[q].at = "exec" => migration[q].version - 1 \in 0..n
      <4>1. Reached(q, migration[q].version - 1) => migration[q].version - 1 <= n
        BY DEF Reached, n
      <4>2. Len(proc[q].build) \in Nat
        BY SchemaIsTyped
      <4> QED BY <1>2, <3>3, <4>1, <4>2
    <3> QED BY <1>2, <1>3, <1>5, <1>6, <3>1, <3>2, <3>3, <3>4
  <2> QED BY <2>1, <2>2
<1>11. OneRecorder'
  BY <1>8 DEF OneRecorder
<1>12. OpenStoresAreMigrated'
  <2> SUFFICES ASSUME NEW q \in Processes, app[q].store = "open"
               PROVE  Reached(q, Len(proc[q].build))'
    BY <1>5 DEF OpenStoresAreMigrated
  <2>1. Reached(q, Len(proc[q].build))
    BY DEF SchemaInv, OpenStoresAreMigrated
  <2>2. Len(proc[q].build) \in 0..n
    BY <1>2, <2>1, SchemaIsTyped DEF Reached, n
  <2> QED BY <1>5, <1>6, <2>1, <2>2
<1> QED BY <1>7, <1>10, <1>11, <1>12 DEF SchemaInv

\* Every step keeps SchemaInv.
LEMMA NextKeepsSchema ==
    ASSUME Typed, SchemaInv, StagesHaveParts, [Next]_vars
    PROVE  SchemaInv'
<1>1. CASE UNCHANGED vars
  BY <1>1, SchemaKept DEF vars
<1>2. ASSUME NEW p \in Processes, Launch(p)
      PROVE  SchemaInv'
  <2>1. \A q \in Processes \ {p} :
            proc'[q] = proc[q] /\ migration'[q] = migration[q] /\ app'[q] = app[q]
    BY <1>2 DEF Launch, Typed
  <2>2. migration'[p].at = "off" /\ app'[p].store = "none"
    BY <1>2 DEF Launch, Typed, NoMigration, NoApp
  <2>3. UNCHANGED dbVars
    BY <1>2 DEF Launch
  <2> QED BY <2>1, <2>2, <2>3, SchemaKept
<1>3. ASSUME NEW p \in Processes, CommandStep(p)
      PROVE  SchemaInv'
  <2>1. Moves(p, "exited") \/ Moves(p, "storage")
    <3>1. Exit(p, 0) \/ Exit(p, 1) \/ Goto(p, "storage")
      BY <1>3 DEF CommandStep, InitCommand, DoctorCommand, Configure
    <3> QED BY <3>1, ExitMoves, GotoMoves DEF Stages
  <2>2. \A q \in Processes : migration'[q] = migration[q] \/ migration'[q].at = "tables"
    <3>1. UNCHANGED migration \/ migration' = [migration EXCEPT ![p].at = "tables"]
      BY <1>3 DEF CommandStep, InitCommand, DoctorCommand, Configure
    <3> QED BY <3>1 DEF Typed, Migrating
  <2>3. UNCHANGED <<dbVars, app>>
    BY <1>3 DEF CommandStep, InitCommand, DoctorCommand, Configure
  <2> QED BY <2>1, <2>2, <2>3, SchemaKept DEF Moves
<1>4. ASSUME NEW p \in Processes, MigrationStep(p)
      PROVE  SchemaInv'
  <2>1. CASE Migrated(p)
    <3>1. \A q \in Processes :
              /\ migration'[q] = migration[q] \/ migration'[q].at = "done"
              /\ proc'[q].build = proc[q].build
      <4>1. Goto(p, "bundles") \/ Exit(p, 0)
        BY <2>1 DEF Migrated
      <4>2. \A q \in Processes : proc'[q].build = proc[q].build
        BY <4>1, GotoMoves, ExitMoves DEF Moves, Stages, Initializers
      <4>3. \A q \in Processes : migration'[q] = migration[q] \/ migration'[q].at = "done"
        BY <2>1 DEF Migrated, Typed, Migrating
      <4> QED BY <4>2, <4>3
    <3>2. UNCHANGED dbVars
      BY <2>1 DEF Migrated, NoDatabase
    <3>3. CASE UNCHANGED app
      BY <3>1, <3>2, <3>3, SchemaKept
    <3>4. CASE proc[p].command \in {"run", "dev"} /\ app' = [app EXCEPT ![p].store = "open"]
      <4>1. \A q \in Processes \ {p} : app'[q] = app[q]
        BY <3>4 DEF Typed
      <4>2. Reached(p, Len(proc[p].build))
        <5>1. PICK k \in 0..Len(executed) : migration[p].seen = 1..k /\ Reached(p, k)
          BY <2>1 DEF Migrated, SchemaInv, MigrationsFollow
        <5>2. k \in Nat
          BY SchemaIsTyped
        <5>3. (1..Len(proc[p].build)) \ (1..k) = {}
          BY <2>1, <3>4, <5>1 DEF Migrated, Pending, Defined
        <5> DEFINE n == Len(proc[p].build)
        <5>4. n \in Nat /\ k <= n
          BY <5>1, SchemaIsTyped DEF Reached
        <5>5. k < n => n \in (1..n) \ (1..k)
          BY <5>2, <5>4
        <5>6. k = n
          BY <5>2, <5>3, <5>4, <5>5
        <5> QED BY <5>1, <5>6
      <4>3. \A q \in Processes : \A n :
          Reached(q, n) => Reached(q, n)'
        BY <3>1, <3>2, GotoMoves, <2>1, <3>4
           DEF Reached, Sum, Definition, dbVars, Migrated, Moves, Stages, Initializers, Goto
      <4>4. SchemaIsLog'
        BY <3>2 DEF SchemaInv, SchemaIsLog, dbVars
      <4>5. MigrationsFollow' /\ OneRecorder'
        BY <3>1, <3>2, <4>3 DEF SchemaInv, MigrationsFollow, OneRecorder, dbVars
      <4>6. OpenStoresAreMigrated'
        BY <3>1, <4>1, <4>2, <4>3 DEF SchemaInv, OpenStoresAreMigrated
      <4> QED BY <4>4, <4>5, <4>6 DEF SchemaInv
    <3> QED BY <2>1, <3>3, <3>4 DEF Migrated
  <2>2. CASE MigrationError(p)
    BY <2>2, FailureKeepsSchema DEF MigrationError, NoDatabase
  <2> QED BY <1>4, <2>1, <2>2, LoadKeepsSchema, ExecKeepsSchema, RecordKeepsSchema,
             CommitKeepsSchema DEF MigrationStep
<1>5. ASSUME NEW p \in Processes, StartupStep(p) \/ ShutdownStep(p)
      PROVE  SchemaInv'
  <2>1. \A q \in Processes : proc'[q].build = proc[q].build
    <3>1. \/ \E stage \in Stages : Goto(p, stage)
          \/ \E failed \in BOOLEAN : StartReturns(p, failed)
      <4>1. CASE StartupStep(p)
        <5>1. {"wait", "start bot"} \subseteq Stages
          BY DEF Stages
        <5> QED BY <4>1, <5>1, StagesGoOn
                DEF StartupStep, Initialize, StartOps, StartAdmin, StartServer,
                    InitDiscordBot, StartDiscordBot, KeepControlPlaneRunning
      <4>2. CASE ShutdownStep(p)
        <5>1. {"drain admin", "close ops", "close bot", "close store", "exited"}
                \subseteq Stages
          BY DEF Stages, ClosingStages
        <5> QED BY <4>2, <5>1 DEF ShutdownStep, StopWaiting, StopListening, CloseAdmin,
                                  CloseOps, CloseBot, CloseStore, ClosePart
      <4> QED BY <1>5, <4>1, <4>2
    <3> QED BY <3>1, GotoMoves, StartReturnsMoves DEF Moves
  <2>2. \A q \in Processes : app'[q].store = "open" => app[q].store = "open"
    <3>1. app \in [Processes -> Parts]
      BY DEF Typed
    <3>2. CASE StartupStep(p)
      <4>1. app'[p].store = app[p].store /\ \A q \in Processes \ {p} : app'[q] = app[q]
        <5>1. CASE Initialize(p)
          BY <3>1, <5>1 DEF Initialize, Parts
        <5>2. CASE StartOps(p) \/ StartAdmin(p)
          BY <3>1, <5>2 DEF StartOps, StartAdmin, StartServer, Parts
        <5>3. CASE InitDiscordBot(p) \/ StartDiscordBot(p)
          BY <3>1, <5>3 DEF InitDiscordBot, StartDiscordBot, KeepControlPlaneRunning, Parts
        <5> QED BY <3>2, <5>1, <5>2, <5>3 DEF StartupStep
      <4> QED BY <4>1
    <3>3. CASE ShutdownStep(p)
      <4>1. ASSUME NEW part \in {"admin", "ops", "bot", "store"},
                   app' = [app EXCEPT ![p][part] = IF @ = "none" THEN @ ELSE "closed"]
            PROVE  \A q \in Processes :
                       app'[q].store = "open" => app[q].store = "open"
        BY <3>1, <4>1 DEF Parts
      <4>2. \/ app' = app
            \/ \E part \in {"admin", "ops", "bot", "store"} :
                   app' = [app EXCEPT ![p][part] = IF @ = "none" THEN @ ELSE "closed"]
        BY <3>3 DEF ShutdownStep, StopWaiting, StopListening, CloseAdmin, CloseOps,
                    CloseBot, CloseStore, ClosePart
      <4> QED BY <4>1, <4>2
    <3> QED BY <1>5, <3>2, <3>3
  <2>3. UNCHANGED <<dbVars, migration>>
    BY <1>5 DEF StartupStep, Initialize, StartOps, StartAdmin, StartServer,
                InitDiscordBot, StartDiscordBot, ShutdownStep, StopWaiting, StopListening,
                CloseAdmin, CloseOps, CloseBot, CloseStore, ClosePart, NoDatabase
  <2> QED BY <2>1, <2>2, <2>3, SchemaKept
<1>6. ASSUME NEW p \in Processes, Signal(p)
      PROVE  SchemaInv'
  <2>1. \A q \in Processes : proc'[q].build = proc[q].build
    BY <1>6 DEF Signal, Typed, Processing
  <2> QED BY <1>6, <2>1, SchemaKept DEF Signal, NoDatabase
<1>7. ASSUME NEW p \in Processes, Crash(p)
      PROVE  SchemaInv'
  <2>1. \A q \in Processes : proc'[q].build = proc[q].build
    BY <1>7, ExitMoves DEF Crash, Moves
  <2>2. \A q \in Processes :
            /\ migration'[q] = migration[q] \/ migration'[q].at = "off"
            /\ app'[q] = app[q] \/ app'[q].store = "none"
    BY <1>7 DEF Crash, Typed, NoMigration, NoApp
  <2> QED BY <1>7, <2>1, <2>2, SchemaKept DEF Crash, NoDatabase
<1>8. ASSUME NEW r \in Requests, Arrive(r) \/ RequestStep(r)
      PROVE  SchemaInv'
  BY <1>8, SchemaKept DEF Arrive, RequestStep, ReadBot, Answer, NoDatabase
<1> QED BY <1>1, <1>2, <1>3, <1>4, <1>5, <1>6, <1>7, <1>8 DEF Next, ProcessStep

-----------------------------------------------------------------------------
(* The parts of a process, and the requests it handles. *)

\* A step of p leaves the other processes as they are.
LEMMA OneProcessMoves ==
    ASSUME StagesHaveParts, RequestsAreServed, NEW p \in Processes,
           \A q \in Processes \ {p} :
              /\ proc'[q] = proc[q] /\ migration'[q] = migration[q] /\ app'[q] = app[q]
              /\ port'["admin"] = q => port["admin"] = q,
           HasParts(p)',
           port'["admin"] = p => Listens(p)',
           \A r \in Requests :
              \/ request'[r] = request[r] /\ (request[r].to = p => Handles(p)')
              \/ request'[r] = request[r] /\ request[r].at = "none"
              \/ request'[r].at = "none"
    PROVE  StagesHaveParts' /\ RequestsAreServed'
<1>1. \A q \in Processes \ {p} :
          (HasParts(q) => HasParts(q)') /\ (Listens(q) => Listens(q)')
          /\ (Handles(q) => Handles(q)')
  BY DEF HasParts, Listens, Handles, At, Bare
<1>2. StagesHaveParts'
  BY <1>1 DEF StagesHaveParts
<1>3. RequestsAreServed'
  BY <1>1 DEF RequestsAreServed
<1> QED BY <1>2, <1>3

\* A process that is launched has no parts yet.
LEMMA LaunchKeepsParts ==
    ASSUME Typed, StagesHaveParts, RequestsAreServed, NEW p \in Processes, Launch(p)
    PROVE  StagesHaveParts' /\ RequestsAreServed'
<1>1. proc[p].at \in {"off", "exited"} /\ UNCHANGED <<port, request>>
  BY DEF Launch
<1>2. ~Listens(p) /\ ~Handles(p)
  BY <1>1 DEF Listens, Handles, RunningStages
<1>3. \A q \in Processes \ {p} :
          proc'[q] = proc[q] /\ migration'[q] = migration[q] /\ app'[q] = app[q]
  BY DEF Launch, Typed
<1>4. proc'[p].at \in Commands
  <2>1. PICK command \in cast.commands :
            \E e, b : proc' = [proc EXCEPT ![p] =
                [Off EXCEPT !.at = command, !.command = command,
                            !.env = e, !.build = b]]
    BY DEF Launch
  <2>2. command \in Commands
    BY CastsAreTyped DEF Typed
  <2> QED BY <2>1, <2>2 DEF Typed, Off
<1>5. app'[p] = NoApp /\ migration'[p] = NoMigration
  BY DEF Launch, Typed
<1>6. HasParts(p)'
  <2>1. proc'[p].at \notin OpenStages
    BY <1>4 DEF Commands, OpenStages, Initializers, RunningStages
  <2>2. /\ app'[p].store = "none" /\ app'[p].ops = "none"
        /\ app'[p].admin = "none" /\ app'[p].bot = "none" /\ migration'[p].at = "off"
    BY <1>5 DEF NoApp, NoMigration
  <2> QED BY <2>1, <2>2 DEF HasParts, Bare
<1>7. port["admin"] # p /\ \A r \in Requests : request[r].at # "none" => request[r].to # p
  BY <1>2 DEF RequestsAreServed
<1> QED BY <1>1, <1>3, <1>6, <1>7, OneProcessMoves

\* A process that is not running yet, or not any more, has no requests.
LEMMA NotServing ==
    ASSUME RequestsAreServed, NEW p \in Processes,
           \/ proc[p].at \notin RunningStages \cup {"close admin", "drain admin"}
           \/ app[p].admin # "serving"
    PROVE  /\ port["admin"] # p
           /\ \A r \in Requests : request[r].at # "none" => request[r].to # p
BY DEF RequestsAreServed, Listens, Handles

\* A process without parts moves on.
LEMMA BareMoves ==
    ASSUME Typed, StagesHaveParts, RequestsAreServed, NEW p \in Processes, Bare(p),
           UNCHANGED <<app, port, request>>,
           \A q \in Processes \ {p} : proc'[q] = proc[q] /\ migration'[q] = migration[q],
           \/ /\ migration'[p].at \in {"off", "done"}
              /\ proc'[p].at \in {"close admin", "exited"}
           \/ proc'[p].at = "storage"
    PROVE  StagesHaveParts' /\ RequestsAreServed'
<1>1. HasParts(p)'
  BY DEF HasParts, Bare, At, OpenStages, Initializers, RunningStages, ClosingStages
<1>2. /\ port["admin"] # p
      /\ \A r \in Requests : request[r].at # "none" => request[r].to # p
  BY NotServing DEF Bare
<1> QED BY <1>1, <1>2, OneProcessMoves

\* Commands open and close their own store.
LEMMA CommandKeepsParts ==
    ASSUME Typed, StagesHaveParts, RequestsAreServed, NEW p \in Processes, CommandStep(p)
    PROVE  StagesHaveParts' /\ RequestsAreServed'
<1>1. UNCHANGED <<app, port, request>>
  BY DEF CommandStep, InitCommand, DoctorCommand, Configure
<1>2. proc[p].at \in Commands
  BY DEF CommandStep, InitCommand, DoctorCommand, Configure, At, Commands
<1>3. Bare(p) /\ migration[p].at \in {"off", "done"}
  BY <1>2 DEF StagesHaveParts, HasParts, At, Commands
<1>4. \/ (Exit(p, 0) \/ Exit(p, 1)) /\ UNCHANGED migration
      \/ Goto(p, "storage") /\ migration' = [migration EXCEPT ![p].at = "tables"]
  BY DEF CommandStep, InitCommand, DoctorCommand, Configure
<1>5. \/ Moves(p, "exited") /\ UNCHANGED migration
      \/ Moves(p, "storage") /\ migration' = [migration EXCEPT ![p].at = "tables"]
  BY <1>4, ExitMoves, GotoMoves DEF Stages
<1> QED BY <1>1, <1>3, <1>5, BareMoves DEF Moves, Typed

\* A migration closes the store of a command only at its end.
LEMMA MigrationKeepsParts ==
    ASSUME Typed, StagesHaveParts, RequestsAreServed, NEW p \in Processes, MigrationStep(p)
    PROVE  StagesHaveParts' /\ RequestsAreServed'
<1>1. UNCHANGED <<port, request>>
  BY DEF MigrationStep, LoadApplied, ExecMigration, RecordState, CommitMigration,
         Migrated, MigrationError
<1>2. migration[p].at \notin {"off", "done"}
  BY DEF MigrationStep, LoadApplied, ExecMigration, RecordState, CommitMigration,
         Migrated, MigrationError
<1>3. proc[p].at = "storage" /\ Bare(p)
  BY <1>2 DEF StagesHaveParts, HasParts, At
<1>4. /\ port["admin"] # p
      /\ \A r \in Requests : request[r].at # "none" => request[r].to # p
  BY <1>3, NotServing DEF Bare
<1>5. CASE Migrated(p)
  <2>1. migration' = [migration EXCEPT ![p].at = "done"]
    BY <1>5 DEF Migrated
  <2>2. migration'[p].at = "done" /\ \A q \in Processes \ {p} : migration'[q] = migration[q]
    BY <2>1 DEF Typed, Migrating
  <2>3. CASE Exit(p, 0) /\ UNCHANGED app
    BY <1>1, <1>3, <2>2, <2>3, ExitMoves, BareMoves DEF Moves
  <2>4. CASE Goto(p, "bundles") /\ app' = [app EXCEPT ![p].store = "open"]
    <3>1. Moves(p, "bundles")
      BY <2>4, GotoMoves DEF Stages, Initializers
    <3>2. app'[p].store = "open" /\ app'[p].bot = "none"
          /\ \A q \in Processes \ {p} : app'[q] = app[q]
      BY <1>3, <2>4 DEF Typed, Parts, Bare
    <3>3. HasParts(p)'
      BY <2>2, <3>1, <3>2 DEF HasParts, Moves, Commands, ClosingStages
    <3> QED BY <1>1, <1>4, <2>2, <3>1, <3>2, <3>3, OneProcessMoves DEF Moves
  <2> QED BY <1>5, <2>3, <2>4 DEF Migrated
<1>6. CASE \E failed \in BOOLEAN : MigrationFails(p, failed) /\ UNCHANGED app
  <2>1. /\ Moves(p, "close admin") \/ Moves(p, "exited")
        /\ migration' = [migration EXCEPT ![p] = NoMigration]
    BY <1>6, MigrationFailsMoves
  <2>2. migration'[p].at = "off" /\ \A q \in Processes \ {p} : migration'[q] = migration[q]
    BY <2>1 DEF Typed, NoMigration
  <2> QED BY <1>1, <1>3, <1>6, <2>1, <2>2, BareMoves DEF Moves
<1>7. CASE /\ UNCHANGED <<proc, app>>
           /\ \A q \in Processes \ {p} : migration'[q] = migration[q]
  BY <1>1, <1>3, <1>7, BareMoves
<1>8. \/ Migrated(p)
      \/ \E failed \in BOOLEAN : MigrationFails(p, failed) /\ UNCHANGED app
      \/ UNCHANGED <<proc, app>> /\ \A q \in Processes \ {p} : migration'[q] = migration[q]
  BY DEF MigrationStep, LoadApplied, ExecMigration, RecordState, CommitMigration,
         MigrationError, Typed
<1> QED BY <1>5, <1>6, <1>7, <1>8

\* The servers and the bot of a process that goes on with its startup.
LEMMA StartupKeepsParts ==
    ASSUME Typed, StagesHaveParts, RequestsAreServed, NEW p \in Processes, StartupStep(p)
    PROVE  StagesHaveParts' /\ RequestsAreServed'
<1>1. UNCHANGED <<migration, request>>
  BY DEF StartupStep, Initialize, StartOps, StartAdmin, StartServer, InitDiscordBot,
         StartDiscordBot
<1>2. app \in [Processes -> Parts] /\ app[p] \in Parts
  BY DEF Typed
<1>3. proc[p].at \in OpenStages
  BY DEF StartupStep, Initialize, StartOps, StartAdmin, StartServer, InitDiscordBot,
         StartDiscordBot, At, OpenStages, RunningStages
<1>4. /\ app[p].store = "open" /\ app[p].bot # "closed" /\ migration[p].at \in {"off", "done"}
  BY <1>3 DEF StagesHaveParts, HasParts, At, OpenStages, Initializers, RunningStages
\* The part changes, never to "closed", and the store stays open.
<1>5. ASSUME NEW stage \in OpenStages \cup {"close admin"}, Moves(p, stage),
             \A q \in Processes \ {p} : app'[q] = app[q],
             app'[p].store = "open", app'[p].bot # "closed"
      PROVE  HasParts(p)'
  BY <1>1, <1>4, <1>5 DEF HasParts, Moves, Commands, OpenStages, Initializers, RunningStages
<1>6. \A q \in Processes \ {p} : app'[q] = app[q]
  BY <1>2 DEF StartupStep, Initialize, StartOps, StartAdmin, StartServer, InitDiscordBot,
              StartDiscordBot, KeepControlPlaneRunning
<1>7. CASE Initialize(p)
  <2>1. /\ app'[p].store = "open" /\ app'[p].bot # "closed" /\ UNCHANGED port
    <3>1. PICK o, a :
              \/ app' = [app EXCEPT ![p].ops = o, ![p].admin = a]
              \/ UNCHANGED app
      BY <1>7 DEF Initialize
    <3>2. app'[p].store = app[p].store /\ app'[p].bot = app[p].bot
      BY <1>2, <3>1 DEF Parts
    <3> QED BY <1>4, <1>7, <3>2 DEF Initialize
  <2>2. proc[p].at \in Initializers
    BY <1>7 DEF Initialize
  <2>3. Moves(p, After(proc[p].at)) \/ Moves(p, "close admin")
    BY <1>7, <2>2, GotoMoves, StartReturnsMoves, StagesGoOn DEF Initialize
  <2>4. After(proc[p].at) \in OpenStages
    BY <2>2 DEF After, Initializers, OpenStages
  <2>5. HasParts(p)'
    BY <1>5, <1>6, <2>1, <2>3, <2>4
  <2>6. /\ port["admin"] # p
        /\ \A r \in Requests : request[r].at # "none" => request[r].to # p
    BY <2>2, NotServing DEF Initializers, RunningStages
  <2> QED BY <1>1, <1>6, <2>1, <2>3, <2>5, <2>6, OneProcessMoves DEF Moves
<1>8. CASE StartOps(p) \/ StartAdmin(p)
  <2>1. PICK stage \in {"start ops", "start admin"}, name \in {"ops", "admin"} :
            /\ StartServer(p, stage, name)
            /\ stage = "start admin" <=> name = "admin"
    BY <1>8 DEF StartOps, StartAdmin
  <2>2. /\ port["admin"] # p
        /\ \A r \in Requests : request[r].at # "none" => request[r].to # p
    BY <2>1, NotServing DEF StartServer, At, RunningStages
  <2>3. app'[p].store = "open" /\ app'[p].bot # "closed"
    BY <1>2, <1>4, <2>1 DEF StartServer, Parts
  <2>4. CASE UNCHANGED <<app, port>>
    <3>1. Moves(p, After(stage)) \/ Moves(p, "close admin")
      BY <2>1, GotoMoves, StartReturnsMoves, StagesGoOn DEF StartServer
    <3>2. After(stage) \in OpenStages
      BY DEF After, OpenStages, RunningStages
    <3>3. HasParts(p)'
      BY <1>5, <1>6, <2>3, <3>1, <3>2
    <3> QED BY <1>1, <2>2, <2>4, <3>1, <3>3, OneProcessMoves DEF Moves
  <2>5. CASE /\ Goto(p, After(stage))
             /\ app' = [app EXCEPT ![p][name] = "serving"]
             /\ port' = [port EXCEPT ![name] = p]
    <3>1. Moves(p, After(stage))
      BY <2>5, GotoMoves, StagesGoOn
    <3>2. After(stage) \in OpenStages
      BY DEF After, OpenStages, RunningStages
    <3>3. HasParts(p)'
      BY <1>5, <1>6, <2>3, <3>1, <3>2
    <3>4. \A q \in Processes \ {p} : port'["admin"] = q => port["admin"] = q
      BY <2>5 DEF Typed
    <3>5. port'["admin"] = p => Listens(p)'
      <4>1. CASE name = "ops"
        BY <2>2, <2>5, <4>1 DEF Typed
      <4>2. CASE name = "admin"
        <5>1. After(stage) = "init bot"
          BY <2>1, <4>2 DEF After
        <5>2. app'[p].admin = "serving"
          BY <1>2, <2>5, <4>2 DEF Parts
        <5> QED BY <3>1, <5>1, <5>2 DEF Listens, Moves, RunningStages
      <4> QED BY <4>1, <4>2
    <3> QED BY <1>1, <1>6, <2>2, <3>1, <3>3, <3>4, <3>5, OneProcessMoves DEF Moves
  <2> QED BY <2>1, <2>4, <2>5 DEF StartServer
<1>9. CASE InitDiscordBot(p) \/ StartDiscordBot(p)
  <2>1. /\ app'[p].store = "open" /\ app'[p].bot # "closed" /\ UNCHANGED port
        /\ app'[p].admin = app[p].admin
    <3>1. \/ \E b \in {"built", "ready"} : app' = [app EXCEPT ![p].bot = b]
          \/ app' = [app EXCEPT ![p].discordStartErr = TRUE]
          \/ UNCHANGED app
      BY <1>9 DEF InitDiscordBot, StartDiscordBot, KeepControlPlaneRunning
    <3>2. /\ app'[p].store = app[p].store /\ app'[p].admin = app[p].admin
          /\ app'[p].bot \in {app[p].bot, "built", "ready"}
      BY <1>2, <3>1 DEF Parts
    <3>3. UNCHANGED port
      BY <1>9 DEF InitDiscordBot, StartDiscordBot
    <3> QED BY <1>4, <3>2, <3>3
  <2>2. \/ \E stage \in {"wait", "start bot"} : Goto(p, stage)
        \/ \E failed \in BOOLEAN : StartReturns(p, failed)
    BY <1>9 DEF InitDiscordBot, StartDiscordBot, KeepControlPlaneRunning
  <2>3. PICK stage \in {"wait", "start bot", "close admin"} : Moves(p, stage)
    BY <2>2, GotoMoves, StartReturnsMoves DEF Stages
  <2>4. HasParts(p)'
    BY <1>5, <1>6, <2>1, <2>3 DEF OpenStages, RunningStages
  <2>5. (Listens(p) => Listens(p)') /\ (Handles(p) => Handles(p)')
    BY <2>1, <2>3 DEF Listens, Handles, Moves, RunningStages
  <2>6. /\ port["admin"] = p => Listens(p)
        /\ \A r \in Requests : request[r].at # "none" /\ request[r].to = p => Handles(p)
    BY DEF RequestsAreServed
  <2> QED BY <1>1, <1>6, <2>1, <2>3, <2>4, <2>5, <2>6, OneProcessMoves DEF Moves
<1> QED BY <1>7, <1>8, <1>9 DEF StartupStep

\* What a process that is closing needs to have its parts.
LEMMA ClosingHasParts ==
    ASSUME NEW p \in Processes, NEW stage \in ClosingStages, Moves(p, stage),
           migration'[p].at \in {"off", "done"},
           app'[p].store = "open" \/ Bare(p)',
           stage \in {"close bot", "close store"} => app'[p].ops # "serving",
           app'[p].bot = "closed" => stage = "close store"
    PROVE  HasParts(p)'
<1>1. stage \notin OpenStages \cup Commands \cup {"off", "storage", "exited"}
  BY DEF ClosingStages, OpenStages, Initializers, RunningStages, Commands
<1> QED BY <1>1 DEF HasParts, Moves

\* The shutdown ends the servers before the bot, and the bot before the store.
LEMMA ShutdownKeepsParts ==
    ASSUME Typed, StagesHaveParts, RequestsAreServed, NEW p \in Processes, ShutdownStep(p)
    PROVE  StagesHaveParts' /\ RequestsAreServed'
<1>1. UNCHANGED <<migration, request>>
  BY DEF ShutdownStep, StopWaiting, StopListening, CloseAdmin, CloseOps, CloseBot,
         CloseStore, ClosePart
<1>2. app \in [Processes -> Parts] /\ app[p] \in Parts
  BY DEF Typed
<1>3. proc[p].at \in ClosingStages \cup {"wait"}
  BY DEF ShutdownStep, StopWaiting, StopListening, CloseAdmin, CloseOps, CloseBot,
         CloseStore, ClosePart, At, ClosingStages
<1>4. /\ app[p].store = "open" \/ Bare(p)
      /\ migration[p].at \in {"off", "done"}
      /\ app[p].bot = "closed" => proc[p].at = "close store"
      /\ proc[p].at \in {"close bot", "close store"} => app[p].ops # "serving"
  BY <1>3 DEF StagesHaveParts, HasParts, At, OpenStages, RunningStages, ClosingStages
<1>5. \A q \in Processes \ {p} : app'[q] = app[q]
  BY <1>2 DEF ShutdownStep, StopWaiting, StopListening, CloseAdmin, CloseOps, CloseBot,
              CloseStore, ClosePart
<1>6. /\ port["admin"] = p => Listens(p)
      /\ \A r \in Requests : request[r].at # "none" /\ request[r].to = p => Handles(p)
  BY DEF RequestsAreServed
<1>7. CASE StopWaiting(p)
  <2>1. Moves(p, "close admin") /\ UNCHANGED <<app, port>> /\ proc[p].at = "wait"
    BY <1>7, StartReturnsMoves DEF StopWaiting, At
  <2>2. HasParts(p)'
    BY <1>1, <1>4, <2>1 DEF HasParts, Moves, Bare, Commands, OpenStages, Initializers,
                            RunningStages
  <2>3. (Listens(p) => Listens(p)') /\ (Handles(p) => Handles(p)')
    BY <2>1 DEF Listens, Handles, Moves
  <2> QED BY <1>1, <1>6, <2>1, <2>2, <2>3, OneProcessMoves DEF Moves
<1>8. CASE StopListening(p)
  <2>1. /\ Moves(p, "drain admin") /\ UNCHANGED app /\ Unlisten(p, "admin")
        /\ proc[p].at = "close admin"
    BY <1>8, GotoMoves DEF StopListening, At, Stages, ClosingStages
  <2>2. HasParts(p)'
    BY <1>1, <1>4, <2>1 DEF HasParts, Moves, Bare, Commands, OpenStages, Initializers,
                            RunningStages
  <2>3. Handles(p) => Handles(p)'
    BY <2>1 DEF Handles, Moves
  <2>4. port'["admin"] # p /\ \A q \in Processes \ {p} : port'["admin"] = q => port["admin"] = q
    BY <2>1, NoneIsNoProcess DEF Unlisten, Typed
  <2> QED BY <1>1, <1>6, <2>1, <2>2, <2>3, <2>4, OneProcessMoves DEF Moves
\* From here on nobody asks for p.
<1>9. ASSUME NEW stage \in {"close ops", "close bot", "close store", "exited"},
             Moves(p, stage), HasParts(p)',
             \A q \in Processes \ {p} : port'["admin"] = q => port["admin"] = q,
             port'["admin"] = p => port["admin"] = p,
             \/ InFlight(p) = {} /\ proc[p].at = "drain admin"
             \/ proc[p].at \notin {"wait", "close admin", "drain admin"}
      PROVE  StagesHaveParts' /\ RequestsAreServed'
  <2>1. port["admin"] # p /\ \A r \in Requests : request[r].at # "none" => request[r].to # p
    <3>1. CASE InFlight(p) = {} /\ proc[p].at = "drain admin"
      BY <1>6, <3>1 DEF InFlight, Listens, RunningStages
    <3>2. CASE proc[p].at \notin {"wait", "close admin", "drain admin"}
      BY <1>3, <3>2, NotServing DEF RunningStages, ClosingStages
    <3> QED BY <1>9, <3>1, <3>2
  <2> QED BY <1>1, <1>5, <1>9, <2>1, OneProcessMoves DEF Moves
<1>10. CASE CloseAdmin(p)
  <2>1. Moves(p, "close ops") /\ UNCHANGED port /\ proc[p].at = "drain admin"
    BY <1>10, GotoMoves DEF CloseAdmin, ClosePart, At, Stages, ClosingStages
  <2>2. /\ app'[p].store = app[p].store /\ app'[p].bot = app[p].bot
        /\ app'[p].ops = app[p].ops
        /\ app[p].admin = "none" => app'[p].admin = "none"
    BY <1>2, <1>10 DEF CloseAdmin, ClosePart, Parts
  <2>3. HasParts(p)'
    <3>1. Bare(p) => Bare(p)'
      BY <2>2 DEF Bare
    <3>2. migration'[p].at \in {"off", "done"}
      BY <1>1, <1>4
    <3> QED BY <1>4, <2>1, <2>2, <3>1, <3>2, ClosingHasParts DEF ClosingStages
  <2> QED BY <1>9, <1>10, <2>1, <2>3 DEF CloseAdmin
<1>11. CASE CloseOps(p)
  <2>1. Moves(p, "close bot") /\ Unlisten(p, "ops") /\ proc[p].at = "close ops"
    BY <1>11, GotoMoves DEF CloseOps, ClosePart, At, Stages, ClosingStages
  <2>2. /\ app'[p].store = app[p].store /\ app'[p].bot = app[p].bot
        /\ app'[p].ops # "serving" /\ app'[p].admin = app[p].admin
        /\ app[p].ops = "none" => app'[p].ops = "none"
    BY <1>2, <1>11 DEF CloseOps, ClosePart, Parts
  <2>3. HasParts(p)'
    <3>1. Bare(p) => Bare(p)'
      BY <2>2 DEF Bare
    <3>2. migration'[p].at \in {"off", "done"}
      BY <1>1, <1>4
    <3> QED BY <1>4, <2>1, <2>2, <3>1, <3>2, ClosingHasParts DEF ClosingStages
  <2>4. port'["admin"] = port["admin"]
    BY <2>1 DEF Unlisten, Typed
  <2> QED BY <1>9, <2>1, <2>3, <2>4
<1>12. CASE CloseBot(p)
  <2>1. Moves(p, "close store") /\ UNCHANGED port /\ proc[p].at = "close bot"
    BY <1>12, GotoMoves DEF CloseBot, ClosePart, At, Stages, ClosingStages
  <2>2. /\ app'[p].store = app[p].store /\ app'[p].ops = app[p].ops
        /\ app'[p].admin = app[p].admin
        /\ app[p].bot = "none" => app'[p].bot = "none"
        /\ app'[p].bot = "closed" \/ app'[p].bot = app[p].bot
    BY <1>2, <1>12 DEF CloseBot, ClosePart, Parts
  <2>3. HasParts(p)'
    <3>1. Bare(p) => Bare(p)'
      BY <2>2 DEF Bare
    <3>2. migration'[p].at \in {"off", "done"}
      BY <1>1, <1>4
    <3> QED BY <1>4, <2>1, <2>2, <3>1, <3>2, ClosingHasParts DEF ClosingStages
  <2> QED BY <1>9, <2>1, <2>3
<1>13. CASE CloseStore(p)
  <2>1. Moves(p, "exited") /\ UNCHANGED port /\ proc[p].at = "close store"
    BY <1>13, GotoMoves DEF CloseStore, ClosePart, At, Stages
  <2>2. app'[p].ops = app[p].ops
    BY <1>2, <1>13 DEF CloseStore, ClosePart, Parts
  <2>3. HasParts(p)'
    BY <1>1, <1>4, <2>1, <2>2 DEF HasParts, Moves, Commands, OpenStages,
                                  Initializers, RunningStages, ClosingStages
  <2> QED BY <1>9, <2>1, <2>3
<1> QED BY <1>7, <1>8, <1>10, <1>11, <1>12, <1>13 DEF ShutdownStep

\* A signal sends a server to its shutdown with all its parts.
LEMMA SignalKeepsParts ==
    ASSUME Typed, StagesHaveParts, RequestsAreServed, NEW p \in Processes, Signal(p)
    PROVE  StagesHaveParts' /\ RequestsAreServed'
<1>1. \A q \in Processes : proc'[q].at = proc[q].at
  BY DEF Signal, Typed, Processing
<1>2. UNCHANGED <<migration, app, port, request>>
  BY DEF Signal
<1>3. \A q \in Processes :
          /\ HasParts(q) => HasParts(q)'
          /\ Listens(q) => Listens(q)'
          /\ Handles(q) => Handles(q)'
  BY <1>1, <1>2 DEF HasParts, Listens, Handles, At, Bare
<1>4. StagesHaveParts'
  BY <1>3 DEF StagesHaveParts
<1>5. RequestsAreServed'
  BY <1>2, <1>3 DEF RequestsAreServed
<1> QED BY <1>4, <1>5

\* A crash ends the process's requests with it.
LEMMA CrashKeepsParts ==
    ASSUME Typed, StagesHaveParts, RequestsAreServed, NEW p \in Processes, Crash(p)
    PROVE  StagesHaveParts' /\ RequestsAreServed'
<1>1. Moves(p, "exited")
  BY ExitMoves DEF Crash
<1>2. app' = [app EXCEPT ![p] = NoApp] /\ migration' = [migration EXCEPT ![p] = NoMigration]
  BY DEF Crash
<1>3. /\ app'[p] = NoApp /\ migration'[p] = NoMigration
      /\ \A q \in Processes \ {p} : migration'[q] = migration[q] /\ app'[q] = app[q]
  BY <1>2 DEF Typed
<1>4. HasParts(p)'
  BY <1>1, <1>3 DEF HasParts, Moves, NoApp, NoMigration, Commands, OpenStages,
                    Initializers, RunningStages, ClosingStages
<1>5. port'["admin"] # p /\ \A q \in Processes \ {p} : port'["admin"] = q => port["admin"] = q
  BY NoneIsNoProcess DEF Crash, Typed
<1>6. \A r \in Requests :
          \/ request'[r] = request[r] /\ request[r].to # p
          \/ request'[r].at = "none"
  BY DEF Crash
<1> QED BY <1>1, <1>3, <1>4, <1>5, <1>6, OneProcessMoves DEF Moves

\* A request is in the hands of a server that is still up.
LEMMA RequestKeepsParts ==
    ASSUME Typed, StagesHaveParts, RequestsAreServed, NEW r \in Requests,
           Arrive(r) \/ RequestStep(r)
    PROVE  StagesHaveParts' /\ RequestsAreServed'
<1>1. UNCHANGED <<proc, migration, app, port>>
  BY DEF Arrive, RequestStep, ReadBot, Answer
<1>2. \A q \in Processes :
          /\ HasParts(q) => HasParts(q)'
          /\ Listens(q) => Listens(q)'
          /\ Handles(q) => Handles(q)'
  BY <1>1 DEF HasParts, Listens, Handles, At, Bare
<1>3. StagesHaveParts'
  BY <1>2 DEF StagesHaveParts
<1>4. \A s \in Requests \ {r} : request'[s] = request[s]
  BY DEF Arrive, RequestStep, ReadBot, Answer, Typed
<1>5. request'[r].at # "none" => request'[r].to \in Processes /\ Handles(request'[r].to)
  <2>1. CASE Arrive(r)
    <3>1. port["admin"] \in Processes /\ request'[r].to = port["admin"]
      BY <2>1 DEF Arrive, Typed
    <3>2. Listens(port["admin"])
      BY <3>1 DEF RequestsAreServed
    <3> QED BY <3>1, <3>2 DEF Listens, Handles
  <2>2. CASE ReadBot(r)
    <3>1. request'[r].to = request[r].to /\ request[r].at # "none"
      BY <2>2 DEF ReadBot, Typed, Serving
    <3> QED BY <3>1 DEF RequestsAreServed
  <2>3. CASE Answer(r)
    BY <2>3 DEF Answer, Typed
  <2> QED BY <2>1, <2>2, <2>3 DEF RequestStep
<1>6. RequestsAreServed'
  BY <1>1, <1>2, <1>4, <1>5 DEF RequestsAreServed
<1> QED BY <1>3, <1>6

\* Every step keeps what the stages and the requests need.
LEMMA NextKeepsParts ==
    ASSUME Typed, StagesHaveParts, RequestsAreServed, [Next]_vars
    PROVE  StagesHaveParts' /\ RequestsAreServed'
<1>1. CASE UNCHANGED vars
  BY <1>1 DEF vars, StagesHaveParts, HasParts, RequestsAreServed, Listens, Handles, At, Bare
<1>2. ASSUME NEW p \in Processes, Launch(p) \/ ProcessStep(p) \/ Signal(p) \/ Crash(p)
      PROVE  StagesHaveParts' /\ RequestsAreServed'
  BY <1>2, LaunchKeepsParts, CommandKeepsParts, MigrationKeepsParts, StartupKeepsParts,
     ShutdownKeepsParts, SignalKeepsParts, CrashKeepsParts DEF ProcessStep
<1>3. ASSUME NEW r \in Requests, Arrive(r) \/ RequestStep(r)
      PROVE  StagesHaveParts' /\ RequestsAreServed'
  BY <1>3, RequestKeepsParts
<1> QED BY <1>1, <1>2, <1>3 DEF Next

-----------------------------------------------------------------------------
(* The theorems. *)

\* LifecycleInv is inductive.
LEMMA InvInductive ==
    /\ Init => LifecycleInv
    /\ LifecycleInv /\ [Next]_vars => LifecycleInv'
<1>1. ASSUME Init PROVE LifecycleInv
  <2>1. Typed
    BY <1>1, InitTyped
  <2>2. SchemaInv
    BY <1>1 DEF Init, SchemaInv, SchemaIsLog, MigrationsFollow, OneRecorder,
                OpenStoresAreMigrated, NoMigration, NoApp
  <2>3. StagesHaveParts
    BY <1>1 DEF Init, StagesHaveParts, HasParts, Bare, Off, NoApp, NoMigration, OpenStages,
                Initializers, RunningStages, ClosingStages
  <2>4. RequestsAreServed
    BY <1>1, NoneIsNoProcess DEF Init, RequestsAreServed
  <2> QED BY <2>1, <2>2, <2>3, <2>4 DEF LifecycleInv
<1>2. ASSUME LifecycleInv, [Next]_vars PROVE LifecycleInv'
  BY <1>2, NextTyped, NextKeepsSchema, NextKeepsParts DEF LifecycleInv
<1> QED BY <1>1, <1>2

\* Every reachable state satisfies LifecycleInv.
LEMMA LifecycleInvHolds == Spec => []LifecycleInv
BY InvInductive, PTL DEF Spec

\* Every variable keeps its type, and the state table has a row for each row of
\* the history.
THEOREM TypeCorrect == Spec => []LifecycleTypeOK
<1>1. LifecycleInv => LifecycleTypeOK
  <2> SUFFICES ASSUME LifecycleInv PROVE LifecycleTypeOK
    OBVIOUS
  <2> USE DEF LifecycleInv
  <2>1. DOMAIN applied = DOMAIN history
    BY SchemaIsTyped DEF SchemaInv, SchemaIsLog
  <2>2. \A f \in Modes : envFiles[f] = None \/ DOMAIN envFiles[f] = Settings
    BY DEF Typed, Environments
  <2>3. \A p \in Processes :
            /\ proc[p].command \in Commands \cup {None}
            /\ proc[p].cancelled \in BOOLEAN
    BY DEF Typed, Processing
  <2>4. \A p \in Processes :
            /\ migration[p].at \in MigrationStages
            /\ app[p].bot \in BotStates
            /\ app[p].store \in {"none", "open", "closed"}
            /\ app[p].ops \in ServerStates /\ app[p].admin \in ServerStates
    BY DEF Typed, Migrating, Parts
  <2>5. /\ cast \in Casts /\ history \in Seq(Nat) /\ executed \in Seq(Checksums)
        /\ \A a \in DOMAIN port : port[a] \in Processes \cup {None}
        /\ launches \in 0..cast.launches
    BY DEF Typed
  <2> QED BY <2>1, <2>2, <2>3, <2>4, <2>5
          DEF LifecycleTypeOK, MigrationStages, BotStates, ServerStates
<1> QED BY <1>1, LifecycleInvHolds, PTL

\* A process that opened its store runs on a schema that has every migration of
\* its build with its build's contents, whatever other processes of other builds
\* did to the database before, meanwhile and after.
THEOREM StoresAreMigrated == Spec => []StoreIsMigrated
<1>1. LifecycleInv => StoreIsMigrated
  BY SchemaIsTyped DEF LifecycleInv, SchemaInv, SchemaIsLog, OpenStoresAreMigrated,
                       StoreIsMigrated, Reached, Defined
<1> QED BY <1>1, LifecycleInvHolds, PTL

\* App.Close ends the servers before the bot and the store that they use, and a
\* server that never started leaves nothing open behind it.
THEOREM ServersBeforeParts == Spec => []ServersSeeLiveParts
<1>1. LifecycleInv => ServersSeeLiveParts
  <2> SUFFICES ASSUME LifecycleInv PROVE ServersSeeLiveParts
    OBVIOUS
  <2> USE DEF LifecycleInv, HasParts, Bare
  <2>1. ASSUME NEW r \in Requests, request[r].at = "working"
        PROVE  app[request[r].to].store = "open" /\ app[request[r].to].bot # "closed"
    <3>1. request[r].to \in Processes /\ Handles(request[r].to) /\ HasParts(request[r].to)
      BY <2>1 DEF RequestsAreServed, StagesHaveParts
    <3> QED BY <3>1 DEF Handles, OpenStages, RunningStages, ClosingStages
  <2>2. ASSUME NEW p \in Processes, app[p].ops = "serving"
        PROVE  app[p].store = "open"
    <3>1. HasParts(p) /\ proc[p].at \in Stages
      BY DEF StagesHaveParts, Typed, Processing
    <3> QED BY <2>2, <3>1 DEF Stages, OpenStages, RunningStages, ClosingStages
  <2> QED BY <2>1, <2>2 DEF ServersSeeLiveParts
<1> QED BY <1>1, LifecycleInvHolds, PTL

-----------------------------------------------------------------------------
(* The schema is a log. *)

Log == [i \in DOMAIN history |-> [version |-> history[i], migration |-> executed[i]]]

\* A commit is a step of the log, and every other step leaves it.
LEMMA StepsMigrate ==
    ASSUME LifecycleInv, [Next]_vars
    PROVE  [Schema!Migrate]_Log
<1> USE DEF LifecycleInv
<1>1. CASE UNCHANGED dbVars
  BY <1>1 DEF dbVars, Log
<1>2. ASSUME NEW p \in Processes, CommitMigration(p)
      PROVE  Schema!Migrate
  <2> DEFINE n == Len(executed)
             sum == Sum(p, n + 1)
             row == [version |-> n + 1, migration |-> sum]
             Rows == [version : Nat, migration : Checksums]
  <2>1. /\ sum \in Checksums
        /\ executed' = Append(executed, sum) /\ history' = Append(history, n + 1)
    BY <1>2, CommitAppends
  <2>2. /\ n \in Nat /\ executed \in Seq(Checksums) /\ history \in Seq(Nat)
        /\ Len(history) = n /\ DOMAIN history = 1..n /\ DOMAIN executed = 1..n
    BY LenProperties DEF Typed, SchemaInv, SchemaIsLog
  <2>3. Log \in [1..n -> Rows]
    BY <2>2 DEF Log
  <2>4. Log \in Seq(Rows) /\ Len(Log) = n
    <3> HIDE DEF Rows, n
    <3>1. Log \in UNION {[1..m -> Rows] : m \in Nat}
      BY <2>2, <2>3
    <3>2. Log \in Seq(Rows)
      BY <3>1, SeqDef
    <3>3. DOMAIN Log = 1..n /\ DOMAIN Log = 1..Len(Log) /\ Len(Log) \in Nat
      BY <2>3, <3>2, LenProperties
    <3> QED BY <2>2, <3>2, <3>3
  <2>5. /\ Append(Log, row) \in Seq(Rows) /\ Len(Append(Log, row)) = n + 1
        /\ \A i \in 1..n : Append(Log, row)[i] = Log[i]
        /\ Append(Log, row)[n + 1] = row
    BY <2>1, <2>2, <2>4, AppendProperties
  <2>6. /\ DOMAIN history' = 1..(n + 1)
        /\ \A i \in 1..n : history'[i] = history[i] /\ executed'[i] = executed[i]
        /\ history'[n + 1] = n + 1 /\ executed'[n + 1] = sum
    BY <2>1, <2>2, AppendProperties, LenProperties
  <2>7. Log' = [i \in 1..(n + 1) |-> [version |-> history'[i], migration |-> executed'[i]]]
    BY <2>6 DEF Log
  <2>8. Append(Log, row) = [i \in 1..(n + 1) |-> Append(Log, row)[i]]
    BY <2>5, LenProperties
  <2>9. \A i \in 1..(n + 1) :
            Append(Log, row)[i] = [version |-> history'[i], migration |-> executed'[i]]
    <3> HIDE DEF n, sum
    <3>1. \A i \in 1..n : Log[i] = [version |-> history[i], migration |-> executed[i]]
      BY <2>2 DEF Log
    <3> QED BY <2>2, <2>5, <2>6, <3>1
  <2>10. Log' = Append(Log, [version |-> Len(Log) + 1, migration |-> sum])
    BY <2>4, <2>7, <2>8, <2>9
  <2> QED BY <2>1, <2>10 DEF Schema!Migrate, Log
<1>3. CASE UNCHANGED vars
  BY <1>1, <1>3 DEF vars
<1>4. ASSUME NEW p \in Processes, Launch(p) \/ ProcessStep(p) \/ Signal(p) \/ Crash(p)
      PROVE  UNCHANGED dbVars \/ CommitMigration(p)
  BY <1>4 DEF Launch, ProcessStep, CommandStep, InitCommand, DoctorCommand, Configure,
     MigrationStep, LoadApplied, ExecMigration, RecordState, Migrated, MigrationError,
     StartupStep, Initialize, StartOps, StartAdmin, StartServer, InitDiscordBot,
     StartDiscordBot, ShutdownStep, StopWaiting, StopListening, CloseAdmin, CloseOps,
     CloseBot, CloseStore, ClosePart, Signal, Crash, NoDatabase
<1>5. ASSUME NEW r \in Requests, Arrive(r) \/ RequestStep(r)
      PROVE  UNCHANGED dbVars
  BY <1>5 DEF Arrive, RequestStep, ReadBot, Answer, NoDatabase
<1> QED BY <1>1, <1>2, <1>3, <1>4, <1>5 DEF Next

\* Whatever processes migrate the database at once, with whatever builds, the
\* schema implements the log: a version is run and recorded once, in order.
THEOREM SchemaImplementsLog == Spec => MigrationsAppend
<1>1. Init => Schema!Init
  BY DEF Init, Schema!Init
<1>2. LifecycleInv /\ [Next]_vars => [Schema!Migrate]_Log
  BY StepsMigrate
<1> QED BY <1>1, <1>2, LifecycleInvHolds, PTL DEF Spec, MigrationsAppend, Schema!Spec, Log
=============================================================================
