---------------------------- MODULE StateDirectory ----------------------------
(***************************************************************************)
(* The files behind the ledgers: opening, migrating and resetting a        *)
(* database (src/storage.rs, src/main.rs), and the manifest by which the   *)
(* operator's commands find the ledger a running fleet supervisor uses     *)
(* (src/fleet.rs).                                                         *)
(*                                                                         *)
(* The repository's configuration names ledger "a" or "b" and may be       *)
(* edited while a supervisor runs; "u" is the unscoped ledger of older     *)
(* versions.  A ledger is a main file and SQLite's write-ahead log beside  *)
(* it.  Processes of different builds open it under a shared file lock;    *)
(* a reset holds exclusive ones.  Any process may be killed at any step,   *)
(* and its process id may then name somebody else.                         *)
(*                                                                         *)
(* A supervisor, or a stranger that took its process id, is named after    *)
(* that id; births tells one process with the id from the next.            *)
(***************************************************************************)
EXTENDS Naturals, Sequences, Functions

CONSTANTS
    Supervisors,  \* process ids of fleet supervisors
    Commands,     \* operator commands
    Build,        \* SCHEMA_VERSION of the program each process runs
    Directories,  \* ledgers that commands name by their data directory
    MaxBirths,    \* bound of the model on the processes of all ids
    MaxKills,     \* bound of the model on processes that are killed
    MaxEdits,     \* bound of the model on edits of the configuration
    MaxWrites,    \* bound of the model on changes of the work in ledgers
    MaxResets     \* bound of the model on resets

Processes == Supervisors \cup Commands
Ledgers == {"a", "b", "u"}
Nobody == "nobody"

ASSUME StateAssumption ==
    /\ Build \in [Processes -> Nat \ {0}]
    /\ Directories \subseteq Ledgers
    /\ {MaxBirths, MaxKills, MaxEdits, MaxWrites, MaxResets} \subseteq Nat
    /\ Supervisors \cap Commands = {} /\ Nobody \notin Processes

VARIABLES
    config,     \* the ledger that the configuration names
    main,       \* the main file of each ledger
    wal,        \* its write-ahead log
    committed,  \* what the transactions since its creation have written
    writer,     \* who is in a write transaction on each ledger
    stage,      \* the step of each process
    ledger,     \* the ledger it has resolved or pinned
    version,    \* the schema version its migration has read
    births,     \* how many processes have had each process id
    fleetLock,  \* who holds the lock of the fleet's configuration
    manifest,   \* the active fleet's startup snapshot
    reset,      \* the reset under way: step, targets, position
    kills, edits, writes, resets

files == <<main, wal, committed, writer>>
processes == <<stage, ledger, version, births>>
fleet == <<fleetLock, manifest>>
bounds == <<kills, edits, writes, resets>>
vars == <<config, files, processes, fleet, reset, bounds>>

NoFile == [schema |-> <<>>, work |-> FALSE, owners |-> {}, exists |-> FALSE]
Blank == [NoFile EXCEPT !.exists = TRUE]
NoManifest == [pid |-> Nobody, birth |-> 0, ledger |-> "u"]
NoReset == [step |-> "none", targets |-> <<>>, at |-> 1]

\* Migrations are numbered from 1; the schema is the sequence of those that
\* were applied, and PRAGMA user_version the last of them.
SchemaVersion(file) == IF file.schema = <<>> THEN 0
                       ELSE file.schema[Len(file.schema)]

\* What SQLite reads: the log holds the commits the main file lacks.
Visible(d) == IF wal[d].exists THEN wal[d] ELSE main[d]

\* The steps in which a process has the ledger open under its shared lock.
Holding == {"locked", "connected", "migrating", "open", "serving"}
Holders(d) == {p \in Processes : stage[p] \in Holding /\ ledger[p] = d}

\* The defect: the locks are dropped once all of them have been taken.
LockedBriefly ==
    IF reset.step = "locking" THEN {reset.targets[i] : i \in 1 .. reset.at - 1}
    ELSE {}

\* The ledgers a reset has locked: those before its position while it is
\* still locking, then all.
Locked ==
    CASE reset.step = "locking" -> {reset.targets[i] : i \in 1 .. reset.at - 1}
      [] reset.step \in {"inspecting", "removing"} ->
            {reset.targets[i] : i \in DOMAIN reset.targets}
      [] OTHER -> {}

Content == [schema : Seq(Nat), work : BOOLEAN, owners : SUBSET Supervisors,
            exists : BOOLEAN]

TypeOK ==
    /\ config \in {"a", "b"}
    /\ {main, wal, committed} \subseteq [Ledgers -> Content]
    /\ writer \in [Ledgers -> Processes \cup {Nobody}]
    /\ stage \in [Processes -> Holding \cup
            {"none", "checking", "loading", "activating", "publishing",
             "opening", "closed", "retired", "resolved", "stranger"}]
    /\ ledger \in [Processes -> Ledgers]
    /\ version \in [Processes -> Nat]
    /\ births \in [Supervisors -> 0 .. MaxBirths]
    /\ fleetLock \in Supervisors \cup {Nobody}
    /\ manifest \in [pid : Supervisors \cup {Nobody}, birth : Nat,
                     ledger : Ledgers]
    /\ reset \in [step : {"none", "locking", "inspecting", "removing"},
                  targets : Seq(Ledgers), at : Nat]
    /\ kills \in 0 .. MaxKills /\ edits \in 0 .. MaxEdits /\ writes \in 0 .. MaxWrites
    /\ resets \in 0 .. MaxResets

\* A ledger of an earlier time: all its migrations of the oldest build, with
\* or without work left in it.
Old(work) == [Blank EXCEPT !.schema = <<1>>, !.work = work]

Init ==
    /\ config = "a"
    /\ main \in {m \in [Ledgers -> {NoFile, Old(FALSE), Old(TRUE)}] :
                    m["a"] # Old(TRUE) /\ m["b"] = NoFile /\ m["u"] # Old(FALSE)}
    /\ wal = [d \in Ledgers |-> NoFile]
    /\ committed = main
    /\ writer = [d \in Ledgers |-> Nobody]
    /\ stage = [p \in Processes |-> "none"]
    /\ ledger = [p \in Processes |-> "u"]
    /\ version = [p \in Processes |-> 0]
    /\ births = [s \in Supervisors |-> 0]
    /\ fleetLock = Nobody /\ manifest = NoManifest
    /\ reset = NoReset
    /\ kills = 0 /\ edits = 0 /\ writes = 0 /\ resets = 0

-----------------------------------------------------------------------------
(* SQLite, as the program uses it.                                         *)

\* A transaction goes to the log.
Commit(d, file) ==
    /\ wal' = [wal EXCEPT ![d] = file] /\ UNCHANGED main
    /\ committed' = [committed EXCEPT ![d] = file]

\* The last connection to close copies the log and deletes it.
Disconnect(p) ==
    LET d == ledger[p] IN
    IF Holders(d) = {p} /\ wal[d].exists
    THEN /\ main' = [main EXCEPT ![d] = wal[d]]
         /\ wal' = [wal EXCEPT ![d] = NoFile]
    ELSE UNCHANGED <<main, wal>>

-----------------------------------------------------------------------------
(* Opening a ledger: Ledger::open, by supervisors and commands alike.      *)

\* A process that ends forgets what it has resolved.
Goto(p, step) ==
    /\ stage' = [stage EXCEPT ![p] = step]
    /\ ledger' = IF step = "none" THEN [ledger EXCEPT ![p] = "u"] ELSE ledger

Pin(p, d, step) ==
    /\ stage' = [stage EXCEPT ![p] = step]
    /\ ledger' = [ledger EXCEPT ![p] = d]

\* acquire_shared_state_lock waits for a reset to end.
LockState(p) ==
    /\ stage[p] = "opening" /\ ledger[p] \notin Locked
    /\ Goto(p, "locked")
    /\ UNCHANGED <<config, files, version, births, fleet, reset, bounds>>

\* Connection::open creates the file, and SQLite deletes a log it finds
\* beside an empty one.
Connect(p) ==
    LET d == ledger[p] IN
    /\ stage[p] = "locked"
    /\ IF main[d].exists THEN UNCHANGED <<main, wal, committed>>
       ELSE /\ main' = [main EXCEPT ![d] = Blank]
            /\ wal' = [wal EXCEPT ![d] = NoFile]
            /\ committed' = [committed EXCEPT ![d] = Blank]
    /\ Goto(p, "connected")
    /\ UNCHANGED <<config, writer, version, births, fleet, reset, bounds>>

\* A supervisor's member tries again later; a command fails.
OpenFails(p) == Goto(p, IF p \in Supervisors THEN "opening" ELSE "none")

\* The defect: the version is read before the transaction begins.
BeginDeferred(p) ==
    LET d == ledger[p] IN
    /\ stage[p] = "connected"
    /\ IF SchemaVersion(Visible(d)) > Build[p]
       THEN OpenFails(p) /\ Disconnect(p) /\ UNCHANGED <<committed, writer, version>>
       ELSE /\ Goto(p, "migrating")
            /\ version' = [version EXCEPT ![p] = SchemaVersion(Visible(d))]
            /\ UNCHANGED <<main, wal, committed, writer>>
    /\ UNCHANGED <<config, births, fleet, reset, bounds>>

\* migrate: BEGIN IMMEDIATE, then the version is read.  A version newer than
\* the program's is refused.
BeginMigration(p) ==
    LET d == ledger[p] IN
    /\ stage[p] = "connected" /\ writer[d] = Nobody
    /\ IF SchemaVersion(Visible(d)) > Build[p]
       THEN OpenFails(p) /\ Disconnect(p) /\ UNCHANGED <<committed, writer, version>>
       ELSE /\ Goto(p, "migrating")
            /\ version' = [version EXCEPT ![p] = SchemaVersion(Visible(d))]
            /\ writer' = [writer EXCEPT ![d] = p]
            /\ UNCHANGED <<main, wal, committed>>
    /\ UNCHANGED <<config, births, fleet, reset, bounds>>

\* The database stays locked by another longer than the busy timeout.
BusyTimeout(p) ==
    /\ stage[p] = "connected" /\ writer[ledger[p]] # Nobody
    /\ OpenFails(p) /\ Disconnect(p)
    /\ UNCHANGED <<config, committed, writer, version, births, fleet,
                   reset, bounds>>

\* The migrations of a program's build above a version.
Migrations(from, to) == [i \in 1 .. to - from |-> from + i]

Migrate(p) ==
    LET d == ledger[p]
        pending == Migrations(version[p], Build[p]) IN
    /\ stage[p] = "migrating"
    /\ IF pending = <<>> THEN UNCHANGED <<main, wal, committed>>
       ELSE Commit(d, [Visible(d) EXCEPT !.schema = @ \o pending])
    /\ writer' = [writer EXCEPT ![d] = Nobody]
    /\ Goto(p, "open")
    /\ version' = [version EXCEPT ![p] = 0]
    /\ UNCHANGED <<config, births, fleet, reset, bounds>>

-----------------------------------------------------------------------------
(* The supervisor of the fleet.                                            *)

NewBirth(s) ==
    /\ SumFunction(births) < MaxBirths
    /\ births' = [births EXCEPT ![s] = @ + 1]

StartSupervisor(s) ==
    /\ stage[s] = "none" /\ NewBirth(s)
    /\ Goto(s, "checking")
    /\ UNCHANGED <<config, files, version, fleet, reset, bounds>>

\* ensure_no_unscoped_ledger_overlap: the old ledger must be gone.
CheckOverlap(s) ==
    /\ stage[s] = "checking"
    /\ Goto(s, IF main["u"].exists THEN "none" ELSE "loading")
    /\ UNCHANGED <<config, files, version, births, fleet, reset, bounds>>

\* load_runtime pins the ledger that the configuration names now.
LoadRuntime(s) ==
    /\ stage[s] = "loading"
    /\ Pin(s, config, "activating")
    /\ UNCHANGED <<config, files, version, births, fleet, reset, bounds>>

\* activate_fleet: one supervisor per configuration; the manifest of an
\* earlier one is removed, then the new one is renamed into place.
TakeFleetLock(s) ==
    /\ stage[s] = "activating"
    /\ IF fleetLock = Nobody
       THEN fleetLock' = s /\ manifest' = NoManifest /\ Goto(s, "publishing")
       ELSE Goto(s, "none") /\ UNCHANGED fleet
    /\ UNCHANGED <<config, files, version, births, reset, bounds>>

Publish(s) ==
    /\ stage[s] = "publishing"
    /\ manifest' = [pid |-> s, birth |-> births[s], ledger |-> ledger[s]]
    /\ Goto(s, "opening")
    /\ UNCHANGED <<config, files, version, births, fleetLock, reset, bounds>>

\* run_loop registers the daemon before it serves.
Register(s) ==
    LET d == ledger[s] IN
    /\ s \in Supervisors /\ stage[s] = "open" /\ writer[d] = Nobody
    /\ Commit(d, [Visible(d) EXCEPT !.owners = @ \cup {s}])
    /\ Goto(s, "serving")
    /\ UNCHANGED <<config, writer, version, births, fleet, reset, bounds>>

\* Tasks, runs, sandboxes and workspaces come and are settled.
Serve(s) ==
    LET d == ledger[s] IN
    /\ stage[s] = "serving" /\ writer[d] = Nobody /\ writes < MaxWrites
    /\ Commit(d, [Visible(d) EXCEPT !.work = ~@])
    /\ writes' = writes + 1
    /\ UNCHANGED <<config, writer, processes, fleet, reset, kills, edits, resets>>

\* The daemon removes its registration and closes the ledger.
StopSupervisor(s) ==
    LET d == ledger[s]
        left == [Visible(d) EXCEPT !.owners = @ \ {s}] IN
    /\ stage[s] = "serving" /\ writer[d] = Nobody
    /\ committed' = [committed EXCEPT ![d] = left]
    /\ IF Holders(d) = {s}
       THEN main' = [main EXCEPT ![d] = left] /\ wal' = [wal EXCEPT ![d] = NoFile]
       ELSE wal' = [wal EXCEPT ![d] = left] /\ UNCHANGED main
    /\ Goto(s, "closed")
    /\ UNCHANGED <<config, writer, version, births, fleet, reset, bounds>>

\* A member that has no open ledger when the supervisor is stopped.
StopMember(s) ==
    /\ s \in Supervisors /\ stage[s] = "opening"
    /\ Goto(s, "closed")
    /\ UNCHANGED <<config, files, version, births, fleet, reset, bounds>>

\* ActiveFleetGuard::drop removes the manifest if it is its own; the lock is
\* released after that.
Retire(s) ==
    /\ stage[s] = "closed"
    /\ manifest' = IF manifest.pid = s /\ manifest.birth = births[s]
                   THEN NoManifest ELSE manifest
    /\ Goto(s, "retired")
    /\ UNCHANGED <<config, files, version, births, fleetLock, reset, bounds>>

ReleaseFleetLock(s) ==
    /\ stage[s] = "retired"
    /\ fleetLock' = Nobody
    /\ Goto(s, "none")
    /\ UNCHANGED <<config, files, version, births, manifest, reset, bounds>>

-----------------------------------------------------------------------------
(* The commands of the operator.                                           *)

\* The defect: a manifest counts while its process id is in use.
ActiveByPid ==
    /\ manifest # NoManifest
    /\ stage[manifest.pid] # "none"

\* active_fleet_manifest: a manifest counts while the process that wrote it
\* lives, which its birth tells from a later process with the same id.
Active ==
    /\ manifest # NoManifest
    /\ stage[manifest.pid] # "none"
    /\ births[manifest.pid] = manifest.birth

\* existing_fleet_ledger: the ledger of the active fleet, otherwise the one
\* the configuration names.
Resolved == IF Active THEN manifest.ledger ELSE config

Resolve(c) ==
    /\ c \in Commands /\ stage[c] = "none"
    /\ Pin(c, Resolved, "resolved")
    /\ UNCHANGED <<config, files, version, births, fleet, reset, bounds>>

\* A ledger that does not exist is no error; nothing is created.
FindLedger(c) ==
    /\ stage[c] = "resolved"
    /\ Goto(c, IF main[ledger[c]].exists THEN "opening" ELSE "none")
    /\ UNCHANGED <<config, files, version, births, fleet, reset, bounds>>

\* open_data_ledger takes any data directory and creates what is missing.
OpenDirectory(c, d) ==
    /\ c \in Commands /\ stage[c] = "none"
    /\ Pin(c, d, "opening")
    /\ UNCHANGED <<config, files, version, births, fleet, reset, bounds>>

\* A command such as cancel or cleanup settles work.
SettleWork(c) ==
    LET d == ledger[c] IN
    /\ c \in Commands /\ stage[c] = "open" /\ writer[d] = Nobody
    /\ Visible(d).work /\ writes < MaxWrites
    /\ Commit(d, [Visible(d) EXCEPT !.work = FALSE])
    /\ writes' = writes + 1
    /\ UNCHANGED <<config, writer, processes, fleet, reset, kills, edits, resets>>

EndCommand(c) ==
    /\ c \in Commands /\ stage[c] = "open"
    /\ Disconnect(c) /\ Goto(c, "none")
    /\ UNCHANGED <<config, committed, writer, version, births, fleet,
                   reset, bounds>>

-----------------------------------------------------------------------------
(* factory reset --confirm.                                                *)

StartReset ==
    /\ reset = NoReset /\ resets < MaxResets
    /\ reset' = [step |-> "locking", targets |-> <<config, "u">>, at |-> 1]
    /\ resets' = resets + 1
    /\ UNCHANGED <<config, files, processes, fleet, kills, edits, writes>>

Target == reset.targets[reset.at]

\* The next target, or the first one of the next step.
Advance(next) ==
    reset' = IF reset.at < Len(reset.targets) THEN [reset EXCEPT !.at = @ + 1]
             ELSE IF next = "none" THEN NoReset
             ELSE [reset EXCEPT !.step = next, !.at = 1]

\* acquire_state_reset_lock: a ledger that is in use ends the reset.
LockTarget ==
    /\ reset.step = "locking"
    /\ IF Holders(Target) = {} THEN Advance("inspecting") ELSE reset' = NoReset
    /\ UNCHANGED <<config, files, processes, fleet, bounds>>

\* A registration counts while its lease lasts or its process id is in use.
OwnerCounts(d) ==
    \E s \in Visible(d).owners : stage[s] # "none"

LeaseMayLast(d) == Visible(d).owners # {}

\* inspect_reset_state: active work or live daemons end the reset.  A ledger
\* without its main file has nothing to inspect.
InspectTarget ==
    /\ reset.step = "inspecting"
    /\ \/ /\ \/ ~main[Target].exists
             \/ ~Visible(Target).work /\ ~OwnerCounts(Target)
          /\ Advance("removing")
       \/ /\ main[Target].exists
          /\ Visible(Target).work \/ LeaseMayLast(Target)
          /\ reset' = NoReset
    /\ UNCHANGED <<config, files, processes, fleet, bounds>>

\* The defect: the log is removed before the main file.
RemoveLogFirst ==
    /\ reset.step = "removing"
    /\ IF wal[Target].exists
       THEN /\ wal' = [wal EXCEPT ![Target] = NoFile]
            /\ UNCHANGED <<main, committed, reset>>
       ELSE /\ main' = [main EXCEPT ![Target] = NoFile]
            /\ committed' = [committed EXCEPT ![Target] = NoFile]
            /\ Advance("none") /\ UNCHANGED wal
    /\ UNCHANGED <<config, writer, processes, fleet, bounds>>

\* remove_database_files: the main file first, then its log.
RemoveNext ==
    /\ reset.step = "removing"
    /\ IF main[Target].exists
       THEN /\ main' = [main EXCEPT ![Target] = NoFile]
            /\ committed' = [committed EXCEPT ![Target] = NoFile]
            /\ UNCHANGED <<wal, reset>>
       ELSE /\ wal' = [wal EXCEPT ![Target] = NoFile]
            /\ Advance("none") /\ UNCHANGED <<main, committed>>
    /\ UNCHANGED <<config, writer, processes, fleet, bounds>>

-----------------------------------------------------------------------------
(* The surroundings.                                                       *)

EditConfig ==
    /\ edits < MaxEdits
    /\ config' = IF config = "a" THEN "b" ELSE "a"
    /\ edits' = edits + 1
    /\ UNCHANGED <<files, processes, fleet, reset, kills, writes, resets>>

\* The system closes a killed process's files and releases its locks; its
\* open transaction is rolled back when the log is read again.
Kill(p) ==
    /\ stage[p] \notin {"none", "stranger"} /\ kills < MaxKills
    /\ kills' = kills + 1
    /\ Goto(p, "none")
    /\ writer' = [d \in Ledgers |-> IF writer[d] = p THEN Nobody ELSE writer[d]]
    /\ version' = [version EXCEPT ![p] = 0]
    /\ fleetLock' = IF fleetLock = p THEN Nobody ELSE fleetLock
    /\ UNCHANGED <<config, main, wal, committed, births, manifest, reset,
                   edits, writes, resets>>

KillReset ==
    /\ reset # NoReset /\ kills < MaxKills
    /\ kills' = kills + 1
    /\ reset' = NoReset
    /\ UNCHANGED <<config, files, processes, fleet, edits, writes, resets>>

\* Another program gets the process id of a supervisor that has ended.
StrangerStarts(s) ==
    /\ stage[s] = "none" /\ 0 < births[s] /\ NewBirth(s)
    /\ Goto(s, "stranger")
    /\ UNCHANGED <<config, files, version, fleet, reset, bounds>>

StrangerEnds(s) ==
    /\ stage[s] = "stranger" /\ Goto(s, "none")
    /\ UNCHANGED <<config, files, version, births, fleet, reset, bounds>>

-----------------------------------------------------------------------------

Supervisor(s) ==
    \/ StartSupervisor(s) \/ CheckOverlap(s) \/ LoadRuntime(s)
    \/ TakeFleetLock(s) \/ Publish(s) \/ Register(s) \/ Serve(s)
    \/ StopSupervisor(s) \/ StopMember(s) \/ Retire(s) \/ ReleaseFleetLock(s)
    \/ StrangerStarts(s) \/ StrangerEnds(s)

Command(c) ==
    \/ Resolve(c) \/ FindLedger(c) \/ SettleWork(c) \/ EndCommand(c)
    \/ \E d \in Directories : OpenDirectory(c, d)

Open(p) ==
    \/ LockState(p) \/ Connect(p) \/ BeginMigration(p) \/ BusyTimeout(p)
    \/ Migrate(p) \/ Kill(p)

Reset ==
    \/ StartReset \/ LockTarget \/ InspectTarget \/ RemoveNext \/ KillReset

Next ==
    \/ \E s \in Supervisors : Supervisor(s)
    \/ \E c \in Commands : Command(c)
    \/ \E p \in Processes : Open(p)
    \/ Reset
    \/ EditConfig

Spec == Init /\ [][Next]_vars

-----------------------------------------------------------------------------
(* A reset never takes away a ledger that somebody is using.  When the     *)
(* main file of a ledger disappears, no process has that ledger open and   *)
(* none of the targets holds active work, so a reset that refuses one      *)
(* target has removed nothing of another.                                  *)
ResetSparesWork ==
    [][\A d \in Ledgers : main[d].exists /\ ~main'[d].exists =>
          /\ Holders(d) = {}
          /\ \A i \in DOMAIN reset.targets :
                main[reset.targets[i]].exists =>
                    ~Visible(reset.targets[i]).work]_vars

(* A ledger that exists shows every transaction since its creation, no     *)
(* matter who was killed in between: a reset that dies half-way leaves a   *)
(* ledger whole or takes it away, never one that has gone back in time.    *)
CommitsSurvive ==
    \A d \in Ledgers : main[d].exists => Visible(d) = committed[d]

(* Processes of different builds that open the same ledger at the same     *)
(* time apply each migration exactly once and in order, and who works on   *)
(* a ledger finds at least the schema of its own build.                    *)
SchemaIsWhole ==
    /\ \A d \in Ledgers : LET schema == Visible(d).schema IN
          schema = Migrations(0, Len(schema))
    /\ \A p \in Processes : stage[p] \in {"open", "serving"} =>
          Build[p] <= SchemaVersion(Visible(ledger[p]))

(* The commands find the ledger of the supervisor that runs, though the    *)
(* configuration has been edited since it started; and once none runs,     *)
(* the ledger the configuration names, though a killed supervisor left     *)
(* its manifest and its process id is in use again.                        *)
CommandsFindTheLedger ==
    /\ \A s \in Supervisors :
          stage[s] \in Holding \cup {"opening"} => Resolved = ledger[s]
    /\ (\A s \in Supervisors : stage[s] \in {"none", "stranger"})
          => Resolved = config
=============================================================================
