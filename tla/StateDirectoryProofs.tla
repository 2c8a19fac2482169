-------------------------- MODULE StateDirectoryProofs --------------------------
(***************************************************************************)
(* Proofs about StateDirectory for any number of supervisors and commands, *)
(* whatever builds they run, and any number of resets, edits, writes and   *)
(* processes that are killed.                                              *)
(***************************************************************************)
EXTENDS StateDirectory, SequenceTheorems, TLAPS

--------------------------------------------------------------------------------
\* Schemas.

\* The migrations up to n, all of them and in order.
Whole(schema) == \E n \in Nat : schema = Migrations(0, n)

LEMMA MigrationSeq ==
    ASSUME NEW m \in Nat, NEW n \in Nat, m <= n
    PROVE  /\ Migrations(m, n) \in Seq(Nat) /\ Len(Migrations(m, n)) = n - m
           /\ \A i \in 1 .. n - m : Migrations(m, n)[i] = m + i
           /\ Migrations(m, n) = <<>> <=> n = m
<1>1. Migrations(m, n) \in [1 .. n - m -> Nat] /\ n - m \in Nat
  BY DEF Migrations
<1>2. Migrations(m, n) \in Seq(Nat)
  BY <1>1, SeqDef
<1>3. Len(Migrations(m, n)) = n - m
  BY <1>1, <1>2, LenProperties
<1> QED
  BY <1>1, <1>2, <1>3, EmptySeq DEF Migrations

LEMMA FirstMigrations ==
    ASSUME NEW n \in Nat
    PROVE  /\ Migrations(0, n) \in Seq(Nat) /\ Len(Migrations(0, n)) = n
           /\ \A i \in 1 .. n : Migrations(0, n)[i] = i
           /\ Migrations(0, n) = <<>> <=> n = 0
<1>1. 0 \in Nat /\ 0 <= n /\ n - 0 = n
  OBVIOUS
<1>2. /\ Migrations(0, n) \in Seq(Nat) /\ Len(Migrations(0, n)) = n - 0
      /\ \A i \in 1 .. n - 0 : Migrations(0, n)[i] = 0 + i
      /\ Migrations(0, n) = <<>> <=> n = 0
  BY <1>1, MigrationSeq
<1> QED
  BY <1>1, <1>2

LEMMA MigrationsJoin ==
    ASSUME NEW m \in Nat, NEW n \in Nat, m <= n
    PROVE  Migrations(0, m) \o Migrations(m, n) = Migrations(0, n)
<1> DEFINE s == Migrations(0, m) \o Migrations(m, n)
<1>1. /\ Migrations(0, m) \in Seq(Nat) /\ Len(Migrations(0, m)) = m
      /\ \A i \in 1 .. m : Migrations(0, m)[i] = i
  BY FirstMigrations
<1>2. /\ Migrations(0, n) \in Seq(Nat) /\ Len(Migrations(0, n)) = n
      /\ \A i \in 1 .. n : Migrations(0, n)[i] = i
  BY FirstMigrations
<1>3. /\ Migrations(m, n) \in Seq(Nat) /\ Len(Migrations(m, n)) = n - m
      /\ \A i \in 1 .. n - m : Migrations(m, n)[i] = m + i
  BY MigrationSeq
<1>4. /\ s \in Seq(Nat) /\ Len(s) = n
      /\ \A i \in 1 .. n : s[i] = IF i <= m THEN Migrations(0, m)[i] ELSE Migrations(m, n)[i - m]
  BY <1>1, <1>3, ConcatProperties
<1>5. \A i \in 1 .. n : s[i] = i
  BY <1>1, <1>3, <1>4
<1> DEFINE t == Migrations(0, n)
<1>6. s \in Seq(Nat) /\ t \in Seq(Nat) /\ Len(s) = Len(t) /\ \A i \in 1 .. Len(s) : s[i] = t[i]
  BY <1>2, <1>4, <1>5
<1>7. s = t
  <2> HIDE DEF s, t
  <2> QED
    BY <1>6, SeqEqual
<1> QED
  BY <1>7

\* The version of a whole schema is how many migrations it has.
LEMMA WholeVersion ==
    ASSUME NEW file, NEW n \in Nat, file.schema = Migrations(0, n)
    PROVE  SchemaVersion(file) = n /\ Whole(file.schema)
           /\ file.schema = Migrations(0, Len(file.schema))
<1>1. /\ Len(Migrations(0, n)) = n /\ (Migrations(0, n) = <<>> <=> n = 0)
      /\ \A i \in 1 .. n : Migrations(0, n)[i] = i
  BY FirstMigrations
<1>2. Whole(file.schema)
  BY DEF Whole
<1>3. file.schema = Migrations(0, Len(file.schema))
  BY <1>1
<1>4. CASE n = 0
  BY <1>1, <1>2, <1>3, <1>4 DEF SchemaVersion
<1>5. CASE n # 0
  <2>1. file.schema # <<>> /\ Len(file.schema) = n /\ n \in 1 .. n
    BY <1>1, <1>5
  <2>2. file.schema[n] = n
    BY <1>1, <2>1
  <2> QED
    BY <1>2, <1>3, <2>1, <2>2 DEF SchemaVersion
<1> QED
  BY <1>2, <1>3, <1>4, <1>5

LEMMA EmptyIsWhole == <<>> = Migrations(0, 0) /\ Whole(<<>>)
  BY FirstMigrations DEF Whole

--------------------------------------------------------------------------------
\* The types, store by store.

FileTypes ==
    /\ main \in [Ledgers -> Content] /\ wal \in [Ledgers -> Content]
    /\ committed \in [Ledgers -> Content]
    /\ writer \in [Ledgers -> Processes \cup {Nobody}]

Steps == Holding \cup {"none", "checking", "loading", "activating", "publishing", "opening",
                       "closed", "retired", "resolved", "stranger"}

ProcessTypes ==
    /\ stage \in [Processes -> Steps] /\ ledger \in [Processes -> Ledgers]
    /\ version \in [Processes -> Nat] /\ \A p \in Processes : version[p] <= Build[p]
    /\ births \in [Supervisors -> Nat]

FleetTypes ==
    /\ fleetLock \in Supervisors \cup {Nobody}
    /\ manifest \in [pid : Supervisors \cup {Nobody}, birth : Nat, ledger : Ledgers]

\* A reset is about the ledger that the configuration named and the unscoped one.
ResetTypes ==
    /\ config \in {"a", "b"}
    /\ \/ reset = NoReset
       \/ /\ reset.step \in {"locking", "inspecting", "removing"} /\ reset.at \in {1, 2}
          /\ reset.targets \in {<<"a", "u">>, <<"b", "u">>}
          /\ reset = [step |-> reset.step, targets |-> reset.targets, at |-> reset.at]

Types == FileTypes /\ ProcessTypes /\ FleetTypes /\ ResetTypes

LEMMA NoFileType == NoFile \in Content /\ Blank \in Content /\ Blank.exists /\ ~NoFile.exists
                    /\ NoFile.schema = <<>> /\ Blank.schema = <<>> /\ ~Blank.work
  BY EmptySeq DEF NoFile, Blank, Content

LEMMA VisibleType == FileTypes => \A d \in Ledgers : Visible(d) \in Content
  BY DEF FileTypes, Visible

LEMMA ResetFacts ==
    ASSUME ResetTypes, reset # NoReset
    PROVE  /\ reset.step # "none" /\ Len(reset.targets) = 2 /\ DOMAIN reset.targets = {1, 2}
           /\ reset.targets[1] \in {"a", "b"} /\ reset.targets[2] = "u"
           /\ Target \in Ledgers /\ \A i \in {1, 2} : reset.targets[i] \in Ledgers
  BY DEF ResetTypes, Target, Ledgers

LEMMA TypesInit == Init => Types
<1> SUFFICES ASSUME Init PROVE Types
  OBVIOUS
<1>1. FileTypes
  <2>1. Old(TRUE) \in Content /\ Old(FALSE) \in Content
    BY NoFileType, <<1>> \in Seq(Nat) DEF Old, Content, Blank, NoFile
  <2>2. main \in [Ledgers -> {NoFile, Old(FALSE), Old(TRUE)}]
    BY DEF Init
  <2>3. main \in [Ledgers -> Content] /\ committed = main
    BY <2>1, <2>2, NoFileType DEF Init
  <2> QED
    BY <2>3, NoFileType DEF Init, FileTypes
<1>2. ProcessTypes
  BY StateAssumption DEF Init, ProcessTypes, Steps, Ledgers, Processes
<1>3. FleetTypes /\ ResetTypes
  BY DEF Init, FleetTypes, ResetTypes, NoManifest, Ledgers
<1> QED
  BY <1>1, <1>2, <1>3 DEF Types

\* What a process does to itself.
LEMMA Gone ==
    ASSUME ProcessTypes, NEW p \in Processes, NEW step \in Steps, Goto(p, step)
    PROVE  /\ stage' \in [Processes -> Steps] /\ ledger' \in [Processes -> Ledgers]
           /\ stage'[p] = step /\ (step # "none" => ledger'[p] = ledger[p])
           /\ \A q \in Processes : q # p => stage'[q] = stage[q] /\ ledger'[q] = ledger[q]
  BY DEF ProcessTypes, Goto, Ledgers

LEMMA Pinned ==
    ASSUME ProcessTypes, NEW p \in Processes, NEW d \in Ledgers, NEW step \in Steps,
           Pin(p, d, step)
    PROVE  /\ stage' \in [Processes -> Steps] /\ ledger' \in [Processes -> Ledgers]
           /\ stage'[p] = step /\ ledger'[p] = d
           /\ \A q \in Processes : q # p => stage'[q] = stage[q] /\ ledger'[q] = ledger[q]
  BY DEF ProcessTypes, Pin

LEMMA StepNames ==
    /\ Holding \subseteq Steps /\ \A p \in Supervisors : p \in Processes
    /\ \A p \in Commands : p \in Processes
    /\ {"none", "checking", "loading", "activating", "publishing", "opening", "locked",
        "connected", "migrating", "open", "serving", "closed", "retired", "resolved",
        "stranger"} \subseteq Steps
  BY DEF Holding, Steps, Processes

LEMMA OpenFailed ==
    ASSUME ProcessTypes, NEW p \in Processes, OpenFails(p)
    PROVE  \E step \in {"opening", "none"} :
               Goto(p, step) /\ (p \in Supervisors <=> step = "opening")
  BY DEF OpenFails

LEMMA ResolvedType == Types => Resolved \in Ledgers
  BY DEF Types, ResetTypes, FleetTypes, Resolved, Ledgers

\* A process may change its step, its ledger and the version it has read.
LEMMA ProcessStep == Types /\ [Next]_vars => ProcessTypes'
<1> SUFFICES ASSUME Types, [Next]_vars PROVE ProcessTypes'
  OBVIOUS
<1>1. /\ ProcessTypes /\ FileTypes /\ \A p \in Processes : Build[p] \in Nat
      /\ ledger \in [Processes -> Ledgers]
  BY StateAssumption DEF Types, ProcessTypes
<1>2. ASSUME NEW p \in Processes, NEW step \in Steps, Goto(p, step), UNCHANGED <<version, births>>
      PROVE  ProcessTypes'
  BY <1>1, <1>2, Gone DEF ProcessTypes
<1>3. ASSUME NEW p \in Processes, NEW d \in Ledgers, NEW step \in Steps, Pin(p, d, step),
             UNCHANGED <<version, births>>
      PROVE  ProcessTypes'
  BY <1>1, <1>3, Pinned DEF ProcessTypes
<1>4. CASE UNCHANGED processes
  BY <1>1, <1>4 DEF ProcessTypes, processes
<1>5. ASSUME NEW s \in Supervisors,
             CheckOverlap(s) \/ TakeFleetLock(s) \/ Publish(s) \/ Register(s) \/ StopSupervisor(s)
             \/ StopMember(s) \/ Retire(s) \/ ReleaseFleetLock(s) \/ StrangerEnds(s)
      PROVE  ProcessTypes'
  <2>1. (\E step \in Steps : Goto(s, step)) /\ UNCHANGED <<version, births>>
    BY <1>5, StepNames DEF CheckOverlap, TakeFleetLock, Publish, Register, StopSupervisor,
       StopMember, Retire, ReleaseFleetLock, StrangerEnds
  <2> QED
    BY <1>2, <2>1, StepNames
<1>6. ASSUME NEW s \in Supervisors, StartSupervisor(s) \/ StrangerStarts(s) PROVE ProcessTypes'
  <2>1. (Goto(s, "checking") \/ Goto(s, "stranger")) /\ NewBirth(s) /\ UNCHANGED version
    BY <1>6 DEF StartSupervisor, StrangerStarts
  <2>2. births' \in [Supervisors -> Nat]
    BY <1>1, <2>1 DEF NewBirth, ProcessTypes
  <2> QED
    BY <1>1, <2>1, <2>2, Gone, StepNames DEF ProcessTypes
<1>7. ASSUME NEW s \in Supervisors, LoadRuntime(s) PROVE ProcessTypes'
  <2>1. config \in Ledgers
    BY DEF Types, ResetTypes, Ledgers
  <2> QED
    BY <1>3, <1>7, <2>1, StepNames DEF LoadRuntime
<1>8. ASSUME NEW p \in Processes, LockState(p) \/ Connect(p) PROVE ProcessTypes'
  BY <1>2, <1>8, StepNames DEF LockState, Connect
<1>9. ASSUME NEW p \in Processes, BusyTimeout(p) PROVE ProcessTypes'
  BY <1>1, <1>2, <1>9, OpenFailed, StepNames DEF BusyTimeout
<1>10. ASSUME NEW p \in Processes, BeginMigration(p) PROVE ProcessTypes'
  <2> DEFINE v == SchemaVersion(Visible(ledger[p]))
  <2>1. CASE OpenFails(p) /\ UNCHANGED version
    BY <1>1, <1>2, <1>10, <2>1, OpenFailed, StepNames DEF BeginMigration
  <2>2. CASE Goto(p, "migrating") /\ version' = [version EXCEPT ![p] = v] /\ ~(v > Build[p])
    <3>1. Visible(ledger[p]) \in Content
      BY <1>1, VisibleType
    <3>2. v \in Nat
      BY <3>1, LenProperties, EmptySeq, ElementOfSeq DEF SchemaVersion, Content
    <3> QED
      BY <1>1, <1>10, <2>2, <3>2, Gone, StepNames DEF ProcessTypes, BeginMigration
  <2> QED
    BY <1>10, <2>1, <2>2 DEF BeginMigration
<1>11. ASSUME NEW p \in Processes, Migrate(p) \/ Kill(p) PROVE ProcessTypes'
  <2>1. /\ Goto(p, "open") \/ Goto(p, "none")
        /\ version' = [version EXCEPT ![p] = 0] /\ UNCHANGED births
    BY <1>11 DEF Migrate, Kill
  <2> QED
    BY <1>1, <2>1, Gone, StepNames DEF ProcessTypes
<1>12. ASSUME NEW c \in Commands, Resolve(c) \/ \E d \in Directories : OpenDirectory(c, d)
       PROVE  ProcessTypes'
  <2>1. \E d \in Ledgers, step \in Steps : Pin(c, d, step)
    BY <1>12, ResolvedType, StateAssumption, StepNames DEF Resolve, OpenDirectory
  <2> QED
    BY <1>3, <1>12, <2>1, StepNames DEF Resolve, OpenDirectory
<1>13. ASSUME NEW c \in Commands, FindLedger(c) \/ EndCommand(c) PROVE ProcessTypes'
  BY <1>2, <1>13, StepNames DEF FindLedger, EndCommand
<1>14. CASE (\E s \in Supervisors : Serve(s)) \/ (\E c \in Commands : SettleWork(c)) \/ Reset
            \/ EditConfig \/ UNCHANGED vars
  BY <1>4, <1>14 DEF Serve, SettleWork, Reset, StartReset, LockTarget, InspectTarget, RemoveNext,
     KillReset, EditConfig, vars
<1> QED
  BY <1>5, <1>6, <1>7, <1>8, <1>9, <1>10, <1>11, <1>12, <1>13, <1>14
  DEF Next, Supervisor, Command, Open

--------------------------------------------------------------------------------
\* What a step does to the files of a ledger.

Stores ==
    /\ main \in [Ledgers -> Content] /\ wal \in [Ledgers -> Content]
    /\ committed \in [Ledgers -> Content]

\* Every version of every file has been migrated to by whole migrations.
WholeFiles == \A d \in Ledgers : Whole(main[d].schema) /\ Whole(wal[d].schema)

\* A reader cannot tell; the log may have been copied.
Kept(d) ==
    /\ main'[d].exists = main[d].exists /\ Visible(d)' = Visible(d)
    /\ committed'[d] = committed[d]

\* A ledger that is not there: made anew, or its log is taken away.
Absent(d) ==
    /\ ~main[d].exists
    /\ main'[d].exists => Visible(d)' = Blank /\ committed'[d] = Blank

\* A reset takes the main file.
Removed(d) ==
    /\ reset.step = "removing" /\ d = Target /\ main[d].exists /\ ~main'[d].exists

\* A transaction of a process that has the ledger open; only its migration
\* changes the schema.
Rewritten(d, p) ==
    /\ stage[p] \in {"migrating", "open", "serving"} /\ ledger[p] = d
    /\ main'[d].exists /\ Visible(d)' = committed'[d]
    /\ \/ Visible(d)'.schema = Visible(d).schema
       \/ Migrate(p)
          /\ Visible(d)'.schema = Visible(d).schema \o Migrations(version[p], Build[p])

Changed(d) == Kept(d) \/ Absent(d) \/ Removed(d) \/ \E p \in Processes : Rewritten(d, p)

\* The ledger's own invariants that the files depend on: who has connected to
\* a ledger has its main file, and who migrates it is its writer and has read
\* the version that is still there.
Connected ==
    \A p \in Processes :
        stage[p] \in {"connected", "migrating", "open", "serving"} => main[ledger[p]].exists

Migrating ==
    \A p \in Processes : stage[p] = "migrating" =>
        /\ writer[ledger[p]] = p /\ version[p] = SchemaVersion(Visible(ledger[p]))

LEMMA Untouched ==
    ASSUME Stores, WholeFiles, UNCHANGED <<main, wal, committed>>
    PROVE  Stores' /\ WholeFiles' /\ \A d \in Ledgers : Kept(d)
  BY DEF Stores, WholeFiles, Kept, Visible

\* A ledger that exists is visible; what is written in it is too.
LEMMA VisibleExists ==
    ASSUME Stores, NEW d \in Ledgers, main[d].exists
    PROVE  Visible(d) \in Content /\ Visible(d).exists
  BY DEF Stores, Visible, Content

LEMMA CommitEffect ==
    ASSUME Stores, WholeFiles, NEW d \in Ledgers, NEW file \in Content, file.exists,
           Whole(file.schema), main[d].exists, Commit(d, file)
    PROVE  /\ Stores' /\ WholeFiles' /\ \A e \in Ledgers : e # d => Kept(e)
           /\ main'[d].exists /\ Visible(d)' = file /\ committed'[d] = file
  BY DEF Commit, Stores, WholeFiles, Kept, Visible

LEMMA DisconnectEffect ==
    ASSUME Stores, WholeFiles, NEW p \in Processes, ledger[p] \in Ledgers,
           main[ledger[p]].exists, Disconnect(p), UNCHANGED committed
    PROVE  Stores' /\ WholeFiles' /\ \A d \in Ledgers : Kept(d)
<1>1. CASE UNCHANGED <<main, wal>>
  BY <1>1, Untouched
<1>2. CASE /\ wal[ledger[p]].exists /\ main' = [main EXCEPT ![ledger[p]] = wal[ledger[p]]]
           /\ wal' = [wal EXCEPT ![ledger[p]] = NoFile]
  BY <1>2, NoFileType, EmptyIsWhole DEF Stores, WholeFiles, Kept, Visible
<1> QED
  BY <1>1, <1>2 DEF Disconnect

\* A change of a file's contents that leaves its schema alone.
LEMMA Edited ==
    ASSUME NEW file \in Content, NEW work \in BOOLEAN, NEW owners \in SUBSET Supervisors
    PROVE  /\ [file EXCEPT !.work = work] \in Content
           /\ [file EXCEPT !.owners = owners] \in Content
           /\ [file EXCEPT !.work = work].schema = file.schema
           /\ [file EXCEPT !.owners = owners].schema = file.schema
           /\ [file EXCEPT !.work = work].exists = file.exists
           /\ [file EXCEPT !.owners = owners].exists = file.exists
  BY DEF Content

LEMMA FileStep ==
    ASSUME Types, WholeFiles, Connected, Migrating, [Next]_vars
    PROVE  Stores' /\ WholeFiles' /\ \A d \in Ledgers : Changed(d)
<1>1. /\ Stores /\ ProcessTypes /\ \A p \in Processes : ledger[p] \in Ledgers
      /\ \A d \in Ledgers : Whole(Visible(d).schema)
  BY DEF Types, FileTypes, Stores, ProcessTypes, WholeFiles, Visible
<1>2. CASE UNCHANGED <<main, wal, committed>>
  BY <1>1, <1>2, Untouched DEF Changed
<1>3. ASSUME NEW p \in Processes, Connect(p)
      PROVE Stores' /\ WholeFiles' /\ \A d \in Ledgers : Changed(d)
  <2> PICK e \in Ledgers : e = ledger[p]
    BY <1>1
  <2>1. CASE main[ledger[p]].exists
    BY <1>2, <1>3, <2>1 DEF Connect
  <2>2. CASE ~main[ledger[p]].exists
    <3>1. Stores' /\ WholeFiles'
      BY <1>1, <1>3, <2>2, NoFileType, EmptyIsWhole DEF Connect, Stores, WholeFiles
    <3>2. Absent(e) /\ \A d \in Ledgers : d # e => Kept(d)
      BY <1>1, <1>3, <2>2, NoFileType DEF Connect, Absent, Kept, Visible, Stores
    <3> QED
      BY <3>1, <3>2 DEF Changed
  <2> QED
    BY <2>1, <2>2
<1>4. ASSUME NEW p \in Processes,
             BeginMigration(p) \/ BusyTimeout(p) \/ (p \in Commands /\ EndCommand(p))
      PROVE Stores' /\ WholeFiles' /\ \A d \in Ledgers : Changed(d)
  <2>1. main[ledger[p]].exists
    BY <1>4 DEF BeginMigration, BusyTimeout, EndCommand, Connected
  <2>2. CASE Disconnect(p) /\ UNCHANGED committed
    BY <1>1, <2>1, <2>2, DisconnectEffect DEF Changed
  <2> QED
    BY <1>2, <1>4, <2>2 DEF BeginMigration, BusyTimeout, EndCommand
<1>5. ASSUME NEW p \in Processes, Migrate(p)
      PROVE Stores' /\ WholeFiles' /\ \A d \in Ledgers : Changed(d)
  <2> PICK d \in Ledgers : d = ledger[p]
    BY <1>1
  <2> DEFINE pending == Migrations(version[p], Build[p])
             file == [Visible(d) EXCEPT !.schema = @ \o pending]
  <2>1. CASE UNCHANGED <<main, wal, committed>>
    BY <1>2, <2>1
  <2>2. CASE Commit(d, file)
    <3>1. main[d].exists /\ stage[p] = "migrating" /\ version[p] = SchemaVersion(Visible(d))
      BY <1>5 DEF Migrate, Connected, Migrating
    <3>2. /\ Visible(d) \in Content /\ Visible(d).exists
      BY <1>1, <3>1, VisibleExists
    <3>3. PICK n \in Nat : Visible(d).schema = Migrations(0, n)
      BY <1>1 DEF Whole
    <3>4. version[p] = n /\ n <= Build[p] /\ Build[p] \in Nat
      BY <1>1, <3>1, <3>3, WholeVersion, StateAssumption DEF ProcessTypes
    <3>5. Visible(d).schema \o pending = Migrations(0, Build[p]) /\ pending \in Seq(Nat)
      <4>1. /\ Migrations(0, n) \o Migrations(n, Build[p]) = Migrations(0, Build[p])
            /\ Migrations(n, Build[p]) \in Seq(Nat)
        BY <3>4, MigrationsJoin, MigrationSeq
      <4> QED
        BY <3>3, <3>4, <4>1
    <3>6. /\ file \in Content /\ file.exists /\ file.schema = Visible(d).schema \o pending
          /\ Whole(file.schema)
      <4>1. Migrations(0, Build[p]) \in Seq(Nat)
        BY <3>4, FirstMigrations
      <4> QED
        BY <3>2, <3>4, <3>5, <4>1 DEF Content, Whole
    <3>7. /\ Stores' /\ WholeFiles' /\ \A e \in Ledgers : e # d => Kept(e)
          /\ main'[d].exists /\ Visible(d)' = file /\ committed'[d] = file
      <4> HIDE DEF file
      <4> QED
        BY <1>1, <2>2, <3>1, <3>6, CommitEffect
    <3>8. Rewritten(d, p)
      BY <1>5, <3>1, <3>6, <3>7 DEF Rewritten
    <3> QED
      BY <3>7, <3>8 DEF Changed
  <2> QED
    BY <1>5, <2>1, <2>2 DEF Migrate
\* The other transactions change the work or the owners.
<1>6. ASSUME NEW p \in Processes, NEW file \in Content, stage[p] \in {"open", "serving"},
             file.exists, file.schema = Visible(ledger[p]).schema, Commit(ledger[p], file)
      PROVE Stores' /\ WholeFiles' /\ \A d \in Ledgers : Changed(d)
  <2> PICK d \in Ledgers : d = ledger[p]
    BY <1>1
  <2>1. main[d].exists /\ Whole(file.schema)
    BY <1>1, <1>6 DEF Connected
  <2>2. /\ Stores' /\ WholeFiles' /\ \A e \in Ledgers : e # d => Kept(e)
        /\ main'[d].exists /\ Visible(d)' = file /\ committed'[d] = file
    BY <1>1, <1>6, <2>1, CommitEffect
  <2>3. Rewritten(d, p)
    BY <1>6, <2>2 DEF Rewritten
  <2> QED
    BY <2>2, <2>3 DEF Changed
<1>7. ASSUME NEW p \in Processes, stage[p] \in {"open", "serving"}
      PROVE  Visible(ledger[p]) \in Content /\ Visible(ledger[p]).exists
  BY <1>1, <1>7, VisibleExists DEF Connected
<1>8. ASSUME NEW s \in Supervisors, Register(s)
      PROVE Stores' /\ WholeFiles' /\ \A d \in Ledgers : Changed(d)
  <2> DEFINE d == ledger[s]  file == [Visible(d) EXCEPT !.owners = @ \cup {s}]
  <2>1. Commit(d, file) /\ stage[s] = "open" /\ s \in Processes
    BY <1>8, StepNames DEF Register
  <2>2. Visible(d) \in Content /\ Visible(d).exists
    BY <1>7, <2>1
  <2>3. file \in Content /\ file.exists /\ file.schema = Visible(d).schema
    <3>1. Visible(d).owners \cup {s} \in SUBSET Supervisors
      BY <2>2 DEF Content
    <3> QED
      BY <2>2, <3>1, Edited
  <2> QED
    BY <1>6, <2>1, <2>3
<1>9. ASSUME NEW s \in Supervisors, Serve(s)
      PROVE Stores' /\ WholeFiles' /\ \A d \in Ledgers : Changed(d)
  <2> DEFINE d == ledger[s]  file == [Visible(d) EXCEPT !.work = ~@]
  <2>1. Commit(d, file) /\ stage[s] = "serving" /\ s \in Processes
    BY <1>9, StepNames DEF Serve
  <2>2. Visible(d) \in Content /\ Visible(d).exists
    BY <1>7, <2>1
  <2>3. file \in Content /\ file.exists /\ file.schema = Visible(d).schema
    BY <2>2, Edited
  <2> QED
    BY <1>6, <2>1, <2>3
<1>10. ASSUME NEW c \in Commands, SettleWork(c)
       PROVE Stores' /\ WholeFiles' /\ \A d \in Ledgers : Changed(d)
  <2> DEFINE d == ledger[c]  file == [Visible(d) EXCEPT !.work = FALSE]
  <2>1. Commit(d, file) /\ stage[c] = "open" /\ c \in Processes
    BY <1>10, StepNames DEF SettleWork
  <2>2. Visible(d) \in Content /\ Visible(d).exists
    BY <1>7, <2>1
  <2>3. file \in Content /\ file.exists /\ file.schema = Visible(d).schema
    BY <2>2, Edited
  <2> QED
    BY <1>6, <2>1, <2>3
<1>11. ASSUME NEW s \in Supervisors, StopSupervisor(s)
       PROVE Stores' /\ WholeFiles' /\ \A d \in Ledgers : Changed(d)
  <2> PICK d \in Ledgers : d = ledger[s]
    BY <1>1, StepNames
  <2> DEFINE left == [Visible(d) EXCEPT !.owners = @ \ {s}]
  <2>1. stage[s] = "serving" /\ s \in Processes /\ committed' = [committed EXCEPT ![d] = left]
    BY <1>11, StepNames DEF StopSupervisor
  <2>2. Visible(d) \in Content /\ Visible(d).exists /\ main[d].exists /\ Whole(Visible(d).schema)
    BY <1>1, <1>7, <2>1 DEF Connected
  <2>3. left \in Content /\ left.exists /\ left.schema = Visible(d).schema
    <3>1. Visible(d).owners \ {s} \in SUBSET Supervisors
      BY <2>2 DEF Content
    <3> QED
      BY <2>2, <3>1, Edited
  <2>4. CASE wal' = [wal EXCEPT ![d] = left] /\ UNCHANGED main
    BY <1>6, <2>1, <2>3, <2>4 DEF Commit
  <2>5. CASE main' = [main EXCEPT ![d] = left] /\ wal' = [wal EXCEPT ![d] = NoFile]
    <3> HIDE DEF left
    <3>2. Stores' /\ WholeFiles' /\ \A e \in Ledgers : e # d => Kept(e)
      BY <1>1, <2>1, <2>2, <2>3, <2>5, NoFileType, EmptyIsWhole
      DEF Stores, WholeFiles, Kept, Visible
    <3>3. main'[d].exists /\ Visible(d)' = left /\ committed'[d] = left
      BY <1>1, <2>1, <2>3, <2>5, NoFileType DEF Stores, Visible
    <3>4. Rewritten(d, s)
      BY <2>1, <2>3, <3>3 DEF Rewritten
    <3> QED
      BY <2>1, <3>2, <3>4 DEF Changed
  <2> QED
    BY <1>11, <2>4, <2>5 DEF StopSupervisor
<1>12. ASSUME RemoveNext PROVE Stores' /\ WholeFiles' /\ \A d \in Ledgers : Changed(d)
  <2>1. reset.step = "removing" /\ Target \in Ledgers
    BY <1>12, ResetFacts DEF RemoveNext, Types, NoReset
  <2>2. CASE /\ main[Target].exists /\ main' = [main EXCEPT ![Target] = NoFile]
             /\ committed' = [committed EXCEPT ![Target] = NoFile] /\ UNCHANGED wal
    <3>1. Stores' /\ WholeFiles'
      BY <1>1, <2>1, <2>2, NoFileType, EmptyIsWhole DEF Stores, WholeFiles
    <3>2. Removed(Target) /\ \A d \in Ledgers : d # Target => Kept(d)
      BY <1>1, <2>1, <2>2, NoFileType DEF Stores, Removed, Kept, Visible
    <3> QED
      BY <3>1, <3>2 DEF Changed
  <2>3. CASE /\ ~main[Target].exists /\ wal' = [wal EXCEPT ![Target] = NoFile]
             /\ UNCHANGED <<main, committed>>
    <3>1. Stores' /\ WholeFiles'
      BY <1>1, <2>1, <2>3, NoFileType, EmptyIsWhole DEF Stores, WholeFiles
    <3>2. Absent(Target) /\ \A d \in Ledgers : d # Target => Kept(d)
      BY <1>1, <2>1, <2>3, NoFileType DEF Stores, Absent, Kept, Visible
    <3> QED
      BY <3>1, <3>2 DEF Changed
  <2> QED
    BY <1>12, <2>2, <2>3 DEF RemoveNext
<1>13. ASSUME NEW s \in Supervisors,
              StartSupervisor(s) \/ CheckOverlap(s) \/ LoadRuntime(s) \/ TakeFleetLock(s)
              \/ Publish(s) \/ StopMember(s) \/ Retire(s) \/ ReleaseFleetLock(s)
              \/ StrangerStarts(s) \/ StrangerEnds(s)
       PROVE UNCHANGED <<main, wal, committed>>
  BY <1>13 DEF StartSupervisor, CheckOverlap, LoadRuntime, TakeFleetLock, Publish, StopMember,
     Retire, ReleaseFleetLock, StrangerStarts, StrangerEnds, files
<1>14. ASSUME NEW p \in Processes, LockState(p) \/ Kill(p) \/ Resolve(p) \/ FindLedger(p)
              \/ \E d \in Directories : OpenDirectory(p, d)
       PROVE UNCHANGED <<main, wal, committed>>
  BY <1>14 DEF LockState, Kill, Resolve, FindLedger, OpenDirectory, files
<1>15. CASE StartReset \/ LockTarget \/ InspectTarget \/ KillReset \/ EditConfig \/ UNCHANGED vars
  BY <1>2, <1>15 DEF StartReset, LockTarget, InspectTarget, KillReset, EditConfig, vars, files
<1> QED
  BY <1>2, <1>3, <1>4, <1>5, <1>8, <1>9, <1>10, <1>11, <1>12, <1>13, <1>14, <1>15, StepNames
  DEF Next, Supervisor, Command, Open, Reset

--------------------------------------------------------------------------------
\* What a step does to a process, to the writers and to the locks of a reset.

Stays(p) == stage'[p] = stage[p] /\ ledger'[p] = ledger[p] /\ version'[p] = version[p]

\* The only ways to hold a ledger or to get on with it.
Moved(p) ==
    \/ Stays(p)
    \/ stage'[p] \notin Holding
    \/ LockState(p)
    \/ Connect(p) /\ stage'[p] = "connected"
    \/ BeginMigration(p) /\ stage'[p] = "migrating"
    \/ Migrate(p) /\ stage'[p] = "open"
    \/ stage[p] = "open" /\ stage'[p] = "serving" /\ ledger'[p] = ledger[p]

LEMMA Others ==
    ASSUME ProcessTypes, NEW p \in Processes, NEW q \in Processes, q # p,
           (\E step \in Steps : Goto(p, step)) \/ (\E d \in Ledgers, step \in Steps : Pin(p, d, step)),
           version' = version \/ \E v \in Nat : version' = [version EXCEPT ![p] = v]
    PROVE  Stays(q)
<1>1. stage'[q] = stage[q] /\ ledger'[q] = ledger[q]
  BY Gone, Pinned
<1>2. version'[q] = version[q]
  BY DEF ProcessTypes
<1> QED
  BY <1>1, <1>2 DEF Stays

\* A step of a process is nobody else's.
LEMMA Alone ==
    ASSUME Types, NEW p \in Processes, NEW q \in Processes, q # p,
           Open(p) \/ (p \in Supervisors /\ Supervisor(p)) \/ (p \in Commands /\ Command(p))
    PROVE  Stays(q)
<1>1. /\ ProcessTypes /\ FileTypes /\ ledger[p] \in Ledgers /\ config \in Ledgers
      /\ Resolved \in Ledgers /\ Directories \subseteq Ledgers
  BY ResolvedType, StateAssumption DEF Types, ProcessTypes, ResetTypes, Ledgers
<1>2. CASE UNCHANGED <<stage, ledger, version>>
  BY <1>2 DEF Stays
<1>3. CASE LockState(p) \/ Connect(p) \/ BusyTimeout(p) \/ FindLedger(p) \/ EndCommand(p)
  BY <1>1, <1>3, Others, OpenFailed, StepNames
  DEF LockState, Connect, BusyTimeout, FindLedger, EndCommand
<1>4. CASE Migrate(p) \/ Kill(p)
  BY <1>1, <1>4, Others, StepNames DEF Migrate, Kill
<1>5. CASE BeginMigration(p)
  <2> DEFINE v == SchemaVersion(Visible(ledger[p]))
  <2>1. Visible(ledger[p]) \in Content
    BY <1>1, VisibleType
  <2>2. v \in Nat
    BY <2>1, LenProperties, EmptySeq, ElementOfSeq DEF SchemaVersion, Content
  <2>3. \E step \in Steps : Goto(p, step)
    BY <1>1, <1>5, OpenFailed, StepNames DEF BeginMigration
  <2>4. version' = version \/ version' = [version EXCEPT ![p] = v]
    BY <1>5 DEF BeginMigration
  <2> QED
    BY <1>1, <2>2, <2>3, <2>4, Others
<1>6. CASE LoadRuntime(p) \/ Resolve(p) \/ \E d \in Directories : OpenDirectory(p, d)
  BY <1>1, <1>6, Others, StepNames DEF LoadRuntime, Resolve, OpenDirectory
<1>7. CASE StartSupervisor(p) \/ CheckOverlap(p) \/ TakeFleetLock(p) \/ Publish(p) \/ Register(p)
           \/ StopSupervisor(p) \/ StopMember(p) \/ Retire(p) \/ ReleaseFleetLock(p)
           \/ StrangerStarts(p) \/ StrangerEnds(p)
  BY <1>1, <1>7, Others, StepNames
  DEF StartSupervisor, CheckOverlap, TakeFleetLock, Publish, Register, StopSupervisor,
      StopMember, Retire, ReleaseFleetLock, StrangerStarts, StrangerEnds
<1>8. CASE Serve(p) \/ SettleWork(p)
  BY <1>2, <1>8 DEF Serve, SettleWork, processes
<1> QED
  BY <1>3, <1>4, <1>5, <1>6, <1>7, <1>8 DEF Open, Supervisor, Command

\* What a process does to itself.
LEMMA Itself ==
    ASSUME Types, NEW p \in Processes,
           Open(p) \/ (p \in Supervisors /\ Supervisor(p)) \/ (p \in Commands /\ Command(p))
    PROVE  Moved(p)
<1>1. ProcessTypes /\ Resolved \in Ledgers /\ config \in Ledgers /\ Directories \subseteq Ledgers
  BY ResolvedType, StateAssumption DEF Types, ResetTypes, Ledgers
<1>2. CASE UNCHANGED <<stage, ledger, version>>
  BY <1>2 DEF Moved, Stays
<1>3. \A step \in {"none", "checking", "loading", "activating", "publishing", "opening", "closed",
                   "retired", "resolved", "stranger"} : step \notin Holding
  BY DEF Holding
<1>4. CASE LockState(p)
  BY <1>4 DEF Moved
<1>5. CASE Connect(p) \/ Migrate(p)
  BY <1>1, <1>5, Gone, StepNames DEF Connect, Migrate, Moved
<1>6. CASE BeginMigration(p)
  BY <1>1, <1>3, <1>6, Gone, OpenFailed, StepNames DEF BeginMigration, Moved
<1>7. CASE BusyTimeout(p)
  BY <1>1, <1>3, <1>7, Gone, OpenFailed, StepNames DEF BusyTimeout, Moved
<1>8. CASE Register(p)
  BY <1>1, <1>8, Gone, StepNames DEF Register, Moved
<1>9. CASE Kill(p) \/ FindLedger(p) \/ EndCommand(p)
  BY <1>1, <1>3, <1>9, Gone, StepNames DEF Kill, FindLedger, EndCommand, Moved
<1>10. CASE LoadRuntime(p) \/ Resolve(p) \/ \E d \in Directories : OpenDirectory(p, d)
  BY <1>1, <1>3, <1>10, Pinned, StepNames DEF LoadRuntime, Resolve, OpenDirectory, Moved
<1>11. CASE StartSupervisor(p) \/ CheckOverlap(p) \/ TakeFleetLock(p) \/ Publish(p)
            \/ StopSupervisor(p) \/ StopMember(p) \/ Retire(p) \/ ReleaseFleetLock(p)
            \/ StrangerStarts(p) \/ StrangerEnds(p)
  BY <1>1, <1>3, <1>11, Gone, StepNames
  DEF StartSupervisor, CheckOverlap, TakeFleetLock, Publish, StopSupervisor,
      StopMember, Retire, ReleaseFleetLock, StrangerStarts, StrangerEnds, Moved
<1>12. CASE Serve(p) \/ SettleWork(p)
  BY <1>2, <1>12 DEF Serve, SettleWork, processes
<1> QED
  BY <1>4, <1>5, <1>6, <1>7, <1>8, <1>9, <1>10, <1>11, <1>12 DEF Open, Supervisor, Command

LEMMA Move ==
    ASSUME Types, [Next]_vars
    PROVE  \A p \in Processes : Moved(p)
<1>1. CASE UNCHANGED <<stage, ledger, version>>
  BY <1>1 DEF Moved, Stays
<1>2. ASSUME NEW p \in Processes,
             Open(p) \/ (p \in Supervisors /\ Supervisor(p)) \/ (p \in Commands /\ Command(p))
      PROVE \A q \in Processes : Moved(q)
  BY <1>2, Alone, Itself DEF Moved
<1>3. CASE Reset \/ EditConfig \/ UNCHANGED vars
  BY <1>1, <1>3 DEF Reset, StartReset, LockTarget, InspectTarget, RemoveNext, KillReset, EditConfig,
     vars, processes
<1> QED
  BY <1>2, <1>3, StepNames DEF Next

\* The writer of a ledger changes by a migration or because it is killed.
LEMMA Writers ==
    ASSUME Types, Migrating, [Next]_vars
    PROVE  /\ writer' \in [Ledgers -> Processes \cup {Nobody}]
           /\ \A p \in Processes : stage[p] = "migrating" /\ Stays(p) => writer'[ledger[p]] = p
<1>1. /\ writer \in [Ledgers -> Processes \cup {Nobody}] /\ ProcessTypes /\ Nobody \notin Processes
      /\ \A p \in Processes : ledger[p] \in Ledgers
      /\ \A p \in Processes : stage[p] = "migrating" => writer[ledger[p]] = p
  BY StateAssumption DEF Types, FileTypes, ProcessTypes, Migrating
<1>2. CASE UNCHANGED writer
  BY <1>1, <1>2
<1>3. ASSUME NEW p \in Processes, BeginMigration(p), writer' = [writer EXCEPT ![ledger[p]] = p]
      PROVE  /\ writer' \in [Ledgers -> Processes \cup {Nobody}]
             /\ \A q \in Processes : stage[q] = "migrating" /\ Stays(q) => writer'[ledger[q]] = q
  <2>1. writer[ledger[p]] = Nobody /\ stage[p] = "connected"
    BY <1>3 DEF BeginMigration
  <2>2. \A q \in Processes : stage[q] = "migrating" => ledger[q] # ledger[p]
    BY <1>1, <2>1
  <2> QED
    BY <1>1, <1>3, <2>2
<1>4. ASSUME NEW p \in Processes, Migrate(p)
      PROVE  /\ writer' \in [Ledgers -> Processes \cup {Nobody}]
             /\ \A q \in Processes : stage[q] = "migrating" /\ Stays(q) => writer'[ledger[q]] = q
  <2>1. /\ writer' = [writer EXCEPT ![ledger[p]] = Nobody] /\ stage[p] = "migrating"
        /\ stage'[p] = "open"
    BY <1>1, <1>4, Gone, StepNames DEF Migrate
  <2>2. ~Stays(p) /\ writer[ledger[p]] = p
    BY <1>1, <2>1 DEF Stays
  <2>3. \A q \in Processes : stage[q] = "migrating" /\ Stays(q) => ledger[q] # ledger[p]
    BY <1>1, <2>2
  <2> QED
    BY <1>1, <2>1, <2>3
<1>5. ASSUME NEW p \in Processes, Kill(p)
      PROVE  /\ writer' \in [Ledgers -> Processes \cup {Nobody}]
             /\ \A q \in Processes : stage[q] = "migrating" /\ Stays(q) => writer'[ledger[q]] = q
  <2>1. /\ writer' = [d \in Ledgers |-> IF writer[d] = p THEN Nobody ELSE writer[d]]
        /\ stage'[p] = "none"
    BY <1>1, <1>5, Gone, StepNames DEF Kill
  <2>2. \A q \in Processes : stage[q] = "migrating" /\ Stays(q) => q # p
    BY <2>1 DEF Stays
  <2> QED
    BY <1>1, <2>1, <2>2
<1>6. ASSUME NEW p \in Processes, LockState(p) \/ Connect(p) \/ BusyTimeout(p) PROVE UNCHANGED writer
  BY <1>6 DEF LockState, Connect, BusyTimeout, files
<1>7. ASSUME NEW p \in Processes, BeginMigration(p)
      PROVE UNCHANGED writer \/ writer' = [writer EXCEPT ![ledger[p]] = p]
  BY <1>7 DEF BeginMigration
<1>8. ASSUME NEW s \in Supervisors, Supervisor(s) PROVE UNCHANGED writer
  BY <1>8 DEF Supervisor, StartSupervisor, CheckOverlap, LoadRuntime, TakeFleetLock, Publish,
     Register, Serve, StopSupervisor, StopMember, Retire, ReleaseFleetLock, StrangerStarts,
     StrangerEnds, files
<1>9. ASSUME NEW c \in Commands, Command(c) PROVE UNCHANGED writer
  BY <1>9 DEF Command, Resolve, FindLedger, SettleWork, EndCommand, OpenDirectory, files
<1>10. CASE Reset \/ EditConfig \/ UNCHANGED vars
  BY <1>2, <1>10 DEF Reset, StartReset, LockTarget, InspectTarget, RemoveNext, KillReset, EditConfig,
     vars, files
<1> QED
  BY <1>2, <1>3, <1>4, <1>5, <1>6, <1>7, <1>8, <1>9, <1>10 DEF Next, Open

\* Whatever is no step of a reset leaves the reset alone.
LEMMA ResetOnly ==
    ASSUME [Next]_vars
    PROVE  UNCHANGED reset \/ Reset
<1>1. ASSUME NEW s \in Supervisors, Supervisor(s) PROVE UNCHANGED reset
  BY <1>1 DEF Supervisor, StartSupervisor, CheckOverlap, LoadRuntime, TakeFleetLock, Publish,
     Register, Serve, StopSupervisor, StopMember, Retire, ReleaseFleetLock, StrangerStarts,
     StrangerEnds
<1>2. ASSUME NEW c \in Commands, Command(c) PROVE UNCHANGED reset
  BY <1>2 DEF Command, Resolve, FindLedger, SettleWork, EndCommand, OpenDirectory
<1>3. ASSUME NEW p \in Processes, Open(p) PROVE UNCHANGED reset
  BY <1>3 DEF Open, LockState, Connect, BeginMigration, BusyTimeout, Migrate, Kill
<1> QED
  BY <1>1, <1>2, <1>3 DEF Next, EditConfig, vars

\* The next position of a reset.
LEMMA Advanced ==
    ASSUME ResetTypes, reset # NoReset, NEW next \in {"inspecting", "removing", "none"}, Advance(next)
    PROVE  \/ /\ reset.at = 1 /\ reset' = [reset EXCEPT !.at = 2]
              /\ reset' = [step |-> reset.step, targets |-> reset.targets, at |-> 2]
           \/ reset.at = 2 /\ next = "none" /\ reset' = NoReset
           \/ /\ reset.at = 2 /\ next # "none"
              /\ reset' = [step |-> next, targets |-> reset.targets, at |-> 1]
<1>1. /\ reset.at \in {1, 2} /\ Len(reset.targets) = 2
      /\ reset = [step |-> reset.step, targets |-> reset.targets, at |-> reset.at]
  BY ResetFacts DEF ResetTypes
<1>2. CASE reset.at = 1
  BY <1>1, <1>2 DEF Advance
<1>3. CASE reset.at = 2
  <2>1. [reset EXCEPT !.step = next, !.at = 1]
           = [step |-> next, targets |-> reset.targets, at |-> 1]
    <3>1. reset \in [step : {reset.step}, targets : {reset.targets}, at : {reset.at}]
      BY <1>1
    <3>2. [reset EXCEPT !.step = next, !.at = 1] = [[reset EXCEPT !.step = next] EXCEPT !.at = 1]
      BY <3>1
    <3> DEFINE q == [reset EXCEPT !.step = next]
    <3>3. q = [step |-> next, targets |-> reset.targets, at |-> reset.at]
      BY <3>1
    <3>4. /\ q \in [step : {next}, targets : {reset.targets}, at : {reset.at}]
          /\ q.step = next /\ q.targets = reset.targets
      BY <3>3
    <3> HIDE DEF q
    <3>5. [q EXCEPT !.at = 1] = [step |-> q.step, targets |-> q.targets, at |-> 1]
      BY <3>4
    <3> QED
      BY <3>2, <3>4, <3>5 DEF q
  <2>2. reset' = IF next = "none" THEN NoReset
                 ELSE [reset EXCEPT !.step = next, !.at = 1]
    BY <1>1, <1>3 DEF Advance
  <2> QED
    BY <1>3, <2>1, <2>2
<1> QED
  BY <1>1, <1>2, <1>3

LEMMA ResetStep == Types /\ [Next]_vars => ResetTypes'
<1> SUFFICES ASSUME Types, [Next]_vars PROVE ResetTypes'
  OBVIOUS
<1>1. ResetTypes /\ config \in {"a", "b"}
  BY DEF Types, ResetTypes
<1>2. config' \in {"a", "b"}
  <2>1. ASSUME NEW s \in Supervisors, Supervisor(s) PROVE UNCHANGED config
    BY <2>1 DEF Supervisor, StartSupervisor, CheckOverlap, LoadRuntime, TakeFleetLock, Publish,
       Register, Serve, StopSupervisor, StopMember, Retire, ReleaseFleetLock, StrangerStarts,
       StrangerEnds
  <2>2. ASSUME NEW c \in Commands, Command(c) PROVE UNCHANGED config
    BY <2>2 DEF Command, Resolve, FindLedger, SettleWork, EndCommand, OpenDirectory
  <2>3. ASSUME NEW p \in Processes, Open(p) PROVE UNCHANGED config
    BY <2>3 DEF Open, LockState, Connect, BeginMigration, BusyTimeout, Migrate, Kill
  <2>4. Reset => UNCHANGED config
    BY DEF Reset, StartReset, LockTarget, InspectTarget, RemoveNext, KillReset
  <2> QED
    BY <1>1, <2>1, <2>2, <2>3, <2>4 DEF Next, EditConfig, vars
<1>3. CASE UNCHANGED reset
  BY <1>1, <1>2, <1>3 DEF ResetTypes
<1>4. CASE reset' = NoReset
  BY <1>2, <1>4 DEF ResetTypes
<1>5. CASE StartReset
  BY <1>1, <1>2, <1>5 DEF ResetTypes, StartReset
<1>6. ASSUME NEW next \in {"inspecting", "removing", "none"}, Advance(next), reset # NoReset
      PROVE  ResetTypes'
  BY <1>1, <1>2, <1>6, Advanced, ResetFacts DEF ResetTypes
<1>7. CASE LockTarget \/ InspectTarget \/ RemoveNext
  <2>1. reset # NoReset
    BY <1>7 DEF LockTarget, InspectTarget, RemoveNext, NoReset
  <2> QED
    BY <1>3, <1>4, <1>6, <1>7, <2>1 DEF LockTarget, InspectTarget, RemoveNext
<1> QED
  BY <1>3, <1>4, <1>5, <1>7, ResetOnly DEF Reset, KillReset

\* What a reset has locked.
LEMMA LockedFacts ==
    ASSUME ResetTypes
    PROVE  /\ reset = NoReset => Locked = {}
           /\ reset.step = "locking" /\ reset.at = 1 => Locked = {}
           /\ reset.step = "locking" /\ reset.at = 2 => Locked = {reset.targets[1]}
           /\ reset.step \in {"inspecting", "removing"} =>
                 Locked = {reset.targets[1], reset.targets[2]}
<1>1. CASE reset = NoReset
  BY <1>1 DEF Locked, NoReset
<1>2. CASE reset # NoReset
  BY <1>2, ResetFacts DEF Locked, ResetTypes
<1> QED
  BY <1>1, <1>2

\* A reset locks one more target, which nobody holds, or none.
LEMMA LockStep ==
    ASSUME Types, [Next]_vars
    PROVE  \/ Locked' \subseteq Locked
           \/ /\ Target \in Ledgers /\ Locked' \subseteq Locked \cup {Target}
              /\ Holders(Target) = {} /\ UNCHANGED <<stage, ledger>>
<1>1. ResetTypes /\ ResetTypes'
  BY ResetStep DEF Types
<1>2. CASE UNCHANGED reset
  BY <1>2 DEF Locked
<1>3. CASE reset' = NoReset
  BY <1>1, <1>3, LockedFacts DEF Locked, NoReset
<1>4. CASE StartReset
  BY <1>4 DEF StartReset, Locked
<1>5. CASE LockTarget
  <2>1. reset # NoReset /\ reset.step = "locking" /\ UNCHANGED <<stage, ledger>>
    BY <1>5 DEF LockTarget, NoReset, processes
  <2>2. CASE Holders(Target) = {} /\ Advance("inspecting")
    <3>1. /\ Target \in Ledgers /\ Target = reset.targets[reset.at] /\ DOMAIN reset.targets = {1, 2}
          /\ reset.at \in {1, 2}
      BY <1>1, <2>1, ResetFacts DEF Target, ResetTypes
    <3>2. Locked' \subseteq {reset.targets[i] : i \in 1 .. reset.at}
      <4>1. CASE reset.at = 1
        <5>1. reset'.step = "locking" /\ reset'.at = 2 /\ reset'.targets = reset.targets
          BY <1>1, <2>1, <2>2, <4>1, Advanced
        <5> QED
          BY <4>1, <5>1 DEF Locked
      <4>2. CASE reset.at = 2
        <5>1. reset'.step = "inspecting" /\ reset'.targets = reset.targets
          BY <1>1, <2>1, <2>2, <4>2, Advanced
        <5> QED
          BY <3>1, <4>2, <5>1 DEF Locked
      <4> QED
        BY <3>1, <4>1, <4>2
    <3>3. {reset.targets[i] : i \in 1 .. reset.at} \subseteq Locked \cup {Target}
      BY <2>1, <3>1 DEF Locked
    <3> QED
      BY <2>1, <2>2, <3>1, <3>2, <3>3
  <2> QED
    BY <1>3, <1>5, <2>2 DEF LockTarget
<1>6. CASE InspectTarget \/ RemoveNext
  <2>1. reset # NoReset /\ reset.step \in {"inspecting", "removing"}
    BY <1>6 DEF InspectTarget, RemoveNext, NoReset
  <2>2. ASSUME NEW next \in {"removing", "none"}, Advance(next) PROVE Locked' \subseteq Locked
    <3>1. CASE reset' = NoReset
      BY <1>3, <3>1 DEF Locked, NoReset
    <3>2. CASE reset'.step \in {"inspecting", "removing"} /\ reset'.targets = reset.targets
      BY <2>1, <3>2 DEF Locked
    <3> QED
      BY <1>1, <2>1, <2>2, <3>1, <3>2, Advanced
  <2>3. \/ UNCHANGED reset \/ reset' = NoReset \/ \E next \in {"removing", "none"} : Advance(next)
    BY <1>6 DEF InspectTarget, RemoveNext
  <2>4. reset' = NoReset => Locked' \subseteq Locked
    BY DEF Locked, NoReset
  <2> QED
    BY <1>2, <2>2, <2>3, <2>4
<1> QED
  BY <1>2, <1>3, <1>4, <1>5, <1>6, ResetOnly DEF Reset, KillReset

--------------------------------------------------------------------------------
\* The fleet's lock and manifest.

\* The supervisor that holds the fleet's lock is the one whose manifest counts
\* from its publication on; a manifest that is left over is that of an earlier
\* process of its id.
Serving == Holding \cup {"opening"}
Leading == Serving \cup {"publishing", "closed", "retired"}

Owned ==
    /\ \A s \in Supervisors : stage[s] \in Leading => fleetLock = s
    /\ \A s \in Supervisors : stage[s] \in Serving =>
          manifest = [pid |-> s, birth |-> births[s], ledger |-> ledger[s]]
    /\ manifest # NoManifest =>
          /\ manifest.pid \in Supervisors /\ manifest.birth <= births[manifest.pid]
          /\ stage[manifest.pid] = "stranger" => manifest.birth < births[manifest.pid]

LEMMA StepKinds ==
    /\ \A step \in {"none", "checking", "loading", "activating", "stranger"} : step \notin Leading
    /\ {"opening", "locked", "connected", "migrating", "open", "serving"} \subseteq Serving
    /\ Serving \subseteq Leading /\ {"publishing", "closed", "retired"} \subseteq Leading
    /\ \A step \in {"publishing", "closed", "retired", "none", "stranger"} : step \notin Serving
    /\ \A step \in Leading : step # "none" /\ step # "stranger"
  BY DEF Leading, Serving, Holding

\* A process that works on its ledger, goes back or gives up.
FleetKept(s) ==
    \/ Stays(s)
    \/ stage'[s] \in {"none", "loading", "activating"}
    \/ stage[s] \in Serving /\ stage'[s] \in Serving /\ ledger'[s] = ledger[s]
    \/ stage[s] \in Serving /\ stage'[s] = "closed"

LEMMA FleetUntouched ==
    ASSUME Owned, UNCHANGED <<fleet, births>>, \A s \in Supervisors : FleetKept(s)
    PROVE  Owned'
<1>1. \A s \in Supervisors : stage'[s] \in Leading => stage[s] \in Leading
  BY StepKinds DEF FleetKept, Stays
<1>2. \A s \in Supervisors : stage'[s] \in Serving => stage[s] \in Serving /\ ledger'[s] = ledger[s]
  BY StepKinds DEF FleetKept, Stays
<1>3. \A s \in Supervisors : stage'[s] = "stranger" => stage[s] = "stranger"
  BY StepKinds DEF FleetKept, Stays
<1>4. manifest' = manifest /\ fleetLock' = fleetLock /\ births' = births
  BY DEF fleet
<1> QED
  BY <1>1, <1>2, <1>3, <1>4 DEF Owned, Serving, Leading, Holding, NoManifest, Nobody

LEMMA FleetStep ==
    ASSUME Types, Owned, [Next]_vars
    PROVE  FleetTypes' /\ Owned'
<1>1. /\ ProcessTypes /\ FleetTypes /\ Nobody \notin Processes /\ Supervisors \cap Commands = {}
      /\ config \in Ledgers /\ \A p \in Processes : ledger[p] \in Ledgers
      /\ births \in [Supervisors -> Nat]
  BY StateAssumption DEF Types, ProcessTypes, ResetTypes, Ledgers
<1>2. CASE UNCHANGED <<fleet, births>> /\ \A s \in Supervisors : FleetKept(s)
  BY <1>1, <1>2, FleetUntouched DEF FleetTypes, fleet
<1>3. ASSUME NEW p \in Processes, LockState(p) \/ Connect(p) \/ BeginMigration(p) \/ BusyTimeout(p)
                                  \/ Migrate(p)
      PROVE  FleetTypes' /\ Owned'
  <2>1. UNCHANGED <<fleet, births>>
    BY <1>3 DEF LockState, Connect, BeginMigration, BusyTimeout, Migrate, fleet
  <2>2. \A q \in Supervisors : q # p => FleetKept(q)
    BY <1>3, Alone, StepNames DEF FleetKept, Open
  <2>3. p \in Supervisors => FleetKept(p)
    <3>1. stage[p] \in Serving /\ \E step \in Serving \cup {"none"} :
              Goto(p, step) /\ (p \in Supervisors => step \in Serving)
      BY <1>1, <1>3, StepKinds, OpenFailed
      DEF LockState, Connect, BeginMigration, BusyTimeout, Migrate
    <3> QED
      BY <1>1, <3>1, Gone, StepKinds, StepNames DEF FleetKept, Serving
  <2> QED
    BY <1>2, <2>1, <2>2, <2>3
<1>4. ASSUME NEW c \in Commands, Command(c) PROVE FleetTypes' /\ Owned'
  <2>1. UNCHANGED <<fleet, births>>
    BY <1>4 DEF Command, Resolve, FindLedger, SettleWork, EndCommand, OpenDirectory, fleet, processes
  <2>2. \A q \in Supervisors : FleetKept(q)
    BY <1>1, <1>4, Alone, StepNames DEF FleetKept
  <2> QED
    BY <1>2, <2>1, <2>2
<1>5. ASSUME NEW s \in Supervisors, Supervisor(s)
      PROVE  \A q \in Supervisors : q # s => Stays(q)
  BY <1>5, Alone, StepNames
<1>6. ASSUME NEW s \in Supervisors,
             CheckOverlap(s) \/ LoadRuntime(s) \/ StrangerEnds(s) \/ Register(s) \/ Serve(s)
             \/ StopSupervisor(s) \/ StopMember(s)
      PROVE  FleetTypes' /\ Owned'
  <2>1. UNCHANGED <<fleet, births>>
    BY <1>6 DEF CheckOverlap, LoadRuntime, StrangerEnds, Register, Serve, StopSupervisor, StopMember,
       fleet, processes
  <2>2. FleetKept(s)
    <3>1. CASE CheckOverlap(s) \/ StrangerEnds(s)
      BY <1>1, <3>1, Gone, StepNames DEF CheckOverlap, StrangerEnds, FleetKept
    <3>2. CASE LoadRuntime(s)
      BY <1>1, <3>2, Pinned, StepNames DEF LoadRuntime, FleetKept
    <3>3. CASE Register(s) \/ StopSupervisor(s) \/ StopMember(s)
      BY <1>1, <3>3, Gone, StepNames, StepKinds DEF Register, StopSupervisor, StopMember, FleetKept
    <3>4. CASE Serve(s)
      BY <3>4 DEF Serve, processes, FleetKept, Stays
    <3> QED
      BY <1>6, <3>1, <3>2, <3>3, <3>4
  <2>3. \A q \in Supervisors : FleetKept(q)
    BY <1>5, <1>6, <2>2 DEF Supervisor, FleetKept
  <2> QED
    BY <1>2, <2>1, <2>3
<1>7. ASSUME NEW s \in Supervisors, TakeFleetLock(s) PROVE FleetTypes' /\ Owned'
  <2>1. CASE UNCHANGED fleet /\ Goto(s, "none")
    <3>1. FleetKept(s)
      BY <1>1, <2>1, Gone, StepNames DEF FleetKept
    <3>2. \A q \in Supervisors : FleetKept(q)
      BY <1>5, <1>7, <3>1 DEF Supervisor, FleetKept
    <3> QED
      BY <1>2, <1>7, <2>1, <3>2 DEF TakeFleetLock
  <2>2. CASE /\ fleetLock = Nobody /\ fleetLock' = s /\ manifest' = NoManifest
             /\ Goto(s, "publishing")
    <3>1. /\ stage'[s] = "publishing"
          /\ \A q \in Supervisors : q # s => stage'[q] = stage[q]
      BY <1>1, <1>5, <1>7, <2>2, Gone, StepNames DEF Supervisor, Stays
    <3>2. \A q \in Supervisors : stage[q] \notin Leading
      BY <1>1, <2>2, StepNames DEF Owned
    <3>3. \A q \in Supervisors : q # s => stage'[q] \notin Leading
      BY <3>1, <3>2
    <3>4. \A q \in Supervisors : stage'[q] \notin Serving
      BY <3>1, <3>3, StepKinds
    <3> QED
      BY <1>1, <2>2, <3>3, <3>4 DEF Owned, FleetTypes, NoManifest, Serving, Leading, Holding, Ledgers
  <2> QED
    BY <1>7, <2>1, <2>2 DEF TakeFleetLock
<1>8. ASSUME NEW s \in Supervisors, Publish(s) PROVE FleetTypes' /\ Owned'
  <2>1. /\ stage[s] = "publishing" /\ fleetLock = s /\ UNCHANGED <<fleetLock, births>>
        /\ manifest' = [pid |-> s, birth |-> births[s], ledger |-> ledger[s]]
        /\ stage'[s] = "opening" /\ ledger'[s] = ledger[s]
    BY <1>1, <1>8, Gone, StepNames, StepKinds DEF Publish, Owned
  <2>2. \A q \in Supervisors : q # s => stage'[q] \notin Leading
    BY <1>5, <1>8, <2>1 DEF Supervisor, Stays, Owned
  <2>3. \A q \in Supervisors : q # s => stage'[q] \notin Serving
    BY <2>2, StepKinds
  <2> QED
    BY <1>1, <2>1, <2>2, <2>3, StepNames
    DEF Owned, FleetTypes, Serving, Leading, Holding, NoManifest
<1>9. ASSUME NEW s \in Supervisors, Retire(s) PROVE FleetTypes' /\ Owned'
  <2>1. /\ stage[s] = "closed" /\ fleetLock = s /\ UNCHANGED <<fleetLock, births>>
        /\ manifest' = manifest \/ manifest' = NoManifest
        /\ stage'[s] = "retired" /\ ledger'[s] = ledger[s]
    BY <1>1, <1>9, Gone, StepNames, StepKinds DEF Retire, Owned
  <2>2. \A q \in Supervisors : q # s => stage'[q] \notin Leading /\ stage'[q] = stage[q]
    BY <1>5, <1>9, <2>1 DEF Supervisor, Stays, Owned
  <2>3. \A q \in Supervisors : stage'[q] \notin Serving /\ (stage'[q] = "stranger" => stage[q] = "stranger")
    BY <2>1, <2>2, StepKinds
  <2>4. NoManifest \in [pid : Supervisors \cup {Nobody}, birth : Nat, ledger : Ledgers]
    BY DEF NoManifest, Ledgers
  <2> QED
    BY <1>1, <2>1, <2>2, <2>3, <2>4
    DEF Owned, FleetTypes, Serving, Leading, Holding
<1>10. ASSUME NEW s \in Supervisors, ReleaseFleetLock(s) PROVE FleetTypes' /\ Owned'
  <2>1. /\ stage[s] = "retired" /\ fleetLock = s /\ UNCHANGED <<manifest, births>>
        /\ fleetLock' = Nobody /\ stage'[s] = "none"
    BY <1>1, <1>10, Gone, StepNames, StepKinds DEF ReleaseFleetLock, Owned
  <2>2. \A q \in Supervisors : q # s => stage'[q] \notin Leading /\ stage'[q] = stage[q]
    BY <1>5, <1>10, <2>1 DEF Supervisor, Stays, Owned
  <2>3. \A q \in Supervisors : /\ stage'[q] \notin Leading /\ stage'[q] \notin Serving
                               /\ (stage'[q] = "stranger" => stage[q] = "stranger")
    BY <2>1, <2>2, StepKinds
  <2> QED
    BY <1>1, <2>1, <2>3 DEF Owned, FleetTypes, Serving, Leading, Holding
<1>11. ASSUME NEW s \in Supervisors, StartSupervisor(s) \/ StrangerStarts(s)
       PROVE  FleetTypes' /\ Owned'
  <2>1. /\ UNCHANGED fleet /\ births' = [births EXCEPT ![s] = @ + 1]
        /\ stage'[s] \in {"checking", "stranger"}
    BY <1>1, <1>11, Gone, StepNames DEF StartSupervisor, StrangerStarts, NewBirth
  <2>2. \A q \in Supervisors : q # s => Stays(q) /\ births'[q] = births[q]
    BY <1>1, <1>5, <1>11, <2>1 DEF Supervisor
  <2>3. births[s] \in Nat /\ births'[s] = births[s] + 1
    BY <1>1, <2>1
  <2>4. stage'[s] \notin Leading /\ stage'[s] \notin Serving
    BY <2>1, StepKinds
  <2>5. manifest' = manifest /\ fleetLock' = fleetLock /\ manifest.birth \in Nat
    BY <1>1, <2>1 DEF fleet, FleetTypes
  <2>6. \A q \in Supervisors : stage'[q] \in Leading => fleetLock' = q
    BY <2>2, <2>4, <2>5 DEF Owned, Stays
  <2>7. \A q \in Supervisors : stage'[q] \in Serving =>
            manifest' = [pid |-> q, birth |-> births'[q], ledger |-> ledger'[q]]
    BY <2>2, <2>4, <2>5 DEF Owned, Stays
  <2>8. manifest # NoManifest =>
            /\ manifest.pid \in Supervisors /\ manifest.birth <= births'[manifest.pid]
            /\ stage'[manifest.pid] = "stranger" => manifest.birth < births'[manifest.pid]
    <3>1. CASE manifest.pid = s
      BY <2>3, <2>5, <3>1 DEF Owned
    <3>2. CASE manifest.pid # s
      BY <2>2, <3>2 DEF Owned, Stays
    <3> QED
      BY <3>1, <3>2
  <2> QED
    BY <1>1, <2>5, <2>6, <2>7, <2>8 DEF Owned, FleetTypes, Serving, Leading, Holding, NoManifest, Nobody
<1>12. ASSUME NEW p \in Processes, Kill(p) PROVE FleetTypes' /\ Owned'
  <2>1. /\ UNCHANGED <<manifest, births>> /\ stage'[p] = "none"
        /\ fleetLock' = IF fleetLock = p THEN Nobody ELSE fleetLock
    BY <1>1, <1>12, Gone, StepNames DEF Kill
  <2>2. \A q \in Supervisors : q # p => Stays(q)
    BY <1>12, Alone, StepNames DEF Open
  <2>3. \A q \in Supervisors : stage'[q] \in Leading => q # p /\ Stays(q)
    BY <2>1, <2>2, StepKinds
  <2>4. \A q \in Supervisors : stage'[q] \in Leading => fleetLock' = q
    BY <2>1, <2>3 DEF Stays, Owned
  <2>5. \A q \in Supervisors : stage'[q] \in Serving =>
            manifest' = [pid |-> q, birth |-> births'[q], ledger |-> ledger'[q]]
    BY <2>1, <2>3, StepKinds DEF Stays, Owned
  <2>6. \A q \in Supervisors : stage'[q] = "stranger" => stage[q] = "stranger"
    BY <2>1, <2>2 DEF Stays
  <2> QED
    BY <1>1, <2>1, <2>4, <2>5, <2>6 DEF Owned, FleetTypes, Serving, Leading, Holding, NoManifest, Nobody
<1>13. CASE Reset \/ EditConfig \/ UNCHANGED vars
  BY <1>2, <1>13 DEF Reset, StartReset, LockTarget, InspectTarget, RemoveNext, KillReset, EditConfig,
     vars, processes, FleetKept, Stays
<1> QED
  BY <1>3, <1>4, <1>6, <1>7, <1>8, <1>9, <1>10, <1>11, <1>12, <1>13 DEF Next, Supervisor, Open

--------------------------------------------------------------------------------
\* The invariant.

\* The shared lock and a reset's exclusive one exclude each other.
LocksHold == \A p \in Processes : stage[p] \in Holding => ledger[p] \notin Locked

UpToDate ==
    \A p \in Processes :
        stage[p] \in {"open", "serving"} => Build[p] <= SchemaVersion(Visible(ledger[p]))

\* What a reset has inspected stays idle: nobody can open it.
Idle(d) == main[d].exists => ~Visible(d).work
Inspected ==
    /\ reset.step = "inspecting" /\ reset.at = 2 => Idle(reset.targets[1])
    /\ reset.step = "removing" => Idle(reset.targets[1]) /\ Idle(reset.targets[2])

StateInv ==
    /\ Types /\ WholeFiles /\ CommitsSurvive
    /\ Connected /\ Migrating /\ UpToDate /\ LocksHold /\ Inspected /\ Owned

LEMMA InvInit == Init => StateInv
<1> SUFFICES ASSUME Init PROVE StateInv
  OBVIOUS
<1>1. Types
  BY TypesInit
<1>2. WholeFiles
  <2>1. Whole(Old(TRUE).schema) /\ Whole(Old(FALSE).schema) /\ Whole(NoFile.schema)
    <3>1. Old(TRUE).schema = <<1>> /\ Old(FALSE).schema = <<1>>
      BY DEF Old, Blank, NoFile
    <3>2. Migrations(0, 1) = <<1>>
      <4>1. /\ Migrations(0, 1) \in Seq(Nat) /\ Len(Migrations(0, 1)) = 1
            /\ \A i \in 1 .. 1 : Migrations(0, 1)[i] = i
        BY FirstMigrations
      <4>2. Migrations(0, 1)[1] = 1
        BY <4>1
      <4>3. <<1>> \in Seq(Nat) /\ Len(<<1>>) = 1 /\ <<1>>[1] = 1
        OBVIOUS
      <4>4. \A i \in 1 .. Len(<<1>>) : Migrations(0, 1)[i] = <<1>>[i]
        BY <4>2, <4>3
      <4> QED
        BY <4>1, <4>3, <4>4, SeqEqual
    <3> QED
      BY <3>1, <3>2, NoFileType, EmptyIsWhole DEF Whole
  <2>2. \A d \in Ledgers : main[d] \in {NoFile, Old(TRUE), Old(FALSE)} /\ wal[d] = NoFile
    BY DEF Init
  <2> QED
    BY <2>1, <2>2 DEF WholeFiles
<1>3. CommitsSurvive
  BY NoFileType DEF Init, CommitsSurvive, Visible
<1>4. /\ \A p \in Processes : stage[p] = "none"
      /\ Locked = {} /\ reset.step = "none" /\ manifest = NoManifest
  BY DEF Init, Locked, NoReset
<1>5. Connected /\ Migrating /\ UpToDate /\ LocksHold /\ Inspected
  BY <1>4 DEF Connected, Migrating, UpToDate, LocksHold, Inspected, Holding
<1>6. Owned
  BY <1>4, StepNames, StepKinds DEF Owned
<1> QED
  BY <1>1, <1>2, <1>3, <1>5, <1>6 DEF StateInv

LEMMA TypesStep ==
    ASSUME StateInv, [Next]_vars
    PROVE  Types'
<1>1. Stores' /\ writer' \in [Ledgers -> Processes \cup {Nobody}]
  BY FileStep, Writers DEF StateInv
<1> QED
  BY <1>1, ProcessStep, ResetStep, FleetStep DEF StateInv, Types, FileTypes, Stores

\* A ledger that somebody holds is neither taken away nor made anew.
LEMMA HeldFiles ==
    ASSUME StateInv, [Next]_vars, NEW p \in Processes, main[ledger[p]].exists,
           stage[p] \in Holding, NEW d \in Ledgers, d = ledger[p]
    PROVE  /\ main'[d].exists
           /\ Kept(d) \/ \E q \in Processes : Rewritten(d, q)
<1>1. Changed(d) /\ d \notin Locked
  BY FileStep DEF StateInv, LocksHold
<1>2. ~Removed(d)
  <2>1. reset.step = "removing" => Target \in Locked
    BY LockedFacts, ResetFacts DEF StateInv, Types, ResetTypes, NoReset, Target
  <2> QED
    BY <1>1, <2>1 DEF Removed
<1>3. ~Absent(d)
  BY DEF Absent
<1> QED
  BY <1>1, <1>2, <1>3 DEF Changed, Kept, Rewritten

\* The version of a ledger that somebody has open never falls, and rises only
\* by a migration.
LEMMA Versions ==
    ASSUME StateInv, [Next]_vars, NEW d \in Ledgers,
           Kept(d) \/ \E q \in Processes : Rewritten(d, q)
    PROVE  /\ SchemaVersion(Visible(d)) <= SchemaVersion(Visible(d)')
           /\ SchemaVersion(Visible(d)) \in Nat /\ SchemaVersion(Visible(d)') \in Nat
           /\ \/ SchemaVersion(Visible(d)') = SchemaVersion(Visible(d))
              \/ \E q \in Processes : Migrate(q) /\ ledger[q] = d /\ stage[q] = "migrating"
                                      /\ SchemaVersion(Visible(d)') = Build[q]
<1>1. /\ WholeFiles /\ Migrating /\ ProcessTypes
  BY DEF StateInv, Types
<1>2. PICK n \in Nat : Visible(d).schema = Migrations(0, n)
  BY <1>1 DEF WholeFiles, Whole, Visible
<1>3. SchemaVersion(Visible(d)) = n
  BY <1>2, WholeVersion
<1>4. CASE Visible(d)'.schema = Visible(d).schema
  <2>1. SchemaVersion(Visible(d)') = SchemaVersion(Visible(d))
    BY <1>4 DEF SchemaVersion
  <2> QED
    BY <1>3, <2>1
<1>5. ASSUME NEW q \in Processes, Rewritten(d, q), Migrate(q),
             Visible(d)'.schema = Visible(d).schema \o Migrations(version[q], Build[q])
      PROVE  /\ SchemaVersion(Visible(d)') = Build[q] /\ n <= Build[q] /\ Build[q] \in Nat
             /\ ledger[q] = d /\ stage[q] = "migrating"
  <2>1. stage[q] = "migrating" /\ ledger[q] = d
    BY <1>5 DEF Migrate, Rewritten
  <2>2. version[q] = n /\ version[q] <= Build[q] /\ Build[q] \in Nat
    BY <1>1, <1>3, <2>1, StateAssumption DEF Migrating, ProcessTypes
  <2>3. Migrations(0, n) \o Migrations(n, Build[q]) = Migrations(0, Build[q])
    BY <2>2, MigrationsJoin
  <2>4. Visible(d)'.schema = Migrations(0, Build[q])
    BY <1>2, <1>5, <2>2, <2>3
  <2>5. SchemaVersion(Visible(d)') = Build[q]
    BY <2>2, <2>4, WholeVersion
  <2> QED
    BY <2>1, <2>2, <2>5
<1> QED
  BY <1>3, <1>4, <1>5 DEF Kept, Rewritten

\* How a process comes to hold what it holds after a step.
LEMMA Came ==
    ASSUME Types, [Next]_vars, NEW p \in Processes, stage'[p] \in Holding
    PROVE  /\ ledger'[p] = ledger[p]
           /\ \/ stage'[p] = "locked" /\ (stage[p] = "locked" \/ LockState(p))
              \/ stage'[p] = "connected" /\ (stage[p] = "connected" \/ Connect(p))
              \/ stage'[p] = "migrating" /\ ((stage[p] = "migrating" /\ Stays(p)) \/ BeginMigration(p))
              \/ stage'[p] = "open" /\ (stage[p] = "open" \/ Migrate(p))
              \/ stage'[p] = "serving" /\ stage[p] \in {"open", "serving"}
<1>1. Moved(p) /\ ProcessTypes
  BY Move DEF Types
<1>2. CASE Stays(p)
  BY <1>2 DEF Stays, Holding
<1>3. CASE LockState(p) \/ Connect(p) \/ Migrate(p)
  BY <1>1, <1>3, Gone, StepNames DEF LockState, Connect, Migrate
<1>4. CASE BeginMigration(p) /\ stage'[p] = "migrating"
  <2>1. Goto(p, "migrating") \/ OpenFails(p)
    BY <1>4 DEF BeginMigration
  <2>2. Goto(p, "migrating")
    BY <1>1, <1>4, <2>1, Gone, OpenFailed, StepNames
  <2> QED
    BY <1>1, <1>4, <2>2, Gone, StepNames
<1> QED
  BY <1>1, <1>2, <1>3, <1>4 DEF Moved

LEMMA ConnectedStep == StateInv /\ [Next]_vars => Connected'
<1> SUFFICES ASSUME StateInv, [Next]_vars, NEW p \in Processes,
                    stage'[p] \in {"connected", "migrating", "open", "serving"}
             PROVE  main'[ledger'[p]].exists
  BY DEF Connected
<1>1. Types /\ stage'[p] \in Holding
  BY DEF StateInv, Holding
<1> PICK d \in Ledgers : d = ledger[p]
  BY DEF StateInv, Types, ProcessTypes
<1>2. ledger'[p] = d
  BY <1>1, Came
<1>3. CASE Connect(p)
  <2>1. main \in [Ledgers -> Content]
    BY <1>1 DEF Types, FileTypes
  <2> QED
    BY <1>2, <1>3, <2>1, NoFileType DEF Connect
<1>4. CASE stage[p] \in {"connected", "migrating", "open", "serving"}
  <2>1. main[ledger[p]].exists /\ stage[p] \in Holding
    BY <1>4 DEF StateInv, Connected, Holding
  <2> QED
    BY <1>2, <2>1, HeldFiles
<1>5. Connect(p) \/ stage[p] \in {"connected", "migrating", "open", "serving"}
  BY <1>1, Came DEF BeginMigration, Migrate
<1> QED
  BY <1>3, <1>4, <1>5

LEMMA MigratingStep == StateInv /\ [Next]_vars => Migrating'
<1> SUFFICES ASSUME StateInv, [Next]_vars, NEW p \in Processes, stage'[p] = "migrating"
             PROVE  /\ writer'[ledger'[p]] = p
                    /\ version'[p] = SchemaVersion(Visible(ledger[p]))'
  BY DEF Migrating
<1>1. Types /\ Migrating /\ stage'[p] \in Holding
  BY DEF StateInv, Holding
<1> PICK d \in Ledgers : d = ledger[p]
  BY DEF StateInv, Types, ProcessTypes
<1>2. ledger'[p] = d
  BY <1>1, Came
<1>3. SUFFICES writer'[d] = p /\ version'[p] = SchemaVersion(Visible(d)')
  <2>1. Visible(ledger[p])' = Visible(d)'
    BY <1>2 DEF Visible
  <2> QED
    BY <1>2, <2>1, <1>3 DEF SchemaVersion
<1>4. CASE stage[p] = "migrating" /\ Stays(p)
  <2>1. writer[d] = p /\ version[p] = SchemaVersion(Visible(d)) /\ version'[p] = version[p]
    BY <1>1, <1>4 DEF Migrating, Stays
  <2>2. writer'[d] = p
    BY <1>1, <1>4, Writers
  <2>3. main[ledger[p]].exists /\ stage[p] \in Holding
    BY <1>4 DEF StateInv, Connected, Holding
  <2>4. Kept(d) \/ \E q \in Processes : Rewritten(d, q)
    BY <2>3, HeldFiles
  <2>5. ~ \E q \in Processes : Migrate(q) /\ ledger[q] = d /\ stage[q] = "migrating"
    <3> SUFFICES ASSUME NEW q \in Processes, Migrate(q), ledger[q] = d, stage[q] = "migrating"
                 PROVE  FALSE
      OBVIOUS
    <3>1. q = p
      BY <1>1, <2>1 DEF Migrating
    <3>2. stage'[p] = "open"
      BY <1>1, <3>1, Gone, StepNames DEF Migrate, Types
    <3> QED
      BY <3>2
  <2>6. SchemaVersion(Visible(d)') = SchemaVersion(Visible(d))
    BY <2>4, <2>5, Versions
  <2> QED
    BY <2>1, <2>2, <2>6
<1>5. CASE BeginMigration(p)
  <2>1. Goto(p, "migrating") \/ OpenFails(p)
    BY <1>5 DEF BeginMigration
  <2>2. ~OpenFails(p)
    BY <1>1, Gone, OpenFailed, StepNames DEF Types
  <2>3. /\ version' = [version EXCEPT ![p] = SchemaVersion(Visible(d))]
        /\ writer' = [writer EXCEPT ![d] = p] /\ UNCHANGED <<main, wal>>
    BY <1>5, <2>2 DEF BeginMigration
  <2>4. Visible(d)' = Visible(d)
    BY <2>3 DEF Visible
  <2>5. version \in [Processes -> Nat] /\ writer \in [Ledgers -> Processes \cup {Nobody}]
    BY <1>1 DEF Types, ProcessTypes, FileTypes
  <2>6. version'[p] = SchemaVersion(Visible(d))
    BY <2>3, <2>5
  <2>7. writer'[d] = p
    BY <2>3, <2>5
  <2> QED
    BY <2>4, <2>6, <2>7
<1> QED
  BY <1>1, <1>4, <1>5, Came

LEMMA UpToDateStep == StateInv /\ [Next]_vars => UpToDate'
<1> SUFFICES ASSUME StateInv, [Next]_vars, NEW p \in Processes, stage'[p] \in {"open", "serving"}
             PROVE  Build[p] <= SchemaVersion(Visible(ledger[p]))'
  BY DEF UpToDate
<1>1. Types /\ stage'[p] \in Holding /\ Build[p] \in Nat
  BY StateAssumption DEF StateInv, Holding
<1> PICK d \in Ledgers : d = ledger[p]
  BY DEF StateInv, Types, ProcessTypes
<1>2. ledger'[p] = d
  BY <1>1, Came
<1>3. SUFFICES Build[p] <= SchemaVersion(Visible(d)')
  <2>1. Visible(ledger[p])' = Visible(d)'
    BY <1>2 DEF Visible
  <2> QED
    BY <2>1, <1>3 DEF SchemaVersion
<1>4. CASE stage[p] \in {"open", "serving"}
  <2>1. main[ledger[p]].exists /\ stage[p] \in Holding /\ Build[p] <= SchemaVersion(Visible(d))
    BY <1>4 DEF StateInv, Connected, Holding, UpToDate
  <2>2. /\ SchemaVersion(Visible(d)) <= SchemaVersion(Visible(d)')
        /\ SchemaVersion(Visible(d)) \in Nat /\ SchemaVersion(Visible(d)') \in Nat
    BY <2>1, HeldFiles, Versions
  <2> QED
    BY <1>1, <2>1, <2>2
<1>5. CASE Migrate(p)
  <2>1. /\ stage[p] = "migrating" /\ version[p] = SchemaVersion(Visible(d)) /\ version[p] <= Build[p]
        /\ version[p] \in Nat
    BY <1>1, <1>5 DEF Migrate, StateInv, Migrating, Types, ProcessTypes
  <2>2. main[ledger[p]].exists /\ stage[p] \in Holding
    BY <2>1 DEF StateInv, Connected, Holding
  <2>3. Kept(d) \/ \E q \in Processes : Rewritten(d, q)
    BY <2>2, HeldFiles
  <2>4. \/ SchemaVersion(Visible(d)') = SchemaVersion(Visible(d))
        \/ \E q \in Processes : ledger[q] = d /\ stage[q] = "migrating"
                                /\ SchemaVersion(Visible(d)') = Build[q]
    BY <2>3, Versions
  <2>5. \A q \in Processes : ledger[q] = d /\ stage[q] = "migrating" => q = p
    BY <2>1 DEF StateInv, Migrating
  <2>6. CASE Migrations(version[p], Build[p]) = <<>>
    <3>1. Build[p] = version[p]
      BY <1>1, <2>1, <2>6, MigrationSeq
    <3> QED
      BY <1>1, <2>1, <2>3, <3>1, Versions
  <2>7. CASE Migrations(version[p], Build[p]) # <<>>
    <3> DEFINE file == [Visible(d) EXCEPT !.schema = @ \o Migrations(version[p], Build[p])]
    <3>1. Commit(d, file)
      BY <1>5, <2>7 DEF Migrate
    <3>2. Visible(d) \in Content /\ Visible(d).exists
      <4>1. Stores /\ main[d].exists
        BY <1>1, <2>2 DEF Types, FileTypes, Stores
      <4> QED
        BY <4>1, VisibleExists
    <3>3. file.exists /\ file.schema = Visible(d).schema \o Migrations(version[p], Build[p])
      BY <3>2 DEF Content
    <3> HIDE DEF file
    <3>4. Visible(d)' = file
      BY <1>1, <3>1, <3>3 DEF Types, FileTypes, Commit, Visible
    <3>5. PICK n \in Nat : Visible(d).schema = Migrations(0, n)
      BY DEF StateInv, WholeFiles, Whole, Visible
    <3>6. version[p] = n /\ Migrations(0, n) \o Migrations(n, Build[p]) = Migrations(0, Build[p])
      BY <1>1, <2>1, <3>5, WholeVersion, MigrationsJoin
    <3>7. file.schema = Migrations(0, Build[p])
      BY <3>3, <3>5, <3>6
    <3>8. SchemaVersion(file) = Build[p]
      BY <1>1, <3>7, WholeVersion
    <3> QED
      BY <1>1, <3>4, <3>8
  <2> QED
    BY <2>6, <2>7
<1> QED
  BY <1>1, <1>4, <1>5, Came

LEMMA LocksHoldStep == StateInv /\ [Next]_vars => LocksHold'
<1> SUFFICES ASSUME StateInv, [Next]_vars, NEW p \in Processes, stage'[p] \in Holding
             PROVE  ledger'[p] \notin Locked'
  BY DEF LocksHold
<1>1. Types /\ ledger'[p] = ledger[p]
  BY Came DEF StateInv
<1>2. stage[p] \in Holding \/ LockState(p)
  BY <1>1, Came DEF Holding, Connect, BeginMigration, Migrate
<1>3. ledger[p] \notin Locked
  BY <1>2 DEF StateInv, LocksHold, LockState
<1>4. CASE Locked' \subseteq Locked
  BY <1>1, <1>3, <1>4
<1>5. CASE /\ Locked' \subseteq Locked \cup {Target} /\ Holders(Target) = {}
           /\ UNCHANGED <<stage, ledger>>
  <2>1. ledger[p] # Target
    BY <1>5 DEF Holders
  <2> QED
    BY <1>1, <1>3, <1>5, <2>1
<1> QED
  BY <1>1, <1>4, <1>5, LockStep

\* Nobody can work on a ledger that a reset has locked.
LEMMA IdleStays ==
    ASSUME StateInv, [Next]_vars, NEW d \in Ledgers, d \in Locked, Idle(d)
    PROVE  Idle(d)'
<1>1. Changed(d)
  BY FileStep DEF StateInv
<1>2. \A p \in Processes : ~Rewritten(d, p)
  BY DEF StateInv, LocksHold, Rewritten, Holding
<1>3. CASE Kept(d)
  BY <1>3 DEF Kept, Idle
<1>4. CASE Absent(d)
  BY <1>4, NoFileType DEF Absent, Idle
<1>5. CASE Removed(d)
  BY <1>5 DEF Removed, Idle
<1> QED
  BY <1>1, <1>2, <1>3, <1>4, <1>5 DEF Changed

LEMMA InspectedStep == StateInv /\ [Next]_vars => Inspected'
<1> SUFFICES ASSUME StateInv, [Next]_vars PROVE Inspected'
  OBVIOUS
<1>1. Types /\ ResetTypes /\ Inspected
  BY DEF StateInv, Types
<1>2. CASE reset' = NoReset \/ reset'.step = "locking" \/ (reset'.step = "inspecting" /\ reset'.at = 1)
  BY <1>2 DEF Inspected, NoReset
<1>3. reset # NoReset => reset.targets[1] \in Ledgers /\ reset.targets[2] \in Ledgers
  BY <1>1, ResetFacts
<1>4. CASE UNCHANGED reset \/ (RemoveNext /\ reset'.step = "removing" /\ reset'.targets = reset.targets)
  <2>1. reset'.step = reset.step /\ reset'.targets = reset.targets
    BY <1>4 DEF RemoveNext
  <2>2. ASSUME reset'.step = "inspecting", reset'.at = 2 PROVE Idle(reset.targets[1])'
    <3>0. reset.step = "inspecting"
      BY <2>1, <2>2
    <3> reset # NoReset
      BY <3>0 DEF NoReset
    <3>1. PICK d \in Ledgers : d = reset.targets[1]
      BY <1>3
    <3>2. reset.at = 2 /\ d \in Locked
      BY <1>1, <1>4, <2>1, <2>2, <3>1, LockedFacts DEF RemoveNext
    <3>3. Idle(d)'
      BY <1>1, <2>1, <2>2, <3>1, <3>2, IdleStays DEF Inspected
    <3> QED
      BY <2>1, <3>1, <3>3 DEF Idle, Visible
  <2>3. ASSUME reset'.step = "removing" PROVE Idle(reset.targets[1])' /\ Idle(reset.targets[2])'
    <3>0. reset.step = "removing"
      BY <2>1, <2>3
    <3> reset # NoReset
      BY <3>0 DEF NoReset
    <3>1. PICK d \in Ledgers, e \in Ledgers : d = reset.targets[1] /\ e = reset.targets[2]
      BY <1>3
    <3>2. d \in Locked /\ e \in Locked
      BY <1>1, <2>1, <2>3, <3>1, LockedFacts
    <3>3. Idle(d)' /\ Idle(e)'
      BY <1>1, <2>1, <2>3, <3>1, <3>2, IdleStays DEF Inspected
    <3> QED
      BY <2>1, <3>1, <3>3 DEF Idle, Visible
  <2> QED
    BY <2>2, <2>3 DEF Inspected, Idle, Visible
<1>5. CASE InspectTarget /\ Idle(Target) /\ Advance("removing")
  <2>1. /\ UNCHANGED <<main, wal>> /\ reset # NoReset /\ reset.step = "inspecting"
        /\ Target = reset.targets[reset.at]
    BY <1>5 DEF InspectTarget, NoReset, Target, files
  <2>2. CASE reset.at = 1
    <3>1. reset'.step = "inspecting" /\ reset'.targets = reset.targets
      BY <1>1, <1>5, <2>1, <2>2, Advanced
    <3> QED
      BY <1>5, <2>1, <2>2, <3>1 DEF Inspected, Idle, Visible
  <2>3. CASE reset.at = 2
    <3>1. reset'.step = "removing" /\ reset'.targets = reset.targets
      BY <1>1, <1>5, <2>1, <2>3, Advanced
    <3> QED
      BY <1>1, <1>5, <2>1, <2>3, <3>1 DEF Inspected, Idle, Visible
  <2> QED
    BY <1>1, <2>1, <2>2, <2>3 DEF ResetTypes
<1>6. InspectTarget => reset' = NoReset \/ (Idle(Target) /\ Advance("removing"))
  BY DEF InspectTarget, Idle
<1>7. LockTarget => reset' = NoReset \/ reset'.step = "locking"
                    \/ (reset'.step = "inspecting" /\ reset'.at = 1)
  <2>1. LockTarget => reset # NoReset /\ reset.step = "locking"
    BY DEF LockTarget, NoReset
  <2> QED
    BY <1>1, <2>1, Advanced DEF LockTarget
<1>8. RemoveNext => UNCHANGED reset \/ reset' = NoReset
                    \/ (reset'.step = "removing" /\ reset'.targets = reset.targets)
  <2>1. RemoveNext => reset # NoReset /\ reset.step = "removing"
    BY DEF RemoveNext, NoReset
  <2> QED
    BY <1>1, <2>1, Advanced DEF RemoveNext
<1>9. StartReset => reset'.step = "locking"
  BY DEF StartReset
<1> QED
  BY <1>2, <1>4, <1>5, <1>6, <1>7, <1>8, <1>9, ResetOnly DEF Reset, KillReset

LEMMA CommitsStep == StateInv /\ [Next]_vars => CommitsSurvive'
<1> SUFFICES ASSUME StateInv, [Next]_vars, NEW d \in Ledgers, main'[d].exists
             PROVE  Visible(d)' = committed'[d]
  BY DEF CommitsSurvive
<1>1. Changed(d) /\ CommitsSurvive
  BY FileStep DEF StateInv
<1> QED
  BY <1>1 DEF Changed, Kept, Absent, Removed, Rewritten, CommitsSurvive

LEMMA InvStep == StateInv /\ [Next]_vars => StateInv'
<1> SUFFICES ASSUME StateInv, [Next]_vars PROVE StateInv'
  OBVIOUS
<1>1. Types' /\ WholeFiles' /\ Owned'
  BY TypesStep, FileStep, FleetStep DEF StateInv
<1> QED
  BY <1>1, ConnectedStep, MigratingStep, UpToDateStep, LocksHoldStep, InspectedStep, CommitsStep
  DEF StateInv

LEMMA Invariance == Spec => []StateInv
  BY InvInit, InvStep, PTL DEF Spec

--------------------------------------------------------------------------------
\* The properties.

(* The stores of the state directory keep their types: files, processes,   *)
(* the fleet's lock and manifest, and the reset, whose targets are the     *)
(* ledger that the configuration named and the unscoped one.  (The counts  *)
(* that bound the model are left out.)                                     *)
THEOREM StoresTyped == Spec => []Types
<1>1. StateInv => Types
  BY DEF StateInv
<1> QED
  BY <1>1, Invariance, PTL

(* A ledger that exists shows every transaction since its creation, though *)
(* processes die in the middle of a migration, of a checkpoint or of a     *)
(* reset: Ledger::open, migrate and remove_database_files lose none.       *)
THEOREM NoCommitIsLost == Spec => []CommitsSurvive
<1>1. StateInv => CommitsSurvive
  BY DEF StateInv
<1> QED
  BY <1>1, Invariance, PTL

(* Whatever builds open a ledger together, each migration is applied once  *)
(* and in order, and who works on a ledger finds at least the schema of    *)
(* its own build (migrate reads the version inside its transaction).       *)
THEOREM MigrationsApplyOnce == Spec => []SchemaIsWhole
<1>1. StateInv => SchemaIsWhole
  <2> SUFFICES ASSUME StateInv PROVE SchemaIsWhole
    OBVIOUS
  <2>1. ASSUME NEW d \in Ledgers
        PROVE  Visible(d).schema = Migrations(0, Len(Visible(d).schema))
    <3>1. PICK n \in Nat : Visible(d).schema = Migrations(0, n)
      BY DEF StateInv, WholeFiles, Whole, Visible
    <3> QED
      BY <3>1, WholeVersion
  <2> QED
    BY <2>1 DEF StateInv, UpToDate, SchemaIsWhole
<1> QED
  BY <1>1, Invariance, PTL

(* A reset never takes a ledger from somebody who has it open, and removes *)
(* nothing unless every target it inspected was idle and still is.         *)
THEOREM ResetsSpareWork == Spec => ResetSparesWork
<1>1. ASSUME StateInv, [Next]_vars, NEW d \in Ledgers, main[d].exists, ~main'[d].exists
      PROVE  /\ Holders(d) = {}
             /\ \A i \in DOMAIN reset.targets :
                   main[reset.targets[i]].exists => ~Visible(reset.targets[i]).work
  <2>1. Removed(d)
    BY <1>1, FileStep DEF StateInv, Changed, Kept, Absent, Rewritten
  <2>2. ResetTypes /\ reset # NoReset /\ reset.step = "removing" /\ d = Target
    <3>1. reset.step = "removing" /\ d = Target
      BY <2>1 DEF Removed
    <3>2. reset # NoReset
      BY <3>1 DEF NoReset
    <3> QED
      BY <1>1, <3>1, <3>2 DEF StateInv, Types
  <2>3. DOMAIN reset.targets = {1, 2} /\ Target \in {reset.targets[1], reset.targets[2]}
    BY <1>1, <2>2, ResetFacts DEF Target, ResetTypes
  <2>4. d \in Locked
    BY <2>2, <2>3, LockedFacts
  <2>5. Holders(d) = {}
    BY <1>1, <2>4 DEF StateInv, LocksHold, Holders
  <2> QED
    BY <1>1, <2>2, <2>3, <2>5 DEF StateInv, Inspected, Idle
<1>2. StateInv /\ [Next]_vars =>
      [\A d \in Ledgers : main[d].exists /\ ~main'[d].exists =>
          /\ Holders(d) = {}
          /\ \A i \in DOMAIN reset.targets :
                main[reset.targets[i]].exists =>
                    ~Visible(reset.targets[i]).work]_vars
  BY <1>1
<1> QED
  BY <1>2, Invariance, PTL DEF Spec, ResetSparesWork

(* While a supervisor is at work, a command resolves the very ledger it    *)
(* uses, however the configuration was edited since; when none runs, the   *)
(* manifest of one that was killed misleads nobody, even if its process id *)
(* lives again.                                                            *)
THEOREM CommandsResolveTheLedger == Spec => []CommandsFindTheLedger
<1>1. StateInv => CommandsFindTheLedger
  <2> SUFFICES ASSUME StateInv PROVE CommandsFindTheLedger
    OBVIOUS
  <2>1. Owned /\ Types /\ Nobody \notin Supervisors
    BY StateAssumption DEF StateInv, Processes
  <2>2. ASSUME NEW s \in Supervisors, stage[s] \in Serving PROVE Resolved = ledger[s]
    <3>1. manifest = [pid |-> s, birth |-> births[s], ledger |-> ledger[s]]
      BY <2>1, <2>2 DEF Owned
    <3>2. manifest # NoManifest
      BY <2>1, <3>1 DEF NoManifest
    <3>3. stage[manifest.pid] # "none" /\ births[manifest.pid] = manifest.birth
      BY <2>2, <3>1, StepKinds
    <3> QED
      BY <3>1, <3>2, <3>3 DEF Resolved, Active
  <2>3. ASSUME \A s \in Supervisors : stage[s] \in {"none", "stranger"} PROVE Resolved = config
    <3> SUFFICES ASSUME Active PROVE FALSE
      BY DEF Resolved
    <3>1. /\ manifest.pid \in Supervisors /\ stage[manifest.pid] = "stranger"
          /\ manifest.birth < births[manifest.pid] /\ births[manifest.pid] = manifest.birth
      BY <2>1, <2>3 DEF Active, Owned
    <3> QED
      BY <2>1, <3>1 DEF Types, ProcessTypes
  <2> QED
    BY <2>2, <2>3 DEF CommandsFindTheLedger, Serving
<1> QED
  BY <1>1, Invariance, PTL

================================================================================
