--------------------------- MODULE StorageProofs ----------------------------
(***************************************************************************)
(* Theorems on what is kept: backups and their verification, the database  *)
(* that server processes migrate when they start, the files of a release   *)
(* and the generated configuration files; for any number of processes,     *)
(* builds and files.                                                       *)
(***************************************************************************)
EXTENDS BackupRestore, Startup, ReleaseBuild, ConfigFiles, TLAPS

-----------------------------------------------------------------------------
(* BackupRestore *)

Tables == [boxes : [Box -> State], hold : Hold]

Artifact == [stored : BOOLEAN, boxes : [Box -> State], policy : Tables, withPolicy : BOOLEAN]

CheckRecord ==
    [pc : {"idle", "read", "migrated", "written", "restored", "verified", "failed", "done"},
     engine : {"local"} \union Engine, art : Artifact, restored : Tables, verified : BOOLEAN]

BackupType ==
    /\ live \in Tables
    /\ artifact \in Artifact
    /\ target \in [state : {"empty", "migrated", "restored"}, content : Tables, restores : {0, 1}]
    /\ checks \in [Verification -> CheckRecord]
    /\ rows \in [Verification -> {"none", "verified", "failed"}]
    /\ snapshots \subseteq Verification

\* The isolated database belongs to the one verification that found it empty.
TargetIsOwn ==
    /\ target.restores = 1 => target.state = "restored"
    /\ \A v, w \in Verification :
          checks[v].pc \in {"migrated", "written"} /\ checks[w].pc \in {"migrated", "written"} => v = w
    /\ \A v \in Verification :
          /\ checks[v].pc \in {"migrated", "written"} => checks[v].engine = "sql"
          /\ checks[v].pc = "migrated" => target.state = "migrated"
          /\ checks[v].pc = "written" =>
                target.state = "restored" /\ target.content = Content(checks[v].art)

\* What a verification shows for its artifact.
Earned(v) ==
    /\ \A x \in Present(checks[v].art.boxes) : Content(checks[v].art).boxes[x] = "on"
    /\ checks[v].art.withPolicy =>
          checks[v].restored = checks[v].art.policy /\ checks[v].engine = "sql"

\* What is restored is the content of the artifact, from the isolated database
\* when it has been verified there and from memory when not.
RestoredIsContent(v) ==
    IF checks[v].verified
    THEN checks[v].restored = Content(checks[v].art) /\ checks[v].engine = "sql"
    ELSE checks[v].restored.boxes = checks[v].art.boxes

VerdictsAreEarned ==
    \A v \in Verification :
        /\ checks[v].pc \in {"read", "migrated", "written"} => ~checks[v].verified
        /\ checks[v].pc = "restored" => RestoredIsContent(v)
        /\ checks[v].pc = "verified" => Earned(v)
        /\ rows[v] = "verified" => checks[v].pc = "done" /\ Earned(v)

BackupInv == BackupType /\ TargetIsOwn /\ VerdictsAreEarned

\* The content of an artifact is its policy, or its directory.
LEMMA ContentOf ==
    ASSUME NEW art \in Artifact
    PROVE  /\ Content(art) \in Tables
           /\ art.withPolicy => Content(art) = art.policy
           /\ ~art.withPolicy => Content(art).boxes = art.boxes
BY Zenon DEF Content, DirectoryOf, Artifact, Tables, Hold

\* A step of one verification that leaves the isolated database alone.
LEMMA CheckStep ==
    ASSUME BackupInv, NEW v \in Verification, NEW c \in CheckRecord,
           checks' = [checks EXCEPT ![v] = c],
           c.pc \notin {"idle", "migrated", "written", "done"}, checks[v].pc # "done",
           c.pc = "read" => ~c.verified,
           c.pc = "restored" => RestoredIsContent(v)',
           c.pc = "verified" => Earned(v)',
           UNCHANGED <<live, artifact, target, rows, snapshots, changes>>
    PROVE  BackupInv'
<1>1. BackupType'
  BY Zenon DEF BackupInv, BackupType
<1>2. checks'[v] = c /\ \A w \in Verification \ {v} : checks'[w] = checks[w]
  BY Zenon DEF BackupInv, BackupType
<1>3. TargetIsOwn'
  BY <1>2, Zenon DEF BackupInv, TargetIsOwn
<1>4. VerdictsAreEarned'
  BY <1>2 DEF BackupInv, VerdictsAreEarned, RestoredIsContent, Earned
<1>5. QED
  BY <1>1, <1>3, <1>4, Zenon DEF BackupInv

\* The steps of a verification.
LEMMA VerificationStep ==
    ASSUME BackupInv, NEW v \in Verification,
           \/ \E e \in Engine : ReadBackup(v, e)
           \/ RestoreLocally(v) \/ MigrateEmptySQL(v) \/ restoreArtifactToSQL(v)
           \/ VerifyBackupState(v) \/ VerifyBackupWithRestore(v) \/ FailCheck(v) \/ Record(v)
    PROVE  BackupInv'
<1> USE DEF BackupInv
<1>1. checks[v] \in CheckRecord /\ checks[v].art \in Artifact /\ target.content \in Tables
  BY Zenon DEF BackupType, CheckRecord
<1>2. /\ Content(checks[v].art) \in Tables
      /\ checks[v].art.withPolicy => Content(checks[v].art) = checks[v].art.policy
      /\ ~checks[v].art.withPolicy => Content(checks[v].art).boxes = checks[v].art.boxes
  BY <1>1, ContentOf, Zenon
<1>3. ASSUME NEW e \in Engine, ReadBackup(v, e)
     PROVE  BackupInv'
  <2> DEFINE c == [pc |-> IF Present(artifact.boxes) = {} THEN "failed" ELSE "read",
                   engine |-> e, art |-> artifact, restored |-> Nothing, verified |-> FALSE]
  <2>1. Nothing \in Tables
    BY Zenon DEF Nothing, Tables, State, Hold
  <2>2. c \in CheckRecord
    BY <2>1, Zenon DEF CheckRecord, BackupType
  <2>3. c.pc \in {"failed", "read"} /\ c.verified = FALSE /\ checks' = [checks EXCEPT ![v] = c]
    BY <1>3, Zenon DEF ReadBackup
  <2>4. /\ checks[v].pc # "done"
        /\ UNCHANGED <<live, artifact, target, rows, snapshots, changes>>
    BY <1>3, Zenon DEF ReadBackup, CheckAt
  <2> HIDE DEF c
  <2>5. QED
    BY <2>2, <2>3, <2>4, CheckStep, Zenon
<1>4. CASE RestoreLocally(v)
  <2> DEFINE old == checks[v]
             c == [pc |-> "restored", engine |-> old.engine, art |-> old.art,
                   restored |-> [boxes |-> old.art.boxes, hold |-> "none"], verified |-> FALSE]
  <2>1. checks' = [checks EXCEPT ![v] = c]
    BY <1>4, Zenon DEF RestoreLocally, Compared, DirectoryOf
  <2>2. c \in CheckRecord
    BY <1>1, Zenon DEF CheckRecord, Tables, Artifact, Hold
  <2>3. checks'[v] = c
    BY <2>1, Zenon DEF BackupType
  <2>4. checks[v].pc = "read" /\ ~checks[v].verified
        /\ UNCHANGED <<live, artifact, target, rows, snapshots, changes>>
    BY <1>4, Zenon DEF RestoreLocally, CheckAt, VerdictsAreEarned
  <2>5. RestoredIsContent(v)'
    BY <2>3, <2>4 DEF RestoredIsContent
  <2>6. c.pc = "restored"
    BY Zenon
  <2> HIDE DEF c
  <2>7. QED
    BY <2>1, <2>2, <2>4, <2>5, <2>6, CheckStep, Zenon
<1>5. CASE VerifyBackupState(v)
  <2> DEFINE old == checks[v]
             c == [pc |-> IF old.art.withPolicy => target.content = old.art.policy
                          THEN "restored" ELSE "failed",
                   engine |-> old.engine, art |-> old.art, restored |-> target.content,
                   verified |-> TRUE]
  <2>1. checks' = [checks EXCEPT ![v] = c]
    BY <1>5, Zenon DEF VerifyBackupState, Compared
  <2>2. c \in CheckRecord
    BY <1>1, Zenon DEF CheckRecord
  <2>3. checks'[v] = c
    BY <2>1, Zenon DEF BackupType
  <2>4. checks[v].pc = "written" /\ UNCHANGED <<live, artifact, target, rows, snapshots, changes>>
    BY <1>5, Zenon DEF VerifyBackupState, CheckAt
  <2>5. RestoredIsContent(v)'
    BY <2>3, <2>4 DEF RestoredIsContent, TargetIsOwn
  <2>6. c.pc \in {"restored", "failed"}
    BY Zenon
  <2> HIDE DEF c
  <2>7. QED
    BY <2>1, <2>2, <2>4, <2>5, <2>6, CheckStep, Zenon
<1>6. ASSUME NEW pc \in {"verified", "failed"}, Proceed(v, pc), checks[v].pc # "done",
             pc = "verified" => Earned(v),
             UNCHANGED <<live, artifact, target, rows, snapshots, changes>>
     PROVE  BackupInv'
  <2> DEFINE c == [checks[v] EXCEPT !.pc = pc]
  <2>1. checks' = [checks EXCEPT ![v] = c]
    BY <1>6, Zenon DEF Proceed
  <2>2. c \in CheckRecord /\ c.pc = pc /\ c.art = checks[v].art /\ c.restored = checks[v].restored
        /\ c.engine = checks[v].engine
    BY <1>1, Zenon DEF CheckRecord
  <2>3. checks'[v] = c
    BY <2>1, Zenon DEF BackupType
  <2> HIDE DEF c
  <2>4. pc = "verified" => Earned(v)'
    BY <1>6, <2>2, <2>3, Zenon DEF Earned
  <2>5. QED
    BY <1>6, <2>1, <2>2, <2>4, CheckStep, Zenon
<1>7. CASE VerifyBackupWithRestore(v)
  <2>1. RestoredIsContent(v)
    BY <1>7, Zenon DEF VerifyBackupWithRestore, CheckAt, VerdictsAreEarned
  <2>2. PolicyVerified(v) /\ Contract(v) => Earned(v)
    BY <1>2, <2>1, Zenon DEF PolicyVerified, Contract, Earned, RestoredIsContent
  <2>3. QED
    BY <1>6, <1>7, <2>2, Zenon DEF VerifyBackupWithRestore, CheckAt
<1>8. CASE FailCheck(v)
  BY <1>6, <1>8, Zenon DEF FailCheck
<1>9. CASE MigrateEmptySQL(v)
  <2>1. CASE target.state # "empty"
    BY <1>6, <1>9, <2>1, Zenon DEF MigrateEmptySQL, CheckAt
  <2>2. CASE target.state = "empty"
    <3> DEFINE c == [checks[v] EXCEPT !.pc = "migrated"]
    <3>1. checks' = [checks EXCEPT ![v] = c] /\ checks[v].pc = "read" /\ checks[v].engine = "sql"
          /\ target' = [target EXCEPT !.state = "migrated"]
          /\ UNCHANGED <<live, artifact, rows, snapshots, changes>>
      BY <1>9, <2>2, Zenon DEF MigrateEmptySQL, Proceed, CheckAt
    <3>2. c \in CheckRecord /\ c.pc = "migrated" /\ c.engine = "sql"
          /\ c.verified = checks[v].verified
      BY <1>1, <3>1, Zenon DEF CheckRecord
    <3>3. checks'[v] = c /\ \A w \in Verification \ {v} : checks'[w] = checks[w]
      BY <3>1, Zenon DEF BackupType
    <3> HIDE DEF c
    <3>4. \A w \in Verification : checks[w].pc \notin {"migrated", "written"}
      BY <2>2, Zenon DEF TargetIsOwn
    <3>5. BackupType'
      BY <3>1, <3>2, Zenon DEF BackupType
    <3>6. TargetIsOwn'
      BY <2>2, <3>1, <3>2, <3>3, <3>4 DEF TargetIsOwn, BackupType
    <3>7. VerdictsAreEarned'
      BY <3>1, <3>2, <3>3 DEF VerdictsAreEarned, RestoredIsContent, Earned
    <3>8. QED
      BY <3>5, <3>6, <3>7, Zenon
  <2>3. QED
    BY <2>1, <2>2, Zenon
<1>10. CASE restoreArtifactToSQL(v)
  <2> DEFINE c == [checks[v] EXCEPT !.pc = "written"]
             t == [state |-> "restored", content |-> Content(checks[v].art),
                   restores |-> target.restores + 1]
  <2>1. checks' = [checks EXCEPT ![v] = c] /\ checks[v].pc = "migrated"
        /\ UNCHANGED <<live, artifact, rows, snapshots, changes>>
    BY <1>10, Zenon DEF restoreArtifactToSQL, Proceed, CheckAt
  <2>2. c \in CheckRecord /\ c.pc = "written" /\ c.engine = checks[v].engine
        /\ c.art = checks[v].art /\ c.verified = checks[v].verified
    BY <1>1, Zenon DEF CheckRecord
  <2>3. checks'[v] = c /\ \A w \in Verification \ {v} : checks'[w] = checks[w]
    BY <2>1, Zenon DEF BackupType
  <2>4. target.state = "migrated" /\ target.restores = 0
        /\ \A w \in Verification \ {v} : checks[w].pc \notin {"migrated", "written"}
    BY <2>1, Zenon DEF TargetIsOwn, BackupType
  <2>5. target' = t
    BY <1>10, Zenon DEF restoreArtifactToSQL, BackupType
  <2>6. /\ target' \in [state : {"empty", "migrated", "restored"}, content : Tables,
                        restores : {0, 1}]
        /\ target'.state = "restored" /\ target'.content = Content(checks[v].art)
    BY <1>2, <2>4, <2>5
  <2> HIDE DEF c, t
  <2>7. BackupType'
    BY <2>1, <2>2, <2>6, Zenon DEF BackupType
  <2>8. TargetIsOwn'
    BY <2>1, <2>2, <2>3, <2>4, <2>6 DEF TargetIsOwn
  <2>9. VerdictsAreEarned'
    BY <2>1, <2>2, <2>3 DEF VerdictsAreEarned, RestoredIsContent, Earned
  <2>10. QED
    BY <2>7, <2>8, <2>9
<1>11. CASE Record(v)
  <2> DEFINE c == [checks[v] EXCEPT !.pc = "done"]
  <2>1. checks' = [checks EXCEPT ![v] = c] /\ checks[v].pc \in {"verified", "failed"}
        /\ UNCHANGED <<live, artifact, target, snapshots, changes>>
    BY <1>11, Zenon DEF Record, Proceed
  <2>2. c \in CheckRecord /\ c.pc = "done" /\ c.engine = checks[v].engine
        /\ c.art = checks[v].art /\ c.restored = checks[v].restored
    BY <1>1, Zenon DEF CheckRecord
  <2>3. checks'[v] = c /\ \A w \in Verification \ {v} : checks'[w] = checks[w]
    BY <2>1, Zenon DEF BackupType
  <2> HIDE DEF c
  <2>4. /\ rows' \in [Verification -> {"none", "verified", "failed"}]
        /\ rows'[v] = "verified" => checks[v].pc = "verified"
        /\ \A w \in Verification \ {v} : rows'[w] = rows[w]
    BY <1>11, <2>1, Zenon DEF Record, BackupType
  <2>5. BackupType'
    BY <2>1, <2>2, <2>4, Zenon DEF BackupType
  <2>6. TargetIsOwn'
    BY <2>1, <2>2, <2>3 DEF TargetIsOwn
  <2>7. VerdictsAreEarned'
    <3>1. checks[v].pc = "verified" => Earned(v)'
      BY <2>2, <2>3 DEF VerdictsAreEarned, Earned
    <3>2. QED
      BY <2>1, <2>2, <2>3, <2>4, <3>1 DEF VerdictsAreEarned, RestoredIsContent, Earned
  <2>8. QED
    BY <2>5, <2>6, <2>7
<1>12. QED
  BY <1>3, <1>4, <1>5, <1>7, <1>8, <1>9, <1>10, <1>11, Zenon

\* A rollback is said to be possible only when the artifact behind it has been
\* restored and accepted, and an isolated database is restored into once,
\* however many verifications run at once and wherever they fail.
THEOREM VerificationsAreSound == BackupSpec => []VerificationIsSound
<1> USE DEF BackupInv
<1>1. BackupInit => BackupInv
  <2> SUFFICES ASSUME BackupInit
               PROVE  BackupInv
    BY Zenon
  <2>1. Nothing \in Tables /\ Nothing.boxes \in [Box -> State]
    BY Zenon DEF Nothing, Tables, State, Hold
  <2>2. artifact \in Artifact /\ live \in Tables
    BY <2>1 DEF BackupInit, Artifact, Tables, State, Hold
  <2>3. BackupType
    BY <2>1, <2>2, Zenon DEF BackupInit, BackupType, CheckRecord
  <2>4. TargetIsOwn /\ VerdictsAreEarned
    BY DEF BackupInit, TargetIsOwn, VerdictsAreEarned
  <2>5. QED
    BY <2>3, <2>4, Zenon
<1>2. BackupInv /\ [BackupNext]_backupVars => BackupInv'
  <2> SUFFICES ASSUME BackupInv, [BackupNext]_backupVars
               PROVE  BackupInv'
    BY Zenon
  <2>1. ASSUME live' \in Tables, artifact' \in Artifact, snapshots' \subseteq Verification,
               UNCHANGED <<target, checks, rows>>
       PROVE  BackupInv'
    BY <2>1 DEF BackupType, TargetIsOwn, VerdictsAreEarned, RestoredIsContent, Earned
  <2>2. CASE Change
    <3>1. live' \in Tables
      BY <2>2 DEF Change, BackupType, Tables, State, Hold
    <3>2. QED
      BY <2>1, <2>2, <3>1, Zenon DEF Change, BackupType
  <2>3. CASE CaptureDirectory
    <3>1. artifact' \in Artifact
      BY <2>3, Zenon DEF CaptureDirectory, BackupType, Artifact, Tables, Nothing, State, Hold
    <3>2. QED
      BY <2>1, <2>3, <3>1, Zenon DEF CaptureDirectory, BackupType
  <2>4. CASE CapturePolicy
    <3>1. artifact' \in Artifact
      BY <2>4, Zenon DEF CapturePolicy, BackupType, Artifact
    <3>2. QED
      BY <2>1, <2>4, <3>1, Zenon DEF CapturePolicy, BackupType
  <2>5. ASSUME NEW v \in Verification, CaptureSnapshot(v)
       PROVE  BackupInv'
    BY <2>1, <2>5, Zenon DEF CaptureSnapshot, BackupType
  <2>6. CASE UNCHANGED backupVars
    BY <2>1, <2>6, Zenon DEF backupVars, BackupType
  <2>7. QED
    BY <2>2, <2>3, <2>4, <2>5, <2>6, VerificationStep, Zenon DEF BackupNext
<1>3. BackupInv => VerificationIsSound
  <2> SUFFICES ASSUME BackupInv
               PROVE  VerificationIsSound
    BY Zenon
  <2>1. GuidanceIsEarned
    BY Zenon DEF GuidanceIsEarned, RollbackGuidance, BackupType, VerdictsAreEarned, Earned
  <2>2. RestoredOnce
    BY DEF RestoredOnce, BackupType
  <2>3. QED
    BY <2>1, <2>2, Zenon DEF VerificationIsSound
<1>4. QED
  BY <1>1, <1>2, <1>3, PTL DEF BackupSpec

-----------------------------------------------------------------------------
(* Startup: the migrations *)

Working(p) == servers[p].pc \in {"read", "apply"}

\* Why a start fails; not because of an upgrade that is there.
Why == {"none", "the tables exist", "the ledger does not fit", "the answer was lost",
        "no such domain", "not serializable", "bound to something else"}

ServerRecord ==
    [pc : {"down", "create", "lock", "waiting", "read", "apply", "bind", "insert", "up", "failed"},
     rows : SUBSET Row, wrote : SUBSET Version, next : Nat \ {0}, saw : SUBSET Sender,
     why : Why]

StartupType ==
    /\ created \in BOOLEAN
    /\ ledger \subseteq Row
    /\ effects \in [Version -> Nat]
    /\ senders \subseteq Sender
    /\ servers \in [Server -> ServerRecord]
    /\ \A p \in Server : servers[p].pc = "insert" => servers[p].next <= Len(Senders[p])

\* The tables are being created by one transaction before they are there, and
\* read and changed by the one that holds the lock once they are.
OneWorks ==
    /\ \A p \in Server : Working(p) => IF created THEN holder = p ELSE creator = p
    /\ \A p \in Server : servers[p].pc \in {"lock", "waiting", "bind", "insert", "up"} => created
    /\ created => creator = Nobody
    /\ ~created => ledger = {}

\* What the transaction of a start has read and written, beside the ledger.
Transaction(p) ==
    /\ ~Working(p) => servers[p].wrote = {}
    /\ servers[p].pc = "read" /\ created => servers[p].wrote = {}
    /\ servers[p].pc = "read" /\ ~created =>
          servers[p].wrote = Base /\ servers[p].rows = {Sound(v) : v \in Base}
    /\ servers[p].pc = "apply" =>
          /\ ledger \subseteq servers[p].rows
          /\ Versions(servers[p].rows) = Versions(ledger) \union servers[p].wrote
          /\ Versions(ledger) \cap servers[p].wrote = {}
          /\ Base \subseteq Versions(servers[p].rows)
          /\ \A r \in servers[p].rows : validateMigrationLedgerRow(r)

MigrationInv ==
    /\ StartupType
    /\ OneWorks
    /\ \A p \in Server : Transaction(p)
    /\ LedgerTellsTheSchema
    /\ UpToDateWhenUp
    /\ UpgradesNeverCollide

\* A start that is outside its transaction, or leaves it: the others keep what
\* they hold.
Leaves(p) ==
    /\ servers' \in [Server -> ServerRecord]
    /\ \A q \in Server : q # p => servers'[q] = servers[q]
    /\ servers'[p].pc \notin {"read", "apply"} /\ servers'[p].wrote = {}
    /\ servers'[p].pc \in {"lock", "waiting"} => created
    /\ servers'[p].pc \in {"bind", "insert", "up"} => servers[p].pc \in {"bind", "insert", "up"}
    /\ servers'[p].pc = "insert" => servers'[p].next <= Len(Senders[p])
    /\ senders' \subseteq Sender
    /\ creator' = creator \/ (creator = p /\ creator' = Nobody)
    /\ holder' = holder \/ (holder = p /\ holder' = Nobody)
    /\ UNCHANGED <<created, ledger, effects>>

\* Such a step disturbs nobody.
LEMMA LeavesStep ==
    ASSUME MigrationInv, NEW p \in Server, Leaves(p)
    PROVE  MigrationInv'
<1> USE DEF MigrationInv, Leaves
<1>1. StartupType'
  BY Zenon DEF StartupType
<1>2. OneWorks'
  BY Zenon DEF OneWorks, Working
<1>3. \A q \in Server : Transaction(q)'
  BY Zenon DEF Transaction, Working
<1>4. LedgerTellsTheSchema'
  BY Zenon DEF LedgerTellsTheSchema
<1>5. UpToDateWhenUp'
  BY Zenon DEF UpToDateWhenUp, Known
<1>6. UpgradesNeverCollide'
  BY Zenon DEF UpgradesNeverCollide, ServerRecord, Why
<1>7. QED
  BY <1>1, <1>2, <1>3, <1>4, <1>5, <1>6, Zenon

\* A start that fails.
LEMMA FailStep ==
    ASSUME MigrationInv, NEW p \in Server, NEW why \in Why, Fail(p, why)
    PROVE  MigrationInv'
<1> DEFINE r == Outside("failed", 1, why)
<1>1. r \in ServerRecord
  BY DEF Outside, ServerRecord
<1>2. r.pc = "failed" /\ r.wrote = {} /\ r.why = why
  BY Zenon DEF Outside
<1>3. servers \in [Server -> ServerRecord] /\ servers' = [servers EXCEPT ![p] = r]
      /\ senders' \subseteq Sender
  BY Zenon DEF MigrationInv, StartupType, Fail
<1> HIDE DEF r
<1>4. Leaves(p)
  BY <1>1, <1>2, <1>3, Zenon DEF Leaves, Fail, Rollback
<1>5. QED
  BY <1>4, LeavesStep, Zenon

\* What a start binds is one of the configured senders.
LEMMA BindingIsSender ==
    ASSUME StartupType, NEW p \in Server, servers[p].pc = "insert"
    PROVE  Binding(p) \in Sender
<1>1. servers[p].next \in 1..Len(Senders[p])
  BY StartupAssumption DEF StartupType, ServerRecord
<1>2. QED
  BY <1>1 DEF Sender, Binding

\* The steps that end or precede a transaction.
LEMMA OutsideStep ==
    ASSUME MigrationInv, NEW p \in Server,
           LookForLedger(p) \/ CreateTooLate(p) \/ AskForLock(p) \/ BeginBind(p) \/ CommitBind(p)
           \/ Serve(p) \/ Restart(p) \/ Die(p)
    PROVE  MigrationInv'
<1> USE DEF MigrationInv, StartupType
<1>1. /\ servers[p] \in ServerRecord
      /\ "none" \in Why
      /\ servers[p].pc \notin {"read", "apply"} => servers[p].wrote = {}
  BY Zenon DEF Transaction, Working, Why
<1>2. CASE LookForLedger(p)
  <2>1. Leaves(p)
    BY <1>1, <1>2, Zenon DEF LookForLedger, GoTo, Leaves, ServerRecord
  <2>2. QED
    BY <2>1, LeavesStep, Zenon
<1>3. CASE CreateTooLate(p)
  BY <1>3, FailStep, Zenon DEF CreateTooLate, Why
<1>4. CASE AskForLock(p)
  <2>1. Leaves(p)
    BY <1>1, <1>4, Zenon DEF AskForLock, GoTo, Leaves, ServerRecord, OneWorks
  <2>2. QED
    BY <2>1, LeavesStep
<1>5. CASE BeginBind(p)
  <2>1. CASE hosted
    <3>1. Rivals(Binding(p), senders) \in SUBSET Sender
      BY Zenon DEF Rivals
    <3> DEFINE seen == Rivals(Binding(p), senders)
    <3>2. servers' = [servers EXCEPT ![p].pc = "insert", ![p].saw = seen]
      BY <1>5, <2>1, Zenon DEF BeginBind
    <3> HIDE DEF seen
    <3>3. servers' \in [Server -> ServerRecord]
      BY <1>1, <3>1, <3>2, Zenon DEF ServerRecord, seen
    <3>4. servers'[p].pc = "insert" /\ servers'[p].wrote = {} /\ servers'[p].next = servers[p].next
      BY <1>1, <1>5, <3>2, Zenon DEF ServerRecord, BeginBind
    <3>5. Leaves(p)
      BY <1>5, <2>1, <3>2, <3>3, <3>4, Zenon DEF BeginBind, Leaves
    <3>6. QED
      BY <3>5, LeavesStep
  <2>2. CASE ~hosted
    BY <1>5, <2>2, FailStep, Zenon DEF BeginBind, Why
  <2>3. QED
    BY <2>1, <2>2, Zenon
<1>6. CASE CommitBind(p)
  <2>1. ASSUME servers' = [servers EXCEPT ![p] = Outside("bind", servers[p].next + 1, "none")],
               senders' = senders \union {Binding(p)},
               servers[p].pc = "insert", UNCHANGED <<created, ledger, effects, creator, holder>>
       PROVE  MigrationInv'
    <3>1. Binding(p) \in Sender
      BY <2>1, BindingIsSender, Zenon
    <3>2. Leaves(p)
      BY <1>1, <2>1, <3>1 DEF Leaves, ServerRecord, Outside
    <3>3. QED
      BY <3>2, LeavesStep
  <2>2. QED
    BY <1>6, <2>1, FailStep, Zenon DEF CommitBind, Why
<1>7. CASE Serve(p)
  <2>1. Leaves(p)
    BY <1>1, <1>7 DEF Serve, Leaves, ServerRecord, Outside
  <2>2. QED
    BY <2>1, LeavesStep
<1>8. CASE Restart(p) \/ Die(p)
  <2>1. CASE Restart(p)
    <3>1. Leaves(p)
      BY <1>1, <2>1 DEF Restart, Leaves, ServerRecord, Down, Outside
    <3>2. QED
      BY <3>1, LeavesStep
  <2>2. CASE Die(p)
    <3>1. Leaves(p)
      BY <1>1, <2>2 DEF Die, Rollback, Leaves, ServerRecord, Down, Outside
    <3>2. QED
      BY <3>1, LeavesStep
  <2>3. QED
    BY <1>8, <2>1, <2>2, Zenon
<1>9. QED
  BY <1>2, <1>3, <1>4, <1>5, <1>6, <1>7, <1>8, Zenon

\* A step of a transaction that leaves the tables alone.
Works(p) ==
    /\ servers' \in [Server -> ServerRecord]
    /\ \A q \in Server : q # p => servers'[q] = servers[q]
    /\ servers'[p].pc \in {"read", "apply"}
    /\ UNCHANGED <<created, ledger, effects, senders>>

\* Such a step has to keep only the order of the transactions and its own view.
LEMMA WorksStep ==
    ASSUME MigrationInv, NEW p \in Server, Works(p), OneWorks', Transaction(p)'
    PROVE  MigrationInv'
<1> USE DEF MigrationInv, Works
<1>1. StartupType'
  BY Zenon DEF StartupType
<1>2. \A q \in Server : Transaction(q)'
  BY Zenon DEF Transaction, Working
<1>3. LedgerTellsTheSchema'
  BY Zenon DEF LedgerTellsTheSchema
<1>4. UpToDateWhenUp'
  BY Zenon DEF UpToDateWhenUp, Known
<1>5. UpgradesNeverCollide'
  BY Zenon DEF UpgradesNeverCollide, ServerRecord, Why
<1>6. QED
  BY <1>1, <1>2, <1>3, <1>4, <1>5, Zenon

\* The row of a migration that the build has run is sound.
LEMMA SoundRow ==
    ASSUME NEW v
    PROVE  /\ Sound(v).version = v
           /\ validateMigrationLedgerRow(Sound(v))
           /\ v \in Version => Sound(v) \in Row
BY Zenon DEF Sound, validateMigrationLedgerRow, Row

\* Sound rows are of the versions they were made of.
LEMMA SoundVersions ==
    ASSUME NEW S
    PROVE  Versions({Sound(v) : v \in S}) = S
<1>1. \A v \in S : Sound(v).version = v
  BY SoundRow, Zenon
<1>2. QED
  BY <1>1, Zenon DEF Versions

\* The tables are created while nobody else works on them.
LEMMA CreateStep ==
    ASSUME MigrationInv, NEW p \in Server, CreateSchema(p)
    PROVE  MigrationInv'
<1> USE DEF MigrationInv, StartupType
<1> DEFINE base == {Sound(v) : v \in Base}
<1>1. base \in SUBSET Row /\ Base \in SUBSET Version
  <2>1. \A v \in Base : v \in Version /\ Sound(v) \in Row
    BY SoundRow, Zenon DEF Version
  <2>2. QED
    BY <2>1, Zenon
<1>2. /\ servers[p] \in ServerRecord
      /\ servers' = [servers EXCEPT ![p].pc = "read", ![p].rows = base, ![p].wrote = Base]
  BY Zenon DEF CreateSchema
<1> HIDE DEF base
<1>3. servers' \in [Server -> ServerRecord]
  BY <1>1, <1>2, Zenon DEF ServerRecord
<1>4. servers'[p].pc = "read" /\ servers'[p].rows = base /\ servers'[p].wrote = Base
  BY <1>2, Zenon DEF ServerRecord
<1>5. \A q \in Server : q # p => servers'[q] = servers[q]
  BY <1>2, Zenon
<1>6. Works(p)
  BY <1>3, <1>4, <1>5, Zenon DEF Works, CreateSchema
<1>7. OneWorks'
  BY <1>4, <1>5, StartupAssumption, Zenon DEF OneWorks, Working, CreateSchema
<1>8. Transaction(p)'
  BY <1>4, Zenon DEF Transaction, Working, CreateSchema, base
<1>9. QED
  BY <1>6, <1>7, <1>8, WorksStep, Zenon

\* The lock is granted while nobody else has it.
LEMMA LockStep ==
    ASSUME MigrationInv, NEW p \in Server, LockLedger(p)
    PROVE  MigrationInv'
<1> USE DEF MigrationInv, StartupType
<1>1. servers[p] \in ServerRecord /\ servers' = [servers EXCEPT ![p].pc = "read"]
  BY Zenon DEF LockLedger, GoTo
<1>2. servers' \in [Server -> ServerRecord]
  BY <1>1, Zenon DEF ServerRecord
<1>3. servers'[p].pc = "read" /\ servers'[p].wrote = {}
  BY <1>1, Zenon DEF ServerRecord, Transaction, Working, LockLedger
<1>4. \A q \in Server : q # p => servers'[q] = servers[q]
  BY <1>1, Zenon
<1>5. Works(p)
  BY <1>2, <1>3, <1>4, Zenon DEF Works, LockLedger
<1>6. OneWorks'
  BY <1>3, <1>4, StartupAssumption, Zenon DEF OneWorks, Working, LockLedger
<1>7. Transaction(p)'
  BY <1>3, Zenon DEF Transaction, Working, LockLedger, OneWorks
<1>8. QED
  BY <1>5, <1>6, <1>7, WorksStep

\* What was read and found sound is what the transaction starts from.
LEMMA ReadStep ==
    ASSUME MigrationInv, NEW p \in Server, ReadLedger(p)
    PROVE  MigrationInv'
<1> USE DEF MigrationInv, StartupType
<1> DEFINE listed == readMigrationLedger(p)
<1>1. CASE validateMigrationLedger(p, listed)
  <2>1. servers[p] \in ServerRecord
    BY Zenon
  <2>2. servers' = [servers EXCEPT ![p].pc = "apply", ![p].rows = listed]
    BY <1>1, Zenon DEF ReadLedger
  <2>3. listed \in SUBSET Row
    BY <2>1, Zenon DEF readMigrationLedger, ServerRecord
  <2>4. listed = IF created THEN ledger ELSE {Sound(v) : v \in Base}
    BY StartupAssumption, Zenon DEF readMigrationLedger, ReadLedger, OneWorks, Working, Transaction
  <2>5. Base \subseteq Versions(listed) /\ \A r \in listed : validateMigrationLedgerRow(r)
    BY <1>1, Zenon DEF validateMigrationLedger
  <2> HIDE DEF listed
  <2>6. servers' \in [Server -> ServerRecord]
    BY <2>1, <2>2, <2>3, Zenon DEF ServerRecord
  <2>7. servers'[p].pc = "apply" /\ servers'[p].rows = listed /\ servers'[p].wrote = servers[p].wrote
    BY <2>1, <2>2, Zenon DEF ServerRecord
  <2>8. \A q \in Server : q # p => servers'[q] = servers[q]
    BY <2>2, Zenon
  <2>9. Works(p)
    BY <1>1, <2>6, <2>7, <2>8, Zenon DEF Works, ReadLedger, listed
  <2>10. OneWorks'
    BY <1>1, <2>7, <2>8, Zenon DEF OneWorks, Working, ReadLedger, listed
  <2>11. Transaction(p)'
    <3>1. CASE created
      BY <2>4, <2>5, <2>7, <2>9, <3>1, Zenon
      DEF Transaction, Working, ReadLedger, Works
    <3>2. CASE ~created
      <4>1. ledger = {} /\ Versions(ledger) = {} /\ Versions(listed) = Base /\ servers[p].wrote = Base
        <5>1. ledger = {} /\ servers[p].wrote = Base
          BY <3>2, Zenon DEF OneWorks, Transaction, ReadLedger
        <5>2. Versions(listed) = Base
          BY <2>4, <3>2, SoundVersions, Zenon
        <5>3. QED
          BY <5>1, <5>2, Zenon DEF Versions
      <4>2. QED
        BY <4>1, <2>5, <2>7, <2>9, <3>2, Zenon DEF Transaction, Working, Works
    <3>3. QED
      BY <3>1, <3>2, Zenon
  <2>12. QED
    BY <2>9, <2>10, <2>11, WorksStep
<1>2. CASE ~validateMigrationLedger(p, listed)
  BY <1>2, FailStep, Zenon DEF ReadLedger, Why
<1>3. QED
  BY <1>1, <1>2, Zenon

\* An upgrade that the ledger lacks has not taken effect, so its statements run.
LEMMA UpgradeStep ==
    ASSUME MigrationInv, NEW p \in Server, ApplyMissing(p)
    PROVE  MigrationInv'
<1> USE DEF MigrationInv, StartupType
<1>1. PICK i \in Missing(p) : applyNewSQLMigration(p, Upgrades[i])
  BY Zenon DEF ApplyMissing
<1> DEFINE v == Upgrades[i]
<1>2. v \in Version /\ v \notin Versions(servers[p].rows)
  <2>1. i \in 1..Release[p] /\ v \notin Versions(servers[p].rows)
    BY Zenon DEF Missing
  <2>2. i \in 1..Len(Upgrades)
    BY <2>1, StartupAssumption
  <2>3. QED
    BY <2>1, <2>2, Zenon DEF Version
<1>3. servers[p].pc = "apply" /\ servers[p] \in ServerRecord /\ Transaction(p)
  BY Zenon DEF ApplyMissing
<1>4. v \notin Versions(ledger)
  BY <1>2, <1>3, Zenon DEF Transaction
<1>5. effects[v] = 0
  BY <1>2, <1>4, Zenon DEF LedgerTellsTheSchema
<1> HIDE DEF v
<1> DEFINE listed == servers[p].rows \union {Sound(v)}
           wrote == servers[p].wrote \union {v}
<1>6. /\ servers' = [servers EXCEPT ![p].rows = listed, ![p].wrote = wrote]
      /\ UNCHANGED <<created, ledger, effects, creator, holder, senders>>
  <2>1. ~(effects[v] > 0)
    BY <1>5
  <2>2. applyNewSQLMigration(p, v)
    BY <1>1, Zenon DEF v
  <2>3. QED
    BY <2>1, <2>2, Zenon DEF applyNewSQLMigration
<1>7. /\ listed \in SUBSET Row /\ wrote \in SUBSET Version
      /\ Versions(listed) = Versions(servers[p].rows) \union {v}
      /\ ledger \subseteq servers[p].rows => ledger \subseteq listed
  <2>1. Sound(v) \in Row /\ Sound(v).version = v /\ validateMigrationLedgerRow(Sound(v))
    BY <1>2, SoundRow, Zenon
  <2>2. Versions(listed) = Versions(servers[p].rows) \union {v}
    BY <2>1, Zenon DEF Versions
  <2>3. QED
    BY <1>2, <1>3, <2>1, <2>2, Zenon DEF ServerRecord
<1>8. \A r \in listed : validateMigrationLedgerRow(r)
  BY <1>2, <1>3, SoundRow, Zenon DEF Transaction
<1>9. wrote = servers[p].wrote \union {v}
  BY Zenon
<1> HIDE DEF listed, wrote
<1>10. servers' \in [Server -> ServerRecord]
  BY <1>3, <1>6, <1>7, Zenon DEF ServerRecord
<1>11. servers'[p].pc = "apply" /\ servers'[p].rows = listed /\ servers'[p].wrote = wrote
  BY <1>3, <1>6, Zenon DEF ServerRecord
<1>12. \A q \in Server : q # p => servers'[q] = servers[q]
  BY <1>6, Zenon
<1>13. Works(p)
  BY <1>6, <1>10, <1>11, <1>12, Zenon DEF Works
<1>14. OneWorks'
  BY <1>3, <1>6, <1>11, <1>12, Zenon DEF OneWorks, Working
<1>15. Transaction(p)'
  BY <1>3, <1>4, <1>6, <1>7, <1>8, <1>9, <1>11, ZenonT(30) DEF Transaction, Working, Versions
<1>16. QED
  BY <1>13, <1>14, <1>15, WorksStep, Zenon

\* A commit adds to the ledger what the transaction has written, once.
LEMMA CommitStep ==
    ASSUME MigrationInv, NEW p \in Server, CommitMigration(p)
    PROVE  MigrationInv'
<1> USE DEF MigrationInv, StartupType
<1>1. servers[p].pc = "apply" /\ servers[p] \in ServerRecord /\ Transaction(p) /\ Missing(p) = {}
  BY Zenon DEF CommitMigration
<1>2. PICK r : /\ servers' = [servers EXCEPT ![p] = r]
               /\ r = Outside("bind", 1, "none") \/ r = Outside("failed", 1, "the answer was lost")
  BY Zenon DEF CommitMigration
<1>3. r \in ServerRecord /\ r.wrote = {} /\ r.pc \in {"bind", "failed"}
  <2>1. ASSUME NEW step \in {"bind", "failed"}, NEW why \in Why
       PROVE  /\ Outside(step, 1, why) \in ServerRecord
              /\ Outside(step, 1, why).wrote = {} /\ Outside(step, 1, why).pc = step
    BY DEF Outside, ServerRecord
  <2>2. "none" \in Why /\ "the answer was lost" \in Why
    BY Zenon DEF Why
  <2>3. QED
    BY <1>2, <2>1, <2>2, Zenon
<1>4. servers' \in [Server -> ServerRecord] /\ servers'[p] = r
      /\ \A q \in Server : q # p => servers'[q] = servers[q]
  BY <1>2, <1>3, Zenon
<1>5. \A q \in Server : q # p => ~Working(q)
  BY <1>1, StartupAssumption, Zenon DEF OneWorks, Working
<1>6. ledger' = servers[p].rows /\ created' = TRUE /\ senders' = senders
      /\ creator' = IF creator = p THEN Nobody ELSE creator
  BY Zenon DEF CommitMigration, CommittedRows, Rollback
<1>7. StartupType'
  <2>1. effects' \in [Version -> Nat]
    <3>1. \A v \in Version : effects[v] + (IF v \in servers[p].wrote THEN 1 ELSE 0) \in Nat
      OBVIOUS
    <3>2. effects' = [v \in Version |-> effects[v] + IF v \in servers[p].wrote THEN 1 ELSE 0]
      BY Zenon DEF CommitMigration
    <3>3. QED
      BY <3>1, <3>2, Zenon
  <2>2. QED
    BY <1>1, <1>3, <1>4, <1>6, <2>1, Zenon DEF ServerRecord
<1>8. OneWorks'
  BY <1>1, <1>3, <1>4, <1>5, <1>6, Zenon DEF OneWorks, Working
<1>9. \A q \in Server : Transaction(q)'
  BY <1>3, <1>4, <1>5, Zenon DEF Transaction, Working
<1>10. LedgerTellsTheSchema'
  <2> SUFFICES ASSUME NEW v \in Version
               PROVE  effects'[v] = IF v \in Versions(servers[p].rows) THEN 1 ELSE 0
    BY <1>6, Zenon DEF LedgerTellsTheSchema, Versions
  <2>1. effects'[v] = effects[v] + IF v \in servers[p].wrote THEN 1 ELSE 0
    BY Zenon DEF CommitMigration
  <2>2. effects[v] = IF v \in Versions(ledger) THEN 1 ELSE 0
    BY Zenon DEF LedgerTellsTheSchema
  <2>3. /\ v \in Versions(servers[p].rows) <=> v \in Versions(ledger) \/ v \in servers[p].wrote
        /\ ~(v \in Versions(ledger) /\ v \in servers[p].wrote)
    BY <1>1, Zenon DEF Transaction
  <2>4. QED
    BY <2>1, <2>2, <2>3
<1>11. UpToDateWhenUp'
  <2>1. Known(p) \subseteq Versions(servers[p].rows)
    BY <1>1 DEF Known, Missing, Transaction
  <2>2. ledger \subseteq servers[p].rows
        /\ \A x \in servers[p].rows : validateMigrationLedgerRow(x)
    BY <1>1, Zenon DEF Transaction
  <2>3. Known(p) \subseteq {x.version : x \in {y \in ledger' : validateMigrationLedgerRow(y)}}
    BY <1>6, <2>1, <2>2, Zenon DEF Versions
  <2>4. ASSUME NEW q \in Server, q # p, servers[q].pc \in {"bind", "insert", "up"}
       PROVE  Known(q) \subseteq {x.version : x \in {y \in ledger' : validateMigrationLedgerRow(y)}}
    BY <1>6, <2>2, <2>4, Zenon DEF UpToDateWhenUp
  <2>5. QED
    BY <1>4, <2>3, <2>4, Zenon DEF UpToDateWhenUp, Known
<1>12. UpgradesNeverCollide'
  BY <1>7, Zenon DEF UpgradesNeverCollide, ServerRecord, Why
<1>13. QED
  BY <1>7, <1>8, <1>9, <1>10, <1>11, <1>12, Zenon

\* It holds at the start.
LEMMA MigrationInit == StartupInit => MigrationInv
<1> SUFFICES ASSUME StartupInit PROVE MigrationInv
  BY Zenon
<1>1. Down \in ServerRecord /\ Down.pc = "down" /\ Down.wrote = {}
  BY DEF Down, Outside, ServerRecord, Why
<1>2. servers \in [Server -> ServerRecord] /\ \A p \in Server : servers[p] = Down
  BY <1>1, Zenon DEF StartupInit
<1>3. StartupType
  BY <1>1, <1>2, StartupAssumption, Zenon DEF StartupInit, StartupType
<1>4. OneWorks /\ \A p \in Server : Transaction(p)
  BY <1>1, <1>2, Zenon DEF StartupInit, OneWorks, Working, Transaction
<1>5. LedgerTellsTheSchema /\ UpToDateWhenUp /\ UpgradesNeverCollide
  BY <1>1, <1>2, Zenon
  DEF StartupInit, LedgerTellsTheSchema, UpToDateWhenUp, UpgradesNeverCollide, ServerRecord, Why
<1>6. QED
  BY <1>3, <1>4, <1>5, Zenon DEF MigrationInv

\* Every step keeps the invariant of the migrations.
LEMMA MigrationStep ==
    ASSUME MigrationInv, [StartupNext]_startVars
    PROVE  MigrationInv'
<1>1. CASE HostDomain \/ UNCHANGED startVars
  <2>1. UNCHANGED <<created, ledger, effects, creator, holder, senders, servers>>
    BY <1>1, Zenon DEF HostDomain, startVars
  <2>2. StartupType' /\ OneWorks' /\ \A p \in Server : Transaction(p)'
    BY <2>1, Zenon DEF MigrationInv, StartupType, OneWorks, Transaction, Working
  <2>3. LedgerTellsTheSchema' /\ UpToDateWhenUp' /\ UpgradesNeverCollide'
    BY <2>1, Zenon DEF MigrationInv, LedgerTellsTheSchema, UpToDateWhenUp, Known, UpgradesNeverCollide
  <2>4. QED
    BY <2>2, <2>3, Zenon DEF MigrationInv
<1>2. ASSUME NEW p \in Server, Start(p) \/ Die(p)
     PROVE  MigrationInv'
  BY <1>2, OutsideStep, CreateStep, LockStep, ReadStep, UpgradeStep, CommitStep, Zenon DEF Start
<1>3. QED
  BY <1>1, <1>2, Zenon DEF StartupNext

\* The invariant of the migrations holds in every behaviour.
LEMMA MigrationInvariance == StartupSpec => []MigrationInv
BY MigrationInit, MigrationStep, PTL DEF StartupSpec

\* Processes of any number of builds that start at the same time on one database,
\* fail and die: schema_migrations says which migrations have taken effect, each
\* of them once; a process serves only on a database with every migration of its
\* build; and an upgrade is never run on a database that already has it.
THEOREM MigrationSafety == StartupSpec => []MigrationsAreSafe
<1>1. MigrationInv => MigrationsAreSafe
  BY Zenon DEF MigrationInv, MigrationsAreSafe
<1>2. QED
  BY <1>1, MigrationInvariance, PTL

-----------------------------------------------------------------------------
(* Startup: the bindings *)

BindInv ==
    /\ StartupType
    /\ bound \in [Sender -> Nat]
    /\ SendersAreBoundOnce

\* A binding is committed only when no other sender has its identity or address.
LEMMA BindStep ==
    ASSUME BindInv, NEW p \in Server, CommitBind(p)
    PROVE  bound' \in [Sender -> Nat] /\ SendersAreBoundOnce'
<1> USE DEF BindInv
<1>1. CASE UNCHANGED <<senders, bound>>
  BY <1>1, Zenon DEF SendersAreBoundOnce
<1>2. CASE /\ servers[p].saw = Rivals(Binding(p), senders) /\ ~BoundElsewhere(p)
           /\ senders' = senders \union {Binding(p)}
           /\ bound' = IF Binding(p) \in senders THEN bound ELSE [bound EXCEPT ![Binding(p)] = @ + 1]
  <2> DEFINE x == Binding(p)
  <2>1. x \in Sender
    BY BindingIsSender, Zenon DEF CommitBind
  <2>2. \A s \in senders : s.id = x.id \/ s.address = x.address => s = x
    BY <1>2, Zenon DEF BoundElsewhere, Rivals
  <2> HIDE DEF x
  <2>3. /\ senders' = senders \union {x}
        /\ bound' = IF x \in senders THEN bound ELSE [bound EXCEPT ![x] = @ + 1]
    BY <1>2, Zenon DEF x
  <2>4. bound' \in [Sender -> Nat]
    BY <2>1, <2>3
  <2>5. \A s, t \in senders' : s.id = t.id \/ s.address = t.address => s = t
    BY <2>2, <2>3, Zenon DEF SendersAreBoundOnce
  <2>6. \A y \in Sender : bound'[y] = IF y \in senders' THEN 1 ELSE 0
    BY <2>1, <2>3 DEF SendersAreBoundOnce
  <2>7. QED
    BY <2>4, <2>5, <2>6, Zenon DEF SendersAreBoundOnce
<1>3. QED
  BY <1>1, <1>2, Zenon DEF CommitBind, Fail

\* "rebinding is rejected": whichever processes bind at the same time, a sender's
\* identity has one address, an address one identity, and each binding one audit
\* event.
THEOREM BindingsAreUnique == StartupSpec => []SendersAreBoundOnce
<1>1. StartupInit => BindInv
  <2> SUFFICES ASSUME StartupInit PROVE BindInv
    OBVIOUS
  <2>1. MigrationInv
    BY MigrationInit, Zenon
  <2>2. QED
    BY <2>1, Zenon DEF StartupInit, BindInv, MigrationInv, SendersAreBoundOnce
<1>2. MigrationInv /\ BindInv /\ [StartupNext]_startVars => BindInv'
  <2> SUFFICES ASSUME MigrationInv, BindInv, [StartupNext]_startVars
               PROVE  BindInv'
    BY Zenon
  <2>1. StartupType'
    BY MigrationStep, Zenon DEF MigrationInv
  <2>2. CASE UNCHANGED <<senders, bound>>
    BY <2>1, <2>2, Zenon DEF BindInv, SendersAreBoundOnce
  <2>3. ASSUME NEW p \in Server, CommitBind(p)
       PROVE  BindInv'
    BY <2>1, <2>3, BindStep, Zenon DEF BindInv
  <2>4. QED
    BY <2>2, <2>3, Zenon
    DEF StartupNext, Start, HostDomain, startVars, LookForLedger, CreateSchema, CreateTooLate,
        AskForLock, LockLedger, ReadLedger, ApplyMissing, applyNewSQLMigration, CommitMigration,
        BeginBind, Serve, Restart, Die, Fail
<1>3. BindInv => SendersAreBoundOnce
  BY Zenon DEF BindInv
<1>4. QED
  BY <1>1, <1>2, <1>3, MigrationInvariance, PTL DEF StartupSpec


-----------------------------------------------------------------------------
(* ReleaseBuild *)

BuildsType ==
    building \in [Builder -> [pc : {"idle", "archive", "manifest"},
                              input : BuildInput \union {NoInput}]]

\* A build that goes on to its manifest has made the archive that is there.
ReleaseInv ==
    /\ BuildsType
    /\ ManifestDescribesArchive
    /\ \A b \in Builder :
          /\ building[b].pc # "idle" => building[b].input \in BuildInput
          /\ building[b].pc = "manifest" => archive = building[b].input

\* Every step of a build keeps the invariant.
LEMMA ReleaseStep ==
    ASSUME ReleaseInv, [ReleaseNext]_releaseVars
    PROVE  ReleaseInv'
<1> USE DEF ReleaseInv, BuildsType, ManifestDescribesArchive, NoBuild
<1>1. ASSUME NEW b \in Builder, NEW input \in BuildInput, BuildRelease(b, input)
     PROVE  ReleaseInv'
  BY <1>1, Zenon DEF BuildRelease
<1>2. ASSUME NEW b \in Builder, WriteArchive(b)
     PROVE  ReleaseInv'
  <2>1. CASE archive = NoInput
    <3>1. manifest = NoInput /\ \A d \in Builder : building[d].pc # "manifest"
      BY <2>1, ReleaseAssumption, Zenon
    <3>2. QED
      BY <1>2, <2>1, <3>1 DEF WriteArchive
  <2>2. CASE archive # NoInput
    BY <1>2, <2>2 DEF WriteArchive
  <2>3. QED
    BY <2>1, <2>2, Zenon
<1>3. ASSUME NEW b \in Builder, WriteManifest(b)
     PROVE  ReleaseInv'
  BY <1>3, Zenon DEF WriteManifest
<1>4. ASSUME NEW b \in Builder, BuildInterrupted(b)
     PROVE  ReleaseInv'
  BY <1>4, Zenon DEF BuildInterrupted
<1>5. CASE UNCHANGED releaseVars
  BY <1>5, Zenon DEF releaseVars
<1>6. QED
  BY <1>1, <1>2, <1>3, <1>4, <1>5, Zenon DEF ReleaseNext

\* A published manifest gives the digest of the archive beside it, however many
\* builds write into one directory: writeAtomic links and never replaces.
THEOREM ManifestsDescribe == ReleaseSpec => []ManifestDescribesArchive
<1>1. ReleaseInit => ReleaseInv
  BY DEF ReleaseInit, ReleaseInv, BuildsType, ManifestDescribesArchive, NoBuild
<1>2. ReleaseInv => ManifestDescribesArchive
  BY Zenon DEF ReleaseInv
<1>3. QED
  BY <1>1, <1>2, ReleaseStep, PTL DEF ReleaseSpec

-----------------------------------------------------------------------------
(* ConfigFiles *)

FileState == {"absent", "empty", "whole"}

Command ==
    [cmd : {"none", "render", "diff", "apply"}, id : SetID \union {NoSet},
     pc : {"ended", "write", "current", "open", "name", "rename"}, next : 1..(Parts + 1),
     opened : BOOLEAN, copy : [0..Parts -> FileState],
     handle : {"none", "tmp", "current", "gone"}]

FilesType ==
    /\ stagedFiles \in [SetID -> [0..Parts -> FileState]]
    /\ appliedFiles \in [SetID -> [0..Parts -> FileState]]
    /\ \A s \in SetID : appliedFiles[s][0] # "empty"
    /\ tools \in [Tool -> Command]

\* A command past the reading of "current" writes the set it applies.
Applying(k) == k.cmd = "apply" /\ k.pc \in {"write", "open", "name", "rename"}

\* What a command has to do, and what it does it with.
ToolsAreSound ==
    \A t \in Tool :
        /\ tools[t].pc # "ended" => tools[t].id \in SetID /\ tools[t].cmd # "none"
        /\ tools[t].pc \in {"open", "name", "rename"} => tools[t].cmd = "apply"
        /\ tools[t].pc \in {"name", "rename"} <=> tools[t].handle # "none"
        /\ tools[t].cmd = "apply" => tools[t].copy = Whole \/ tools[t].id \in torn

\* How much of its set a command has written: all that comes before the next
\* file, unless another command writes the same set.
Progress ==
    \A t \in Tool : Applying(tools[t]) /\ tools[t].id \notin torn =>
        /\ tools[t].opened \/ tools[t].next > 1 => Exists(appliedFiles[tools[t].id])
        /\ tools[t].pc # "write" => tools[t].next = Parts + 1
        /\ tools[t].id \notin again =>
              \A i \in 1..(tools[t].next - 1) : appliedFiles[tools[t].id][i] = "whole"

\* Two commands that write the same set are known to.
WritersAreKnown ==
    \A t, u \in Tool :
        t # u /\ Applying(tools[t]) /\ Applying(tools[u]) /\ tools[t].id = tools[u].id
            => tools[t].id \in again

\* So is a command that writes a set that is in use or about to be.
RewritesAreKnown ==
    \A t \in Tool : /\ Applying(tools[t]) /\ tools[t].pc # "rename"
                    /\ tools[t].id \in {current, tmp}
                    => tools[t].id \in again

\* A set that is named has been written.
SoundSet(s) ==
    s \in SetID => /\ appliedFiles[s] = Whole \/ s \in torn \union again
                   /\ Exists(appliedFiles[s]) \/ s \in torn

NamedAreSound == SoundSet(current) /\ SoundSet(tmp)

\* As long as commands take their turns, current.tmp is what its only writer
\* makes it, and "current" is never empty.
TurnsAreTaken ==
    ~overlapped =>
        /\ \A t, u \in Tool : tools[t].handle = "tmp" /\ tools[u].handle = "tmp" => t = u
        /\ \A t \in Tool : tools[t].handle \in {"none", "tmp"}
        /\ \A t \in Tool : tools[t].pc = "rename" => tmp = tools[t].id
        /\ current \in SetID \union {"absent"}

FilesInv ==
    /\ FilesType /\ ToolsAreSound /\ Progress /\ WritersAreKnown /\ RewritesAreKnown
    /\ NamedAreSound /\ TurnsAreTaken

\* A command that advances is a command still, of the same kind and set.
LEMMA AdvancedType ==
    ASSUME NEW k \in Command, NEW step \in {"write", "current", "open", "name", "rename"},
           NEW n \in 1..(Parts + 1), NEW opened \in BOOLEAN,
           NEW handle \in {"none", "tmp", "current", "gone"}
    PROVE  /\ Advanced(k, step, n, opened, handle) \in Command
           /\ Advanced(k, step, n, opened, handle).cmd = k.cmd
           /\ Advanced(k, step, n, opened, handle).id = k.id
           /\ Advanced(k, step, n, opened, handle).pc = step
           /\ Advanced(k, step, n, opened, handle).next = n
           /\ Advanced(k, step, n, opened, handle).opened = opened
           /\ Advanced(k, step, n, opened, handle).copy = k.copy
           /\ Advanced(k, step, n, opened, handle).handle = handle
BY Zenon DEF Command, Advanced

\* A command that has ended holds nothing.
LEMMA EndedType ==
    /\ Ended \in Command /\ Ended.pc = "ended" /\ Ended.cmd = "none" /\ Ended.handle = "none"
    /\ ~Applying(Ended)
BY FilesAssumption DEF Ended, Command, NoFiles, FileState, Applying

\* All the files of a set that its writer has finished are there.
LEMMA WrittenIsWhole ==
    ASSUME FilesInv, NEW t \in Tool, tools[t].pc \in {"open", "name", "rename"}
    PROVE  SoundSet(tools[t].id) /\ tools[t].id \in SetID
<1>1. Applying(tools[t]) /\ tools[t].id \in SetID
  BY Zenon DEF FilesInv, ToolsAreSound, Applying
<1>2. CASE tools[t].id \in torn
  BY <1>1, <1>2, Zenon DEF SoundSet
<1>3. CASE tools[t].id \notin torn
  <2>1. tools[t].next = Parts + 1 /\ tools[t].next > 1
    BY <1>1, <1>3, FilesAssumption DEF FilesInv, Progress
  <2>2. Exists(appliedFiles[tools[t].id])
    BY <1>1, <1>3, <2>1, Zenon DEF FilesInv, Progress
  <2>3. CASE tools[t].id \notin again
    <3>1. \A i \in 1..Parts : appliedFiles[tools[t].id][i] = "whole"
      BY <1>1, <1>3, <2>1, <2>3, FilesAssumption DEF FilesInv, Progress
    <3>2. appliedFiles[tools[t].id][0] = "whole"
      BY <1>1, <2>2, FilesAssumption DEF FilesInv, FilesType, Exists, FileState
    <3>3. appliedFiles[tools[t].id] \in [0..Parts -> FileState]
      BY <1>1, Zenon DEF FilesInv, FilesType
    <3>4. \A i \in 0..Parts : appliedFiles[tools[t].id][i] = Whole[i]
      BY <3>1, <3>2, FilesAssumption DEF Whole
    <3>5. appliedFiles[tools[t].id] = Whole
      BY <3>3, <3>4, Zenon DEF Whole
    <3>6. QED
      BY <1>1, <2>2, <3>5, Zenon DEF SoundSet
  <2>4. QED
    BY <1>1, <2>2, <2>3, Zenon DEF SoundSet
<1>4. QED
  BY <1>1, <1>2, <1>3, Zenon

\* A command that does not write to the applied directory disturbs nothing.
LEMMA BesideTheApplied ==
    ASSUME FilesInv, NEW t \in Tool, NEW k \in Command,
           tools' = [tools EXCEPT ![t] = k],
           k.pc \in {"ended", "write", "current"}, k.handle = "none",
           k.pc # "ended" => k.id \in SetID /\ k.cmd # "none",
           k.cmd = "apply" => k.pc # "write" /\ (k.copy = Whole \/ k.id \in torn'),
           stagedFiles' \in [SetID -> [0..Parts -> FileState]],
           UNCHANGED <<appliedFiles, current, tmp, again, overlapped>>,
           torn \subseteq torn'
    PROVE  FilesInv'
<1>1. tools \in [Tool -> Command]
  BY Zenon DEF FilesInv, FilesType
<1>2. tools'[t] = k /\ \A u \in Tool : u # t => tools'[u] = tools[u]
  BY <1>1, Zenon
<1>3. ~Applying(k)
  BY Zenon DEF Applying
<1>4. FilesType'
  BY <1>1, Zenon DEF FilesInv, FilesType
<1>5. ToolsAreSound'
  BY <1>2, Zenon DEF FilesInv, ToolsAreSound
<1>6. Progress'
  BY <1>2, <1>3 DEF FilesInv, Progress
<1>7. WritersAreKnown' /\ RewritesAreKnown'
  BY <1>2, <1>3 DEF FilesInv, WritersAreKnown, RewritesAreKnown
<1>8. NamedAreSound'
  BY Zenon DEF FilesInv, NamedAreSound, SoundSet
<1>9. TurnsAreTaken'
  BY <1>2, Zenon DEF FilesInv, TurnsAreTaken
<1>10. QED
  BY <1>4, <1>5, <1>6, <1>7, <1>8, <1>9, Zenon DEF FilesInv

\* A command that ends, or is killed, keeps the invariant.
LEMMA EndToolStep ==
    ASSUME FilesInv, NEW t \in Tool, EndTool(t),
           UNCHANGED <<stagedFiles, appliedFiles, current, tmp, again, overlapped, torn>>
    PROVE  FilesInv'
<1> DEFINE k == Ended
<1>1. /\ k \in Command /\ k.pc = "ended" /\ k.handle = "none" /\ k.cmd # "apply"
      /\ tools' = [tools EXCEPT ![t] = k]
  BY EndedType, Zenon DEF EndTool
<1>2. stagedFiles' \in [SetID -> [0..Parts -> FileState]]
  BY Zenon DEF FilesInv, FilesType
<1> HIDE DEF k
<1>3. QED
  BY <1>1, <1>2, BesideTheApplied, Zenon

\* So does one that starts.
LEMMA BeginToolStep ==
    ASSUME FilesInv, NEW t \in Tool, NEW s \in SetID, Render(t, s) \/ Diff(t, s) \/ Apply(t, s)
    PROVE  FilesInv'
<1>1. PICK cmd \in {"render", "diff", "apply"}, step \in {"write", "current"},
           copy \in [0..Parts -> FileState] :
         /\ BeginTool(t, cmd, s, step, copy)
         /\ cmd = "apply" => step = "current" /\ (copy = Whole \/ s \in torn')
         /\ torn \subseteq torn' /\ UNCHANGED <<again, overlapped>>
  <2>1. Whole \in [0..Parts -> FileState] /\ stagedFiles[s] \in [0..Parts -> FileState]
    BY Zenon DEF FilesInv, FilesType, Whole, FileState
  <2>2. CASE Render(t, s) \/ Diff(t, s)
    BY <2>1, <2>2, Zenon DEF Render, Diff, histories
  <2>3. CASE Apply(t, s)
    <3>1. /\ BeginTool(t, "apply", s, "current", stagedFiles[s]) /\ UNCHANGED <<again, overlapped>>
          /\ torn \subseteq torn' /\ (stagedFiles[s] = Whole \/ s \in torn')
      BY <2>3, Zenon DEF Apply
    <3>2. QED
      BY <2>1, <3>1, Zenon
  <2>4. QED
    BY <2>2, <2>3, Zenon
<1> DEFINE k == [cmd |-> cmd, id |-> s, pc |-> step, next |-> 1, opened |-> FALSE,
                 copy |-> copy, handle |-> "none"]
<1>2. /\ k \in Command /\ k.pc = step /\ k.handle = "none" /\ k.id = s /\ k.cmd = cmd
      /\ k.copy = copy
  BY FilesAssumption DEF Command
<1>3. /\ tools' = [tools EXCEPT ![t] = k]
      /\ UNCHANGED <<stagedFiles, appliedFiles, current, tmp>>
  BY <1>1, Zenon DEF BeginTool
<1>4. stagedFiles' \in [SetID -> [0..Parts -> FileState]]
  BY <1>3, Zenon DEF FilesInv, FilesType
<1> HIDE DEF k
<1>5. QED
  BY <1>1, <1>2, <1>3, <1>4, BesideTheApplied, Zenon

\* A command that has found a readable "current" begins to write its set.
LEMMA ReadCurrentStep ==
    ASSUME FilesInv, NEW t \in Tool, ReadCurrent(t)
    PROVE  FilesInv'
<1>1. CASE EndTool(t) /\ UNCHANGED again
  BY <1>1, EndToolStep, Zenon DEF ReadCurrent
<1>2. CASE /\ tools[t].cmd = "apply"
           /\ tools' = [tools EXCEPT ![t] = Advanced(@, "write", 1, FALSE, "none")]
           /\ again' = IF InUse(t) THEN again \union {tools[t].id} ELSE again
  <2> DEFINE k == Advanced(tools[t], "write", 1, FALSE, "none")
  <2>1. tools \in [Tool -> Command] /\ tools[t].pc = "current"
    BY Zenon DEF FilesInv, FilesType, ReadCurrent
  <2>2. /\ k \in Command /\ k.cmd = "apply" /\ k.id = tools[t].id /\ k.pc = "write"
        /\ k.next = 1 /\ k.opened = FALSE /\ k.copy = tools[t].copy /\ k.handle = "none"
    BY <1>2, <2>1, FilesAssumption DEF Advanced, Command
  <2>3. tools' = [tools EXCEPT ![t] = k]
    BY <1>2, Zenon
  <2> HIDE DEF k
  <2>4. tools'[t] = k /\ \A u \in Tool : u # t => tools'[u] = tools[u]
    BY <2>1, <2>3, Zenon
  <2>5. UNCHANGED <<stagedFiles, appliedFiles, current, tmp, torn, overlapped>>
    BY Zenon DEF ReadCurrent
  <2>6. again \subseteq again' /\ (InUse(t) => tools[t].id \in again')
    BY <1>2, Zenon
  <2>7. FilesType'
    BY <2>1, <2>2, <2>3, <2>5, Zenon DEF FilesInv, FilesType
  <2>8. ToolsAreSound'
    BY <1>2, <2>1, <2>2, <2>4, <2>5, Zenon DEF FilesInv, ToolsAreSound
  <2>9. Progress'
    <3>1. ASSUME NEW u \in Tool, u # t, Applying(tools[u]), tools[u].id \notin torn
          PROVE  /\ tools[u].opened \/ tools[u].next > 1 => Exists(appliedFiles[tools[u].id])
                 /\ tools[u].pc # "write" => tools[u].next = Parts + 1
                 /\ tools[u].id \notin again' =>
                      \A i \in 1..(tools[u].next - 1) : appliedFiles[tools[u].id][i] = "whole"
      BY <2>6, <3>1, Zenon DEF FilesInv, Progress
    <3>2. /\ ~(k.opened \/ k.next > 1) /\ k.pc = "write"
          /\ \A i \in 1..(k.next - 1) : appliedFiles[k.id][i] = "whole"
      BY <2>2
    <3>3. QED
      BY <2>4, <2>5, <3>1, <3>2 DEF Progress
  <2>10. WritersAreKnown'
    <3>1. ASSUME NEW u \in Tool, u # t, Applying(tools[u]), tools[u].id = tools[t].id
          PROVE  tools[t].id \in again'
      BY <2>6, <3>1, Zenon DEF InUse, Applying
    <3>2. ASSUME NEW u \in Tool, NEW w \in Tool, u # t, w # t, u # w, Applying(tools[u]),
                 Applying(tools[w]), tools[u].id = tools[w].id
          PROVE  tools[u].id \in again'
      BY <2>6, <3>2, Zenon DEF FilesInv, WritersAreKnown
    <3>3. QED
      BY <2>2, <2>4, <3>1, <3>2 DEF WritersAreKnown
  <2>11. RewritesAreKnown'
    <3>1. tools[t].id \in {current, tmp} => tools[t].id \in again'
      BY <2>6, Zenon DEF InUse
    <3>2. QED
      BY <2>2, <2>4, <2>5, <2>6, <3>1, Zenon DEF FilesInv, RewritesAreKnown
  <2>12. NamedAreSound'
    BY <2>5, <2>6, Zenon DEF FilesInv, NamedAreSound, SoundSet
  <2>13. TurnsAreTaken'
    BY <2>2, <2>4, <2>5 DEF FilesInv, TurnsAreTaken
  <2>14. QED
    BY <2>7, <2>8, <2>9, <2>10, <2>11, <2>12, <2>13, Zenon DEF FilesInv
<1>3. QED
  BY <1>1, <1>2, Zenon DEF ReadCurrent

\* A command that writes a file of the set it applies.
LEMMA ApplyWriteStep ==
    ASSUME FilesInv, NEW t \in Tool, NEW k \in Command,
           tools[t].pc = "write", tools[t].cmd = "apply",
           k.cmd = "apply", k.id = tools[t].id, k.copy = tools[t].copy,
           k.pc = "write", k.handle = "none",
           tools' = [tools EXCEPT ![t] = k],
           appliedFiles' \in [SetID -> [0..Parts -> FileState]],
           \A x \in SetID : appliedFiles'[x][0] # "empty",
           \A x \in SetID : x # k.id => appliedFiles'[x] = appliedFiles[x],
           Exists(appliedFiles[k.id]) => Exists(appliedFiles'[k.id]),
           k.id \notin torn /\ (k.opened \/ k.next > 1) => Exists(appliedFiles'[k.id]),
           k.id \notin torn \union again =>
               \A i \in 1..(k.next - 1) : appliedFiles'[k.id][i] = "whole",
           UNCHANGED <<stagedFiles, current, tmp, torn, again, overlapped>>
    PROVE  FilesInv'
<1>1. tools \in [Tool -> Command] /\ k.id \in SetID
  BY Zenon DEF FilesInv, FilesType, ToolsAreSound
<1>2. tools'[t] = k /\ \A u \in Tool : u # t => tools'[u] = tools[u]
  BY <1>1, Zenon
<1>3. \A x \in SetID : Exists(appliedFiles[x]) => Exists(appliedFiles'[x])
  BY Zenon DEF Exists
<1>4. Applying(tools[t]) /\ Applying(k)
  BY Zenon DEF Applying
<1>5. FilesType'
  BY <1>1, Zenon DEF FilesInv, FilesType
<1>6. ToolsAreSound'
  BY <1>1, <1>2, Zenon DEF FilesInv, ToolsAreSound
<1>7. Progress'
  <2>1. ASSUME NEW u \in Tool, u # t, Applying(tools[u]), tools[u].id \notin torn
        PROVE  /\ tools[u].opened \/ tools[u].next > 1 => Exists(appliedFiles'[tools[u].id])
               /\ tools[u].pc # "write" => tools[u].next = Parts + 1
               /\ tools[u].id \notin again =>
                    \A i \in 1..(tools[u].next - 1) : appliedFiles'[tools[u].id][i] = "whole"
    <3>1. tools[u].id \in SetID
      BY <2>1, Zenon DEF FilesInv, ToolsAreSound, Applying
    <3>2. tools[u].id = k.id => k.id \in again
      BY <1>4, <2>1, Zenon DEF FilesInv, WritersAreKnown
    <3>3. QED
      BY <1>3, <2>1, <3>1, <3>2 DEF FilesInv, Progress
  <2>2. QED
    BY <1>2, <2>1 DEF Progress, Exists
<1>8. WritersAreKnown' /\ RewritesAreKnown'
  BY <1>2, <1>4 DEF FilesInv, WritersAreKnown, RewritesAreKnown
<1>9. NamedAreSound'
  <2>1. k.id \in {current, tmp} => k.id \in again
    BY <1>4, Zenon DEF FilesInv, RewritesAreKnown
  <2>2. ASSUME NEW x \in {current, tmp}, x \in SetID, SoundSet(x)
        PROVE  /\ appliedFiles'[x] = Whole \/ x \in torn \union again
               /\ Exists(appliedFiles'[x]) \/ x \in torn
    BY <1>3, <2>1, <2>2, Zenon DEF SoundSet
  <2>3. QED
    BY <2>2, Zenon DEF FilesInv, NamedAreSound, SoundSet, Exists
<1>10. TurnsAreTaken'
  <2>1. tools[t].handle = "none"
    BY Zenon DEF FilesInv, ToolsAreSound
  <2>2. QED
    BY <1>2, <2>1 DEF FilesInv, TurnsAreTaken
<1>11. QED
  BY <1>5, <1>6, <1>7, <1>8, <1>9, <1>10, Zenon DEF FilesInv

\* What is put into a set.
LEMMA PutApplied ==
    ASSUME FilesInv, NEW t \in Tool, tools[t].cmd = "apply", tools[t].id \in SetID,
           NEW i \in 0..Parts, NEW holds \in FileState, i = 0 => holds = "whole",
           Put(t, i, holds)
    PROVE  /\ UNCHANGED stagedFiles
           /\ appliedFiles' \in [SetID -> [0..Parts -> FileState]]
           /\ \A x \in SetID : appliedFiles'[x][0] # "empty"
           /\ \A x \in SetID : x # tools[t].id => appliedFiles'[x] = appliedFiles[x]
           /\ appliedFiles'[tools[t].id][i] = holds
           /\ \A j \in 0..Parts : j # i => appliedFiles'[tools[t].id][j] = appliedFiles[tools[t].id][j]
           /\ Exists(appliedFiles[tools[t].id]) => Exists(appliedFiles'[tools[t].id])
<1> DEFINE s == tools[t].id
<1> DEFINE after == [appliedFiles[s] EXCEPT ![i] = holds]
<1>1. /\ appliedFiles \in [SetID -> [0..Parts -> FileState]]
      /\ \A x \in SetID : appliedFiles[x][0] # "empty"
      /\ 0 \in 0..Parts
  BY FilesAssumption DEF FilesInv, FilesType
<1>2. /\ after \in [0..Parts -> FileState] /\ after[i] = holds
      /\ \A j \in 0..Parts : j # i => after[j] = appliedFiles[s][j]
  BY <1>1, Zenon
<1>3. UNCHANGED stagedFiles /\ appliedFiles' = [appliedFiles EXCEPT ![s] = after]
  BY Zenon DEF Put
<1> HIDE DEF after
<1>4. /\ appliedFiles' \in [SetID -> [0..Parts -> FileState]]
      /\ appliedFiles'[s] = after
      /\ \A x \in SetID : x # s => appliedFiles'[x] = appliedFiles[x]
  BY <1>1, <1>2, <1>3, Zenon
<1>5. after[0] # "empty" /\ (appliedFiles[s][0] # "absent" => after[0] # "absent")
  BY <1>1, <1>2, Zenon
<1>6. QED
  BY <1>1, <1>2, <1>3, <1>4, <1>5, Zenon DEF Exists

\* A file written while rendering or comparing goes to the staged set.
LEMMA PutStaged ==
    ASSUME FilesInv, NEW t \in Tool, tools[t].cmd # "apply", tools[t].id \in SetID,
           NEW i \in 0..Parts, NEW holds \in FileState, Put(t, i, holds)
    PROVE  stagedFiles' \in [SetID -> [0..Parts -> FileState]] /\ UNCHANGED appliedFiles
<1> DEFINE s == tools[t].id
<1> DEFINE after == [stagedFiles[s] EXCEPT ![i] = holds]
<1>1. stagedFiles \in [SetID -> [0..Parts -> FileState]]
  BY Zenon DEF FilesInv, FilesType
<1>2. after \in [0..Parts -> FileState]
  BY <1>1, Zenon
<1>3. UNCHANGED appliedFiles /\ stagedFiles' = [stagedFiles EXCEPT ![s] = after]
  BY Zenon DEF Put
<1> HIDE DEF after
<1>4. QED
  BY <1>1, <1>2, <1>3, Zenon

\* Each file of a set, of a rendered one and of an applied one.
LEMMA WriteStep ==
    ASSUME FilesInv, NEW t \in Tool, Write(t)
    PROVE  FilesInv'
<1> DEFINE n == tools[t].next
<1> DEFINE skipped == Advanced(tools[t], "write", n + 1, tools[t].opened, "none")
<1> DEFINE begun == Advanced(tools[t], "write", n, TRUE, "none")
<1> DEFINE finished == Advanced(tools[t], "write", n + 1, FALSE, "none")
<1>1. /\ tools \in [Tool -> Command] /\ tools[t] \in Command /\ tools[t].pc = "write"
      /\ n \in 1..Parts /\ n + 1 \in 1..(Parts + 1)
      /\ tools[t].id \in SetID /\ tools[t].handle = "none"
      /\ tools[t].copy[n] \in FileState
      /\ stagedFiles \in [SetID -> [0..Parts -> FileState]]
      /\ appliedFiles \in [SetID -> [0..Parts -> FileState]]
      /\ \A x \in SetID : appliedFiles[x][0] # "empty"
      /\ UNCHANGED <<current, tmp, torn, again, overlapped>>
  BY FilesAssumption DEF FilesInv, FilesType, ToolsAreSound, Write, Command, histories
<1>2. /\ \A k \in {skipped, begun, finished} :
            /\ k \in Command /\ k.cmd = tools[t].cmd /\ k.id = tools[t].id
            /\ k.copy = tools[t].copy /\ k.pc = "write" /\ k.handle = "none"
      /\ skipped.next = n + 1 /\ skipped.opened = tools[t].opened
      /\ begun.next = n /\ finished.next = n + 1 /\ begun.opened
  BY <1>1 DEF Advanced, Command
<1>3. \/ /\ tools[t].copy[n] = "absent" /\ tools' = [tools EXCEPT ![t] = skipped]
         /\ UNCHANGED <<stagedFiles, appliedFiles>>
      \/ Put(t, 0, "whole") /\ UNCHANGED tools
      \/ /\ (tools[t].cmd = "apply" => Exists(appliedFiles[tools[t].id]))
         /\ Put(t, n, "empty") /\ tools' = [tools EXCEPT ![t] = begun]
      \/ /\ tools[t].opened /\ Put(t, n, tools[t].copy[n])
         /\ tools' = [tools EXCEPT ![t] = finished]
  BY Zenon DEF Write
<1>4. tools' = tools => tools' = [tools EXCEPT ![t] = tools[t]]
  BY <1>1, Zenon
<1>5. 0 \in 0..Parts /\ n \in 0..Parts /\ "whole" \in FileState /\ "empty" \in FileState
  BY <1>1, FilesAssumption DEF FileState
<1> HIDE DEF skipped, begun, finished
<1>6. CASE tools[t].cmd # "apply"
  <2>1. stagedFiles' \in [SetID -> [0..Parts -> FileState]] /\ UNCHANGED appliedFiles
    BY <1>1, <1>3, <1>5, <1>6, PutStaged, Zenon
  <2>2. PICK k \in {skipped, begun, finished, tools[t]} : tools' = [tools EXCEPT ![t] = k]
    BY <1>3, <1>4, Zenon
  <2>3. /\ k \in Command /\ k.cmd # "apply" /\ k.cmd # "none" /\ k.pc = "write"
        /\ k.handle = "none" /\ k.id \in SetID
    <3>1. tools[t].cmd # "none"
      BY <1>1, Zenon DEF FilesInv, ToolsAreSound
    <3>2. QED
      BY <1>1, <1>2, <1>6, <2>2, <3>1
  <2>4. QED
    BY <1>1, <2>1, <2>2, <2>3, BesideTheApplied, Zenon
<1>7. CASE tools[t].cmd = "apply"
  <2>0. /\ Applying(tools[t])
        /\ tools[t].id \notin torn => tools[t].copy = Whole
    BY <1>1, <1>7, Zenon DEF Applying, FilesInv, ToolsAreSound
  <2>1. tools[t].id \notin torn => tools[t].copy[n] = "whole"
    BY <1>1, <2>0, FilesAssumption DEF Whole
  <2>2. tools[t].id \notin torn =>
          /\ tools[t].opened \/ n > 1 => Exists(appliedFiles[tools[t].id])
          /\ tools[t].id \notin again =>
                \A i \in 1..(n - 1) : appliedFiles[tools[t].id][i] = "whole"
    BY <2>0, Zenon DEF FilesInv, Progress
  <2>3. CASE /\ tools[t].copy[n] = "absent" /\ tools' = [tools EXCEPT ![t] = skipped]
             /\ UNCHANGED <<stagedFiles, appliedFiles>>
    <3>1. tools[t].id \in torn
      BY <2>1, <2>3, Zenon
    <3>2. QED
      BY <1>1, <1>2, <1>7, <2>3, <3>1, ApplyWriteStep, Zenon
  <2>4. CASE Put(t, 0, "whole") /\ UNCHANGED tools
    <3> DEFINE part == 0
    <3> DEFINE content == "whole"
    <3>1. Put(t, part, content) /\ part \in 0..Parts /\ content \in FileState
          /\ (part = 0 => content = "whole")
      BY <2>4, <1>5, Zenon
    <3>2. part = 0
      BY Zenon
    <3> HIDE DEF part, content
    <3>3. /\ UNCHANGED stagedFiles
          /\ appliedFiles' \in [SetID -> [0..Parts -> FileState]]
          /\ \A x \in SetID : appliedFiles'[x][0] # "empty"
          /\ \A x \in SetID : x # tools[t].id => appliedFiles'[x] = appliedFiles[x]
          /\ \A j \in 0..Parts : j # 0 => appliedFiles'[tools[t].id][j] = appliedFiles[tools[t].id][j]
          /\ Exists(appliedFiles[tools[t].id]) => Exists(appliedFiles'[tools[t].id])
      BY <1>1, <1>7, <3>1, <3>2, PutApplied, Zenon
    <3>4. \A i \in 1..(n - 1) : i \in 0..Parts /\ i # 0
      BY <1>1, FilesAssumption
    <3>5. tools[t].id \notin torn \union again =>
             \A i \in 1..(n - 1) : appliedFiles'[tools[t].id][i] = "whole"
      BY <2>2, <3>3, <3>4, Zenon
    <3>6. QED
      BY <1>1, <1>4, <1>7, <2>2, <2>4, <3>3, <3>5, ApplyWriteStep, Zenon
  <2>5. CASE /\ Exists(appliedFiles[tools[t].id])
             /\ Put(t, n, "empty") /\ tools' = [tools EXCEPT ![t] = begun]
    <3> DEFINE content == "empty"
    <3>1. Put(t, n, content) /\ content \in FileState /\ n \in 0..Parts
          /\ (n = 0 => content = "whole")
      BY <1>1, <1>5, <2>5
    <3> HIDE DEF content
    <3>2. /\ UNCHANGED stagedFiles
          /\ appliedFiles' \in [SetID -> [0..Parts -> FileState]]
          /\ \A x \in SetID : appliedFiles'[x][0] # "empty"
          /\ \A x \in SetID : x # tools[t].id => appliedFiles'[x] = appliedFiles[x]
          /\ \A j \in 0..Parts : j # n => appliedFiles'[tools[t].id][j] = appliedFiles[tools[t].id][j]
          /\ Exists(appliedFiles[tools[t].id]) => Exists(appliedFiles'[tools[t].id])
      BY <1>1, <1>7, <3>1, PutApplied, Zenon
    <3>3. \A i \in 1..(n - 1) : i \in 0..Parts /\ i # n
      BY <1>1, FilesAssumption
    <3>4. tools[t].id \notin torn \union again =>
             \A i \in 1..(n - 1) : appliedFiles'[tools[t].id][i] = "whole"
      BY <2>2, <3>2, <3>3, Zenon
    <3>5. /\ begun \in Command /\ begun.cmd = "apply" /\ begun.id = tools[t].id
          /\ begun.copy = tools[t].copy /\ begun.pc = "write" /\ begun.handle = "none"
      BY <1>2, <1>7, Zenon
    <3>6. Exists(appliedFiles'[begun.id])
      BY <2>5, <3>2, <3>5, Zenon
    <3>7. begun.id \notin torn \union again =>
             \A i \in 1..(begun.next - 1) : appliedFiles'[begun.id][i] = "whole"
      BY <1>2, <3>4, <3>5, Zenon
    <3>8. /\ \A x \in SetID : x # begun.id => appliedFiles'[x] = appliedFiles[x]
          /\ Exists(appliedFiles[begun.id]) => Exists(appliedFiles'[begun.id])
      BY <3>2, <3>5, Zenon
    <3>9. QED
      BY <1>1, <1>7, <2>5, <3>2, <3>5, <3>6, <3>7, <3>8, ApplyWriteStep, Zenon
  <2>6. CASE /\ tools[t].opened /\ Put(t, n, tools[t].copy[n])
             /\ tools' = [tools EXCEPT ![t] = finished]
    <3> DEFINE content == tools[t].copy[n]
    <3>1. Put(t, n, content) /\ content \in FileState /\ n \in 0..Parts
          /\ (n = 0 => content = "whole")
      BY <1>1, <1>5, <2>6
    <3> HIDE DEF content
    <3>2. /\ UNCHANGED stagedFiles
          /\ appliedFiles' \in [SetID -> [0..Parts -> FileState]]
          /\ \A x \in SetID : appliedFiles'[x][0] # "empty"
          /\ \A x \in SetID : x # tools[t].id => appliedFiles'[x] = appliedFiles[x]
          /\ appliedFiles'[tools[t].id][n] = content
          /\ \A j \in 0..Parts : j # n => appliedFiles'[tools[t].id][j] = appliedFiles[tools[t].id][j]
          /\ Exists(appliedFiles[tools[t].id]) => Exists(appliedFiles'[tools[t].id])
      BY <1>1, <1>7, <3>1, PutApplied, Zenon
    <3>3. \A i \in 1..n : i \in 0..Parts /\ (i = n \/ i \in 1..(n - 1))
      BY <1>1, FilesAssumption
    <3>4. tools[t].id \notin torn => content = "whole"
      BY <2>1, Zenon DEF content
    <3>5. tools[t].id \notin torn \union again =>
             \A i \in 1..n : appliedFiles'[tools[t].id][i] = "whole"
      BY <2>2, <3>2, <3>3, <3>4, Zenon
    <3>6. finished.next - 1 = n
      BY <1>1, <1>2
    <3>7. /\ finished \in Command /\ finished.cmd = "apply" /\ finished.id = tools[t].id
          /\ finished.copy = tools[t].copy /\ finished.pc = "write" /\ finished.handle = "none"
      BY <1>2, <1>7, Zenon
    <3>8. finished.id \notin torn => Exists(appliedFiles'[finished.id])
      BY <2>2, <2>6, <3>2, <3>7, Zenon
    <3>9. finished.id \notin torn \union again =>
             \A i \in 1..(finished.next - 1) : appliedFiles'[finished.id][i] = "whole"
      BY <3>5, <3>6, <3>7, Zenon
    <3>10. /\ \A x \in SetID : x # finished.id => appliedFiles'[x] = appliedFiles[x]
          /\ Exists(appliedFiles[finished.id]) => Exists(appliedFiles'[finished.id])
      BY <3>2, <3>7, Zenon
    <3>11. QED
      BY <1>1, <1>7, <2>6, <3>2, <3>7, <3>8, <3>9, <3>10, ApplyWriteStep, ZenonT(30)
  <2>7. QED
    BY <1>3, <1>7, <2>3, <2>4, <2>5, <2>6, Zenon
<1>8. QED
  BY <1>6, <1>7, Zenon

\* A command that has written its set goes on to name it.
LEMMA WrittenStep ==
    ASSUME FilesInv, NEW t \in Tool, Written(t)
    PROVE  FilesInv'
<1>1. /\ tools \in [Tool -> Command] /\ tools[t] \in Command
      /\ tools[t].pc = "write" /\ tools[t].id \in SetID /\ tools[t].handle = "none"
      /\ tools[t].next = Parts + 1
      /\ UNCHANGED <<stagedFiles, appliedFiles, current, tmp, torn, again, overlapped>>
  BY FilesAssumption DEF FilesInv, FilesType, ToolsAreSound, Written, Command, histories
<1>2. CASE tools[t].cmd = "render"
  BY <1>1, <1>2, EndToolStep, Zenon DEF Written
<1>3. CASE tools[t].cmd = "diff"
  <2> DEFINE k == Advanced(tools[t], "current", tools[t].next, FALSE, "none")
  <2>1. tools' = [tools EXCEPT ![t] = k]
    BY <1>3, Zenon DEF Written
  <2>2. /\ k \in Command /\ k.pc = "current" /\ k.handle = "none" /\ k.id \in SetID
        /\ k.cmd = "diff"
    BY <1>1, <1>3, Zenon DEF Advanced, Command
  <2> HIDE DEF k
  <2>3. stagedFiles' \in [SetID -> [0..Parts -> FileState]]
    BY <1>1, Zenon DEF FilesInv, FilesType
  <2>4. QED
    BY <1>1, <2>1, <2>2, <2>3, BesideTheApplied, Zenon
<1>4. CASE tools[t].cmd \notin {"render", "diff"}
  <2> DEFINE k == Advanced(tools[t], "open", tools[t].next, FALSE, "none")
  <2>1. tools' = [tools EXCEPT ![t] = k]
    BY <1>4, Zenon DEF Written
  <2>2. /\ k \in Command /\ k.pc = "open" /\ k.handle = "none" /\ k.id = tools[t].id
        /\ k.cmd = tools[t].cmd /\ k.copy = tools[t].copy /\ k.next = tools[t].next /\ ~k.opened
    BY <1>1, Zenon DEF Advanced, Command
  <2> HIDE DEF k
  <2>3. tools'[t] = k /\ \A u \in Tool : u # t => tools'[u] = tools[u]
    BY <1>1, <2>1, Zenon
  <2>4. tools[t].cmd = "apply"
    <3>1. tools[t].cmd # "none"
      BY <1>1, Zenon DEF FilesInv, ToolsAreSound
    <3>2. QED
      BY <1>1, <1>4, <3>1, Zenon DEF Command
  <2>5. Applying(tools[t]) /\ Applying(k)
    BY <1>1, <2>2, <2>4, Zenon DEF Applying
  <2>6. FilesType'
    BY <1>1, <2>1, <2>2, Zenon DEF FilesInv, FilesType
  <2>7. ToolsAreSound'
    BY <1>1, <2>2, <2>3, <2>4 DEF FilesInv, ToolsAreSound
  <2>8. Progress'
    <3>1. ASSUME k.id \notin torn
          PROVE  /\ k.opened \/ k.next > 1 => Exists(appliedFiles[k.id])
                 /\ k.pc # "write" => k.next = Parts + 1
                 /\ k.id \notin again =>
                      \A i \in 1..(k.next - 1) : appliedFiles[k.id][i] = "whole"
      BY <1>1, <2>2, <2>5, <3>1, Zenon DEF FilesInv, Progress
    <3>2. QED
      BY <1>1, <2>3, <3>1 DEF FilesInv, Progress
  <2>9. WritersAreKnown' /\ RewritesAreKnown'
    BY <1>1, <2>2, <2>3, <2>5 DEF FilesInv, WritersAreKnown, RewritesAreKnown
  <2>10. NamedAreSound'
    BY <1>1, Zenon DEF FilesInv, NamedAreSound, SoundSet
  <2>11. TurnsAreTaken'
    BY <1>1, <2>2, <2>3, Zenon DEF FilesInv, TurnsAreTaken
  <2>12. QED
    BY <2>6, <2>7, <2>8, <2>9, <2>10, <2>11, Zenon DEF FilesInv
<1>5. QED
  BY <1>2, <1>3, <1>4, Zenon

\* Creating current.tmp keeps the invariant.
LEMMA OpenTmpStep ==
    ASSUME FilesInv, NEW t \in Tool, OpenTmp(t)
    PROVE  FilesInv'
<1> DEFINE k == Advanced(tools[t], "name", tools[t].next, FALSE, "tmp")
<1>1. /\ tools \in [Tool -> Command] /\ tools[t] \in Command
      /\ tools[t].pc = "open" /\ tools[t].id \in SetID /\ tools[t].cmd = "apply"
      /\ tmp' = "empty" /\ tools' = [tools EXCEPT ![t] = k]
      /\ overlapped' = (overlapped \/ \E u \in Tool \ {t} : tools[u].handle = "tmp")
      /\ UNCHANGED <<stagedFiles, appliedFiles, current, torn, again>>
  BY Zenon DEF FilesInv, FilesType, ToolsAreSound, OpenTmp
<1>2. /\ k \in Command /\ k.pc = "name" /\ k.handle = "tmp" /\ k.id = tools[t].id
      /\ k.cmd = "apply" /\ k.copy = tools[t].copy /\ k.next = tools[t].next /\ ~k.opened
  BY <1>1, Zenon DEF Advanced, Command
<1> HIDE DEF k
<1>3. tools'[t] = k /\ \A u \in Tool : u # t => tools'[u] = tools[u]
  BY <1>1, Zenon
<1>4. Applying(tools[t]) /\ Applying(k)
  BY <1>1, <1>2, Zenon DEF Applying
<1>5. FilesType'
  BY <1>1, <1>2, Zenon DEF FilesInv, FilesType
<1>6. ToolsAreSound'
  BY <1>1, <1>2, <1>3, Zenon DEF FilesInv, ToolsAreSound
<1>7. Progress'
  <2>1. ASSUME k.id \notin torn
        PROVE  /\ k.opened \/ k.next > 1 => Exists(appliedFiles[k.id])
               /\ k.pc # "write" => k.next = Parts + 1
               /\ k.id \notin again =>
                    \A i \in 1..(k.next - 1) : appliedFiles[k.id][i] = "whole"
    BY <1>1, <1>2, <1>4, <2>1, Zenon DEF FilesInv, Progress
  <2>2. QED
    BY <1>1, <1>3, <2>1, Zenon DEF FilesInv, Progress
<1>8. WritersAreKnown'
  BY <1>1, <1>2, <1>3, <1>4, Zenon DEF FilesInv, WritersAreKnown
<1>9. RewritesAreKnown'
  <2>1. \A u \in Tool : Applying(tools[u]) => tools[u].id # "empty"
    BY FilesAssumption, Zenon DEF FilesInv, ToolsAreSound, Applying
  <2>2. QED
    BY <1>1, <1>2, <1>3, <1>4, <2>1, Zenon DEF FilesInv, RewritesAreKnown
<1>10. NamedAreSound'
  <2>1. "empty" \notin SetID
    BY FilesAssumption, Zenon
  <2>2. QED
    BY <1>1, <2>1, Zenon DEF FilesInv, NamedAreSound, SoundSet
<1>11. TurnsAreTaken'
  <2>1. SUFFICES ASSUME ~overlapped' PROVE
               /\ \A u, w \in Tool : tools'[u].handle = "tmp" /\ tools'[w].handle = "tmp" => u = w
               /\ \A u \in Tool : tools'[u].handle \in {"none", "tmp"}
               /\ \A u \in Tool : tools'[u].pc = "rename" => tmp' = tools'[u].id
               /\ current' \in SetID \union {"absent"}
    BY Zenon DEF TurnsAreTaken
  <2>2. ~overlapped /\ \A u \in Tool : u # t => tools[u].handle # "tmp"
    BY <1>1, <2>1, Zenon
  <2>3. \A u \in Tool : u # t => tools[u].handle = "none" /\ tools[u].pc # "rename"
    BY <2>2, Zenon DEF FilesInv, TurnsAreTaken, ToolsAreSound
  <2>4. QED
    BY <1>1, <1>2, <1>3, <2>2, <2>3, Zenon DEF FilesInv, TurnsAreTaken
<1>12. QED
  BY <1>5, <1>6, <1>7, <1>8, <1>9, <1>10, <1>11 DEF FilesInv

\* Writing the name of the set into it keeps the invariant.
LEMMA WriteTmpStep ==
    ASSUME FilesInv, NEW t \in Tool, WriteTmp(t)
    PROVE  FilesInv'
<1> DEFINE k == Advanced(tools[t], "rename", tools[t].next, FALSE, tools[t].handle)
<1>1. /\ tools \in [Tool -> Command] /\ tools[t] \in Command
      /\ tools[t].pc = "name" /\ tools[t].id \in SetID /\ tools[t].cmd = "apply"
      /\ tools[t].handle # "none"
      /\ tmp' = IF tools[t].handle = "tmp" THEN tools[t].id ELSE tmp
      /\ current' = IF tools[t].handle = "current" THEN tools[t].id ELSE current
      /\ tools' = [tools EXCEPT ![t] = k]
      /\ UNCHANGED <<stagedFiles, appliedFiles, torn, again, overlapped>>
  BY Zenon DEF FilesInv, FilesType, ToolsAreSound, WriteTmp, histories
<1>2. /\ k \in Command /\ k.pc = "rename" /\ k.handle = tools[t].handle /\ k.id = tools[t].id
      /\ k.cmd = "apply" /\ k.copy = tools[t].copy /\ k.next = tools[t].next /\ ~k.opened
  BY <1>1, Zenon DEF Advanced, Command
<1> HIDE DEF k
<1>3. tools'[t] = k /\ \A u \in Tool : u # t => tools'[u] = tools[u]
  BY <1>1, Zenon
<1>4. Applying(tools[t]) /\ Applying(k)
  BY <1>1, <1>2, Zenon DEF Applying
<1>5. FilesType'
  BY <1>1, <1>2, Zenon DEF FilesInv, FilesType
<1>6. ToolsAreSound'
  BY <1>1, <1>2, <1>3, Zenon DEF FilesInv, ToolsAreSound
<1>7. Progress'
  <2>1. ASSUME k.id \notin torn
        PROVE  /\ k.opened \/ k.next > 1 => Exists(appliedFiles[k.id])
               /\ k.pc # "write" => k.next = Parts + 1
               /\ k.id \notin again =>
                    \A i \in 1..(k.next - 1) : appliedFiles[k.id][i] = "whole"
    BY <1>1, <1>2, <1>4, <2>1, Zenon DEF FilesInv, Progress
  <2>2. QED
    BY <1>1, <1>3, <2>1, Zenon DEF FilesInv, Progress
<1>8. WritersAreKnown'
  BY <1>1, <1>2, <1>3, <1>4, Zenon DEF FilesInv, WritersAreKnown
<1>9. RewritesAreKnown'
  <2>1. ASSUME NEW u \in Tool, u # t, Applying(tools[u]), tools[u].pc # "rename",
               tools[u].id \in {current', tmp'}
        PROVE  tools[u].id \in again
    <3>1. tools[u].id = tools[t].id \/ tools[u].id \in {current, tmp}
      BY <1>1, <2>1, Zenon
    <3>2. QED
      BY <1>4, <2>1, <3>1, Zenon DEF FilesInv, WritersAreKnown, RewritesAreKnown
  <2>2. QED
    BY <1>1, <1>2, <1>3, <2>1, Zenon DEF RewritesAreKnown
<1>10. NamedAreSound'
  <2>1. SoundSet(tools[t].id) /\ SoundSet(current) /\ SoundSet(tmp)
    BY <1>1, WrittenIsWhole, Zenon DEF FilesInv, NamedAreSound
  <2>2. QED
    BY <1>1, <2>1, Zenon DEF NamedAreSound, SoundSet
<1>11. TurnsAreTaken'
  <2>1. SUFFICES ASSUME ~overlapped PROVE
               /\ \A u, w \in Tool : tools'[u].handle = "tmp" /\ tools'[w].handle = "tmp" => u = w
               /\ \A u \in Tool : tools'[u].handle \in {"none", "tmp"}
               /\ \A u \in Tool : tools'[u].pc = "rename" => tmp' = tools'[u].id
               /\ current' \in SetID \union {"absent"}
    BY <1>1, Zenon DEF TurnsAreTaken
  <2>2. /\ tools[t].handle = "tmp" /\ tmp' = tools[t].id /\ current' = current
        /\ \A u \in Tool : u # t => tools[u].handle # "tmp"
    BY <1>1, <2>1, Zenon DEF FilesInv, TurnsAreTaken
  <2>3. \A u \in Tool : u # t => tools[u].handle = "none" /\ tools[u].pc # "rename"
    BY <2>1, <2>2, Zenon DEF FilesInv, TurnsAreTaken, ToolsAreSound
  <2>4. QED
    BY <1>1, <1>2, <1>3, <2>1, <2>2, <2>3, Zenon DEF FilesInv, TurnsAreTaken
<1>12. QED
  BY <1>5, <1>6, <1>7, <1>8, <1>9, <1>10, <1>11 DEF FilesInv

\* Renaming it to current keeps the invariant: it names a set that is whole.
LEMMA RenameStep ==
    ASSUME FilesInv, NEW t \in Tool, Rename(t)
    PROVE  FilesInv'
<1>1. /\ tools \in [Tool -> Command] /\ tools[t] \in Command
      /\ tools[t].pc = "rename" /\ tools[t].id \in SetID /\ tools[t].handle # "none"
      /\ tmp' = "absent" /\ current' = (IF tmp = "absent" THEN current ELSE tmp)
      /\ UNCHANGED <<stagedFiles, appliedFiles, torn, again, overlapped>>
  BY Zenon DEF FilesInv, FilesType, ToolsAreSound, Rename, histories
<1>2. "absent" \notin SetID
  BY FilesAssumption, Zenon
<1>3. /\ tools'[t] \in Command /\ tools'[t].pc = "ended" /\ tools'[t].handle = "none"
      /\ tools'[t].cmd = "none"
  <2>1. tools'[t] = Ended
    BY Zenon DEF Rename
  <2>2. QED
    BY <2>1, EndedType, Zenon
<1>4. ASSUME NEW u \in Tool, u # t
      PROVE  /\ tools'[u] \in Command
             /\ tools'[u].cmd = tools[u].cmd /\ tools'[u].id = tools[u].id
             /\ tools'[u].pc = tools[u].pc /\ tools'[u].next = tools[u].next
             /\ tools'[u].opened = tools[u].opened /\ tools'[u].copy = tools[u].copy
             /\ tools'[u].handle = "none" <=> tools[u].handle = "none"
  <2>1. CASE tmp = "absent"
    BY <1>1, <1>4, <2>1, Zenon DEF Rename
  <2>2. CASE tmp # "absent"
    <3>1. tools'[u] = Advanced(tools[u], tools[u].pc, tools[u].next, tools[u].opened,
                               Renamed(tools[u].handle))
      BY <1>4, <2>2, Zenon DEF Rename
    <3>2. tools[u] \in Command
      BY <1>1, Zenon
    <3>3. QED
      BY <3>1, <3>2 DEF Advanced, Renamed, Command
  <2>3. QED
    BY <2>1, <2>2, Zenon
<1>5. FilesType'
  <2>1. tools' \in [Tool -> Command]
    <3>1. \A u \in Tool : tools'[u] \in Command
      BY <1>3, <1>4, Zenon
    <3>2. tools' = [u \in Tool |-> tools'[u]]
      BY Zenon DEF Rename
    <3>3. QED
      BY <3>1, <3>2, Zenon
  <2>2. QED
    BY <1>1, <2>1, Zenon DEF FilesInv, FilesType
<1>6. ToolsAreSound'
  BY <1>1, <1>3, <1>4 DEF FilesInv, ToolsAreSound
<1>7. \A u \in Tool : Applying(tools'[u]) => u # t /\ Applying(tools[u])
  BY <1>3, <1>4, Zenon DEF Applying
<1>8. Progress'
  BY <1>1, <1>4, <1>7 DEF FilesInv, Progress
<1>9. WritersAreKnown'
  BY <1>1, <1>4, <1>7, Zenon DEF FilesInv, WritersAreKnown
<1>10. RewritesAreKnown'
  <2>1. \A u \in Tool : Applying(tools[u]) => tools[u].id # "absent"
    BY <1>2, Zenon DEF FilesInv, ToolsAreSound, Applying
  <2>2. QED
    BY <1>1, <1>4, <1>7, <2>1, Zenon DEF FilesInv, RewritesAreKnown
<1>11. NamedAreSound'
  BY <1>1, <1>2, Zenon DEF FilesInv, NamedAreSound, SoundSet
<1>12. TurnsAreTaken'
  <2>1. SUFFICES ASSUME ~overlapped PROVE
               /\ \A u \in Tool : tools'[u].handle = "none"
               /\ \A u \in Tool : tools'[u].pc # "rename"
               /\ current' \in SetID \union {"absent"}
    BY <1>1, Zenon DEF TurnsAreTaken
  <2>2. tools[t].handle = "tmp" /\ tmp = tools[t].id
    BY <1>1, <2>1, Zenon DEF FilesInv, TurnsAreTaken
  <2>3. \A u \in Tool : u # t => tools[u].handle = "none" /\ tools[u].pc # "rename"
    BY <2>1, <2>2, Zenon DEF FilesInv, TurnsAreTaken, ToolsAreSound
  <2>4. QED
    BY <1>1, <1>2, <1>3, <1>4, <2>2, <2>3, Zenon
<1>13. QED
  BY <1>5, <1>6, <1>8, <1>9, <1>10, <1>11, <1>12 DEF FilesInv

\* Every step keeps the invariant.
LEMMA FilesStep ==
    ASSUME FilesInv, [FilesNext]_fileVars
    PROVE  FilesInv'
<1>1. CASE UNCHANGED fileVars
  BY <1>1 DEF FilesInv, FilesType, ToolsAreSound, Progress, WritersAreKnown, RewritesAreKnown,
              NamedAreSound, SoundSet, TurnsAreTaken, fileVars, histories
<1>2. CASE FilesNext
  <2>1. PICK t \in Tool :
          \/ \E s \in SetID : Render(t, s) \/ Diff(t, s) \/ Apply(t, s)
          \/ ReadCurrent(t) \/ Write(t) \/ Written(t) \/ OpenTmp(t) \/ WriteTmp(t) \/ Rename(t)
          \/ Interrupt(t)
    BY <1>2, Zenon DEF FilesNext
  <2>2. CASE Interrupt(t)
    BY <2>2, EndToolStep, Zenon DEF Interrupt, histories
  <2>3. QED
    BY <2>1, <2>2, BeginToolStep, ReadCurrentStep, WriteStep, WrittenStep, OpenTmpStep,
       WriteTmpStep, RenameStep, Zenon
<1>3. QED
  BY <1>1, <1>2, ZenonT(30)

\* An empty directory satisfies it.
LEMMA FilesStart ==
    ASSUME FilesInit
    PROVE  FilesInv
<1>1. NoFiles \in [0..Parts -> FileState] /\ NoFiles[0] = "absent"
  BY FilesAssumption DEF NoFiles, FileState
<1>2. Ended \in Command /\ Ended.pc = "ended" /\ Ended.handle = "none" /\ Ended.cmd = "none"
  BY EndedType, Zenon
<1>3. \A t \in Tool : tools[t] = Ended
  BY Zenon DEF FilesInit
<1>4. FilesType
  BY <1>1, <1>2, Zenon DEF FilesInit, FilesType
<1>5. ToolsAreSound
  BY <1>2, <1>3, Zenon DEF ToolsAreSound
<1>6. Progress /\ WritersAreKnown /\ RewritesAreKnown
  BY <1>2, <1>3, Zenon DEF Progress, WritersAreKnown, RewritesAreKnown, Applying
<1>7. NamedAreSound
  BY FilesAssumption, Zenon DEF FilesInit, NamedAreSound, SoundSet
<1>8. TurnsAreTaken
  BY <1>2, <1>3, Zenon DEF FilesInit, TurnsAreTaken
<1>9. QED
  BY <1>4, <1>5, <1>6, <1>7, <1>8, Zenon DEF FilesInv

\* Whichever operator commands run side by side and wherever one is killed or
\* the disk refuses a write, the configuration set that "current" names has all
\* of its files, unless it was applied from an incomplete staged directory or
\* applied again while in use; and "current" can be read, unless two commands
\* applied a set at the same time.
THEOREM CurrentSetIsSound == FilesSpec => []CurrentIsSound
<1>1. FilesInv => CurrentIsSound
  <2> SUFFICES ASSUME FilesInv PROVE CurrentIsSound
    BY Zenon
  <2>1. CurrentIsWhole
    BY Zenon DEF FilesInv, NamedAreSound, SoundSet, CurrentIsWhole
  <2>2. CurrentIsReadable
    BY Zenon DEF FilesInv, NamedAreSound, SoundSet, TurnsAreTaken, CurrentIsReadable, Readable
  <2>3. QED
    BY <2>1, <2>2, Zenon DEF CurrentIsSound
<1>2. QED
  BY <1>1, FilesStart, FilesStep, PTL DEF FilesSpec
=============================================================================
