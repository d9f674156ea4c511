---------------------------- MODULE BackupRestore ---------------------------
(***************************************************************************)
(* Backup artifacts and their verification (ops, outboundpolicy, store).   *)
(* An artifact has the directory as the daemon knew it and, captured       *)
(* later in one read-only transaction, the outbound policy with its queue. *)
(* It is verified by restoring it: into memory, or into an isolated        *)
(* database that must be empty.  Snapshots link to a verification and      *)
(* decide what is said about a rollback.                                   *)
(***************************************************************************)
EXTENDS Naturals, FiniteSets

CONSTANTS Box, MaxChanges, Verification, Engine

State == {"absent", "on", "off"}
Hold == {"none", "held", "released"}
Nothing == [boxes |-> [b \in Box |-> "absent"], hold |-> "none"]

VARIABLES live,        \* the tables: mailboxes, and the hold state of a queue record
          artifact, target, checks, rows, snapshots, changes

backupVars == <<live, artifact, target, checks, rows, snapshots, changes>>

Present(boxes) == {b \in Box : boxes[b] # "absent"}

Change ==
    /\ changes < MaxChanges
    /\ changes' = changes + 1
    /\ \/ \E b \in Box, s \in {"on", "off"} : live' = [live EXCEPT !.boxes[b] = s]
       \/ \E h \in {"held", "released"} : live' = [live EXCEPT !.hold = h]
    /\ UNCHANGED <<artifact, target, checks, rows, snapshots>>

\* The directory of an artifact, without a policy, replaces what the storage
\* holds under the same reference.
CaptureDirectory ==
    /\ artifact' = [stored |-> TRUE, boxes |-> live.boxes, policy |-> Nothing,
                    withPolicy |-> FALSE]
    /\ UNCHANGED <<live, target, checks, rows, snapshots, changes>>

\* CaptureBackupState: one repeatable-read transaction.
CapturePolicy ==
    /\ artifact.stored /\ ~artifact.withPolicy
    /\ artifact' = [artifact EXCEPT !.policy = live, !.withPolicy = TRUE]
    /\ UNCHANGED <<live, target, checks, rows, snapshots, changes>>

-----------------------------------------------------------------------------
(* Verification                                                            *)

CheckAt(v, pc) == checks[v].pc = pc

Proceed(v, pc) == checks' = [checks EXCEPT ![v].pc = pc]

\* The artifact is read once, and kept for the whole verification; it must be
\* there and hold mailboxes.
ReadBackup(v, engine) ==
    /\ CheckAt(v, "idle")
    /\ checks' = [checks EXCEPT ![v] =
          [pc |-> IF Present(artifact.boxes) = {} THEN "failed" ELSE "read",
           engine |-> engine, art |-> artifact, restored |-> Nothing, verified |-> FALSE]]
    /\ UNCHANGED <<live, artifact, target, rows, snapshots, changes>>

\* The directory of an artifact, without a queue.
DirectoryOf(art) == [boxes |-> art.boxes, hold |-> "none"]

\* A verification with what came back.
Compared(v, pc, restored, verified) ==
    [pc |-> pc, engine |-> checks[v].engine, art |-> checks[v].art, restored |-> restored,
     verified |-> verified]

RestoreLocally(v) ==
    /\ CheckAt(v, "read") /\ checks[v].engine = "local"
    /\ checks' = [checks EXCEPT ![v] = Compared(v, "restored", DirectoryOf(checks[v].art), FALSE)]
    /\ UNCHANGED <<live, artifact, target, rows, snapshots, changes>>

\* The schema is created only where there is no relation at all.
MigrateEmptySQL(v) ==
    /\ CheckAt(v, "read") /\ checks[v].engine = "sql"
    /\ IF target.state = "empty"
       THEN target' = [target EXCEPT !.state = "migrated"] /\ Proceed(v, "migrated")
       ELSE UNCHANGED target /\ Proceed(v, "failed")
    /\ UNCHANGED <<live, artifact, rows, snapshots, changes>>

\* What the rows of a restore are: those of the policy when the artifact has
\* one, or else those of the directory.
Content(art) ==
    IF art.withPolicy THEN art.policy ELSE DirectoryOf(art)

restoreArtifactToSQL(v) ==
    /\ CheckAt(v, "migrated")
    /\ target' = [target EXCEPT !.state = "restored", !.content = Content(checks[v].art),
                                !.restores = @ + 1]
    /\ Proceed(v, "written")
    /\ UNCHANGED <<live, artifact, rows, snapshots, changes>>

\* The restored rows are compared with the artifact's, the queue's hold state
\* included, and then loaded as the daemon would.
VerifyBackupState(v) ==
    /\ CheckAt(v, "written")
    /\ checks' = [checks EXCEPT ![v] = Compared(v,
          IF checks[v].art.withPolicy => target.content = checks[v].art.policy
          THEN "restored" ELSE "failed", target.content, TRUE)]
    /\ UNCHANGED <<live, artifact, target, rows, snapshots, changes>>

\* Wrong: the daemon's answers are asked of the artifact, not of the restore.
ContractOnArtifact(v) ==
    \A b \in Present(checks[v].art.boxes) : checks[v].art.boxes[b] = "on"

\* The restored daemon must accept mail for every mailbox of the directory.
Contract(v) ==
    \A b \in Present(checks[v].art.boxes) : checks[v].restored.boxes[b] = "on"

PolicyVerified(v) == checks[v].art.withPolicy => checks[v].verified

VerifyBackupWithRestore(v) ==
    /\ CheckAt(v, "restored")
    /\ Proceed(v, IF PolicyVerified(v) /\ Contract(v) THEN "verified" ELSE "failed")
    /\ UNCHANGED <<live, artifact, target, rows, snapshots, changes>>

\* An error or the end of the process, wherever the verification is: what was
\* written to the isolated database stays there.
FailCheck(v) ==
    /\ checks[v].pc \in {"read", "migrated", "written"}
    /\ Proceed(v, "failed")
    /\ UNCHANGED <<live, artifact, target, rows, snapshots, changes>>

\* Every outcome is recorded but that of an artifact that could not be read.
Record(v) ==
    /\ checks[v].pc \in {"verified", "failed"}
    /\ rows' = [rows EXCEPT ![v] = IF checks[v].art.stored THEN checks[v].pc ELSE "none"]
    /\ Proceed(v, "done")
    /\ UNCHANGED <<live, artifact, target, snapshots, changes>>

CaptureSnapshot(v) ==
    /\ rows[v] # "none"
    /\ snapshots' = snapshots \union {v}
    /\ UNCHANGED <<live, artifact, target, checks, rows, changes>>

\* What is said of a rollback to the snapshot linked to a verification.
RollbackGuidance(v) == IF rows[v] = "verified" THEN "may proceed" ELSE "blocked"

BackupInit ==
    /\ live \in {[boxes |-> f, hold |-> h] : f \in [Box -> State], h \in {"none", "released"}}
    /\ artifact = [stored |-> FALSE, boxes |-> Nothing.boxes, policy |-> Nothing,
                   withPolicy |-> FALSE]
    /\ target = [state |-> "empty", content |-> Nothing, restores |-> 0]
    /\ checks = [v \in Verification |->
          [pc |-> "idle", engine |-> "local", art |-> artifact, restored |-> Nothing,
           verified |-> FALSE]]
    /\ rows = [v \in Verification |-> "none"]
    /\ snapshots = {}
    /\ changes = 0

BackupNext ==
    \/ Change
    \/ CaptureDirectory
    \/ CapturePolicy
    \/ \E v \in Verification :
          \/ \E e \in Engine : ReadBackup(v, e)
          \/ RestoreLocally(v)
          \/ MigrateEmptySQL(v)
          \/ restoreArtifactToSQL(v)
          \/ VerifyBackupState(v)
          \/ VerifyBackupWithRestore(v)
          \/ FailCheck(v)
          \/ Record(v)
          \/ CaptureSnapshot(v)

BackupSpec == BackupInit /\ [][BackupNext]_backupVars

-----------------------------------------------------------------------------
(* Properties                                                              *)

\* When a rollback to a snapshot "may proceed", a restore of exactly the
\* artifact behind it has been made: every mailbox of its directory accepted
\* mail, and a policy came back row by row with the hold state of its queue,
\* from the isolated database and not from memory.
GuidanceIsEarned ==
    \A v \in snapshots : RollbackGuidance(v) = "may proceed" =>
        LET art == checks[v].art
        IN  /\ \A b \in Present(art.boxes) : Content(art).boxes[b] = "on"
            /\ art.withPolicy => checks[v].restored = art.policy /\ checks[v].engine = "sql"

\* An isolated database is restored into once: no verification reads what
\* another one has written.
RestoredOnce == target.restores <= 1

\* A verification proves what is said of the rollback, on its own database.
VerificationIsSound == GuidanceIsEarned /\ RestoredOnce
=============================================================================
