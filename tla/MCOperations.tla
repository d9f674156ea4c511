---------------------------- MODULE MCOperations ----------------------------
(***************************************************************************)
(* The administrator's operations and the notifications.  The seven parts  *)
(* share no state, so the instance checks them side by side and not in     *)
(* product: the initial state says which one a behaviour is about.         *)
(***************************************************************************)
EXTENDS DirectoryOps, AuditRetention, BackupRestore, OperatorPlan, Alerts, TelegramUpdates,
        Startup

CONSTANTS d1, d2, u1, u2, key, w1, w2, w3, b, m1, m2, m9

VARIABLE side

others == <<opsVars, retentionVars, backupVars, planVars, alertVars, transport, telegramVars,
            startVars>>

MCHome(x) == IF x = u2 THEN d2 ELSE d1

Candidate(type, id, revoked, flaw) == [type |-> type, id |-> id, revoked |-> revoked, flaw |-> flaw]

\* A domain with a user; a user of a domain that is not listed, and an alias;
\* a DKIM key and a relay without users; and an export with a flaw.
MCSource ==
    {{Candidate("domain", d1, FALSE, None), Candidate("user", u1, FALSE, None)},
     {Candidate("user", u2, FALSE, None), Candidate("alias", u1, FALSE, None)},
     {Candidate("dkim", key, FALSE, None), Candidate("relay", d2, FALSE, None),
      Candidate("token", key, TRUE, None)},
     {Candidate("user", u1, FALSE, "conflict")}}

MCBatch == {<<u1>>, <<u2, u1>>}

MCUpgrades == <<m1, m2>>

\* w3 is of the release before and configured with another address.
MCRelease == [p \in Server |-> IF p = w3 THEN 1 ELSE 2]

MCSenders ==
    [p \in Server |-> IF p = w3 THEN <<[id |-> "notify", address |-> "old"]>>
                     ELSE <<[id |-> "notify", address |-> "new"], [id |-> "postfix", address |-> "bounce"]>>]

\* No tables; those of two earlier releases; a row left dirty; a migration
\* that was changed; a database of a later release.
MCDatabases ==
    {{}, {Sound(b)}, {Sound(b), Sound(m1)},
     {Sound(b), [Sound(m1) EXCEPT !.dirty = TRUE]},
     {Sound(b), [Sound(m1) EXCEPT !.original = FALSE]},
     {Sound(b), Sound(m1), Sound(m2), Sound(m9)}}

MCInit ==
    /\ OpsInit /\ RetentionInit /\ BackupInit /\ PlanInit /\ AlertsInit /\ TelegramInit
    /\ StartupInit
    /\ side \in {"directory", "retention", "backup", "plans", "alerts", "telegram", "startup"}
    /\ side # "directory" => domains = <<>>
    /\ DOMAIN aliases \subseteq {u1}
    /\ IF side = "backup" THEN live.hold = "released" /\ \A b0 \in Box : live.boxes[b0] # "off"
                          ELSE live = Nothing
    /\ side # "plans" => token.secret = CHOOSE s \in Secret : TRUE
    /\ side # "alerts" => transport = "email"
    /\ side # "startup" => ledger = {} /\ ~hosted

MCNext ==
    /\ \/ /\ side = "directory" /\ OpsNext
          /\ UNCHANGED <<retentionVars, backupVars, planVars, alertVars, transport, telegramVars, startVars>>
       \/ /\ side = "retention" /\ RetentionNext
          /\ UNCHANGED <<opsVars, backupVars, planVars, alertVars, transport, telegramVars, startVars>>
       \/ /\ side = "backup" /\ BackupNext
          /\ UNCHANGED <<opsVars, retentionVars, planVars, alertVars, transport, telegramVars, startVars>>
       \/ /\ side = "plans" /\ PlanNext
          /\ UNCHANGED <<opsVars, retentionVars, backupVars, alertVars, transport, telegramVars, startVars>>
       \/ /\ side = "alerts" /\ AlertsNext
          /\ UNCHANGED <<opsVars, retentionVars, backupVars, planVars, telegramVars, startVars>>
       \/ /\ side = "telegram" /\ TelegramNext
          /\ UNCHANGED <<opsVars, retentionVars, backupVars, planVars, alertVars, transport, startVars>>
       \/ /\ side = "startup" /\ StartupNext
          /\ UNCHANGED <<opsVars, retentionVars, backupVars, planVars, alertVars, transport, telegramVars>>
    /\ UNCHANGED side

\* The monitor's ticker goes on and every call it makes ends; a delivery that
\* is tried for ever is not refused as unavailable for ever.  Processes are
\* restarted and go on.
MCSpec ==
    /\ MCInit
    /\ [][MCNext]_<<others, side>>
    /\ WF_alertVars(side = "alerts" /\ MonitorStep)
    /\ SF_alertVars(side = "alerts" /\ SendAlert /\ round'.result # "failed_retryable")
    /\ \A p \in Server : WF_startVars(side = "startup" /\ Start(p))
=============================================================================
