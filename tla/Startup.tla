------------------------------- MODULE Startup -------------------------------
(***************************************************************************)
(* The start of server processes on one database: configureDatabaseFromEnv *)
(* (cmd/gotth-mail), the migrations (internal/store) and the binding of    *)
(* the configured system sender (internal/outboundpolicy).  Processes of   *)
(* an older and of a newer build start at the same time, fail, die and are *)
(* started again.                                                          *)
(*                                                                         *)
(* The migration is one transaction; its statements are single steps, as   *)
(* another process can run between them.                                   *)
(***************************************************************************)
EXTENDS Naturals, Sequences, FiniteSets

CONSTANTS
    Server,     \* the processes
    Base,       \* the versions of InitialSchema
    Upgrades,   \* the upgrade migrations of the newest build, in their order
    Release,    \* [Server -> 0..Len(Upgrades)]: how many of them its build has
    Foreign,    \* a version no build knows
    Senders,    \* [Server -> the system senders it is configured with, in a sequence]
    Databases,  \* the ledgers the first start can find; {} for no ledger
    MaxDeaths,
    Nobody

Version == Base \union {Upgrades[i] : i \in 1..Len(Upgrades)} \union {Foreign}

Row == [version : Version, original : BOOLEAN, dirty : BOOLEAN]

ASSUME StartupAssumption ==
    /\ Len(Upgrades) \in Nat
    /\ Release \in [Server -> 0..Len(Upgrades)]
    /\ \A p \in Server : Len(Senders[p]) \in Nat
    /\ Databases \subseteq SUBSET Row
    /\ Nobody \notin Server

VARIABLES
    created,   \* whether schema_migrations exists
    ledger,    \* its rows: records of version, whether the checksum is the build's, dirty
    effects,   \* how often the statements of a version took effect
    creator,   \* the transaction that is creating the tables
    holder,    \* the transaction that holds the lock on schema_migrations
    waiting,   \* those that have asked for it, in the order in which they get it
    hosted,    \* whether the domain of the senders is there and enabled
    senders,   \* outbound_system_senders: [id, address]
    bound,     \* audit events of the bindings: [id, address] to their number
    servers,   \* where a start is, and what its transaction has read and written
    deaths

startVars == <<created, ledger, effects, creator, holder, waiting, hosted, senders, bound,
               servers, deaths>>

Sound(v) == [version |-> v, original |-> TRUE, dirty |-> FALSE]

Versions(rows) == {r.version : r \in rows}

Sender == UNION {{Senders[p][i] : i \in 1..Len(Senders[p])} : p \in Server}

\* A start that is not in a transaction: its step, the sender it binds next, and
\* why it failed.
Outside(step, next, why) ==
    [pc |-> step, rows |-> {}, wrote |-> {}, next |-> next, saw |-> {}, why |-> why]

Down == Outside("down", 1, "none")

StartupInit ==
    /\ ledger \in Databases
    /\ created = (ledger # {})
    /\ effects = [v \in Version |-> IF v \in Versions(ledger) THEN 1 ELSE 0]
    /\ creator = Nobody /\ holder = Nobody /\ waiting = <<>>
    /\ hosted \in BOOLEAN
    /\ senders = {}
    /\ bound = [x \in Sender |-> 0]
    /\ servers = [p \in Server |-> Down]
    /\ deaths = 0

-----------------------------------------------------------------------------
(* migrateSQL *)

\* Wrong: the transaction of a start that failed stays open.
RollbackNothing(p) == UNCHANGED <<creator, holder, waiting>>

\* The deferred rollback, and the end of the transaction on a commit.
Rollback(p) ==
    /\ creator' = IF creator = p THEN Nobody ELSE creator
    /\ holder' = IF holder = p THEN Nobody ELSE holder
    /\ waiting' = SelectSeq(waiting, LAMBDA q : q # p)

GoTo(p, step) == servers' = [servers EXCEPT ![p].pc = step]

Fail(p, why) ==
    /\ servers' = [servers EXCEPT ![p] = Outside("failed", 1, why)]
    /\ Rollback(p)
    /\ UNCHANGED <<created, ledger, effects, hosted, senders, bound, deaths>>

\* Whether the tables are there is read before any lock.
LookForLedger(p) ==
    /\ servers[p].pc = "down"
    /\ GoTo(p, IF created THEN "lock" ELSE "create")
    /\ UNCHANGED <<created, ledger, effects, creator, holder, waiting, hosted, senders, bound, deaths>>

\* Another transaction that is creating the tables is waited for; once it has
\* committed, they exist and CREATE TABLE fails.
CreateSchema(p) ==
    /\ servers[p].pc = "create"
    /\ creator = Nobody
    /\ ~created
    /\ creator' = p
    /\ servers' = [servers EXCEPT ![p].pc = "read", ![p].rows = {Sound(v) : v \in Base},
                                  ![p].wrote = Base]
    /\ UNCHANGED <<created, ledger, effects, holder, waiting, hosted, senders, bound, deaths>>

CreateTooLate(p) ==
    /\ servers[p].pc = "create"
    /\ created
    /\ Fail(p, "the tables exist")

AskForLock(p) ==
    /\ servers[p].pc = "lock"
    /\ waiting' = Append(waiting, p)
    /\ GoTo(p, "waiting")
    /\ UNCHANGED <<created, ledger, effects, creator, holder, hosted, senders, bound, deaths>>

\* Wrong: the ledger is read and extended without the lock.
LockLedgerNot(p) ==
    /\ servers[p].pc = "waiting"
    /\ GoTo(p, "read")
    /\ UNCHANGED <<created, ledger, effects, creator, holder, waiting, hosted, senders, bound,
                   deaths>>

LockLedger(p) ==
    /\ servers[p].pc = "waiting"
    /\ holder = Nobody /\ Head(waiting) = p
    /\ holder' = p
    /\ waiting' = Tail(waiting)
    /\ GoTo(p, "read")
    /\ UNCHANGED <<created, ledger, effects, creator, hosted, senders, bound, deaths>>

Known(p) == Base \union {Upgrades[i] : i \in 1..Release[p]}

validateMigrationLedgerRow(r) == ~r.dirty /\ r.original

validateMigrationLedger(p, rows) ==
    /\ Versions(rows) \subseteq Known(p)
    /\ Base \subseteq Versions(rows)
    /\ \A r \in rows : validateMigrationLedgerRow(r)

\* A transaction that created the tables reads the rows it has written itself.
readMigrationLedger(p) == IF creator = p THEN servers[p].rows ELSE ledger

ReadLedger(p) ==
    /\ servers[p].pc = "read"
    /\ IF validateMigrationLedger(p, readMigrationLedger(p))
       THEN /\ servers' = [servers EXCEPT ![p].pc = "apply", ![p].rows = readMigrationLedger(p)]
            /\ UNCHANGED <<created, ledger, effects, creator, holder, waiting, hosted, senders, bound,
                           deaths>>
       ELSE Fail(p, "the ledger does not fit")

Missing(p) == {i \in 1..Release[p] : Upgrades[i] \notin Versions(servers[p].rows)}

\* The statements of an upgrade wait for another transaction that has run them;
\* they fail where they have already taken effect.
applyNewSQLMigration(p, v) ==
    /\ \A q \in Server \ {p} : v \notin servers[q].wrote
    /\ IF effects[v] > 0 THEN Fail(p, "the upgrade is there")
       ELSE /\ servers' = [servers EXCEPT ![p].rows = @ \union {Sound(v)},
                                          ![p].wrote = @ \union {v}]
            /\ UNCHANGED <<created, ledger, effects, creator, holder, waiting, hosted, senders,
                           bound, deaths>>

\* The first upgrade that is missing.
ApplyMissing(p) ==
    /\ servers[p].pc = "apply"
    /\ \E i \in Missing(p) :
          /\ \A j \in Missing(p) : i <= j
          /\ applyNewSQLMigration(p, Upgrades[i])

CommittedRows(p) == servers[p].rows

\* The answer to the commit may be lost: the start fails though it has migrated.
CommitMigration(p) ==
    /\ servers[p].pc = "apply"
    /\ Missing(p) = {}
    /\ created' = TRUE
    /\ ledger' = CommittedRows(p)
    /\ effects' = [v \in Version |-> effects[v] + IF v \in servers[p].wrote THEN 1 ELSE 0]
    /\ Rollback(p)
    /\ \/ /\ servers' = [servers EXCEPT ![p] = Outside("bind", 1, "none")]
          /\ UNCHANGED deaths
       \/ /\ deaths < MaxDeaths
          /\ deaths' = deaths + 1
          /\ servers' = [servers EXCEPT ![p] = Outside("failed", 1, "the answer was lost")]
    /\ UNCHANGED <<hosted, senders, bound>>

-----------------------------------------------------------------------------
(* SystemSenderStore.Bind, a serializable transaction for each sender *)

Binding(p) == Senders[p][servers[p].next]

\* The rows the transaction depends on: both columns are unique.
Rivals(x, rows) == {s \in rows : s.id = x.id \/ s.address = x.address}

BeginBind(p) ==
    /\ servers[p].pc = "bind"
    /\ servers[p].next <= Len(Senders[p])
    /\ IF hosted
       THEN /\ servers' = [servers EXCEPT ![p].pc = "insert", ![p].saw = Rivals(Binding(p), senders)]
            /\ UNCHANGED <<created, ledger, effects, creator, holder, waiting, hosted, senders, bound,
                           deaths>>
       ELSE Fail(p, "no such domain")

BoundElsewhere(p) == \E s \in servers[p].saw : s # Binding(p)

\* Repeating the binding writes nothing.
CommitBind(p) ==
    /\ servers[p].pc = "insert"
    /\ IF servers[p].saw # Rivals(Binding(p), senders) THEN Fail(p, "not serializable")
       ELSE IF BoundElsewhere(p) THEN Fail(p, "bound to something else")
       ELSE /\ senders' = senders \union {Binding(p)}
            /\ bound' = IF Binding(p) \in senders THEN bound
                           ELSE [bound EXCEPT ![Binding(p)] = @ + 1]
            /\ servers' = [servers EXCEPT ![p] = Outside("bind", servers[p].next + 1, "none")]
            /\ UNCHANGED <<created, ledger, effects, creator, holder, waiting, hosted, deaths>>

Serve(p) ==
    /\ servers[p].pc = "bind"
    /\ servers[p].next > Len(Senders[p])
    /\ servers' = [servers EXCEPT ![p] = Outside("up", 1, "none")]
    /\ UNCHANGED <<created, ledger, effects, creator, holder, waiting, hosted, senders, bound, deaths>>

-----------------------------------------------------------------------------
(* Processes and their surroundings *)

\* A process dies, or the database refuses a statement; PostgreSQL rolls back
\* what was not committed.
Die(p) ==
    /\ servers[p].pc \notin {"down", "failed"}
    /\ deaths < MaxDeaths
    /\ deaths' = deaths + 1
    /\ servers' = [servers EXCEPT ![p] = Down]
    /\ Rollback(p)
    /\ UNCHANGED <<created, ledger, effects, hosted, senders, bound>>

Restart(p) ==
    /\ servers[p].pc = "failed"
    /\ servers' = [servers EXCEPT ![p] = Down]
    /\ UNCHANGED <<created, ledger, effects, creator, holder, waiting, hosted, senders, bound, deaths>>

HostDomain ==
    /\ created /\ ~hosted
    /\ hosted' = TRUE
    /\ UNCHANGED <<created, ledger, effects, creator, holder, waiting, senders, bound, servers, deaths>>

Start(p) ==
    \/ LookForLedger(p) \/ CreateSchema(p) \/ CreateTooLate(p) \/ AskForLock(p) \/ LockLedger(p)
    \/ ReadLedger(p) \/ ApplyMissing(p) \/ CommitMigration(p)
    \/ BeginBind(p) \/ CommitBind(p) \/ Serve(p) \/ Restart(p)

StartupNext ==
    \/ HostDomain
    \/ \E p \in Server : Start(p) \/ Die(p)

StartupSpec == StartupInit /\ [][StartupNext]_startVars

-----------------------------------------------------------------------------
(* Properties *)

\* The rows of schema_migrations say which statements have taken effect, each
\* of them once, whichever processes started, failed and died.
LedgerTellsTheSchema ==
    \A v \in Version : effects[v] = IF v \in Versions(ledger) THEN 1 ELSE 0

\* A process serves only on a database with every migration of its build, and
\* none that was changed or left dirty.
UpToDateWhenUp ==
    \A p \in Server : servers[p].pc \in {"bind", "insert", "up"} =>
        Known(p) \subseteq {r.version : r \in {s \in ledger : validateMigrationLedgerRow(s)}}

\* Processes that upgrade at the same time do not meet each other's half-done
\* work: an upgrade is never run on a database that already has it.
UpgradesNeverCollide == \A p \in Server : servers[p].why # "the upgrade is there"

\* Every migration takes effect once, is on record, and comes before the
\* process that needs it.
MigrationsAreSafe == LedgerTellsTheSchema /\ UpToDateWhenUp /\ UpgradesNeverCollide

\* "Repeating the exact binding is a no-op; rebinding is rejected": a sender's
\* identity has one address, an address one identity, and each binding one
\* audit event.
SendersAreBoundOnce ==
    /\ \A s, t \in senders : s.id = t.id \/ s.address = t.address => s = t
    /\ \A x \in DOMAIN bound : bound[x] = IF x \in senders THEN 1 ELSE 0

\* A process of the newest build comes up, though others race it to create and
\* upgrade the tables, fail for ever or die, unless the database is not one of
\* this program, the domain is missing or the sender is bound differently.
StartsComplete ==
    <>[](\A p \in Server : Release[p] = Len(Upgrades) =>
            \/ servers[p].pc = "up"
            \/ created /\ ~validateMigrationLedger(p, ledger)
            \/ ~hosted
            \/ \E i \in 1..Len(Senders[p]) : Rivals(Senders[p][i], senders) \ {Senders[p][i]} # {})
=============================================================================
