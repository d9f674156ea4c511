---------------------------- MODULE DirectoryOps ----------------------------
(***************************************************************************)
(* The administrator's mass changes of the directory (ops): the import of  *)
(* a Mailu configuration and the bulk operations.  Both are previewed,     *)
(* held in memory, and applied to the SQL tables by a later request of the *)
(* same actor; a preview is not consumed and may be applied again.         *)
(*                                                                         *)
(* An import reads the tables, checks the state it would produce, writes   *)
(* everything in one transaction, reads the tables again and only then     *)
(* audits.  A bulk operation changes its items one by one in a transaction *)
(* that keeps their rows locked, and audits each item on a connection of   *)
(* its own before it commits.                                              *)
(***************************************************************************)
EXTENDS Naturals, FiniteSets, Sequences

CONSTANTS Actor, Domain, Address, Home(_),
          Source,      \* the exports an administrator may import
          Batch,       \* the item lists of the bulk operations
          Call, None

Operation == {"disable-users", "enable-users", "delete-aliases"}

ASSUME BatchAssumption == \A items \in Batch : items # <<>>

VARIABLES domains, mailboxes, aliases,   \* the tables, by name
          relays,
          calls,                         \* the apply requests
          audits, jobs,
          changed,                       \* history: the bulk changes committed
          disturbed                      \* history: disabled since last imported

tables == <<domains, mailboxes, aliases, relays>>
records == <<audits, jobs>>
history == <<changed, disturbed>>
opsVars == <<tables, calls, records, history>>

Directory == INSTANCE MailLookup WITH MaxVerifiers <- 10

Rows(f) == [n \in DOMAIN f |-> [enabled |-> f[n]]]

Service(boxes) ==
    [unavailable |-> FALSE, mailboxes |-> Rows(boxes), aliases |-> Rows(aliases)]

\* f with the names of S set to the value v.
Upsert(f, S, v) == [n \in DOMAIN f \union S |-> IF n \in S THEN v ELSE f[n]]

-----------------------------------------------------------------------------
(* The Mailu import                                                        *)

\* What the preview says of a candidate.  A flaw is the status of the first
\* test that fails.
Status(c) ==
    CASE c.flaw # None -> c.flaw
      [] c.flaw = None /\ c.revoked -> "skipped"
      [] OTHER -> "imported"

\* The preview a request names: the actor's own, held for a quarter of an
\* hour.  It may be applied again, and previewed again it is the same.
PreviewImport(q, a, source) ==
    /\ calls[q] = None
    /\ calls' = [calls EXCEPT ![q] =
          [kind |-> "import", actor |-> a, source |-> source, pc |-> "previewed"]]
    /\ UNCHANGED <<tables, records, history>>

\* The names of one type that an export brings.
Brings(source, type) == {c.id : c \in {d \in source : d.type = type /\ ~d.revoked}}

Admissible(source) ==
    /\ source # {}
    /\ \A c \in source : Status(c) \in {"imported", "skipped"}

\* The state the import would produce on top of the tables: every user it
\* brings is in an enabled domain and is a valid recipient.  An export without
\* users is checked on one mailbox, whichever the map yields first.
verifyAdoptedImportState(source, probe) ==
    LET users == Brings(source, "user")
        adopted == Upsert(mailboxes, users, TRUE)
    IN  /\ DOMAIN adopted # {}
        /\ \A u \in users :
              Home(u) \in Brings(source, "domain") \union {d \in DOMAIN domains : domains[d]}
        /\ \A u \in IF users = {} THEN {probe} ELSE users :
              Directory!PostfixRecipient(Service(adopted), u) = "ok"

At(q, kind, pc) == calls[q] # None /\ calls[q].kind = kind /\ calls[q].pc = pc

Goto(q, pc) == calls' = [calls EXCEPT ![q].pc = pc]

\* Nothing in the preview is inadmissible and the state it would produce is
\* good.
BeginImport(q) ==
    /\ At(q, "import", "previewed")
    /\ Admissible(calls[q].source)
    /\ \E probe \in DOMAIN mailboxes \union Brings(calls[q].source, "user") :
          verifyAdoptedImportState(calls[q].source, probe)
    /\ Goto(q, "checked")
    /\ UNCHANGED <<tables, records, history>>

Hits(call) == {call.items[i] : i \in {j \in DOMAIN call.found : call.found[j]}}

Table(operation) == IF operation = "delete-aliases" THEN "aliases" ELSE "mailboxes"

\* The rows of a table that the transactions of other requests have changed
\* and hold.
Locked(q, table) ==
    UNION {Hits(calls[r]) : r \in
              {c \in Call \ {q} : At(c, "bulk", "running") /\ Table(calls[c].operation) = table}}

\* One transaction.  The domain of a user or of an alias is created, or
\* enabled, with it; a row that is there is overwritten.  DKIM keys and tokens
\* are not written.
WriteImport(source) ==
    LET boxes == Brings(source, "user")
        names == Brings(source, "alias")
    IN  /\ domains' = Upsert(domains, Brings(source, "domain")
                             \union {Home(x) : x \in boxes \union names}, TRUE)
        /\ mailboxes' = Upsert(mailboxes, boxes, TRUE)
        /\ aliases' = Upsert(aliases, names, TRUE)
        /\ relays' = relays \union Brings(source, "relay")

CommitImport(q) ==
    /\ At(q, "import", "checked")
    /\ Brings(calls[q].source, "user") \intersect Locked(q, "mailboxes") = {}
    /\ Brings(calls[q].source, "alias") \intersect Locked(q, "aliases") = {}
    /\ WriteImport(calls[q].source)
    /\ disturbed' = disturbed \ Brings(calls[q].source, "user")
    /\ \/ Goto(q, "committed")
       \/ Goto(q, "failed")          \* the answer to COMMIT is lost
    /\ UNCHANGED <<records, changed>>

\* The tables are read again and checked, and the import is audited.
FinishImport(q) ==
    /\ At(q, "import", "committed")
    /\ \E probe \in DOMAIN mailboxes : verifyAdoptedImportState(calls[q].source, probe)
    /\ audits' = audits \union {[action |-> "import", item |-> calls[q].source,
                                 actor |-> calls[q].actor]}
    /\ Goto(q, "applied")
    /\ UNCHANGED <<tables, jobs, history>>

-----------------------------------------------------------------------------
(* The bulk operations                                                     *)

PreviewBulk(q, a, operation, items) ==
    /\ calls[q] = None
    /\ calls' = [calls EXCEPT ![q] =
          [kind |-> "bulk", actor |-> a, operation |-> operation, items |-> items,
           found |-> <<>>, pc |-> "previewed"]]
    /\ UNCHANGED <<tables, records, history>>

BeginBulk(q) ==
    /\ At(q, "bulk", "previewed")
    /\ Goto(q, "running")
    /\ UNCHANGED <<tables, records, history>>

Event(call, item) ==
    [action |-> call.operation, item |-> item, actor |-> call.actor]

\* The count of rows that a statement changes.
Found(call, item) ==
    item \in IF Table(call.operation) = "aliases" THEN DOMAIN aliases ELSE DOMAIN mailboxes

\* Wrong: the row is looked up and not locked by the statement that changes it.
ChangeItemUnlocked(q) ==
    LET call == calls[q]
        item == call.items[Len(call.found) + 1]
    IN  /\ At(q, "bulk", "running")
        /\ Len(call.found) < Len(call.items)
        /\ calls' = [calls EXCEPT ![q].found = Append(@, Found(call, item))]
        /\ audits' = audits \union {Event(call, item)}
        /\ UNCHANGED <<tables, jobs, history>>

\* The next item: its row is changed and locked, once whoever holds it is
\* done, and the change is audited as a success at once, found or not.
ChangeItem(q) ==
    LET call == calls[q]
        item == call.items[Len(call.found) + 1]
    IN  /\ At(q, "bulk", "running")
        /\ Len(call.found) < Len(call.items)
        /\ item \notin Locked(q, Table(call.operation))
        /\ calls' = [calls EXCEPT ![q].found = Append(@, Found(call, item))]
        /\ audits' = audits \union {Event(call, item)}
        /\ UNCHANGED <<tables, jobs, history>>

CommitBulk(q) ==
    LET call == calls[q]
        op == call.operation
    IN  /\ At(q, "bulk", "running")
        /\ Len(call.found) = Len(call.items)
        /\ mailboxes' = IF op = "delete-aliases" THEN mailboxes
                        ELSE Upsert(mailboxes, Hits(call), op = "enable-users")
        /\ aliases' = IF op # "delete-aliases" THEN aliases
                      ELSE [n \in DOMAIN aliases \ Hits(call) |-> aliases[n]]
        /\ disturbed' = IF op = "disable-users" THEN disturbed \union Hits(call) ELSE disturbed
        /\ changed' = changed \union
              {[by |-> q, event |-> Event(call, i)] : i \in
                 IF op = "delete-aliases" THEN Hits(call) \intersect DOMAIN aliases
                 ELSE Hits(call)}
        /\ \/ Goto(q, "committed")
           \/ Goto(q, "failed")
        /\ UNCHANGED <<domains, relays, records>>

\* The job is kept under the preview's ID: the last answer wins.
FinishBulk(q) ==
    LET job == [actor |-> calls[q].actor, operation |-> calls[q].operation,
                items |-> calls[q].items, by |-> q, found |-> calls[q].found]
    IN  /\ At(q, "bulk", "committed")
        /\ jobs' = {j \in jobs : <<j.actor, j.operation, j.items>> #
                                 <<job.actor, job.operation, job.items>>} \union {job}
        /\ Goto(q, "applied")
        /\ UNCHANGED <<tables, audits, history>>

-----------------------------------------------------------------------------

\* A statement, an audit or the process fails, or the database breaks a
\* deadlock: an open transaction is rolled back, and what is committed stays.
FailCall(q) ==
    /\ calls[q] # None /\ calls[q].pc \in {"previewed", "checked", "running", "committed"}
    /\ Goto(q, "failed")
    /\ UNCHANGED <<tables, records, history>>

\* The identity provider disables a mailbox (see Identity).
DisableElsewhere(m) ==
    /\ m \in DOMAIN mailboxes \ Locked(None, "mailboxes")
    /\ mailboxes[m]
    /\ mailboxes' = [mailboxes EXCEPT ![m] = FALSE]
    /\ disturbed' = disturbed \union {m}
    /\ UNCHANGED <<domains, aliases, relays, calls, records, changed>>

OpsInit ==
    /\ domains \in UNION {[D -> BOOLEAN] : D \in SUBSET Domain}
    /\ \E D \in SUBSET {x \in Address : Home(x) \in DOMAIN domains} :
          mailboxes \in [D -> BOOLEAN]
    /\ \E D \in SUBSET {x \in Address : Home(x) \in DOMAIN domains} :
          aliases = [x \in D |-> TRUE]
    /\ relays = {}
    /\ calls = [q \in Call |-> None]
    /\ audits = {} /\ jobs = {}
    /\ changed = {} /\ disturbed = {}

OpsNext ==
    \/ \E q \in Call :
          \/ \E a \in Actor, s \in Source : PreviewImport(q, a, s)
          \/ BeginImport(q)
          \/ CommitImport(q)
          \/ FinishImport(q)
          \/ \E a \in Actor, op \in Operation, items \in Batch : PreviewBulk(q, a, op, items)
          \/ BeginBulk(q)
          \/ ChangeItem(q)
          \/ CommitBulk(q)
          \/ FinishBulk(q)
          \/ FailCall(q)
    \/ \E m \in Address : DisableElsewhere(m)

OpsSpec == OpsInit /\ [][OpsNext]_opsVars

-----------------------------------------------------------------------------
(* Properties                                                              *)

\* Every bulk change that a commit made has its audit event, although the
\* events and the change are written on two connections and either may fail:
\* the event comes first, and without it the transaction is rolled back.
BulkChangesAreAudited == \A c \in changed : c.event \in audits

\* A job says "success" of an item only when its own transaction changed that
\* row: of two requests that delete the same alias, the later one reports it
\* as not found.
JobsTellTheTruth ==
    \A j \in jobs : \A i \in DOMAIN j.found :
        j.found[i] =>
            [by |-> j.by, event |-> [action |-> j.operation, item |-> j.items[i],
                                     actor |-> j.actor]] \in changed

Received(u) ==
    /\ Home(u) \in DOMAIN domains /\ domains[Home(u)]
    /\ Directory!PostfixRecipient(Service(mailboxes), u) = "ok"

\* Every user that an import answered with "applied" has brought receives
\* mail, whatever the tables held before and whatever the other requests did
\* in between, unless somebody has disabled the mailbox since.
ImportedUsersReceive ==
    \A q \in Call : At(q, "import", "applied") =>
        \A u \in Brings(calls[q].source, "user") : Received(u) \/ u \in disturbed

\* What the audit log, the job and the answer to an import say is what became
\* of the tables.
ReportsAreTrue == BulkChangesAreAudited /\ JobsTellTheTruth /\ ImportedUsersReceive

Stored(c) ==
    CASE c.type = "domain" -> c.id \in DOMAIN domains
      [] c.type = "user" -> c.id \in DOMAIN mailboxes
      [] c.type = "alias" -> c.id \in DOMAIN aliases
      [] c.type = "relay" -> c.id \in relays
      [] OTHER -> FALSE

\* What the preview lists as "imported" is in the tables once the import is
\* answered with "applied", while no alias has been deleted.
ImportLosesNothing ==
    \A q \in Call : At(q, "import", "applied") =>
        \A c \in calls[q].source :
            \/ Status(c) # "imported"
            \/ Stored(c)
            \/ \E e \in changed : e.event.action = "delete-aliases" /\ e.event.item = c.id
=============================================================================
