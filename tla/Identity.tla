------------------------------ MODULE Identity ------------------------------
(***************************************************************************)
(* Who may use which mailbox.  SCIM provisions Users and their mailboxes   *)
(* in one serializable transaction at a time (scimstore), the operator may *)
(* adopt a mailbox that predates SCIM (identityadopt), a verified OIDC     *)
(* identity is bound to a mailbox and gets a session (authn), and its owner *)
(* creates and revokes app passwords (identity).  The server answers       *)
(* Dovecot and Postfix from memory, which follows the database at a        *)
(* distance.                                                               *)
(***************************************************************************)
EXTENDS Naturals, FiniteSets, MailLookup, Authz

CONSTANTS User, Legacy, Address, Subject, Login, Token, Password,
          MaxChanges, None

ASSUME IdentityAssumption ==
    /\ MaxVerifiers \in Nat \ {0}
    /\ MaxChanges \in Nat
    /\ User \cap (Legacy \cup Subject) = {}
    /\ Token \cap Password = {}
    /\ None \notin User \cup Legacy \cup Address \cup Subject \cup Token \cup Password

\* The rows of mailboxes.  A SCIM User that adopts no mailbox has the row
\* whose ID is derived from its own.
Box == User \cup Legacy

VARIABLES
    users,      \* scim_resources of type User
    buried,     \* scim_tombstones: the IDs and external IDs never used again
    members,    \* scim_group_members of a Group
    boxes,      \* mailboxes
    tokens,     \* tokens of kind app_password
    refs,       \* identity_refs: the mailbox a subject is bound to
    logins,     \* one OIDC attempt each, and the session it ends in
    tx,         \* the open SCIM transaction and the snapshot it reads
    pending,    \* the committed change that the server has yet to project
    memory,     \* identity.Service: its mailboxes and app passwords
    passdb,     \* daemon.Service: what Dovecot and Postfix are answered from
    shared,     \* the listeners' copies of daemon.Service share its maps
    request,    \* an app-password request, with the mailbox of its session
    changes,    \* how many SCIM transactions were committed
    crossed     \* what an overlap has happened to (history)

database == <<users, buried, members, boxes, tokens, refs, changes>>
server == <<pending, memory, passdb, shared, request>>
vars == <<database, server, logins, tx, crossed>>

Document == [subject : Subject, email : Address, active : BOOLEAN,
             password : Password \cup {None}]

\* What a row of each table holds, and what the server's memory keeps of it.
UserRow == [subject : Subject, email : Address, active : BOOLEAN]
BoxRow == [email : Address, enabled : BOOLEAN, owner : User \cup {None},
           verifier : Password \cup {None}]
TokenRow == [email : Address, revoked : BOOLEAN, box : Box]
Entry == [enabled : BOOLEAN, verifier : Password \cup {None}]
Held == [email : Address, revoked : BOOLEAN]
Transaction == [op : {"create", "replace", "delete", "adopt"}, user : User, doc : Document,
                claim : Box \cup {None}, tokens : [Token -> TokenRow \cup {None}],
                live : SUBSET Login, refs : [Subject -> Box \cup {None}]]
Projection == [previous : Address \cup {None}, row : BoxRow]
Session == [box : Box, email : Address]

\* None is a row that is not there, and no row.
ASSUME RowAssumption ==
    /\ None \notin UserRow /\ None \notin BoxRow /\ None \notin TokenRow
    /\ None \notin Entry /\ None \notin Held
    /\ None \notin Transaction /\ None \notin Projection /\ None \notin Session

-----------------------------------------------------------------------------
(* Reading the tables                                                       *)

Exists(b) == boxes[b] # None

At(e) == {b \in Box : Exists(b) /\ boxes[b].email = e}

Owned(u) == {b \in Box : Exists(b) /\ boxes[b].owner = u}

\* The row of a User: the one it owns, or the one it is about to create.
Home(u) == IF Owned(u) = {} THEN u ELSE CHOOSE b \in Owned(u) : TRUE

\* The app passwords of an address that count against the limit.
Active(table, e) ==
    {k \in Token : table[k] # None /\ table[k].email = e /\ ~table[k].revoked}

Fresh(state) == [state |-> state, subject |-> None, box |-> None]

\* A login that failed, or whose session expired or was revoked.
Over == Fresh("over")

-----------------------------------------------------------------------------
(* The SCIM transaction.  Its snapshot is taken by its first statement, and *)
(* everything it reads it reads from there, while the transactions of       *)
(* logins and app passwords, which are only READ COMMITTED, go on.  What    *)
(* SCIM transactions alone write cannot change under it.                    *)

Snapshot(op, u, doc, c) ==
    [op |-> op, user |-> u, doc |-> doc, claim |-> c, tokens |-> tokens,
     live |-> {w \in Login : logins[w].state = "live"}, refs |-> refs]

Begin(op, u, doc, c) ==
    /\ tx = None
    /\ changes < MaxChanges
    /\ tx' = Snapshot(op, u, doc, c)
    /\ UNCHANGED <<database, server, logins, crossed>>

\* The client of the SCIM interface may provision any mailbox.
MayProvision(e) ==
    Decide([type |-> "scim_client"], <<"mailbox", "provision">>,
           [type |-> "mailbox", id |-> e, domain |-> "local"])

\* Neither the ID nor the external ID is reserved by a tombstone.
Unreserved(u, doc) == u \notin buried /\ doc.subject \notin buried

BeginCreate(u, doc) ==
    /\ pending = None
    /\ MayProvision(doc.email)
    /\ users[u] = None
    /\ Unreserved(u, doc)
    /\ At(doc.email) = {}
    /\ Begin("create", u, doc, None)

\* The external ID of a User whose mailbox is bound to an identity is final.
BeginReplace(u, doc) ==
    /\ pending = None
    /\ MayProvision(doc.email)
    /\ users[u] # None
    /\ At(doc.email) \subseteq Owned(u)
    /\ doc.subject # users[u].subject => \A s \in Subject : refs[s] \notin Owned(u)
    /\ Begin("replace", u, doc, None)

\* A User that a Group refers to is not deleted, and an external ID has one
\* tombstone.
BeginDelete(u) ==
    /\ pending = None
    /\ users[u] # None
    /\ u \notin members
    /\ users[u].subject \notin buried
    /\ Begin("delete", u, [subject |-> users[u].subject, email |-> users[u].email,
                           active |-> FALSE, password |-> None], None)

\* Wrong: a mailbox that has an owner is adopted.
AdoptableAgain(b, s) ==
    /\ Exists(b)
    /\ s \notin buried
    /\ \A u \in User : users[u] # None => users[u].subject # s

\* A mailbox without an owner, and a subject that owns no User yet.
Adoptable(b, s) ==
    /\ Exists(b)
    /\ boxes[b].owner = None
    /\ s \notin buried
    /\ \A u \in User : users[u] # None => users[u].subject # s

\* The plan is made again and must have the digest that the operator
\* confirmed, which only rules adoptions out; the transaction then admits the
\* mailbox only as the plan describes it.
BeginAdopt(u, b, s) ==
    /\ Adoptable(b, s)
    /\ users[u] = None
    /\ u \notin buried
    /\ Begin("adopt", u, [subject |-> s, email |-> boxes[b].email,
                          active |-> boxes[b].enabled, password |-> None], b)

\* The row that the transaction is about.
Target(t) == IF t.op = "adopt" THEN t.claim ELSE Home(t.user)

\* The address the User's mailbox had when the transaction began, if any.
Previous(t) ==
    IF Exists(Target(t)) THEN boxes[Target(t)].email ELSE None

Renames(t) == Previous(t) \notin {None, t.doc.email}

\* A snapshot does not see what was committed after it, and the update of a
\* row that was updated since fails.
MoveTokens(t) ==
    LET moved == {k \in Token : /\ Renames(t)
                                /\ t.tokens[k] # None
                                /\ t.tokens[k].email = Previous(t)}
    IN  /\ \A k \in moved : tokens[k] = t.tokens[k]
        /\ tokens' = [k \in Token |->
               IF k \in moved THEN [email |-> t.doc.email, revoked |-> tokens[k].revoked,
                                    box |-> tokens[k].box]
                              ELSE tokens[k]]

\* The sessions of a mailbox that is disabled or deleted are revoked.
\* Adopting a mailbox is not disabling it, even when it is disabled.
Disables(t) == ~t.doc.active /\ t.op # "adopt"

\* Wrong: only a delete revokes sessions.
RevokeDeleted(t) ==
    logins' = [w \in Login |->
        IF /\ t.op = "delete"
           /\ w \in t.live
           /\ logins[w].state = "live"
           /\ t.refs[logins[w].subject] \in Owned(t.user)
        THEN Over ELSE logins[w]]

RevokeSessions(t) ==
    logins' = [w \in Login |->
        IF /\ Disables(t)
           /\ w \in t.live
           /\ logins[w].state = "live"
           /\ t.refs[logins[w].subject] \in Owned(t.user)
        THEN Over ELSE logins[w]]

\* The mailbox row that the transaction leaves.  A password that is not
\* given is kept, and so is an adopted mailbox's.
Row(t) ==
    LET kept == IF Exists(Target(t)) THEN boxes[Target(t)].verifier ELSE None
    IN  [email |-> t.doc.email, enabled |-> t.doc.active, owner |-> t.user,
         verifier |-> IF t.doc.password = None THEN kept ELSE t.doc.password]

WriteUser(t) ==
    IF t.op = "delete"
    THEN /\ users' = [users EXCEPT ![t.user] = None]
         /\ buried' = buried \cup {t.user, t.doc.subject}
    ELSE /\ users' = [users EXCEPT ![t.user] =
                         [subject |-> t.doc.subject, email |-> t.doc.email,
                          active |-> t.doc.active]]
         /\ UNCHANGED buried

\* What the snapshot could not see of this transaction's own mailbox.
Crossings(t) ==
    LET b == Home(t.user)
        resolved == \E w \in Login : logins[w].state = "resolved" /\ logins[w].box = b
    IN  {c \in {"token", "session", "subject"} :
            \/ /\ c = "token"
               /\ Renames(t)
               /\ \/ \E k \in Token : /\ tokens[k] # None
                                      /\ tokens[k].email = Previous(t)
                                      /\ t.tokens[k] = None
                  \/ request # None /\ request.email = Previous(t)
            \/ /\ c = "session"
               /\ Disables(t)
               /\ \/ resolved
                  \/ \E w \in Login \ t.live :
                        logins[w].state = "live" /\ logins[w].box = b
            \/ /\ c = "subject"
               /\ t.op = "replace"
               /\ t.doc.subject # users[t.user].subject
               /\ \/ resolved
                  \/ refs[users[t.user].subject] = b /\ t.refs[users[t.user].subject] # b}

\* What the transaction writes.
Write(t) ==
    /\ MoveTokens(t)
    /\ RevokeSessions(t)
    /\ WriteUser(t)
    /\ boxes' = [boxes EXCEPT ![Target(t)] = Row(t)]
    /\ changes' = changes + 1
    /\ tx' = None
    /\ UNCHANGED <<members, refs, memory, passdb, shared, request>>

\* Adoption runs in the operator's own process: the server is not told.
Commit ==
    /\ tx # None
    /\ Write(tx)
    /\ pending' = IF tx.op = "adopt" THEN pending
                  ELSE [previous |-> Previous(tx), row |-> Row(tx)]
    /\ crossed' = crossed \cup Crossings(tx)

\* The commit is durable, but its answer is lost: nothing is projected.
CommitLost ==
    /\ tx # None
    /\ Write(tx)
    /\ UNCHANGED pending
    /\ crossed' = crossed \cup Crossings(tx) \cup {"answer"}

\* The client goes away, a constraint or the serialization fails.
Abort ==
    /\ tx # None
    /\ tx' = None
    /\ UNCHANGED <<database, server, logins, crossed>>

\* Replacing a Group: its members must be live Users.
PutGroup(ms) ==
    /\ tx = None
    /\ pending = None
    /\ \A u \in ms : users[u] # None
    /\ members' = ms
    /\ UNCHANGED <<users, buried, boxes, tokens, refs, changes, server, logins, tx, crossed>>

-----------------------------------------------------------------------------
(* The server's memory                                                      *)

\* syncDaemonAppPasswordsLocked: Dovecot sees the active ones of an address.
Verifiers(held, table, e) == [held EXCEPT ![e] = Active(table, e)]

\* Wrong: the old address keeps its entry.
ProjectBeside ==
    /\ pending # None
    /\ LET row == pending.row
           entry == [enabled |-> row.enabled, verifier |-> row.verifier]
       IN  /\ memory' = [memory EXCEPT !.boxes[row.email] = entry]
           /\ passdb' = [hosted |-> TRUE, boxes |-> [passdb.boxes EXCEPT ![row.email] = entry],
                         verifiers |-> Verifiers(passdb.verifiers, memory.tokens, row.email)]
    /\ pending' = None
    /\ UNCHANGED <<database, logins, tx, shared, request, crossed>>

\* A committed change p, as ApplySCIMMailbox takes it: the mailbox has a new
\* address, and a password that the change does not give is kept.
Moved(p) == p.previous \notin {None, p.row.email}

EntryOf(p) ==
    LET known == IF p.previous = None THEN None ELSE memory.boxes[p.previous]
    IN  [enabled |-> p.row.enabled,
         verifier |-> IF p.row.verifier = None /\ known # None
                      THEN known.verifier ELSE p.row.verifier]

Projected(table, p) ==
    [e \in Address |->
        IF e = p.row.email THEN EntryOf(p)
        ELSE IF Moved(p) /\ e = p.previous THEN None ELSE table[e]]

ProjectedTokens(p) ==
    [k \in Token |->
        IF Moved(p) /\ memory.tokens[k] # None /\ memory.tokens[k].email = p.previous
        THEN [email |-> p.row.email, revoked |-> memory.tokens[k].revoked]
        ELSE memory.tokens[k]]

\* ApplySCIMMailbox, and what it tells the daemon.
Project ==
    /\ pending # None
    /\ memory' = [boxes |-> Projected(memory.boxes, pending), tokens |-> ProjectedTokens(pending)]
    /\ passdb' = [hosted |-> TRUE, boxes |-> Projected(passdb.boxes, pending),
                  verifiers |-> [e \in Address |->
                      IF e = pending.row.email THEN Active(ProjectedTokens(pending), e)
                      ELSE IF Moved(pending) /\ e = pending.previous THEN {}
                      ELSE passdb.verifiers[e]]]
    /\ pending' = None
    /\ UNCHANGED <<database, logins, tx, shared, request, crossed>>

\* loadSQL: what the tables hold, by address.
Loaded ==
    [boxes |-> [e \in Address |->
        IF At(e) = {} THEN None
        ELSE LET b == CHOOSE b \in At(e) : TRUE
             IN  [enabled |-> boxes[b].enabled, verifier |-> boxes[b].verifier]],
     tokens |-> [k \in Token |->
        IF tokens[k] = None THEN None
        ELSE [email |-> tokens[k].email, revoked |-> tokens[k].revoked]]]

\* BindDaemon: the daemon is told of every mailbox that was loaded.
Bound(loaded) ==
    [hosted |-> \E e \in Address : loaded.boxes[e] # None,
     boxes |-> loaded.boxes,
     verifiers |-> [e \in Address |->
        IF loaded.boxes[e] = None THEN {} ELSE Active(loaded.tokens, e)]]

\* The server stops at any point and starts again from the tables.  It
\* refuses to start when an address is over the limit.  The listeners copy
\* daemon.Service by value: they share its maps only when a mailbox had been
\* loaded into them, since a map that is nil is made later, in one copy.
Restart ==
    /\ \A e \in Address : At(e) # {} => Cardinality(Active(tokens, e)) <= MaxVerifiers
    /\ memory' = Loaded
    /\ passdb' = Bound(Loaded)
    /\ shared' = (\E b \in Box : Exists(b))
    /\ pending' = None
    /\ request' = None
    /\ tx' = IF tx # None /\ tx.op # "adopt" THEN None ELSE tx
    /\ logins' = [w \in Login |->
           IF logins[w].state \in {"consumed", "resolved"}
           THEN Over ELSE logins[w]]
    /\ UNCHANGED <<database, crossed>>

-----------------------------------------------------------------------------
(* Logging in                                                               *)

Step(w, from, login) ==
    /\ logins[w].state = from
    /\ logins' = [logins EXCEPT ![w] = login]
    /\ UNCHANGED <<database, server, tx, crossed>>

StartLogin(w) == Step(w, "new", Fresh("issued"))

\* An attempt is spent by the first callback, whatever comes of it.
ConsumeAttempt(w) == Step(w, "issued", Fresh("consumed"))

LoginFails(w) == Step(w, "consumed", Over) \/ Step(w, "resolved", Over)

\* Exactly one enabled mailbox belongs to the verified subject, and its
\* address is the verified one.
Candidates(s) ==
    {b \in Box : /\ Exists(b)
                 /\ boxes[b].enabled
                 /\ boxes[b].owner # None
                 /\ users[boxes[b].owner] # None
                 /\ users[boxes[b].owner].subject = s}

ResolveIdentity(w, s, e) ==
    /\ logins[w].state = "consumed"
    /\ \E b \in Box : /\ Candidates(s) = {b}
                      /\ boxes[b].email = e
                      /\ logins' = [logins EXCEPT ![w] =
                                       [state |-> "resolved", subject |-> s, box |-> b]]
    /\ UNCHANGED <<database, server, tx, crossed>>

\* The reference is inserted, or found, and the session is admitted with it.
\* A mailbox has one reference, and a reference keeps its mailbox.
PutIdentitySession(w) ==
    LET s == logins[w].subject
        b == logins[w].box
    IN  /\ logins[w].state = "resolved"
        /\ \/ refs[s] = b
           \/ refs[s] = None /\ \A r \in Subject : refs[r] # b
        /\ refs' = [refs EXCEPT ![s] = b]
        /\ logins' = [logins EXCEPT ![w] = [state |-> "live", subject |-> s, box |-> b]]
        /\ UNCHANGED <<users, buried, members, boxes, tokens, changes, server, tx, crossed>>

SessionExpires(w) == Step(w, "live", Over)

\* A session counts while it is live and its mailbox is enabled.
BoundSession(w) ==
    /\ logins[w].state = "live"
    /\ boxes[refs[logins[w].subject]].enabled

-----------------------------------------------------------------------------
(* App passwords                                                            *)

\* The session is looked up once, and the request goes on with the address
\* that its mailbox had then.
Authenticate(w) ==
    /\ request = None
    /\ BoundSession(w)
    /\ LET b == refs[logins[w].subject]
       IN  request' = [box |-> b, email |-> boxes[b].email]
    /\ UNCHANGED <<database, pending, memory, passdb, shared, logins, tx, crossed>>

RequestFails ==
    /\ request # None
    /\ request' = None
    /\ UNCHANGED <<database, pending, memory, passdb, shared, logins, tx, crossed>>

\* A subject manages the app passwords of its own mailbox.
MayManage(act) ==
    /\ request # None
    /\ Decide([type |-> "oidc_subject", mailbox |-> request.email, roles |-> {}, groups |-> {}],
              <<"mailbox", act>>, [type |-> "mailbox", id |-> request.email, domain |-> "local"])

\* The transaction counts again, with the mailbox row locked.
PersistCreate(k) ==
    /\ tokens[k] = None
    /\ At(request.email) # {}
    /\ Cardinality(Active(tokens, request.email)) < MaxVerifiers
    /\ tokens' = [tokens EXCEPT ![k] = [email |-> request.email, revoked |-> FALSE,
                                        box |-> request.box]]

PersistRevoke(k) ==
    /\ tokens[k] # None
    /\ tokens[k].email = request.email
    /\ tokens' = [tokens EXCEPT ![k] = [email |-> request.email, revoked |-> TRUE,
                                        box |-> tokens[k].box]]

\* Wrong: a revoked app password stays in the daemon's list.
HoldSilently(k, entry) ==
    /\ memory' = [memory EXCEPT !.tokens[k] = entry]
    /\ UNCHANGED <<passdb, crossed>>

\* Memory and passdb follow, under the lock of the identity service.
Hold(k, entry) ==
    LET held == [memory.tokens EXCEPT ![k] = entry]
    IN  /\ memory' = [memory EXCEPT !.tokens = held]
        /\ passdb' = [passdb EXCEPT !.verifiers = Verifiers(@, held, request.email)]
        /\ UNCHANGED crossed

\* The answer of the commit is lost, and the process believes it failed.
Lose == crossed' = crossed \cup {"answer"} /\ UNCHANGED <<memory, passdb>>

Answered ==
    /\ request' = None
    /\ UNCHANGED <<users, buried, members, boxes, refs, changes, pending, shared, logins, tx>>

CreateAppPassword(k) ==
    /\ MayManage("app_password.create")
    /\ memory.boxes[request.email] # None
    /\ Cardinality(Active(memory.tokens, request.email)) < MaxVerifiers
    /\ PersistCreate(k)
    /\ Hold(k, [email |-> request.email, revoked |-> FALSE]) \/ Lose
    /\ Answered

RevokeAppPassword(k) ==
    /\ MayManage("app_password.revoke")
    /\ k \in Active(memory.tokens, request.email)
    /\ PersistRevoke(k)
    /\ Hold(k, [email |-> request.email, revoked |-> TRUE]) \/ Lose
    /\ Answered

-----------------------------------------------------------------------------
(* A server that has started, with the mailboxes that predate SCIM.         *)

Init ==
    /\ users = [u \in User |-> None]
    /\ buried = {}
    /\ members = {}
    /\ \E place \in [Legacy -> Address], on \in [Legacy -> BOOLEAN], held \in [Legacy -> Password] :
          /\ \A b, c \in Legacy : place[b] = place[c] => b = c
          /\ boxes = [b \in Box |->
                IF b \in Legacy
                THEN [email |-> place[b], enabled |-> on[b], verifier |-> held[b], owner |-> None]
                ELSE None]
    /\ tokens = [k \in Token |-> None]
    /\ refs = [s \in Subject |-> None]
    /\ logins = [w \in Login |-> Fresh("new")]
    /\ tx = None
    /\ pending = None
    /\ memory = Loaded
    /\ passdb = Bound(Loaded)
    /\ shared = (Legacy # {})
    /\ request = None
    /\ changes = 0
    /\ crossed = {}

Next ==
    \/ \E u \in User :
          \/ \E doc \in Document : BeginCreate(u, doc) \/ BeginReplace(u, doc)
          \/ BeginDelete(u)
          \/ \E b \in Box, s \in Subject : BeginAdopt(u, b, s)
    \/ Commit
    \/ CommitLost
    \/ Abort
    \/ \E ms \in SUBSET User : PutGroup(ms)
    \/ Project
    \/ Restart
    \/ \E w \in Login :
          \/ StartLogin(w)
          \/ ConsumeAttempt(w)
          \/ LoginFails(w)
          \/ \E s \in Subject, e \in Address : ResolveIdentity(w, s, e)
          \/ PutIdentitySession(w)
          \/ SessionExpires(w)
          \/ Authenticate(w)
    \/ RequestFails
    \/ \E k \in Token : CreateAppPassword(k) \/ RevokeAppPassword(k)

Spec == Init /\ [][Next]_vars

-----------------------------------------------------------------------------
(* What must hold                                                           *)

\* A User and its mailbox say the same, no two mailboxes have an address, and
\* every mailbox that has an owner has one that is live or was deleted: the
\* record and the row are written by one transaction.
RecordMatchesMailbox ==
    /\ \A u \in User : users[u] # None =>
          \E b \in Box : /\ Owned(u) = {b}
                         /\ boxes[b].email = users[u].email
                         /\ boxes[b].enabled = users[u].active
    /\ \A e \in Address : Cardinality(At(e)) <= 1
    /\ \A u \in buried \cap User : \A b \in Owned(u) : ~boxes[b].enabled

\* A Group refers to live Users only.
GroupMembersAreLive == \A u \in members : users[u] # None

\* A session is live only while its mailbox is enabled, so that enabling a
\* mailbox again revives none; except for a login that overlapped with the
\* transaction that disabled it.
NoRevival ==
    "session" \notin crossed =>
        \A w \in Login : logins[w].state = "live" => boxes[refs[logins[w].subject]].enabled

\* An identity is bound to the mailbox of the User with its subject, whose
\* external ID is final from then on; except when the binding overlapped
\* with the transaction that changed it.
BoundToOwner ==
    "subject" \notin crossed =>
        \A s \in Subject : refs[s] # None =>
            LET u == boxes[refs[s]].owner
            IN  users[u] # None => users[u].subject = s

\* No address has more active app passwords than the limit, so that the
\* server can start; except when one was created while its mailbox was
\* being renamed.
LimitHolds ==
    "token" \notin crossed =>
        \A e \in Address : Cardinality(Active(tokens, e)) <= MaxVerifiers

\* The tables of users, groups, mailboxes, app passwords and identities agree
\* with each other, in whichever order the same addresses, IDs and subjects
\* are created, renamed, deleted, adopted and bound.
TablesAgree == RecordMatchesMailbox /\ GroupMembersAreLive /\ BoundToOwner /\ LimitHolds

\* What the listeners answer from.
Served ==
    LET known == {e \in Address : shared /\ passdb.boxes[e] # None}
        names == IF shared /\ passdb.hosted THEN {"local"} ELSE {}
    IN  [unavailable |-> FALSE,
         domains |-> [n \in names |-> [enabled |-> TRUE]],
         mailboxes |-> [e \in known |-> passdb.boxes[e]],
         verifiers |-> [e \in known |-> passdb.verifiers[e]],
         aliases |-> [n \in {} |-> {}]]

\* An app password that the mail front or Dovecot accepts was created by the
\* owner of the mailbox that it opens and was not revoked; except in the
\* window between a commit and its projection, and after an overlap.
AppPasswordOpensOwnMailbox ==
    (pending = None /\ crossed \cap {"token", "answer"} = {}) =>
        \A e \in Address, k \in Token :
            FrontLogin(Served, e, k) = "accepted" =>
                /\ tokens[k] # None
                /\ ~tokens[k].revoked
                /\ boxes[tokens[k].box].email = e
                /\ boxes[tokens[k].box].enabled

\* Once the listeners share the directory, whatever Postfix, Dovecot, rspamd
\* and the mail front are told of an address is what the tables say of it.
AnswersFollowTheTables ==
    (shared /\ pending = None /\ "answer" \notin crossed) =>
        \A e \in Address :
            LET said == IF At(e) = {} THEN "not_found"
                        ELSE IF \A b \in At(e) : boxes[b].enabled THEN "ok" ELSE "reject"
            IN  /\ \A answer \in {PostfixRecipient(Served, e), PostfixSenderLogin(Served, e, e),
                                  PostfixSenderPolicy(Served, e), DovecotUserdb(Served, e),
                                  DovecotQuota(Served, e), DovecotSieve(Served, e)} : answer = said
                /\ FrontRecipient(Served, e) = "accepted" <=> said = "ok"
                /\ handlePostfixPolicy(Served, "local", e) = "dunno" <=> said = "ok"
                /\ said = "ok" => "local" \in RspamdLocalDomains(Served)
                /\ \A b \in At(e) : \A p \in Password :
                      FrontLogin(Served, e, p) = "accepted"
                         <=> boxes[b].enabled /\ boxes[b].verifier = p

\* What the requirements say: disabling a mailbox revokes every session that
\* is bound to it, and enabling it again revives none.
DisableRevokesSessions ==
    \A w \in Login : logins[w].state = "live" => boxes[refs[logins[w].subject]].enabled
=============================================================================
