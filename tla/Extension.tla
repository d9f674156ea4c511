------------------------------ MODULE Extension ------------------------------
(***************************************************************************)
(* The administration of a supervised extension.  Its registry row is      *)
(* changed by confirmed previews; Test, Enable and Disable drive the child *)
(* process of the extension and the row together, without a lock that     *)
(* covers both.                                                            *)
(*                                                                         *)
(* There is one instance: the supervisor admits a single extension ID and  *)
(* the registry one row for it.  enabled and routed are always written     *)
(* together and are one field.  lifecycle and health_code are only shown.  *)
(***************************************************************************)
EXTENDS Naturals, FiniteSets

CONSTANTS
    Call,          \* running Test, Enable and Disable requests
    Process,       \* child processes that exist at a time
    Version,       \* artifact pin, digests, capabilities, slots, metadata
    Config,        \* configurations
    Secret,        \* values of the secret slot
    Fit,           \* the configurations that are valid for a version
    EmptyConfig,   \* the configuration of a new installation
    MaxRevision,   \* bound on configuration_revision
    MaxPreviews,   \* bound on the previews that wait to be applied
    NoRow, NoSecret, NoSnapshot, NoProcess, Gone, Kept

ASSUME ExtensionAssumption ==
    /\ EmptyConfig \in Config
    /\ Fit \subseteq Version \X Config
    /\ MaxRevision \in Nat \ {0}
    /\ MaxPreviews \in Nat
    /\ NoSecret \notin Secret
    /\ Kept \notin Version \cup Config \cup Secret \cup {NoSecret}
    /\ NoProcess \notin Process

VARIABLES
    row,         \* the row of extension_instances with its secret
    previews,    \* unconsumed rows of extension_operation_previews
    running,     \* what each live child process was started with
    registered,  \* Supervisor.processes[instance]
    active,      \* Supervisor.active is this instance
    pc, op, seen, held, failed, target,   \* local state of the calls
    removed,     \* the instance was uninstalled; its ID is not used again
    healthy,     \* history: a probe found the content of the row healthy
    disturbed,   \* history: calls overlapped, or a call ended in doubt
    stuck        \* history: processes whose start failed and that did not end

dbVars      == <<row, previews, removed>>
runtimeVars == <<running, registered, active, stuck>>
callVars    == <<pc, op, seen, held, failed, target>>
historyVars == <<healthy, disturbed>>
vars        == <<dbVars, runtimeVars, callVars, historyVars>>

----------------------------------------------------------------------------
(* The registry row.                                                       *)

Revision == 1..MaxRevision

Content == [version : Version, config : Config, secret : Secret \cup {NoSecret}]

Row == [content  : Content,
        revision : Revision,
        tested   : 0..MaxRevision,      \* tested_revision, 0 for NULL
        enabled  : BOOLEAN,
        previous : [version : Version, config : Config] \cup {NoSnapshot}]

Payload == [version : Version \cup {Kept},
            config  : Config \cup {Kept},
            secret  : Secret \cup {NoSecret, Kept}]

Operation == {"configure", "update", "delete_secrets", "uninstall"}

Preview == [operation : Operation, base : Revision, payload : Payload,
            shown : Content]            \* shown: what the preview was made of

ASSUME AbsenceAssumption == NoRow \notin Row

Present == row # NoRow
Enabled == Present /\ row.enabled

Configurable == Present /\ ~row.enabled

\* ValidateConfiguration
Valid(content) == <<content.version, content.config>> \in Fit

\* The content that a payload turns a content into.
Merge(content, payload) ==
    [version |-> IF payload.version = Kept THEN content.version ELSE payload.version,
     config  |-> IF payload.config = Kept THEN content.config ELSE payload.config,
     secret  |-> IF payload.secret = Kept THEN content.secret ELSE payload.secret]

NewRow(v) ==
    [content  |-> [version |-> v, config |-> EmptyConfig, secret |-> NoSecret],
     revision |-> 1, tested |-> 0, enabled |-> FALSE, previous |-> NoSnapshot]

Snapshot(content) == [version |-> content.version, config |-> content.config]

Install(v) ==
    /\ ~Present /\ ~removed
    /\ row' = NewRow(v)
    /\ UNCHANGED <<previews, removed, runtimeVars, callVars, historyVars>>

\* Every change of the content is a new, untested revision.
Revise(content, previous) ==
    /\ row.revision < MaxRevision
    /\ row' = [content |-> content, revision |-> row.revision + 1, tested |-> 0,
               enabled |-> row.enabled, previous |-> previous]
    /\ healthy' = FALSE

PreviewOf(operation, payload) ==
    /\ Configurable
    /\ Cardinality(previews) < MaxPreviews
    /\ previews' = previews \cup {[operation |-> operation, base |-> row.revision,
                                   payload |-> payload, shown |-> row.content]}
    /\ UNCHANGED <<row, removed, runtimeVars, callVars, historyVars>>

PreviewConfigure(config, secret) ==
    LET payload == [version |-> Kept, config |-> config, secret |-> secret]
    IN  /\ PreviewOf("configure", payload)
        /\ Valid(Merge(row.content, payload))

PreviewUpdate(version) ==
    LET payload == [version |-> version, config |-> Kept, secret |-> Kept]
    IN  /\ PreviewOf("update", payload)
        /\ version # row.content.version
        /\ Valid(Merge(row.content, payload))

PreviewDeleteSecrets ==
    PreviewOf("delete_secrets", [version |-> Kept, config |-> Kept, secret |-> NoSecret])

PreviewUninstall ==
    PreviewOf("uninstall", [version |-> Kept, config |-> Kept, secret |-> Kept])

\* A preview that expires is never loaded again.
PreviewExpires(p) ==
    /\ p \in previews
    /\ previews' = previews \ {p}
    /\ UNCHANGED <<row, removed, runtimeVars, callVars, historyVars>>

\* loadPreview, verifyPreview and the check of the locked row.
Confirmed(p, operation) ==
    /\ p \in previews
    /\ p.operation = operation
    /\ Configurable
    /\ row.revision = p.base

ApplyConfigure(p) ==
    /\ Confirmed(p, "configure")
    /\ Valid(Merge(row.content, p.payload))
    /\ Revise(Merge(row.content, p.payload), row.previous)
    /\ previews' = previews \ {p}
    /\ UNCHANGED <<removed, disturbed, runtimeVars, callVars>>

ApplyUpdate(p) ==
    /\ Confirmed(p, "update")
    /\ Revise(Merge(row.content, p.payload), Snapshot(row.content))
    /\ previews' = previews \ {p}
    /\ UNCHANGED <<removed, disturbed, runtimeVars, callVars>>

ApplyDeleteSecrets(p) ==
    /\ Confirmed(p, "delete_secrets")
    /\ Revise(Merge(row.content, p.payload), row.previous)
    /\ previews' = previews \ {p}
    /\ UNCHANGED <<removed, disturbed, runtimeVars, callVars>>

\* The previews of the instance are deleted with it.
ApplyUninstall(p) ==
    /\ Confirmed(p, "uninstall")
    /\ row.content.secret = NoSecret
    /\ row' = NoRow
    /\ previews' = {}
    /\ removed' = TRUE
    /\ UNCHANGED <<runtimeVars, callVars, historyVars>>

Rollback ==
    /\ Configurable
    /\ row.previous # NoSnapshot
    /\ LET content == [version |-> row.previous.version,
                       config  |-> row.previous.config,
                       secret  |-> row.content.secret]
       IN  /\ Valid(content)
           /\ Revise(content, Snapshot(row.content))
    /\ UNCHANGED <<previews, removed, disturbed, runtimeVars, callVars>>

----------------------------------------------------------------------------
(* Test, Enable and Disable.  pc is the step a call takes next; failed     *)
(* says that it is undoing what it did.                                    *)

Step == {"idle", "secrets", "start", "await", "probe", "admit", "revoke",
         "stop", "terminate", "commit"}

AtRest == \A c \in Call : pc[c] = "idle"

\* What comes after a step that went well, and after one that did not.
AfterSuccess(c) ==
    CASE pc[c] = "secrets" -> "start"
      [] pc[c] \in {"start", "await"} -> IF op[c] = "disable" THEN "admit" ELSE "probe"
      [] pc[c] = "probe"   -> IF op[c] = "test" THEN "stop" ELSE "admit"
      [] pc[c] = "revoke"  -> "stop"
      [] pc[c] \in {"admit", "stop", "terminate"} -> IF failed[c] THEN "idle" ELSE "commit"
      [] OTHER -> "idle"

\* Wrong: a process that failed its probe is left running.
AfterFailureRunning(c) ==
    IF failed[c] THEN "idle"
    ELSE CASE pc[c] = "admit" -> "stop"
           [] pc[c] \in {"stop", "terminate"} /\ op[c] = "disable" -> "admit"
           [] pc[c] = "commit" /\ op[c] = "enable" -> "revoke"
           [] pc[c] = "commit" /\ op[c] = "disable" -> "secrets"
           [] OTHER -> "idle"

AfterFailure(c) ==
    IF failed[c] THEN "idle"
    ELSE CASE pc[c] \in {"probe", "admit"} -> "stop"
           [] pc[c] \in {"stop", "terminate"} /\ op[c] = "disable" -> "admit"
           [] pc[c] = "commit" /\ op[c] = "enable" -> "revoke"
           [] pc[c] = "commit" /\ op[c] = "disable" -> "secrets"
           [] OTHER -> "idle"

Goto(c, step, undoing) ==
    /\ pc' = [pc EXCEPT ![c] = step]
    /\ failed' = [failed EXCEPT ![c] = undoing /\ step # "idle"]
    /\ seen' = IF step = "idle" THEN [seen EXCEPT ![c] = NoRow] ELSE seen
    /\ op' = IF step = "idle" THEN [op EXCEPT ![c] = "none"] ELSE op

Succeed(c) ==
    /\ Goto(c, AfterSuccess(c), failed[c])
    /\ UNCHANGED disturbed

\* A call whose Stop fails, or that cannot undo what it did, ends in doubt.
Fail(c) ==
    /\ Goto(c, AfterFailure(c), TRUE)
    /\ disturbed' = (disturbed \/ failed[c] \/ pc[c] \in {"stop", "terminate"})

\* Service.Get and the checks on what it returns.
Get(c, operation, step) ==
    /\ pc[c] = "idle"
    /\ Present
    /\ pc' = [pc EXCEPT ![c] = step]
    /\ op' = [op EXCEPT ![c] = operation]
    /\ seen' = [seen EXCEPT ![c] = row]
    /\ disturbed' = (disturbed \/ ~AtRest)
    /\ UNCHANGED <<failed, held, target, healthy, dbVars, runtimeVars>>

BeginTest(c) ==
    /\ Get(c, "test", "secrets")
    /\ ~row.enabled
    /\ row.content.secret # NoSecret

BeginEnable(c) ==
    /\ Get(c, "enable", "secrets")
    /\ ~row.enabled
    /\ row.tested = row.revision
    /\ row.content.secret # NoSecret

BeginDisable(c) ==
    /\ Get(c, "disable", "revoke")
    /\ row.enabled

\* readSecrets, a query of its own.
ReadSecrets(c) ==
    /\ pc[c] = "secrets"
    /\ held' = [held EXCEPT ![c] = IF Present THEN row.content.secret ELSE NoSecret]
    /\ Succeed(c)
    /\ UNCHANGED <<target, healthy, dbVars, runtimeVars>>

ReadSecretsFails(c) ==
    /\ pc[c] = "secrets"
    /\ Fail(c)
    /\ UNCHANGED <<held, target, healthy, dbVars, runtimeVars>>

----------------------------------------------------------------------------
(* The supervisor.                                                         *)

Live(p) == p \in Process /\ running[p] # Gone

\* The registered process is the one a call means: same pin and revision.
Matches(c) ==
    /\ Live(registered)
    /\ running[registered].revision = seen[c].revision
    /\ running[registered].content.version = seen[c].content.version

\* validateInstance and runtimeConfiguration
Startable(c) == held[c] # NoSecret /\ Valid(seen[c].content)

Launch(c) == [revision |-> seen[c].revision,
              content  |-> [seen[c].content EXCEPT !.secret = held[c]]]

Spare(p) == ~Live(p) /\ p # registered /\ \A c \in Call : target[c] # p

Start(c) ==
    /\ pc[c] = "start"
    /\ held' = [held EXCEPT ![c] = NoSecret]
    /\ \/ /\ Startable(c) /\ Matches(c)
          /\ Succeed(c)
          /\ UNCHANGED <<target, runtimeVars>>
       \/ /\ Startable(c) /\ registered = NoProcess
          /\ \E p \in Process :
                /\ Spare(p)
                /\ running' = [running EXCEPT ![p] = Launch(c)]
                /\ target' = [target EXCEPT ![c] = p]
          /\ Goto(c, "await", failed[c])
          /\ UNCHANGED <<registered, active, stuck, disturbed>>
       \/ /\ Fail(c)
          /\ UNCHANGED <<target, runtimeVars>>
    /\ UNCHANGED <<healthy, dbVars>>

\* Wrong: a process that was registered in the meantime is replaced.
AwaitReplacing(c) ==
    /\ pc[c] = "await"
    /\ registered' = target[c]
    /\ target' = [target EXCEPT ![c] = NoProcess]
    /\ Succeed(c)
    /\ UNCHANGED <<held, healthy, dbVars, running, active, stuck>>

\* waitForSocket and the registration.
Await(c) ==
    /\ pc[c] = "await"
    /\ registered = NoProcess
    /\ registered' = target[c]
    /\ target' = [target EXCEPT ![c] = NoProcess]
    /\ Succeed(c)
    /\ UNCHANGED <<held, healthy, dbVars, running, active, stuck>>

\* The process did not come up, or another one has been registered; it is
\* terminated, unless that fails too.
AwaitFails(c) ==
    /\ pc[c] = "await"
    /\ \/ /\ running' = [running EXCEPT ![target[c]] = Gone]
          /\ UNCHANGED stuck
       \/ /\ Live(target[c])
          /\ stuck' = stuck \cup {target[c]}
          /\ UNCHANGED running
    /\ target' = [target EXCEPT ![c] = NoProcess]
    /\ Fail(c)
    /\ UNCHANGED <<held, healthy, dbVars, registered, active>>

Probe(c) ==
    /\ pc[c] = "probe"
    /\ \/ /\ Matches(c)
          /\ healthy' = (healthy \/ (Present /\ running[registered].content = row.content))
          /\ Succeed(c)
       \/ /\ Fail(c)
          /\ UNCHANGED healthy
    /\ UNCHANGED <<held, target, dbVars, runtimeVars>>

AdmitRouting(c) ==
    /\ pc[c] = "admit"
    /\ \/ /\ Live(registered)
          /\ active' = TRUE
          /\ Succeed(c)
       \/ /\ ~Live(registered)
          /\ Fail(c)
          /\ UNCHANGED active
    /\ UNCHANGED <<held, target, healthy, dbVars, running, registered, stuck>>

RevokeRouting(c) ==
    /\ pc[c] = "revoke"
    /\ active' = FALSE
    /\ Succeed(c)
    /\ UNCHANGED <<held, target, healthy, dbVars, running, registered, stuck>>

\* The routing is looked at once, before the process is terminated.
Stop(c) ==
    /\ pc[c] = "stop"
    /\ \/ active /\ Fail(c) /\ UNCHANGED target
       \/ ~active /\ registered = NoProcess /\ Succeed(c) /\ UNCHANGED target
       \/ /\ ~active /\ registered # NoProcess
          /\ target' = [target EXCEPT ![c] = registered]
          /\ Goto(c, "terminate", failed[c])
          /\ UNCHANGED disturbed
    /\ UNCHANGED <<held, healthy, dbVars, runtimeVars>>

\* terminate, the removal from the map and the removal of the directory.
Terminate(c) ==
    /\ pc[c] = "terminate"
    /\ running' = [running EXCEPT ![target[c]] = Gone]
    /\ registered' = IF registered = target[c] THEN NoProcess ELSE registered
    /\ target' = [target EXCEPT ![c] = NoProcess]
    /\ Succeed(c) \/ Fail(c)
    /\ UNCHANGED <<held, healthy, dbVars, active, stuck>>

TerminateFails(c) ==
    /\ pc[c] = "terminate"
    /\ Live(target[c])
    /\ target' = [target EXCEPT ![c] = NoProcess]
    /\ Fail(c)
    /\ UNCHANGED <<held, healthy, dbVars, runtimeVars>>

----------------------------------------------------------------------------
(* The transaction that records the outcome.                               *)

\* Wrong: Test records its result for whatever revision the row has now.
RecordAnyRevision(c) ==
    /\ pc[c] = "commit"
    /\ Present
    /\ \/ /\ op[c] = "test" /\ ~row.enabled
          /\ row' = [row EXCEPT !.tested = row.revision]
       \/ /\ op[c] = "enable" /\ ~row.enabled /\ row.tested = seen[c].revision
          /\ row' = [row EXCEPT !.enabled = TRUE]
       \/ /\ op[c] = "disable"
          /\ row' = [row EXCEPT !.enabled = FALSE]

\* The UPDATE of Test, Enable and Disable.
Record(c) ==
    /\ pc[c] = "commit"
    /\ Present
    /\ row.revision = seen[c].revision
    /\ \/ /\ op[c] = "test" /\ ~row.enabled
          /\ row' = [row EXCEPT !.tested = row.revision]
       \/ /\ op[c] = "enable" /\ ~row.enabled /\ row.tested = seen[c].revision
          /\ row' = [row EXCEPT !.enabled = TRUE]
       \/ /\ op[c] = "disable"
          /\ row' = [row EXCEPT !.enabled = FALSE]

Commit(c) ==
    /\ Record(c)
    /\ Succeed(c)
    /\ UNCHANGED <<held, target, healthy, previews, removed, runtimeVars>>

\* The transaction commits and the answer is lost.
CommitLost(c) ==
    /\ Record(c)
    /\ Goto(c, AfterFailure(c), TRUE)
    /\ disturbed' = TRUE
    /\ UNCHANGED <<held, target, healthy, previews, removed, runtimeVars>>

\* No row matches, or the transaction fails.
CommitFails(c) ==
    /\ pc[c] = "commit"
    /\ Fail(c)
    /\ UNCHANGED <<held, target, healthy, dbVars, runtimeVars>>

----------------------------------------------------------------------------
(* The environment.                                                        *)

\* A child process ends by itself.
Exit(p) ==
    /\ Live(p)
    /\ running' = [running EXCEPT ![p] = Gone]
    /\ stuck' = stuck \ {p}
    /\ UNCHANGED <<registered, active, callVars, historyVars, dbVars>>

\* The daemon dies, and its children with it (Pdeathsig).
Crash ==
    /\ running' = [p \in Process |-> Gone]
    /\ registered' = NoProcess
    /\ active' = FALSE
    /\ stuck' = {}
    /\ pc' = [c \in Call |-> "idle"]
    /\ failed' = [c \in Call |-> FALSE]
    /\ seen' = [c \in Call |-> NoRow]
    /\ held' = [c \in Call |-> NoSecret]
    /\ target' = [c \in Call |-> NoProcess]
    /\ op' = [c \in Call |-> "none"]
    /\ disturbed' = TRUE
    /\ UNCHANGED <<healthy, dbVars>>

----------------------------------------------------------------------------

Init ==
    /\ row = NoRow
    /\ previews = {}
    /\ running = [p \in Process |-> Gone]
    /\ registered = NoProcess
    /\ active = FALSE
    /\ pc = [c \in Call |-> "idle"]
    /\ op = [c \in Call |-> "none"]
    /\ seen = [c \in Call |-> NoRow]
    /\ held = [c \in Call |-> NoSecret]
    /\ failed = [c \in Call |-> FALSE]
    /\ target = [c \in Call |-> NoProcess]
    /\ healthy = FALSE
    /\ removed = FALSE
    /\ disturbed = FALSE
    /\ stuck = {}

Administration ==
    \/ \E v \in Version : Install(v) \/ PreviewUpdate(v)
    \/ \E config \in Config, secret \in Secret \cup {Kept} :
            PreviewConfigure(config, secret)
    \/ PreviewDeleteSecrets
    \/ PreviewUninstall
    \/ \E p \in previews : \/ PreviewExpires(p)
                            \/ ApplyConfigure(p)
                            \/ ApplyUpdate(p)
                            \/ ApplyDeleteSecrets(p)
                            \/ ApplyUninstall(p)
    \/ Rollback

CallStep(c) ==
    \/ BeginTest(c) \/ BeginEnable(c) \/ BeginDisable(c)
    \/ ReadSecrets(c) \/ ReadSecretsFails(c)
    \/ Start(c) \/ Await(c) \/ AwaitFails(c)
    \/ Probe(c) \/ AdmitRouting(c) \/ RevokeRouting(c)
    \/ Stop(c) \/ Terminate(c) \/ TerminateFails(c)
    \/ Commit(c) \/ CommitLost(c) \/ CommitFails(c)

Next ==
    \/ Administration
    \/ \E c \in Call : CallStep(c)
    \/ \E p \in Process : Exit(p)
    \/ Crash

Spec == Init /\ [][Next]_vars

----------------------------------------------------------------------------
(* Properties.                                                             *)

\* A revision that counts as tested is one whose version, configuration and
\* secret a probe has found healthy, and only such a one is enabled (Test,
\* Enable), however the calls and the changes of the row interleave.
EnabledWasTested ==
    /\ Present /\ row.tested = row.revision => healthy
    /\ Enabled => row.tested = row.revision

\* A preview that can still be applied was made of what the row contains now.
PreviewsShowTheTruth ==
    \A p \in previews : Present /\ p.base = row.revision => p.shown = row.content

\* An enabled extension has its required secret and a valid configuration.
EnabledIsComplete ==
    Enabled => row.content.secret # NoSecret /\ Valid(row.content)

\* A revision stands for one content: the one that was shown, tested and
\* enabled under its number.
RevisionsAreExact == EnabledWasTested /\ PreviewsShowTheTruth /\ EnabledIsComplete

\* No child process is forgotten: it is registered, or a call is about to
\* register or to stop it, or terminating it failed.
ChildrenAreKnown ==
    \A p \in Process : Live(p) =>
        p = registered \/ p \in stuck \/ \E c \in Call : target[c] = p

\* Between calls, when they did not overlap and none of them ended in doubt,
\* the row, the routing and the process agree.
Agreement ==
    AtRest /\ ~disturbed =>
        /\ active <=> Enabled
        /\ Enabled <=> registered # NoProcess
        /\ Enabled /\ Live(registered) =>
              running[registered] = [revision |-> row.revision, content |-> row.content]
=============================================================================
