-------------------------- MODULE ExtensionProofs ---------------------------
(***************************************************************************)
(* Extension: a revision of the registry row stands for one content, no    *)
(* child process is forgotten, and calls that neither overlap nor end in   *)
(* doubt leave the row, the routing and the process in agreement.          *)
(* PluginControl: only the control plane's own plugin is found healthy.    *)
(***************************************************************************)
EXTENDS Extension, PluginControl, TLAPS

-----------------------------------------------------------------------------
(* Extension: the rows and the calls *)

RowType ==
    /\ row \in Row \union {NoRow}
    /\ previews \subseteq Preview
    /\ healthy \in BOOLEAN

\* The steps of a call of each kind, before and after it has failed.
Course(step, operation, undoing) ==
    \/ step = "idle" /\ operation = "none" /\ ~undoing
    \/ /\ operation = "test"
       /\ step \in IF undoing THEN {"stop", "terminate"}
                   ELSE {"secrets", "start", "await", "probe", "stop", "terminate", "commit"}
    \/ /\ operation = "enable"
       /\ step \in IF undoing THEN {"revoke", "stop", "terminate"}
                   ELSE {"secrets", "start", "await", "probe", "admit", "commit"}
    \/ /\ operation = "disable"
       /\ step \in IF undoing THEN {"secrets", "start", "await", "admit"}
                   ELSE {"revoke", "stop", "terminate", "commit"}

Busy(c) == pc[c] # "idle"

CallsType ==
    /\ pc \in [Call -> Step]
    /\ op \in [Call -> {"none", "test", "enable", "disable"}]
    /\ failed \in [Call -> BOOLEAN]
    /\ seen \in [Call -> Row \union {NoRow}]
    /\ held \in [Call -> Secret \union {NoSecret}]
    /\ \A c \in Call : Course(pc[c], op[c], failed[c])
    /\ \A c \in Call : Busy(c) => seen[c] \in Row

\* A payload changes a content into a content.
LEMMA MergeType ==
    ASSUME NEW content \in Content, NEW payload \in Payload
    PROVE  Merge(content, payload) \in Content
BY Zenon DEF Merge, Content, Payload

\* An installation makes a row.
LEMMA NewRowType == ASSUME NEW v \in Version PROVE NewRow(v) \in Row
BY ExtensionAssumption DEF NewRow, Row, Content, Revision

\* Every change of the content makes a row.
LEMMA ReviseType ==
    ASSUME row \in Row, NEW content \in Content,
           NEW previous \in [version : Version, config : Config] \union {NoSnapshot},
           Revise(content, previous)
    PROVE  /\ row' \in Row
           /\ row'.revision = row.revision + 1 /\ row'.tested = 0
           /\ row'.enabled = row.enabled /\ row'.content = content
           /\ ~healthy'
BY ExtensionAssumption DEF Revise, Row, Revision

\* A preview is a preview.
LEMMA PreviewType ==
    ASSUME RowType, NEW operation \in Operation, NEW payload \in Payload,
           PreviewOf(operation, payload)
    PROVE  previews' \subseteq Preview
<1>1. row \in Row
  BY Zenon DEF PreviewOf, Configurable, Present, RowType
<1>2. [operation |-> operation, base |-> row.revision, payload |-> payload, shown |-> row.content]
        \in Preview
  BY <1>1, Zenon DEF Preview, Row
<1>3. QED
  BY <1>2, Zenon DEF PreviewOf, RowType

-----------------------------------------------------------------------------
(* The steps of the calls *)

\* What Goto does to the call that takes it and to the others.
Moved(c, step, undoing) ==
    /\ pc'[c] = step
    /\ failed'[c] = (undoing /\ step # "idle")
    /\ step = "idle" => op'[c] = "none" /\ seen'[c] = NoRow
    /\ step # "idle" => op'[c] = op[c] /\ seen'[c] = seen[c]
    /\ \A d \in Call \ {c} : /\ pc'[d] = pc[d] /\ op'[d] = op[d]
                             /\ seen'[d] = seen[d] /\ failed'[d] = failed[d]

\* Goto moves one call and no other.
LEMMA GotoMoves ==
    ASSUME CallsType, NEW c \in Call, NEW step \in Step, NEW undoing \in BOOLEAN,
           Goto(c, step, undoing)
    PROVE  /\ Moved(c, step, undoing)
           /\ pc' \in [Call -> Step]
           /\ op' \in [Call -> {"none", "test", "enable", "disable"}]
           /\ failed' \in [Call -> BOOLEAN]
           /\ seen' \in [Call -> Row \union {NoRow}]
<1>1. /\ pc \in [Call -> Step] /\ failed \in [Call -> BOOLEAN]
      /\ op \in [Call -> {"none", "test", "enable", "disable"}]
      /\ seen \in [Call -> Row \union {NoRow}]
  BY Zenon DEF CallsType
<1>2. /\ pc' = [pc EXCEPT ![c] = step]
      /\ failed' = [failed EXCEPT ![c] = undoing /\ step # "idle"]
  BY Zenon DEF Goto
<1>3. (undoing /\ step # "idle") \in BOOLEAN
  BY Zenon
<1>4. /\ pc' \in [Call -> Step] /\ pc'[c] = step /\ \A d \in Call \ {c} : pc'[d] = pc[d]
  BY <1>1, <1>2, Zenon
<1>5. /\ failed' \in [Call -> BOOLEAN] /\ failed'[c] = (undoing /\ step # "idle")
      /\ \A d \in Call \ {c} : failed'[d] = failed[d]
  BY <1>1, <1>2, <1>3, Zenon
<1>6. CASE step = "idle"
  <2>1. /\ seen' = [seen EXCEPT ![c] = NoRow]
        /\ op' = [op EXCEPT ![c] = "none"]
    BY <1>6, Zenon DEF Goto
  <2>2. /\ seen' \in [Call -> Row \union {NoRow}] /\ seen'[c] = NoRow
        /\ \A d \in Call \ {c} : seen'[d] = seen[d]
    BY <2>1, <1>1, Zenon
  <2>3. /\ op' \in [Call -> {"none", "test", "enable", "disable"}] /\ op'[c] = "none"
        /\ \A d \in Call \ {c} : op'[d] = op[d]
    BY <2>1, <1>1, Zenon
  <2>4. QED
    BY <1>4, <1>5, <1>6, <2>2, <2>3, Zenon DEF Moved
<1>7. CASE step # "idle"
  <2>1. seen' = seen /\ op' = op
    BY <1>7, Zenon DEF Goto
  <2>2. QED
    BY <1>1, <1>4, <1>5, <1>7, <2>1, Zenon DEF Moved
<1>8. QED
  BY <1>6, <1>7, Zenon

\* A step that went well leads on in the course of its call.
LEMMA SuccessCourse ==
    ASSUME CallsType, NEW c \in Call, Busy(c)
    PROVE  /\ AfterSuccess(c) \in Step
           /\ AfterSuccess(c) # "idle" => Course(AfterSuccess(c), op[c], failed[c])
<1>1. Course(pc[c], op[c], failed[c]) /\ failed[c] \in BOOLEAN
  BY Zenon DEF CallsType
<1>2. QED
  BY <1>1, Zenon DEF Busy, Course, AfterSuccess, Step

\* A step that did not leads to what undoes the call.
LEMMA FailureCourse ==
    ASSUME CallsType, NEW c \in Call, Busy(c), pc[c] # "revoke"
    PROVE  /\ AfterFailure(c) \in Step
           /\ AfterFailure(c) # "idle" => Course(AfterFailure(c), op[c], TRUE) /\ ~failed[c]
<1>1. Course(pc[c], op[c], failed[c]) /\ failed[c] \in BOOLEAN
  BY Zenon DEF CallsType
<1>2. CASE failed[c]
  BY <1>2, Zenon DEF AfterFailure, Step
<1>3. CASE ~failed[c] /\ op[c] = "test"
  BY <1>1, <1>3, Zenon DEF Busy, Course, AfterFailure, Step
<1>4. CASE ~failed[c] /\ op[c] = "enable"
  BY <1>1, <1>4, Zenon DEF Busy, Course, AfterFailure, Step
<1>5. CASE ~failed[c] /\ op[c] = "disable"
  BY <1>1, <1>5, Zenon DEF Busy, Course, AfterFailure, Step
<1>6. QED
  BY <1>1, <1>2, <1>3, <1>4, <1>5, Zenon DEF Busy, Course

\* The types survive a step along the course.
LEMMA MovedType ==
    ASSUME CallsType, NEW c \in Call, Busy(c), NEW step \in Step, NEW undoing \in BOOLEAN,
           step # "idle" => Course(step, op[c], undoing),
           Goto(c, step, undoing),
           held' \in [Call -> Secret \union {NoSecret}]
    PROVE  CallsType'
<1>1. /\ Moved(c, step, undoing)
      /\ pc' \in [Call -> Step]
      /\ op' \in [Call -> {"none", "test", "enable", "disable"}]
      /\ failed' \in [Call -> BOOLEAN]
      /\ seen' \in [Call -> Row \union {NoRow}]
  BY GotoMoves, Zenon
<1>2. ASSUME NEW d \in Call PROVE Course(pc'[d], op'[d], failed'[d])
  <2>1. CASE d = c /\ step = "idle"
    BY <1>1, <2>1, Zenon DEF Moved, Course
  <2>2. CASE d = c /\ step # "idle"
    BY <1>1, <2>2, Zenon DEF Moved
  <2>3. CASE d # c
    BY <1>1, <2>3, Zenon DEF Moved, CallsType
  <2>4. QED
    BY <2>1, <2>2, <2>3, Zenon
<1>3. ASSUME NEW d \in Call, pc'[d] # "idle" PROVE seen'[d] \in Row
  <2>1. CASE d = c
    BY <1>1, <1>3, <2>1, Zenon DEF Moved, CallsType
  <2>2. CASE d # c
    BY <1>1, <1>3, <2>2, Zenon DEF Moved, CallsType, Busy
  <2>3. QED
    BY <2>1, <2>2, Zenon
<1>4. QED
  BY <1>1, <1>2, <1>3, Zenon DEF CallsType, Busy

\* The step of a call leads on, leads to undoing it, or waits within the
\* supervisor.
Steps(c) ==
    \/ Succeed(c)
    \/ pc[c] # "revoke" /\ Fail(c)
    \/ pc[c] # "revoke" /\ Goto(c, AfterFailure(c), TRUE)
    \/ pc[c] = "start" /\ Goto(c, "await", failed[c])
    \/ pc[c] = "stop" /\ Goto(c, "terminate", failed[c])

\* A step of a call keeps to the course of its kind.
LEMMA StepsType ==
    ASSUME CallsType, NEW c \in Call, Busy(c), Steps(c),
           held' \in [Call -> Secret \union {NoSecret}]
    PROVE  CallsType'
<1>1. Course(pc[c], op[c], failed[c]) /\ failed[c] \in BOOLEAN
  BY Zenon DEF CallsType
<1>2. CASE Succeed(c)
  <2> DEFINE step == AfterSuccess(c)
  <2> DEFINE undoing == failed[c]
  <2>1. Goto(c, step, undoing) /\ undoing \in BOOLEAN /\ step \in Step
    BY <1>1, <1>2, SuccessCourse, Zenon DEF Succeed
  <2>2. step # "idle" => Course(step, op[c], undoing)
    BY SuccessCourse, Zenon
  <2> HIDE DEF step, undoing
  <2>3. QED
    BY <2>1, <2>2, MovedType, Zenon
<1>3. CASE pc[c] # "revoke" /\ (Fail(c) \/ Goto(c, AfterFailure(c), TRUE))
  <2> DEFINE step == AfterFailure(c)
  <2> DEFINE undoing == TRUE
  <2>1. Goto(c, step, undoing) /\ step \in Step
    BY <1>3, FailureCourse, Zenon DEF Fail
  <2>2. step # "idle" => Course(step, op[c], undoing)
    BY <1>3, FailureCourse, Zenon
  <2>3. undoing \in BOOLEAN
    BY Zenon
  <2> HIDE DEF step, undoing
  <2>4. QED
    BY <2>1, <2>2, <2>3, MovedType, Zenon
<1>4. CASE pc[c] = "start" /\ Goto(c, "await", failed[c])
  <2> DEFINE step == "await"
  <2> DEFINE undoing == failed[c]
  <2>1. Goto(c, step, undoing) /\ step \in Step /\ undoing \in BOOLEAN
    BY <1>1, <1>4, Zenon DEF Step
  <2>2. step # "idle" => Course(step, op[c], undoing)
    BY <1>1, <1>4, Zenon DEF Course
  <2> HIDE DEF step, undoing
  <2>3. QED
    BY <2>1, <2>2, MovedType, Zenon
<1>5. CASE pc[c] = "stop" /\ Goto(c, "terminate", failed[c])
  <2> DEFINE step == "terminate"
  <2> DEFINE undoing == failed[c]
  <2>1. Goto(c, step, undoing) /\ step \in Step /\ undoing \in BOOLEAN
    BY <1>1, <1>5, Zenon DEF Step
  <2>2. step # "idle" => Course(step, op[c], undoing)
    BY <1>1, <1>5, Zenon DEF Course
  <2> HIDE DEF step, undoing
  <2>3. QED
    BY <2>1, <2>2, MovedType
<1>6. QED
  BY <1>2, <1>3, <1>4, <1>5, Zenon DEF Steps

\* A call leads its course: it has a step to take, and what it keeps of the
\* secret is a secret.
LEMMA CallStepSteps ==
    ASSUME RowType, CallsType, NEW c \in Call, CallStep(c)
    PROVE  \/ \E operation \in {"test", "enable", "disable"} :
                 \E step \in {"secrets", "revoke"} : Get(c, operation, step)
           \/ /\ Busy(c) /\ Steps(c)
              /\ held' \in [Call -> Secret \union {NoSecret}]
<1> USE DEF CallStep
<1>1. CASE BeginTest(c) \/ BeginEnable(c) \/ BeginDisable(c)
  BY <1>1, Zenon DEF BeginTest, BeginEnable, BeginDisable
<1>2. CASE ReadSecrets(c)
  <2>1. (IF Present THEN row.content.secret ELSE NoSecret) \in Secret \union {NoSecret}
    BY Zenon DEF RowType, Present, Row, Content
  <2>2. held' \in [Call -> Secret \union {NoSecret}]
    BY <1>2, <2>1, Zenon DEF ReadSecrets, CallsType
  <2>3. QED
    BY <1>2, <2>2, Zenon DEF ReadSecrets, Busy, Steps
<1>3. CASE ReadSecretsFails(c)
  BY <1>3, Zenon DEF ReadSecretsFails, Busy, Steps, CallsType
<1>4. CASE Start(c)
  <2>1. held' \in [Call -> Secret \union {NoSecret}]
    BY <1>4, Zenon DEF Start, CallsType
  <2>2. Busy(c) /\ Steps(c)
    BY <1>4, Zenon DEF Start, Busy, Steps
  <2>3. QED
    BY <2>1, <2>2, Zenon
<1>5. CASE Await(c)
  BY <1>5, Zenon DEF Await, Busy, Steps, CallsType
<1>6. CASE AwaitFails(c)
  BY <1>6, Zenon DEF AwaitFails, Busy, Steps, CallsType
<1>7. CASE Probe(c)
  BY <1>7, Zenon DEF Probe, Busy, Steps, CallsType
<1>8. CASE AdmitRouting(c)
  BY <1>8, Zenon DEF AdmitRouting, Busy, Steps, CallsType
<1>9. CASE RevokeRouting(c)
  BY <1>9, Zenon DEF RevokeRouting, Busy, Steps, CallsType
<1>10. CASE Stop(c)
  BY <1>10, Zenon DEF Stop, Busy, Steps, CallsType
<1>11. CASE Terminate(c) \/ TerminateFails(c)
  BY <1>11, Zenon DEF Terminate, TerminateFails, Busy, Steps, CallsType
<1>12. CASE Commit(c) \/ CommitLost(c) \/ CommitFails(c)
  BY <1>12, Zenon DEF Commit, CommitLost, CommitFails, Record, Busy, Steps, CallsType
<1>13. QED
  BY <1>1, <1>2, <1>3, <1>4, <1>5, <1>6, <1>7, <1>8, <1>9, <1>10, <1>11, <1>12, Zenon

\* Every step keeps the types and the courses of the calls.
LEMMA CallsTypeStep == RowType /\ CallsType /\ [Next]_vars => CallsType'
<1> SUFFICES ASSUME RowType, CallsType, [Next]_vars PROVE CallsType'
  BY Zenon
<1>1. CASE UNCHANGED callVars
  BY <1>1, Zenon DEF callVars, CallsType, Busy
<1>2. CASE Crash
  <2>1. /\ pc' = [c \in Call |-> "idle"] /\ failed' = [c \in Call |-> FALSE]
        /\ seen' = [c \in Call |-> NoRow] /\ held' = [c \in Call |-> NoSecret]
        /\ op' = [c \in Call |-> "none"]
    BY <1>2, Zenon DEF Crash
  <2>2. QED
    BY <2>1, Zenon DEF CallsType, Busy, Step, Course
<1>3. ASSUME NEW c \in Call, CallStep(c) PROVE CallsType'
  <2>1. CASE Busy(c) /\ Steps(c) /\ held' \in [Call -> Secret \union {NoSecret}]
    BY <2>1, StepsType, Zenon
  <2>2. ASSUME NEW operation \in {"test", "enable", "disable"},
               NEW step \in {"secrets", "revoke"}, Get(c, operation, step),
               Course(step, operation, FALSE)
        PROVE  CallsType'
    <3>1. /\ pc' = [pc EXCEPT ![c] = step] /\ op' = [op EXCEPT ![c] = operation]
          /\ seen' = [seen EXCEPT ![c] = row] /\ UNCHANGED <<failed, held>>
          /\ row \in Row /\ pc[c] = "idle"
      BY <2>2, Zenon DEF Get, Present, RowType
    <3>2. failed[c] = FALSE
      BY <3>1, Zenon DEF CallsType, Course
    <3>3. pc' \in [Call -> Step] /\ pc'[c] = step /\ \A d \in Call \ {c} : pc'[d] = pc[d]
      BY <3>1, Zenon DEF CallsType, Step
    <3>4. /\ op' \in [Call -> {"none", "test", "enable", "disable"}] /\ op'[c] = operation
          /\ \A d \in Call \ {c} : op'[d] = op[d]
      BY <3>1, Zenon DEF CallsType
    <3>5. /\ seen' \in [Call -> Row \union {NoRow}] /\ seen'[c] = row
          /\ \A d \in Call \ {c} : seen'[d] = seen[d]
      BY <3>1, Zenon DEF CallsType
    <3>6. \A d \in Call : Course(pc'[d], op'[d], failed'[d])
      BY <2>2, <3>1, <3>2, <3>3, <3>4, Zenon DEF CallsType
    <3>7. \A d \in Call : pc'[d] # "idle" => seen'[d] \in Row
      BY <3>1, <3>3, <3>5, Zenon DEF CallsType, Busy
    <3>8. QED
      BY <3>1, <3>3, <3>4, <3>5, <3>6, <3>7, Zenon DEF CallsType, Busy
  <2>3. CASE BeginTest(c) \/ BeginEnable(c) \/ BeginDisable(c)
    <3>1. /\ Course("secrets", "test", FALSE) /\ Course("secrets", "enable", FALSE)
          /\ Course("revoke", "disable", FALSE)
      BY Zenon DEF Course
    <3>2. \E operation \in {"test", "enable", "disable"}, step \in {"secrets", "revoke"} :
            Get(c, operation, step) /\ Course(step, operation, FALSE)
      BY <2>3, <3>1, Zenon DEF BeginTest, BeginEnable, BeginDisable
    <3>3. QED
      BY <2>2, <3>2, Zenon
  <2>4. QED
    BY <1>3, <2>1, <2>3, CallStepSteps, Zenon DEF CallStep, Get, Busy, Start, ReadSecrets,
       ReadSecretsFails, Await, AwaitFails, Probe, AdmitRouting, RevokeRouting, Stop,
       Terminate, TerminateFails, Commit, CommitLost, CommitFails, Record
<1>4. CASE Administration
  <2>1. UNCHANGED callVars
    BY <1>4, Zenon DEF Administration, Install, PreviewUpdate, PreviewConfigure, PreviewDeleteSecrets,
       PreviewUninstall, PreviewOf, PreviewExpires, ApplyConfigure, ApplyUpdate,
       ApplyDeleteSecrets, ApplyUninstall, Rollback
  <2>2. QED
    BY <1>1, <2>1, Zenon
<1>5. CASE \E p \in Process : Exit(p)
  BY <1>1, <1>5, Zenon DEF Exit
<1>6. CASE UNCHANGED vars
  BY <1>1, <1>6, Zenon DEF vars
<1>7. QED
  BY <1>2, <1>3, <1>4, <1>5, <1>6, Zenon DEF Next

-----------------------------------------------------------------------------
(* The steps of the row *)

Installs == ~Present /\ ~removed /\ \E v \in Version : row' = NewRow(v)

Revises ==
    /\ Configurable
    /\ row' \in Row
    /\ row'.revision = row.revision + 1 /\ row'.tested = 0 /\ ~row'.enabled
    /\ ~healthy'
    /\ previews' \subseteq previews
    /\ UNCHANGED <<removed, disturbed, runtimeVars, callVars>>

\* What an administrator does: install, look at a preview, revise, uninstall.
LEMMA AdministrationSteps ==
    ASSUME RowType, Administration
    PROVE  \/ Installs /\ UNCHANGED <<previews, removed, runtimeVars, callVars, historyVars>>
           \/ /\ previews' \subseteq previews \union
                   {p \in Preview : Present /\ p.base = row.revision /\ p.shown = row.content}
              /\ UNCHANGED <<row, removed, runtimeVars, callVars, historyVars>>
           \/ Revises
           \/ /\ Configurable /\ row' = NoRow /\ previews' = {} /\ removed' = TRUE
              /\ UNCHANGED <<runtimeVars, callVars, historyVars>>
<1>1. ASSUME NEW v \in Version, Install(v)
      PROVE  Installs /\ UNCHANGED <<previews, removed, runtimeVars, callVars, historyVars>>
  BY <1>1, Zenon DEF Install, Installs
<1>2. ASSUME NEW operation \in Operation, NEW payload \in Payload, PreviewOf(operation, payload)
      PROVE  /\ previews' \subseteq previews \union
                  {p \in Preview : Present /\ p.base = row.revision /\ p.shown = row.content}
             /\ UNCHANGED <<row, removed, runtimeVars, callVars, historyVars>>
  <2>1. row \in Row /\ Present
    BY <1>2, Zenon DEF PreviewOf, Configurable, Present, RowType
  <2>2. [operation |-> operation, base |-> row.revision, payload |-> payload, shown |-> row.content]
          \in {p \in Preview : Present /\ p.base = row.revision /\ p.shown = row.content}
    BY <2>1, Zenon DEF Preview, Row
  <2>3. QED
    BY <1>2, <2>1, <2>2, Zenon DEF PreviewOf
<1>3. ASSUME NEW v \in Version, PreviewUpdate(v)
      PROVE  \E operation \in Operation, payload \in Payload : PreviewOf(operation, payload)
  <2>1. [version |-> v, config |-> Kept, secret |-> Kept] \in Payload /\ "update" \in Operation
    BY Zenon DEF Payload, Operation
  <2>2. QED
    BY <1>3, <2>1, Zenon DEF PreviewUpdate
<1>4. ASSUME NEW config \in Config, NEW secret \in Secret \union {Kept},
             PreviewConfigure(config, secret)
      PROVE  \E operation \in Operation, payload \in Payload : PreviewOf(operation, payload)
  <2>1. /\ [version |-> Kept, config |-> config, secret |-> secret] \in Payload
        /\ "configure" \in Operation
    BY Zenon DEF Payload, Operation
  <2>2. QED
    BY <1>4, <2>1, Zenon DEF PreviewConfigure
<1>5. ASSUME PreviewDeleteSecrets \/ PreviewUninstall
      PROVE  \E operation \in Operation, payload \in Payload : PreviewOf(operation, payload)
  <2>1. /\ [version |-> Kept, config |-> Kept, secret |-> NoSecret] \in Payload
        /\ [version |-> Kept, config |-> Kept, secret |-> Kept] \in Payload
        /\ "delete_secrets" \in Operation /\ "uninstall" \in Operation
    BY Zenon DEF Payload, Operation
  <2>2. QED
    BY <1>5, <2>1, Zenon DEF PreviewDeleteSecrets, PreviewUninstall
<1>6. ASSUME NEW p \in previews, PreviewExpires(p)
      PROVE  /\ previews' \subseteq previews
             /\ UNCHANGED <<row, removed, runtimeVars, callVars, historyVars>>
  BY <1>6, Zenon DEF PreviewExpires
<1>7. ASSUME NEW p \in previews, ApplyConfigure(p) \/ ApplyUpdate(p) \/ ApplyDeleteSecrets(p)
      PROVE  Revises
  <2>1. /\ Configurable /\ row \in Row
        /\ p.payload \in Payload
        /\ previews' \subseteq previews
        /\ UNCHANGED <<removed, disturbed, runtimeVars, callVars>>
    BY <1>7, Zenon DEF ApplyConfigure, ApplyUpdate, ApplyDeleteSecrets, Confirmed, Configurable,
       Present, RowType, Preview
  <2>2. row.content \in Content /\ row.previous \in [version : Version, config : Config] \union {NoSnapshot}
    BY <2>1, Zenon DEF Row
  <2>3. Snapshot(row.content) \in [version : Version, config : Config]
    BY <2>2, Zenon DEF Snapshot, Content
  <2> DEFINE after == Merge(row.content, p.payload)
  <2>4. after \in Content
    BY <2>1, <2>2, MergeType, Zenon
  <2>5. \E previous \in [version : Version, config : Config] \union {NoSnapshot} :
           Revise(after, previous)
    BY <1>7, <2>2, <2>3, Zenon DEF ApplyConfigure, ApplyUpdate, ApplyDeleteSecrets
  <2> HIDE DEF after
  <2>6. PICK previous \in [version : Version, config : Config] \union {NoSnapshot} :
           Revise(after, previous)
    BY <2>5, Zenon
  <2>7. QED
    BY <2>1, <2>4, <2>6, ReviseType, Zenon DEF Revises, Configurable
<1>8. ASSUME Rollback PROVE Revises
  <2> DEFINE after == [version |-> row.previous.version, config  |-> row.previous.config,
                       secret  |-> row.content.secret]
  <2> DEFINE previous == Snapshot(row.content)
  <2>1. /\ Configurable /\ row \in Row /\ row.previous # NoSnapshot
        /\ Revise(after, previous)
        /\ UNCHANGED <<previews, removed, disturbed, runtimeVars, callVars>>
    BY <1>8, Zenon DEF Rollback, Configurable, Present, RowType
  <2>2. after \in Content
    BY <2>1, Zenon DEF Row, Content
  <2>3. previous \in [version : Version, config : Config]
    BY <2>1, Zenon DEF Snapshot, Row, Content
  <2> HIDE DEF after, previous
  <2>4. QED
    BY <2>1, <2>2, <2>3, ReviseType, Zenon DEF Revises, Configurable
<1>9. ASSUME NEW p \in previews, ApplyUninstall(p)
      PROVE  /\ Configurable /\ row' = NoRow /\ previews' = {} /\ removed' = TRUE
             /\ UNCHANGED <<runtimeVars, callVars, historyVars>>
  BY <1>9, Zenon DEF ApplyUninstall, Confirmed
<1>10. QED
  BY <1>1, <1>2, <1>3, <1>4, <1>5, <1>6, <1>7, <1>8, <1>9, Zenon DEF Administration

\* The UPDATE of a call leaves the content and its revision.
LEMMA RecordSteps ==
    ASSUME RowType, CallsType, NEW c \in Call, Record(c)
    PROVE  /\ Present /\ row \in Row /\ row' \in Row
           /\ row.revision = seen[c].revision
           /\ row'.revision = row.revision /\ row'.content = row.content
           /\ op[c] = "test" => row'.tested = row.revision /\ row'.enabled = row.enabled
           /\ op[c] # "test" => row'.tested = row.tested
           /\ op[c] = "enable" => row.tested = row.revision /\ row'.enabled
           /\ op[c] = "disable" => ~row'.enabled
           /\ op[c] \in {"test", "enable"} => ~row.enabled
           /\ pc[c] = "commit"
<1>1. Present /\ row \in Row /\ pc[c] = "commit" /\ row.revision = seen[c].revision
  BY Zenon DEF Record, RowType, Present
<1>2. row.revision \in 0..MaxRevision
  BY <1>1, ExtensionAssumption DEF Row, Revision
<1>3. CASE op[c] = "test"
  <2>1. row' = [row EXCEPT !.tested = row.revision] /\ ~row.enabled
    BY <1>3, Zenon DEF Record
  <2>2. QED
    BY <1>1, <1>2, <1>3, <2>1, Zenon DEF Row
<1>4. CASE op[c] = "enable"
  <2>1. /\ row' = [row EXCEPT !.enabled = TRUE] /\ ~row.enabled
        /\ row.tested = seen[c].revision
    BY <1>4, Zenon DEF Record
  <2>2. QED
    BY <1>1, <1>4, <2>1, Zenon DEF Row
<1>5. CASE op[c] = "disable"
  <2>1. row' = [row EXCEPT !.enabled = FALSE]
    BY <1>5, Zenon DEF Record
  <2>2. QED
    BY <1>1, <1>5, <2>1, Zenon DEF Row
<1>6. QED
  BY <1>3, <1>4, <1>5, Zenon DEF Record

\* Of the calls, only those that commit write to the database.
LEMMA CallsKeepRow ==
    ASSUME RowType, NEW c \in Call, CallStep(c)
    PROVE  /\ UNCHANGED <<previews, removed>>
           /\ UNCHANGED row \/ Record(c)
           /\ healthy' \in BOOLEAN /\ (healthy => healthy')
<1> USE DEF CallStep, dbVars, RowType
<1>1. CASE BeginTest(c) \/ BeginEnable(c) \/ BeginDisable(c)
  BY <1>1, Zenon DEF BeginTest, BeginEnable, BeginDisable, Get
<1>2. CASE ReadSecrets(c) \/ ReadSecretsFails(c)
  BY <1>2, Zenon DEF ReadSecrets, ReadSecretsFails
<1>3. CASE Start(c) \/ Await(c) \/ AwaitFails(c)
  BY <1>3, Zenon DEF Start, Await, AwaitFails
<1>4. CASE Probe(c)
  BY <1>4, Zenon DEF Probe
<1>5. CASE AdmitRouting(c) \/ RevokeRouting(c) \/ Stop(c)
  BY <1>5, Zenon DEF AdmitRouting, RevokeRouting, Stop
<1>6. CASE Terminate(c) \/ TerminateFails(c)
  BY <1>6, Zenon DEF Terminate, TerminateFails
<1>7. CASE Commit(c) \/ CommitLost(c) \/ CommitFails(c)
  BY <1>7, Zenon DEF Commit, CommitLost, CommitFails
<1>8. QED
  BY <1>1, <1>2, <1>3, <1>4, <1>5, <1>6, <1>7, Zenon

\* A call does not touch what another call keeps.
LEMMA OthersStay ==
    ASSUME CallsType, target \in [Call -> Process \union {NoProcess}],
           NEW c \in Call, CallStep(c), NEW d \in Call, d # c
    PROVE  /\ pc'[d] = pc[d] /\ op'[d] = op[d] /\ seen'[d] = seen[d]
           /\ failed'[d] = failed[d] /\ held'[d] = held[d] /\ target'[d] = target[d]
<1> USE DEF CallStep, CallsType
<1>1. CASE BeginTest(c) \/ BeginEnable(c) \/ BeginDisable(c)
  BY <1>1, Zenon DEF BeginTest, BeginEnable, BeginDisable, Get
<1>2. ASSUME NEW step, NEW undoing, Goto(c, step, undoing)
      PROVE  /\ pc'[d] = pc[d] /\ op'[d] = op[d] /\ seen'[d] = seen[d]
             /\ failed'[d] = failed[d]
  <2>1. pc'[d] = pc[d] /\ failed'[d] = failed[d]
    BY <1>2, Zenon DEF Goto
  <2>2. op'[d] = op[d] /\ seen'[d] = seen[d]
    BY <1>2, Zenon DEF Goto
  <2>3. QED
    BY <2>1, <2>2, Zenon
<1>3. Steps(c) => /\ pc'[d] = pc[d] /\ op'[d] = op[d] /\ seen'[d] = seen[d]
                  /\ failed'[d] = failed[d]
  BY <1>2, Zenon DEF Steps, Succeed, Fail
<1>4. CASE ReadSecrets(c) \/ ReadSecretsFails(c)
  BY <1>3, <1>4, Zenon DEF ReadSecrets, ReadSecretsFails, Steps
<1>5. CASE Start(c)
  <2>1. held'[d] = held[d]
    BY <1>5, Zenon DEF Start
  <2>2. target'[d] = target[d]
    BY <1>5, Zenon DEF Start
  <2>3. Steps(c)
    BY <1>5, Zenon DEF Start, Steps
  <2>4. QED
    BY <1>3, <2>1, <2>2, <2>3, Zenon
<1>6. CASE Await(c) \/ AwaitFails(c)
  BY <1>3, <1>6, Zenon DEF Await, AwaitFails, Steps
<1>7. CASE Probe(c) \/ AdmitRouting(c) \/ RevokeRouting(c)
  BY <1>3, <1>7, Zenon DEF Probe, AdmitRouting, RevokeRouting, Steps
<1>8. CASE Stop(c) \/ Terminate(c) \/ TerminateFails(c)
  BY <1>3, <1>8, Zenon DEF Stop, Terminate, TerminateFails, Steps
<1>9. CASE Commit(c) \/ CommitLost(c) \/ CommitFails(c)
  BY <1>3, <1>9, Zenon DEF Commit, CommitLost, CommitFails, Record, Steps
<1>10. QED
  BY <1>1, <1>4, <1>5, <1>6, <1>7, <1>8, <1>9, Zenon

-----------------------------------------------------------------------------
(* The supervisor *)

Child == [revision : Revision, content : Content]

\* A call holds a process while it waits for its socket and while it stops it.
RuntimeType ==
    /\ running \in [Process -> Child \union {Gone}]
    /\ registered \in Process \union {NoProcess}
    /\ active \in BOOLEAN
    /\ disturbed \in BOOLEAN
    /\ stuck \subseteq Process
    /\ target \in [Call -> Process \union {NoProcess}]
    /\ \A c \in Call : pc[c] \in {"await", "terminate"} <=> target[c] # NoProcess

\* What a call launches is a child.
LEMMA LaunchType ==
    ASSUME CallsType, NEW c \in Call, Busy(c)
    PROVE  Launch(c) \in Child
BY Zenon DEF CallsType, Launch, Child, Row, Content

\* Neither success nor failure leads to a step that holds a process.
LEMMA NeverWithProcess ==
    ASSUME CallsType, NEW c \in Call
    PROVE  /\ AfterSuccess(c) \notin {"await", "terminate"}
           /\ AfterFailure(c) \notin {"await", "terminate"}
BY Zenon DEF AfterSuccess, AfterFailure

\* A call that leaves a step without a process to hold lets go of it.
LEMMA TargetStays ==
    ASSUME CallsType, RuntimeType, NEW c \in Call, Succeed(c) \/ Fail(c) \/ Goto(c, AfterFailure(c), TRUE)
    PROVE  /\ pc'[c] \notin {"await", "terminate"}
           /\ \A d \in Call \ {c} : pc'[d] = pc[d]
<1>1. PICK step \in {AfterSuccess(c), AfterFailure(c)} : pc' = [pc EXCEPT ![c] = step]
  BY Zenon DEF Succeed, Fail, Goto
<1>2. QED
  BY <1>1, NeverWithProcess, Zenon DEF CallsType

\* The steps of a call keep the types of the runtime.
LEMMA RuntimeTypeCall ==
    ASSUME RowType, CallsType, RuntimeType, NEW c \in Call, CallStep(c)
    PROVE  RuntimeType'
<1> DEFINE Holds == \A d \in Call : pc[d] \in {"await", "terminate"} <=> target[d] # NoProcess
<1>0. /\ running \in [Process -> Child \union {Gone}]
      /\ registered \in Process \union {NoProcess} /\ active \in BOOLEAN /\ disturbed \in BOOLEAN
      /\ stuck \subseteq Process /\ target \in [Call -> Process \union {NoProcess}] /\ Holds
      /\ pc \in [Call -> Step] /\ failed \in [Call -> BOOLEAN]
  BY Zenon DEF RuntimeType, CallsType
<1> USE DEF CallStep
<1>1. ASSUME Succeed(c) \/ Fail(c) \/ Goto(c, AfterFailure(c), TRUE),
             pc[c] \notin {"await", "terminate"}, UNCHANGED target
      PROVE  Holds'
  BY <1>0, <1>1, TargetStays, Zenon
<1>2. ASSUME Succeed(c) \/ Fail(c), target' = [target EXCEPT ![c] = NoProcess]
      PROVE  Holds'
  BY <1>0, <1>2, TargetStays, Zenon
<1>3. Succeed(c) \/ Fail(c) => disturbed' \in BOOLEAN
  BY <1>0, Zenon DEF Succeed, Fail
<1>4. CASE BeginTest(c) \/ BeginEnable(c) \/ BeginDisable(c)
  <2>1. PICK step \in {"secrets", "revoke"} : pc' = [pc EXCEPT ![c] = step]
    BY <1>4, Zenon DEF BeginTest, BeginEnable, BeginDisable, Get
  <2>2. /\ pc[c] = "idle" /\ UNCHANGED <<target, runtimeVars>>
        /\ disturbed' = (disturbed \/ ~AtRest)
    BY <1>4, Zenon DEF BeginTest, BeginEnable, BeginDisable, Get
  <2>3. Holds'
    BY <1>0, <2>1, <2>2, Zenon
  <2>4. disturbed' \in BOOLEAN
    BY <2>2, Zenon
  <2>5. QED
    BY <1>0, <2>2, <2>3, <2>4, Zenon DEF RuntimeType, runtimeVars
<1>5. CASE ReadSecrets(c) \/ ReadSecretsFails(c)
  <2>1. UNCHANGED <<target, runtimeVars>> /\ pc[c] = "secrets" /\ (Succeed(c) \/ Fail(c))
    BY <1>5, Zenon DEF ReadSecrets, ReadSecretsFails
  <2>2. QED
    BY <1>0, <1>1, <1>3, <2>1, Zenon DEF RuntimeType, runtimeVars
<1>6. CASE Start(c)
  <2>1. pc[c] = "start"
    BY <1>6, Zenon DEF Start
  <2>2. CASE (Succeed(c) \/ Fail(c)) /\ UNCHANGED <<target, runtimeVars>>
    BY <1>0, <1>1, <1>3, <2>1, <2>2, Zenon DEF RuntimeType, runtimeVars
  <2>3. ASSUME NEW p \in Process, running' = [running EXCEPT ![p] = Launch(c)],
               target' = [target EXCEPT ![c] = p], Goto(c, "await", failed[c]),
               UNCHANGED <<registered, active, stuck, disturbed>>
        PROVE  RuntimeType'
    <3>1. running' \in [Process -> Child \union {Gone}]
      BY <1>0, <2>1, <2>3, LaunchType, Zenon DEF Busy
    <3>2. pc' = [pc EXCEPT ![c] = "await"]
      BY <2>3, Zenon DEF Goto
    <3>3. Holds' /\ target' \in [Call -> Process \union {NoProcess}]
      BY <1>0, <2>3, <3>2, ExtensionAssumption, Zenon
    <3>4. QED
      BY <1>0, <2>3, <3>1, <3>3, Zenon DEF RuntimeType
  <2>4. QED
    BY <1>6, <2>2, <2>3, Zenon DEF Start
<1>7. CASE Await(c)
  <2>1. /\ pc[c] = "await" /\ registered' = target[c] /\ Succeed(c)
        /\ target' = [target EXCEPT ![c] = NoProcess]
        /\ UNCHANGED <<running, active, stuck>>
    BY <1>7, Zenon DEF Await
  <2>2. registered' \in Process \union {NoProcess} /\ target' \in [Call -> Process \union {NoProcess}]
    BY <1>0, <2>1, Zenon
  <2>3. QED
    BY <1>0, <1>2, <1>3, <2>1, <2>2, Zenon DEF RuntimeType
<1>8. CASE AwaitFails(c)
  <2>1. /\ pc[c] = "await" /\ Fail(c)
        /\ target' = [target EXCEPT ![c] = NoProcess]
        /\ UNCHANGED <<registered, active>>
    BY <1>8, Zenon DEF AwaitFails
  <2>2. target[c] \in Process /\ target' \in [Call -> Process \union {NoProcess}]
    BY <1>0, <2>1, Zenon
  <2>3. running' \in [Process -> Child \union {Gone}] /\ stuck' \subseteq Process
    BY <1>0, <1>8, <2>2, Zenon DEF AwaitFails
  <2>4. QED
    BY <1>0, <1>2, <1>3, <2>1, <2>2, <2>3, Zenon DEF RuntimeType
<1>9. CASE Probe(c) \/ AdmitRouting(c) \/ RevokeRouting(c)
  <2>1. /\ pc[c] \in {"probe", "admit", "revoke"} /\ (Succeed(c) \/ Fail(c))
        /\ UNCHANGED <<target, running, registered, stuck>>
    BY <1>9, Zenon DEF Probe, AdmitRouting, RevokeRouting, runtimeVars
  <2>2. active' \in BOOLEAN
    BY <1>0, <1>9, Zenon DEF Probe, AdmitRouting, RevokeRouting, runtimeVars
  <2>3. QED
    BY <1>0, <1>1, <1>3, <2>1, <2>2, Zenon DEF RuntimeType
<1>10. CASE Stop(c)
  <2>1. pc[c] = "stop" /\ UNCHANGED runtimeVars
    BY <1>10, Zenon DEF Stop
  <2>2. CASE (Succeed(c) \/ Fail(c)) /\ UNCHANGED target
    BY <1>0, <1>1, <1>3, <2>1, <2>2, Zenon DEF RuntimeType, runtimeVars
  <2>3. CASE /\ registered # NoProcess /\ target' = [target EXCEPT ![c] = registered]
             /\ Goto(c, "terminate", failed[c]) /\ UNCHANGED disturbed
    <3>1. pc' = [pc EXCEPT ![c] = "terminate"]
      BY <2>3, Zenon DEF Goto
    <3>2. Holds' /\ target' \in [Call -> Process \union {NoProcess}]
      BY <1>0, <2>3, <3>1, Zenon
    <3>3. QED
      BY <1>0, <2>1, <2>3, <3>2, Zenon DEF RuntimeType, runtimeVars
  <2>4. QED
    BY <1>10, <2>2, <2>3, Zenon DEF Stop
<1>11. CASE Terminate(c)
  <2>1. /\ pc[c] = "terminate" /\ (Succeed(c) \/ Fail(c))
        /\ running' = [running EXCEPT ![target[c]] = Gone]
        /\ registered' \in {NoProcess, registered}
        /\ target' = [target EXCEPT ![c] = NoProcess]
        /\ UNCHANGED <<active, stuck>>
    BY <1>11, Zenon DEF Terminate
  <2>2. target[c] \in Process /\ target' \in [Call -> Process \union {NoProcess}]
    BY <1>0, <2>1, Zenon
  <2>3. running' \in [Process -> Child \union {Gone}]
    BY <1>0, <2>1, <2>2, Zenon
  <2>4. QED
    BY <1>0, <1>2, <1>3, <2>1, <2>2, <2>3, Zenon DEF RuntimeType
<1>12. CASE TerminateFails(c)
  <2>1. /\ pc[c] = "terminate" /\ Fail(c)
        /\ target' = [target EXCEPT ![c] = NoProcess]
        /\ UNCHANGED runtimeVars
    BY <1>12, Zenon DEF TerminateFails
  <2>2. target' \in [Call -> Process \union {NoProcess}]
    BY <1>0, <2>1, Zenon
  <2>3. QED
    BY <1>0, <1>2, <1>3, <2>1, <2>2, Zenon DEF RuntimeType, runtimeVars
<1>13. CASE Commit(c) \/ CommitLost(c) \/ CommitFails(c)
  <2>1. /\ pc[c] = "commit" /\ (Succeed(c) \/ Fail(c) \/ Goto(c, AfterFailure(c), TRUE))
        /\ UNCHANGED <<target, runtimeVars>>
    BY <1>13, Zenon DEF Commit, CommitLost, CommitFails, Record
  <2>2. disturbed' \in BOOLEAN
    BY <1>3, <1>13, Zenon DEF Commit, CommitLost, CommitFails
  <2>3. QED
    BY <1>0, <1>1, <2>1, <2>2, Zenon DEF RuntimeType, runtimeVars
<1>14. QED
  BY <1>4, <1>5, <1>6, <1>7, <1>8, <1>9, <1>10, <1>11, <1>12, <1>13, Zenon

ExtensionType == RowType /\ CallsType /\ RuntimeType

\* Every step leaves the row, the calls and the supervisor well-formed.
LEMMA ExtensionTypeStep == ExtensionType /\ [Next]_vars => ExtensionType'
<1> SUFFICES ASSUME ExtensionType, [Next]_vars PROVE ExtensionType'
  BY Zenon
<1> USE DEF ExtensionType
<1>1. CallsType'
  BY CallsTypeStep, Zenon
<1>2. ASSUME NEW c \in Call, CallStep(c) PROVE RowType' /\ RuntimeType'
  <2>1. RowType'
    BY <1>2, CallsKeepRow, RecordSteps, Zenon DEF RowType
  <2>2. QED
    BY <1>2, <2>1, RuntimeTypeCall, Zenon
<1>3. CASE Administration
  <2>1. UNCHANGED <<runtimeVars, callVars>> /\ disturbed' = disturbed
    BY <1>3, AdministrationSteps, Zenon DEF Revises, historyVars
  <2>2. RuntimeType'
    BY <2>1, Zenon DEF RuntimeType, runtimeVars, callVars
  <2>3. RowType'
    <3>1. healthy' \in BOOLEAN
      BY <1>3, AdministrationSteps, TRUE, Zenon DEF Revises, historyVars, RowType,
         Administration, Install, PreviewUpdate, PreviewConfigure, PreviewDeleteSecrets,
         PreviewUninstall, PreviewOf, PreviewExpires, ApplyConfigure, ApplyUpdate,
         ApplyDeleteSecrets, ApplyUninstall, Rollback, Revise
    <3>2. previews' \subseteq Preview
      BY <1>3, AdministrationSteps, Zenon DEF Revises, RowType
    <3>3. row' \in Row \union {NoRow}
      BY <1>3, AdministrationSteps, NewRowType, Zenon DEF Revises, Installs, RowType
    <3>4. QED
      BY <3>1, <3>2, <3>3, Zenon DEF RowType
  <2>4. QED
    BY <2>2, <2>3, <1>1, Zenon
<1>4. ASSUME NEW p \in Process, Exit(p) PROVE RowType' /\ RuntimeType'
  <2>1. RowType'
    BY <1>4, Zenon DEF Exit, RowType, dbVars, historyVars
  <2>2. running' \in [Process -> Child \union {Gone}] /\ stuck' \subseteq Process
    BY <1>4, Zenon DEF Exit, RuntimeType
  <2>3. QED
    BY <1>4, <2>1, <2>2, Zenon DEF Exit, RuntimeType, callVars, historyVars
<1>5. CASE Crash
  <2>1. RowType'
    BY <1>5, Zenon DEF Crash, RowType, dbVars
  <2>2. /\ running' = [p \in Process |-> Gone] /\ registered' = NoProcess /\ active' = FALSE
        /\ stuck' = {} /\ pc' = [c \in Call |-> "idle"]
        /\ target' = [c \in Call |-> NoProcess] /\ disturbed' = TRUE
    BY <1>5, Zenon DEF Crash
  <2>3. RuntimeType'
    BY <2>2, Zenon DEF RuntimeType
  <2>4. QED
    BY <2>1, <2>3, <1>1, Zenon
<1>6. CASE UNCHANGED vars
  BY <1>1, <1>6, Zenon DEF vars, dbVars, runtimeVars, callVars, historyVars, RowType, RuntimeType
<1>7. QED
  BY <1>1, <1>2, <1>3, <1>4, <1>5, <1>6, Zenon DEF Next

-----------------------------------------------------------------------------
(* No child process is forgotten *)

\* What a call is about to stop is what is registered, as long as it lives.
StopsTheRegistered ==
    \A c \in Call : pc[c] = "terminate" /\ Live(target[c]) => target[c] = registered

ChildrenInv == ChildrenAreKnown /\ StopsTheRegistered

\* A call forgets a child only when it stopped it or counted it as stuck.
LEMMA ChildrenCall ==
    ASSUME ExtensionType, ChildrenInv, NEW c \in Call, CallStep(c)
    PROVE  ChildrenInv'
<1> DEFINE Known(p) == p = registered \/ p \in stuck \/ \E d \in Call : target[d] = p
<1>0. /\ running \in [Process -> Child \union {Gone}]
      /\ registered \in Process \union {NoProcess}
      /\ target \in [Call -> Process \union {NoProcess}]
      /\ \A d \in Call : pc[d] \in {"await", "terminate"} <=> target[d] # NoProcess
      /\ \A p \in Process : Live(p) => Known(p)
      /\ pc \in [Call -> Step]
  BY Zenon DEF ExtensionType, RuntimeType, CallsType, ChildrenInv, ChildrenAreKnown
<1>1. \A d \in Call : d # c => pc'[d] = pc[d] /\ target'[d] = target[d]
  BY OthersStay, Zenon DEF ExtensionType, RuntimeType
<1> USE DEF CallStep
<1>2. ASSUME UNCHANGED <<running, registered, stuck>>, UNCHANGED target,
             pc'[c] # "terminate"
      PROVE  ChildrenInv'
  BY <1>1, <1>2, Zenon DEF ChildrenInv, ChildrenAreKnown, StopsTheRegistered, Live
<1>3. Succeed(c) \/ Fail(c) \/ Goto(c, AfterFailure(c), TRUE) => pc'[c] \notin {"await", "terminate"}
  BY TargetStays, Zenon DEF ExtensionType
<1>4. CASE BeginTest(c) \/ BeginEnable(c) \/ BeginDisable(c)
  <2>1. PICK step \in {"secrets", "revoke"} : pc' = [pc EXCEPT ![c] = step]
    BY <1>4, Zenon DEF BeginTest, BeginEnable, BeginDisable, Get
  <2>2. UNCHANGED <<target, runtimeVars>>
    BY <1>4, Zenon DEF BeginTest, BeginEnable, BeginDisable, Get
  <2>3. QED
    BY <1>0, <1>2, <2>1, <2>2, Zenon DEF runtimeVars
<1>5. CASE ReadSecrets(c) \/ ReadSecretsFails(c)
  BY <1>2, <1>3, <1>5, Zenon DEF ReadSecrets, ReadSecretsFails, runtimeVars
<1>6. CASE Start(c)
  <2>1. CASE (Succeed(c) \/ Fail(c)) /\ UNCHANGED <<target, runtimeVars>>
    BY <1>2, <1>3, <2>1, Zenon DEF runtimeVars
  <2>2. ASSUME NEW p \in Process, Spare(p), running' = [running EXCEPT ![p] = Launch(c)],
               target' = [target EXCEPT ![c] = p], Goto(c, "await", failed[c]),
               pc[c] = "start", UNCHANGED <<registered, active, stuck, disturbed>>
        PROVE  ChildrenInv'
    <3>1. pc' = [pc EXCEPT ![c] = "await"] /\ target[c] = NoProcess
      BY <1>0, <2>2, Zenon DEF Goto
    <3>2. /\ target'[c] = p /\ pc'[c] = "await"
          /\ \A q \in Process \ {p} : running'[q] = running[q]
      BY <1>0, <2>2, <3>1, Zenon
    <3>3. ASSUME NEW q \in Process, q # p, Live(q)'
          PROVE  q = registered \/ q \in stuck \/ \E d \in Call : target'[d] = q
      <4>1. Live(q)
        BY <3>2, <3>3, Zenon DEF Live
      <4>2. Known(q)
        BY <1>0, <4>1, Zenon
      <4>3. ASSUME NEW d \in Call, target[d] = q PROVE d # c
        BY <3>1, <4>3, ExtensionAssumption, Zenon
      <4>4. QED
        BY <1>1, <4>2, <4>3, Zenon
    <3>4. ChildrenAreKnown'
      BY <2>2, <3>2, <3>3, Zenon DEF ChildrenAreKnown
    <3>5. ASSUME NEW d \in Call, pc'[d] = "terminate", Live(target[d])' PROVE target'[d] = registered
      <4>1. d # c
        BY <3>2, <3>5, Zenon
      <4>2. target'[d] = target[d] /\ pc[d] = "terminate" /\ target[d] # p
        BY <1>1, <2>2, <3>5, <4>1, Zenon DEF Spare
      <4>3. Live(target[d])
        BY <3>2, <3>5, <4>2, Zenon DEF Live
      <4>4. QED
        BY <4>2, <4>3, Zenon DEF ChildrenInv, StopsTheRegistered
    <3>6. QED
      BY <2>2, <3>4, <3>5, Zenon DEF ChildrenInv, StopsTheRegistered, Live
  <2>3. QED
    BY <1>6, <2>1, <2>2, Zenon DEF Start
<1>7. CASE Await(c)
  <2>1. /\ pc[c] = "await" /\ registered = NoProcess /\ registered' = target[c] /\ Succeed(c)
        /\ target' = [target EXCEPT ![c] = NoProcess]
        /\ UNCHANGED <<running, stuck>>
    BY <1>7, Zenon DEF Await
  <2>2. target'[c] = NoProcess /\ pc'[c] \notin {"await", "terminate"}
    BY <1>0, <1>3, <2>1, Zenon
  <2>3. ASSUME NEW q \in Process, Live(q)
        PROVE  q = registered' \/ q \in stuck \/ \E d \in Call : target'[d] = q
    BY <1>0, <1>1, <2>1, <2>3, ExtensionAssumption, Zenon
  <2>4. ASSUME NEW d \in Call, pc'[d] = "terminate", Live(target[d])' PROVE target'[d] = registered'
    <3>1. d # c /\ target'[d] = target[d] /\ pc[d] = "terminate"
      BY <1>1, <2>2, <2>4, Zenon
    <3>2. Live(target[d])
      BY <2>1, <2>4, <3>1, Zenon DEF Live
    <3>3. target[d] = registered
      BY <3>1, <3>2, Zenon DEF ChildrenInv, StopsTheRegistered
    <3>4. QED
      BY <1>0, <2>1, <3>1, <3>3, Zenon
  <2>5. QED
    BY <2>1, <2>3, <2>4, Zenon DEF ChildrenInv, ChildrenAreKnown, StopsTheRegistered, Live
<1>8. CASE AwaitFails(c)
  <2>1. /\ pc[c] = "await" /\ Fail(c)
        /\ target' = [target EXCEPT ![c] = NoProcess] /\ UNCHANGED registered
    BY <1>8, Zenon DEF AwaitFails
  <2>2. /\ target'[c] = NoProcess /\ pc'[c] \notin {"await", "terminate"}
        /\ target[c] \in Process
    BY <1>0, <1>3, <2>1, Zenon
  <2>3. /\ \A q \in Process : Live(q)' => Live(q)
        /\ stuck \subseteq stuck'
        /\ Live(target[c]) => target[c] \in stuck' \/ running'[target[c]] = Gone
    BY <1>0, <1>8, <2>2, Zenon DEF AwaitFails, Live
  <2>4. ASSUME NEW q \in Process, Live(q)'
        PROVE  q = registered' \/ q \in stuck' \/ \E d \in Call : target'[d] = q
    <3>1. Live(q) /\ Known(q)
      BY <1>0, <2>3, <2>4, Zenon
    <3>2. CASE q = target[c]
      BY <2>3, <2>4, <3>1, <3>2, Zenon DEF Live
    <3>3. CASE q # target[c]
      BY <1>1, <2>1, <2>3, <3>1, <3>3, Zenon
    <3>4. QED
      BY <3>2, <3>3, Zenon
  <2>5. ASSUME NEW d \in Call, pc'[d] = "terminate", Live(target[d])' PROVE target'[d] = registered'
    <3>1. d # c /\ target'[d] = target[d] /\ pc[d] = "terminate"
      BY <1>1, <2>2, <2>5, Zenon
    <3>2. target[d] \in Process /\ Live(target[d])
      BY <1>0, <2>3, <2>5, <3>1, Zenon DEF Live
    <3>3. QED
      BY <2>1, <3>1, <3>2, Zenon DEF ChildrenInv, StopsTheRegistered
  <2>6. QED
    BY <2>4, <2>5, Zenon DEF ChildrenInv, ChildrenAreKnown, StopsTheRegistered
<1>9. CASE Probe(c) \/ AdmitRouting(c) \/ RevokeRouting(c)
  BY <1>2, <1>3, <1>9, Zenon DEF Probe, AdmitRouting, RevokeRouting, runtimeVars
<1>10. CASE Stop(c)
  <2>1. CASE (Succeed(c) \/ Fail(c)) /\ UNCHANGED <<target, runtimeVars>>
    BY <1>2, <1>3, <2>1, Zenon DEF runtimeVars
  <2>2. CASE /\ pc[c] = "stop" /\ registered # NoProcess
             /\ target' = [target EXCEPT ![c] = registered]
             /\ Goto(c, "terminate", failed[c]) /\ UNCHANGED runtimeVars
    <3>1. target[c] = NoProcess /\ target'[c] = registered
      BY <1>0, <2>2, Zenon
    <3>2. ASSUME NEW q \in Process, Live(q)'
          PROVE  q = registered \/ q \in stuck \/ \E d \in Call : target'[d] = q
      <4>1. Known(q)
        BY <1>0, <2>2, <3>2, Zenon DEF runtimeVars, Live
      <4>2. ASSUME NEW d \in Call, target[d] = q PROVE d # c
        BY <3>1, <4>2, ExtensionAssumption, Zenon
      <4>3. QED
        BY <1>1, <4>1, <4>2, Zenon
    <3>3. StopsTheRegistered'
      BY <1>1, <2>2, <3>1, Zenon DEF ChildrenInv, StopsTheRegistered, runtimeVars, Live
    <3>4. QED
      BY <2>2, <3>2, <3>3, Zenon DEF ChildrenInv, ChildrenAreKnown, runtimeVars
  <2>3. QED
    BY <1>10, <2>1, <2>2, Zenon DEF Stop
<1>11. CASE Terminate(c)
  <2>1. /\ pc[c] = "terminate" /\ (Succeed(c) \/ Fail(c))
        /\ running' = [running EXCEPT ![target[c]] = Gone]
        /\ registered' = IF registered = target[c] THEN NoProcess ELSE registered
        /\ target' = [target EXCEPT ![c] = NoProcess]
        /\ UNCHANGED stuck
    BY <1>11, Zenon DEF Terminate
  <2>2. /\ target'[c] = NoProcess /\ pc'[c] \notin {"await", "terminate"}
        /\ target[c] \in Process
        /\ running'[target[c]] = Gone
        /\ \A q \in Process \ {target[c]} : running'[q] = running[q]
    BY <1>0, <1>3, <2>1, Zenon
  <2>3. ASSUME NEW q \in Process, Live(q)'
        PROVE  q = registered' \/ q \in stuck' \/ \E d \in Call : target'[d] = q
    <3>1. q # target[c] /\ Live(q)
      BY <2>2, <2>3, Zenon DEF Live
    <3>2. QED
      BY <1>0, <1>1, <2>1, <3>1, Zenon
  <2>4. ASSUME NEW d \in Call, pc'[d] = "terminate", Live(target[d])' PROVE target'[d] = registered'
    <3>1. d # c /\ target'[d] = target[d] /\ pc[d] = "terminate"
      BY <1>1, <2>2, <2>4, Zenon
    <3>2. target[d] # target[c] /\ Live(target[d])
      BY <1>0, <2>2, <2>4, <3>1 DEF Live
    <3>3. QED
      BY <2>1, <3>1, <3>2, Zenon DEF ChildrenInv, StopsTheRegistered
  <2>5. QED
    BY <2>3, <2>4, Zenon DEF ChildrenInv, ChildrenAreKnown, StopsTheRegistered
<1>12. CASE TerminateFails(c)
  <2>1. /\ pc[c] = "terminate" /\ Live(target[c]) /\ Fail(c)
        /\ target' = [target EXCEPT ![c] = NoProcess]
        /\ UNCHANGED runtimeVars
    BY <1>12, Zenon DEF TerminateFails
  <2>2. target[c] = registered
    BY <2>1, Zenon DEF ChildrenInv, StopsTheRegistered
  <2>3. pc'[c] \notin {"await", "terminate"}
    BY <1>3, <2>1, Zenon
  <2>4. ChildrenAreKnown'
    BY <1>0, <1>1, <2>1, <2>2, Zenon DEF ChildrenAreKnown, runtimeVars, Live
  <2>5. StopsTheRegistered'
    BY <1>1, <2>1, <2>3, Zenon DEF ChildrenInv, StopsTheRegistered, runtimeVars, Live
  <2>6. QED
    BY <2>4, <2>5, Zenon DEF ChildrenInv
<1>13. CASE Commit(c) \/ CommitLost(c) \/ CommitFails(c)
  BY <1>2, <1>3, <1>13, Zenon DEF Commit, CommitLost, CommitFails, runtimeVars
<1>14. QED
  BY <1>4, <1>5, <1>6, <1>7, <1>8, <1>9, <1>10, <1>11, <1>12, <1>13, Zenon

\* Every step keeps track of the children.
LEMMA ChildrenStep == ExtensionType /\ ChildrenInv /\ [Next]_vars => ChildrenInv'
<1> SUFFICES ASSUME ExtensionType, ChildrenInv, [Next]_vars PROVE ChildrenInv'
  OBVIOUS
<1>1. ASSUME UNCHANGED <<runtimeVars, callVars>> PROVE ChildrenInv'
  BY <1>1, Zenon DEF runtimeVars, callVars, ChildrenInv, ChildrenAreKnown, StopsTheRegistered, Live
<1>2. CASE Administration
  <2>1. UNCHANGED <<runtimeVars, callVars>>
    BY <1>2, AdministrationSteps, Zenon DEF ExtensionType, Revises
  <2>2. QED
    BY <1>1, <2>1, Zenon
<1>3. ASSUME NEW p \in Process, Exit(p) PROVE ChildrenInv'
  <2>1. /\ \A q \in Process : Live(q)' => q # p /\ Live(q)
        /\ UNCHANGED <<registered, callVars>> /\ stuck' = stuck \ {p}
    BY <1>3, Zenon DEF Exit, Live, ExtensionType, RuntimeType
  <2>2. ChildrenAreKnown'
    BY <2>1, Zenon DEF ChildrenInv, ChildrenAreKnown, callVars
  <2>3. StopsTheRegistered'
    BY <2>1, Zenon DEF ChildrenInv, StopsTheRegistered, callVars, Live
  <2>4. QED
    BY <2>2, <2>3, Zenon DEF ChildrenInv
<1>4. CASE Crash
  <2>1. running' = [p \in Process |-> Gone] /\ pc' = [c \in Call |-> "idle"]
    BY <1>4, Zenon DEF Crash
  <2>2. QED
    BY <2>1, Zenon DEF ChildrenInv, ChildrenAreKnown, StopsTheRegistered, Live
<1>5. CASE UNCHANGED vars
  BY <1>1, <1>5, Zenon DEF vars
<1>6. QED
  BY <1>2, <1>3, <1>4, <1>5, ChildrenCall, Zenon DEF Next

-----------------------------------------------------------------------------
(* A revision stands for one content *)

\* The instance exists or has existed.
Begun == Present \/ removed

\* What was read, started or shown as a revision is not ahead of the row, and
\* is its content when the row still has that revision.
Exact(r, content) ==
    Present => r =< row.revision /\ (r = row.revision => content = row.content)

ExactAfter(r, content) ==
    Present' => r =< row'.revision /\ (r = row'.revision => content = row'.content)

HealthyAt(r) == Present /\ r = row.revision => healthy

HealthyAfter(r) == Present' /\ r = row'.revision => healthy'

\* An instance that was removed has neither a row nor previews, and before it
\* is installed nothing runs.
LifeOfTheRow ==
    /\ removed \in BOOLEAN
    /\ removed => ~Present
    /\ ~Present => previews = {}
    /\ ~Begun => /\ \A c \in Call : ~Busy(c)
                 /\ \A p \in Process : running[p] = Gone

\* The copies of a revision: in previews, calls and processes.
CopiesAreExact ==
    /\ \A p \in previews : Exact(p.base, p.shown)
    /\ \A c \in Call : Busy(c) => Exact(seen[c].revision, seen[c].content)
    /\ \A c \in Call : pc[c] = "start" => Exact(Launch(c).revision, Launch(c).content)
    /\ \A p \in Process : running[p] # Gone => Exact(running[p].revision, running[p].content)

\* What the checks and the probe of a call have established.
ChecksHold ==
    \A c \in Call :
        /\ op[c] = "test" /\ pc[c] \in {"stop", "terminate", "commit"} /\ ~failed[c]
              => HealthyAt(seen[c].revision)
        /\ op[c] \in {"test", "enable"} => seen[c].content.secret # NoSecret
        /\ op[c] = "enable" /\ pc[c] \in {"await", "probe", "admit", "commit"}
              => Valid(seen[c].content)

RevisionInv == LifeOfTheRow /\ CopiesAreExact /\ ChecksHold /\ EnabledWasTested /\ EnabledIsComplete

\* No step makes an old copy of a revision wrong.
LEMMA ExactStays ==
    ASSUME ExtensionType, LifeOfTheRow, [Next]_vars, Begun
    PROVE  /\ Begun'
           /\ \A r \in Revision : \A k : Exact(r, k) => ExactAfter(r, k)
           /\ \A r \in Revision : \A k : Exact(r, k) /\ HealthyAt(r) => HealthyAfter(r)
<1>1. CASE UNCHANGED <<row, removed>> /\ (healthy => healthy')
  BY <1>1, Zenon DEF Begun, Exact, ExactAfter, HealthyAt, HealthyAfter, Present
<1>2. CASE Revises
  <2>1. /\ row \in Row /\ row' \in Row /\ row'.revision = row.revision + 1
        /\ row.revision \in Nat /\ Present /\ Present'
    BY <1>2, AbsenceAssumption, ExtensionAssumption
       DEF Revises, Configurable, Present, ExtensionType, RowType, Row, Revision
  <2>2. QED
    BY <2>1, ExtensionAssumption DEF Begun, Exact, ExactAfter, HealthyAt, HealthyAfter, Revision
<1>3. CASE row' = NoRow /\ removed'
  BY <1>3, Zenon DEF Begun, ExactAfter, HealthyAfter, Present
<1>4. ASSUME NEW c \in Call, CallStep(c), Record(c) PROVE
           /\ Begun'
           /\ \A r \in Revision : \A k : Exact(r, k) => ExactAfter(r, k)
           /\ \A r \in Revision : \A k : Exact(r, k) /\ HealthyAt(r) => HealthyAfter(r)
  BY <1>4, RecordSteps, CallsKeepRow, AbsenceAssumption, Zenon
     DEF Begun, Exact, ExactAfter, HealthyAt, HealthyAfter, Present, ExtensionType
<1>5. CASE Administration
  <2>1. ~Installs
    BY Zenon DEF Installs, Begun
  <2>2. QED
    BY <1>1, <1>2, <1>3, <1>5, <2>1, AdministrationSteps, Zenon DEF ExtensionType, historyVars
<1>6. CASE \E c \in Call : CallStep(c)
  BY <1>1, <1>4, <1>6, CallsKeepRow, Zenon DEF ExtensionType
<1>7. CASE Crash \/ (\E p \in Process : Exit(p)) \/ UNCHANGED vars
  BY <1>1, <1>7 DEF Crash, Exit, vars, dbVars, historyVars
<1>8. QED
  BY <1>5, <1>6, <1>7, Zenon DEF Next

\* Every step keeps the course of the row's life: nothing refers to a row that never was.
LEMMA LifeOfTheRowStep ==
    ASSUME ExtensionType, LifeOfTheRow, [Next]_vars
    PROVE  LifeOfTheRow'
<1>1. ASSUME UNCHANGED <<row, removed, previews>>,
             \A c \in Call : Busy(c)' => Busy(c) \/ Present,
             \A p \in Process : running'[p] # Gone => running[p] # Gone \/ Begun
      PROVE  LifeOfTheRow'
  BY <1>1, Zenon DEF LifeOfTheRow, Begun, Present, Busy
<1>2. CASE Administration
  <2>1. CASE Installs /\ UNCHANGED <<previews, removed, runtimeVars, callVars, historyVars>>
    BY <2>1, NewRowType, AbsenceAssumption, Zenon DEF LifeOfTheRow, Installs, Begun, Present
  <2>2. CASE /\ previews' \subseteq previews \union
                   {p \in Preview : Present /\ p.base = row.revision /\ p.shown = row.content}
             /\ UNCHANGED <<row, removed, runtimeVars, callVars, historyVars>>
    <3>1. ~Present => previews' \subseteq previews
      BY <2>2, Zenon
    <3>2. QED
      BY <2>2, <3>1, Zenon DEF LifeOfTheRow, Begun, Present, Busy, runtimeVars, callVars
  <2>3. CASE Revises
    <3>1. Present /\ Present' /\ UNCHANGED removed
      BY <2>3, AbsenceAssumption, Zenon DEF Revises, Configurable, Present
    <3>2. QED
      BY <3>1, Zenon DEF LifeOfTheRow, Begun
  <2>4. CASE row' = NoRow /\ previews' = {} /\ removed' = TRUE
    BY <2>4, Zenon DEF LifeOfTheRow, Begun, Present
  <2>5. QED
    BY <1>2, <2>1, <2>2, <2>3, <2>4, AdministrationSteps, Zenon DEF ExtensionType
<1>3. ASSUME NEW c \in Call, CallStep(c) PROVE LifeOfTheRow'
  <2>1. Begun
    <3>1. Busy(c) \/ Present
      BY <1>3, CallStepSteps, Zenon DEF ExtensionType, Get
    <3>2. QED
      BY <3>1, Zenon DEF LifeOfTheRow, Begun
  <2>2. Begun'
    BY <2>1, <1>3, ExactStays, Zenon
  <2>3. UNCHANGED <<previews, removed>> /\ (UNCHANGED row \/ (Present /\ Present'))
    BY <1>3, CallsKeepRow, RecordSteps, AbsenceAssumption, Zenon DEF ExtensionType, Present
  <2>4. QED
    BY <2>2, <2>3, Zenon DEF LifeOfTheRow, Present
<1>4. ASSUME NEW p \in Process, Exit(p) PROVE LifeOfTheRow'
  <2>1. \A q \in Process : running'[q] # Gone => running[q] # Gone
    BY <1>4, Zenon DEF Exit, ExtensionType, RuntimeType
  <2>2. QED
    BY <1>1, <1>4, <2>1, Zenon DEF Exit, dbVars, callVars, Busy
<1>5. CASE Crash
  BY <1>1, <1>5, Zenon DEF Crash, dbVars, Busy
<1>6. CASE UNCHANGED vars
  BY <1>1, <1>6, Zenon DEF vars, dbVars, callVars, runtimeVars, Busy
<1>7. QED
  BY <1>2, <1>3, <1>4, <1>5, <1>6, Zenon DEF Next

\* How the step of a call moves it: it ends, leads on, or begins to undo.
LEMMA StepsMove ==
    ASSUME CallsType, NEW c \in Call, Busy(c), Steps(c)
    PROVE  \/ pc'[c] = "idle" /\ op'[c] = "none" /\ seen'[c] = NoRow /\ ~failed'[c]
           \/ /\ pc'[c] # "idle" /\ op'[c] = op[c] /\ seen'[c] = seen[c]
              /\ \/ pc'[c] = AfterSuccess(c) /\ failed'[c] = failed[c]
                 \/ pc'[c] = AfterFailure(c) /\ ~failed[c] /\ failed'[c] = TRUE
                 \/ pc[c] = "start" /\ pc'[c] = "await" /\ failed'[c] = failed[c]
                 \/ pc[c] = "stop" /\ pc'[c] = "terminate" /\ failed'[c] = failed[c]
<1>0. failed[c] \in BOOLEAN
  BY Zenon DEF CallsType
<1>1. CASE Succeed(c)
  <2> DEFINE step == AfterSuccess(c)
  <2> DEFINE undoing == failed[c]
  <2>1. Goto(c, step, undoing) /\ undoing \in BOOLEAN /\ step \in Step
    BY <1>0, <1>1, SuccessCourse, Zenon DEF Succeed
  <2> HIDE DEF step, undoing
  <2>2. Moved(c, step, undoing)
    BY <2>1, GotoMoves, Zenon
  <2>3. CASE step = "idle"
    BY <2>2, <2>3, Zenon DEF Moved
  <2>4. CASE step # "idle"
    <3>1. pc'[c] = step /\ failed'[c] = undoing /\ op'[c] = op[c] /\ seen'[c] = seen[c]
      BY <2>1, <2>2, <2>4, Zenon DEF Moved
    <3>2. QED
      BY <2>4, <3>1, Zenon DEF step, undoing
  <2>5. QED
    BY <2>3, <2>4, Zenon
<1>2. CASE pc[c] # "revoke" /\ (Fail(c) \/ Goto(c, AfterFailure(c), TRUE))
  <2> DEFINE step == AfterFailure(c)
  <2> DEFINE undoing == TRUE
  <2>1. Goto(c, step, undoing) /\ step \in Step /\ (step # "idle" => ~failed[c])
    BY <1>2, FailureCourse, Zenon DEF Fail
  <2>2. undoing \in BOOLEAN /\ undoing
    BY Zenon
  <2> HIDE DEF step, undoing
  <2>3. Moved(c, step, undoing)
    BY <2>1, <2>2, GotoMoves, Zenon
  <2>4. CASE step = "idle"
    BY <2>3, <2>4, Zenon DEF Moved
  <2>5. CASE step # "idle"
    <3>1. pc'[c] = step /\ failed'[c] = TRUE /\ op'[c] = op[c] /\ seen'[c] = seen[c]
      BY <2>2, <2>3, <2>5, Zenon DEF Moved
    <3>2. QED
      BY <2>1, <2>5, <3>1, Zenon DEF step
  <2>6. QED
    BY <2>4, <2>5, Zenon
<1>3. ASSUME NEW step \in {"await", "terminate"}, Goto(c, step, failed[c])
      PROVE  /\ pc'[c] = step /\ failed'[c] = failed[c]
             /\ op'[c] = op[c] /\ seen'[c] = seen[c]
  <2> DEFINE undoing == failed[c]
  <2>1. undoing \in BOOLEAN /\ step \in Step /\ step # "idle" /\ Goto(c, step, undoing)
    BY <1>0, <1>3, Zenon DEF Step
  <2> HIDE DEF undoing
  <2>2. Moved(c, step, undoing)
    BY <2>1, GotoMoves, Zenon
  <2>3. failed'[c] = undoing
    BY <2>1, <2>2, Zenon DEF Moved
  <2>4. QED
    BY <2>1, <2>2, <2>3, Zenon DEF Moved, undoing
<1>4. QED
  BY <1>1, <1>2, <1>3, Zenon DEF Steps

\* What a call has read it keeps until it ends; a new call reads the row.
LEMMA SeenStays ==
    ASSUME ExtensionType, [Next]_vars, NEW d \in Call, Busy(d)'
    PROVE  \/ Busy(d) /\ seen'[d] = seen[d] /\ op'[d] = op[d]
           \/ /\ ~Busy(d) /\ Present /\ seen'[d] = row /\ UNCHANGED row
              /\ BeginTest(d) \/ BeginEnable(d) \/ BeginDisable(d)
<1>1. CASE UNCHANGED callVars
  BY <1>1, Zenon DEF callVars, Busy
<1>2. ASSUME NEW c \in Call, CallStep(c), c # d
      PROVE  Busy(d) /\ seen'[d] = seen[d] /\ op'[d] = op[d]
  BY <1>2, OthersStay, Zenon DEF ExtensionType, RuntimeType, Busy
<1>3. CASE CallStep(d) /\ Busy(d)
  BY <1>3, CallStepSteps, StepsMove, Zenon DEF ExtensionType, Get, Busy
<1>4. CASE CallStep(d) /\ ~Busy(d)
  <2>1. BeginTest(d) \/ BeginEnable(d) \/ BeginDisable(d)
    BY <1>4, Zenon DEF CallStep, Busy, ReadSecrets,
       ReadSecretsFails, Start, Await, AwaitFails, Probe, AdmitRouting, RevokeRouting, Stop,
       Terminate, TerminateFails, Commit, CommitLost, CommitFails, Record
  <2>2. /\ seen' = [seen EXCEPT ![d] = row] /\ UNCHANGED row /\ Present
    BY <2>1, Zenon DEF BeginTest, BeginEnable, BeginDisable, Get, dbVars
  <2>3. QED
    BY <1>4, <2>1, <2>2, Zenon DEF ExtensionType, CallsType
<1>5. CASE Crash
  BY <1>5, Zenon DEF Crash, Busy
<1>6. CASE Administration \/ (\E p \in Process : Exit(p)) \/ UNCHANGED vars
  BY <1>1, <1>6, AdministrationSteps, Zenon DEF ExtensionType, Revises, Exit, vars
<1>7. QED
  BY <1>2, <1>3, <1>4, <1>5, <1>6, Zenon DEF Next

\* A call that is about to start a process has read the secret of the row.
LEMMA LaunchStays ==
    ASSUME ExtensionType, [Next]_vars, NEW d \in Call, pc'[d] = "start"
    PROVE  \/ pc[d] = "start" /\ seen'[d] = seen[d] /\ held'[d] = held[d]
           \/ ReadSecrets(d) /\ Busy(d) /\ seen'[d] = seen[d]
<1>1. CASE UNCHANGED callVars
  BY <1>1, Zenon DEF callVars
<1>2. ASSUME NEW c \in Call, CallStep(c), c # d
      PROVE  pc[d] = "start" /\ seen'[d] = seen[d] /\ held'[d] = held[d]
  BY <1>2, OthersStay, Zenon DEF ExtensionType, RuntimeType
<1>3. CASE CallStep(d)
  <2>1. CASE Busy(d)
    <3>1. Busy(d) /\ Steps(d)
      BY <1>3, <2>1, CallStepSteps, Zenon DEF ExtensionType, Get, Busy
    <3>2. pc[d] = "secrets" /\ pc'[d] = AfterSuccess(d) /\ seen'[d] = seen[d]
      BY <3>1, StepsMove, Zenon DEF ExtensionType, AfterSuccess, AfterFailure
    <3>3. ReadSecrets(d) \/ ReadSecretsFails(d)
      BY <1>3, <3>2, Zenon DEF CallStep, BeginTest, BeginEnable, BeginDisable, Get,
         Start, Await, AwaitFails, Probe, AdmitRouting, RevokeRouting, Stop,
         Terminate, TerminateFails, Commit, CommitLost, CommitFails, Record
    <3>4. ~ReadSecretsFails(d)
      <4>1. SUFFICES ASSUME Goto(d, AfterFailure(d), TRUE) PROVE FALSE
        BY Zenon DEF ReadSecretsFails, Fail
      <4>2. pc'[d] = AfterFailure(d)
        BY <4>1, Zenon DEF Goto, ExtensionType, CallsType
      <4>3. QED
        BY <4>2, <3>2, Zenon DEF AfterFailure
    <3>5. QED
      BY <2>1, <3>2, <3>3, <3>4, Zenon
  <2>2. CASE ~Busy(d)
    <3>1. BeginTest(d) \/ BeginEnable(d) \/ BeginDisable(d)
      BY <1>3, <2>2, Zenon DEF CallStep, Busy, ReadSecrets,
         ReadSecretsFails, Start, Await, AwaitFails, Probe, AdmitRouting, RevokeRouting, Stop,
         Terminate, TerminateFails, Commit, CommitLost, CommitFails, Record
    <3>2. PICK step \in {"secrets", "revoke"} : pc' = [pc EXCEPT ![d] = step]
      BY <3>1, Zenon DEF BeginTest, BeginEnable, BeginDisable, Get
    <3>3. QED
      BY <3>2, Zenon DEF ExtensionType, CallsType
  <2>3. QED
    BY <2>1, <2>2, Zenon
<1>4. CASE Crash
  BY <1>4, Zenon DEF Crash
<1>5. CASE Administration \/ (\E p \in Process : Exit(p)) \/ UNCHANGED vars
  BY <1>1, <1>5, AdministrationSteps, Zenon DEF ExtensionType, Revises, Exit, vars
<1>6. QED
  BY <1>2, <1>3, <1>4, <1>5, Zenon DEF Next

\* A process runs with what the call that started it had read.
LEMMA RunningStays ==
    ASSUME ExtensionType, [Next]_vars, NEW p \in Process, running'[p] # Gone
    PROVE  \/ running'[p] = running[p] /\ running[p] # Gone
           \/ \E c \in Call : /\ pc[c] = "start" /\ running'[p] = Launch(c) /\ UNCHANGED row
                              /\ Spare(p) /\ target'[c] = p
<1>0. /\ running \in [Process -> Child \union {Gone}]
      /\ target \in [Call -> Process \union {NoProcess}]
      /\ \A d \in Call : pc[d] \in {"await", "terminate"} <=> target[d] # NoProcess
  BY Zenon DEF ExtensionType, RuntimeType
<1>1. CASE UNCHANGED running
  BY <1>1, Zenon
<1>2. ASSUME NEW c \in Call, Start(c)
      PROVE  \/ running'[p] = running[p]
             \/ /\ pc[c] = "start" /\ running'[p] = Launch(c) /\ UNCHANGED row
                /\ Spare(p) /\ target'[c] = p
  <2>1. pc[c] = "start" /\ UNCHANGED row
    BY <1>2, Zenon DEF Start, dbVars
  <2>2. CASE UNCHANGED running
    BY <2>2, Zenon
  <2>3. ASSUME NEW q \in Process, Spare(q), running' = [running EXCEPT ![q] = Launch(c)],
               target' = [target EXCEPT ![c] = q]
        PROVE  \/ running'[p] = running[p]
               \/ running'[p] = Launch(c) /\ Spare(p) /\ target'[c] = p
    BY <1>0, <2>3, Zenon
  <2>4. QED
    BY <1>2, <2>1, <2>2, <2>3, Zenon DEF Start, runtimeVars
<1>3. ASSUME NEW c \in Call, AwaitFails(c) \/ Terminate(c) PROVE running'[p] = running[p]
  BY <1>0, <1>3, Zenon DEF AwaitFails, Terminate
<1>4. ASSUME NEW c \in Call, CallStep(c), ~Start(c), ~AwaitFails(c), ~Terminate(c)
      PROVE  UNCHANGED running
  BY <1>4, Zenon DEF CallStep, BeginTest, BeginEnable, BeginDisable, Get, ReadSecrets, ReadSecretsFails,
     Await, Probe, AdmitRouting, RevokeRouting, Stop, TerminateFails, Commit, CommitLost,
     CommitFails, runtimeVars
<1>5. CASE \E c \in Call : CallStep(c)
  BY <1>1, <1>2, <1>3, <1>4, <1>5, Zenon
<1>6. CASE Crash \/ \E q \in Process : Exit(q)
  BY <1>0, <1>6 DEF Crash, Exit
<1>7. CASE Administration \/ UNCHANGED vars
  BY <1>1, <1>7, AdministrationSteps, Zenon DEF ExtensionType, Revises, vars, runtimeVars
<1>8. QED
  BY <1>5, <1>6, <1>7, Zenon DEF Next

\* Every step keeps the copies of a revision exact.
LEMMA CopiesAreExactStep ==
    ASSUME ExtensionType, LifeOfTheRow, CopiesAreExact, [Next]_vars
    PROVE  CopiesAreExact'
<1>0. ExtensionType'
  BY ExtensionTypeStep, Zenon
<1>1. ASSUME NEW p \in previews' PROVE Exact(p.base, p.shown)'
  <2>1. CASE p \in previews
    <3>1. Begun /\ p.base \in Revision /\ Exact(p.base, p.shown)
      BY <2>1, Zenon DEF LifeOfTheRow, Begun, CopiesAreExact, ExtensionType, RowType, Preview
    <3>2. ExactAfter(p.base, p.shown)
      BY <3>1, ExactStays, Zenon
    <3>3. QED
      BY <3>2, Zenon DEF ExactAfter, Exact
  <2>2. CASE p \notin previews
    <3>1. CASE Administration
      <4>1. /\ Present /\ p.base = row.revision /\ p.shown = row.content /\ UNCHANGED row
            /\ row \in Row
        BY <1>1, <2>2, <3>1, AdministrationSteps, Zenon DEF ExtensionType, Revises, RowType, Present
      <4>2. row.revision =< row.revision
        BY <4>1 DEF Row, Revision
      <4>3. QED
        BY <4>1, <4>2, Zenon DEF Exact
    <3>2. CASE \E c \in Call : CallStep(c)
      BY <1>1, <2>2, <3>2, CallsKeepRow, Zenon DEF ExtensionType
    <3>3. CASE Crash \/ (\E q \in Process : Exit(q)) \/ UNCHANGED vars
      BY <1>1, <2>2, <3>3, Zenon DEF Crash, Exit, vars, dbVars
    <3>4. QED
      BY <3>1, <3>2, <3>3, Zenon DEF Next
  <2>3. QED
    BY <2>1, <2>2, Zenon
<1>2. ASSUME NEW d \in Call, Busy(d)' PROVE Exact(seen[d].revision, seen[d].content)'
  <2>1. CASE Busy(d) /\ seen'[d] = seen[d]
    <3>1. Begun /\ seen[d].revision \in Revision /\ Exact(seen[d].revision, seen[d].content)
      BY <2>1, Zenon DEF LifeOfTheRow, Begun, CopiesAreExact, ExtensionType, CallsType, Row
    <3>2. ExactAfter(seen[d].revision, seen[d].content)
      BY <3>1, ExactStays, Zenon
    <3>3. QED
      BY <2>1, <3>2, Zenon DEF ExactAfter, Exact
  <2>2. CASE Present /\ seen'[d] = row /\ UNCHANGED row
    <3>1. row.revision =< row.revision
      BY <2>2 DEF ExtensionType, RowType, Present, Row, Revision
    <3>2. QED
      BY <2>2, <3>1, Zenon DEF Exact
  <2>3. QED
    BY <1>2, <2>1, <2>2, SeenStays, Zenon
<1>3. ASSUME NEW d \in Call, pc'[d] = "start"
      PROVE  Exact(Launch(d).revision, Launch(d).content)'
  <2>1. CASE pc[d] = "start" /\ seen'[d] = seen[d] /\ held'[d] = held[d]
    <3>1. /\ Begun /\ Launch(d).revision \in Revision
          /\ Exact(Launch(d).revision, Launch(d).content)
      BY <2>1, LaunchType, Zenon DEF LifeOfTheRow, Busy, CopiesAreExact, ExtensionType, Child
    <3>2. ExactAfter(Launch(d).revision, Launch(d).content)
      BY <3>1, ExactStays, Zenon
    <3>3. Launch(d)' = Launch(d)
      BY <2>1, Zenon DEF Launch
    <3>4. QED
      BY <3>2, <3>3, Zenon DEF ExactAfter, Exact
  <2>2. CASE ReadSecrets(d) /\ Busy(d) /\ seen'[d] = seen[d]
    <3>1. /\ UNCHANGED row
          /\ held' = [held EXCEPT ![d] = IF Present THEN row.content.secret ELSE NoSecret]
      BY <2>2, Zenon DEF ReadSecrets, dbVars
    <3>2. CASE Present
      <4>1. held'[d] = row.content.secret
        BY <3>1, <3>2, Zenon DEF ExtensionType, CallsType
      <4>2. /\ seen[d] \in Row /\ row \in Row
            /\ Exact(seen[d].revision, seen[d].content)
        BY <2>2, <3>2, Zenon DEF CopiesAreExact, ExtensionType, CallsType, RowType, Present
      <4>3. /\ Launch(d)'.revision = seen[d].revision
            /\ Launch(d)'.content = [seen[d].content EXCEPT !.secret = row.content.secret]
        BY <2>2, <4>1, Zenon DEF Launch
      <4>4. seen[d].content = row.content
              => [seen[d].content EXCEPT !.secret = row.content.secret] = row.content
        BY <4>2, Zenon DEF Row, Content
      <4>5. QED
        BY <3>1, <3>2, <4>2, <4>3, <4>4, Zenon DEF Exact
    <3>3. CASE ~Present
      BY <3>1, <3>3, Zenon DEF Exact, Present
    <3>4. QED
      BY <3>2, <3>3, Zenon
  <2>3. QED
    BY <1>3, <2>1, <2>2, LaunchStays, Zenon
<1>4. ASSUME NEW p \in Process, running'[p] # Gone
      PROVE  Exact(running[p].revision, running[p].content)'
  <2>1. CASE running'[p] = running[p] /\ running[p] # Gone
    <3>1. /\ Begun /\ running[p].revision \in Revision
          /\ Exact(running[p].revision, running[p].content)
      BY <2>1, Zenon DEF LifeOfTheRow, CopiesAreExact, ExtensionType, RuntimeType, Child
    <3>2. ExactAfter(running[p].revision, running[p].content)
      BY <3>1, ExactStays, Zenon
    <3>3. QED
      BY <2>1, <3>2, Zenon DEF ExactAfter, Exact
  <2>2. ASSUME NEW c \in Call, pc[c] = "start", running'[p] = Launch(c), UNCHANGED row
        PROVE  Exact(running[p].revision, running[p].content)'
    BY <2>2, Zenon DEF CopiesAreExact, Exact, Present
  <2>3. QED
    BY <1>4, <2>1, <2>2, RunningStays, Zenon
<1>5. QED
  BY <1>1, <1>2, <1>3, <1>4, Zenon DEF CopiesAreExact

\* A process that a call means runs the content of the row, if the row still
\* has the revision the call has read.
LEMMA ProbedIsTheRow ==
    ASSUME ExtensionType, CopiesAreExact, NEW c \in Call, Matches(c), Present,
           seen[c].revision = row.revision
    PROVE  running[registered].content = row.content
BY Zenon DEF Matches, Live, CopiesAreExact, Exact

\* What a call has checked and probed stays true of the content it has seen.
LEMMA ChecksHoldStep ==
    ASSUME ExtensionType, LifeOfTheRow, CopiesAreExact, ChecksHold, [Next]_vars
    PROVE  ChecksHold'
<1> SUFFICES ASSUME NEW d \in Call
             PROVE  /\ /\ op'[d] = "test" /\ pc'[d] \in {"stop", "terminate", "commit"}
                       /\ ~failed'[d]
                       => HealthyAt(seen[d].revision)'
                    /\ op'[d] \in {"test", "enable"} => seen'[d].content.secret # NoSecret
                    /\ op'[d] = "enable" /\ pc'[d] \in {"await", "probe", "admit", "commit"}
                       => Valid(seen'[d].content)
  BY Zenon DEF ChecksHold, Valid
<1>0. ExtensionType'
  BY ExtensionTypeStep, Zenon
<1>1. CASE ~Busy(d)'
  <2>1. op'[d] = "none"
    BY <1>0, <1>1, Zenon DEF ExtensionType, CallsType, Course, Busy
  <2>2. QED
    BY <2>1, Zenon
<1>2. CASE ~Busy(d) /\ Busy(d)'
  <2>1. /\ seen'[d] = row
        /\ BeginTest(d) \/ BeginEnable(d) \/ BeginDisable(d)
    BY <1>2, SeenStays, Zenon
  <2>2. PICK step \in {"secrets", "revoke"}, operation \in {"test", "enable", "disable"} :
           /\ pc' = [pc EXCEPT ![d] = step] /\ op' = [op EXCEPT ![d] = operation]
           /\ operation \in {"test", "enable"} => row.content.secret # NoSecret
    BY <2>1, Zenon DEF BeginTest, BeginEnable, BeginDisable, Get
  <2>3. pc'[d] = step /\ op'[d] = operation
    BY <2>2, Zenon DEF ExtensionType, CallsType
  <2>4. QED
    BY <2>1, <2>2, <2>3, Zenon
<1>3. CASE Busy(d) /\ Busy(d)'
  <2>1. seen'[d] = seen[d] /\ op'[d] = op[d]
    BY <1>3, SeenStays, Zenon
  <2>2. Begun /\ seen[d].revision \in Revision /\ Exact(seen[d].revision, seen[d].content)
    BY <1>3, Zenon DEF LifeOfTheRow, CopiesAreExact, ExtensionType, CallsType, Row
  <2>3. HealthyAt(seen[d].revision) => HealthyAfter(seen[d].revision)
    BY <2>2, ExactStays, Zenon
  <2>4. HealthyAfter(seen[d].revision) => HealthyAt(seen[d].revision)'
    BY <2>1, Zenon DEF HealthyAfter, HealthyAt
  <2>5. op'[d] \in {"test", "enable"} => seen'[d].content.secret # NoSecret
    BY <2>1, Zenon DEF ChecksHold
  <2>6. CASE pc'[d] = pc[d] /\ failed'[d] = failed[d]
    BY <2>1, <2>3, <2>4, <2>5, <2>6, Zenon DEF ChecksHold
  <2>7. CASE CallStep(d)
    <3>1. Steps(d)
      BY <1>3, <2>7, CallStepSteps, Zenon DEF ExtensionType, Get, Busy
    <3>2. \/ pc'[d] = AfterSuccess(d) /\ failed'[d] = failed[d]
          \/ pc'[d] = AfterFailure(d) /\ ~failed[d] /\ failed'[d] = TRUE
          \/ pc[d] = "start" /\ pc'[d] = "await" /\ failed'[d] = failed[d]
          \/ pc[d] = "stop" /\ pc'[d] = "terminate" /\ failed'[d] = failed[d]
      BY <1>3, <3>1, StepsMove, Zenon DEF ExtensionType, Busy
    <3>3. ASSUME op[d] = "test", pc'[d] \in {"stop", "terminate", "commit"}, ~failed'[d]
          PROVE  HealthyAfter(seen[d].revision)
      <4>1. CASE pc[d] \in {"stop", "terminate", "commit"} /\ ~failed[d]
        BY <2>3, <3>3, <4>1, Zenon DEF ChecksHold
      <4>2. CASE ~(pc[d] \in {"stop", "terminate", "commit"} /\ ~failed[d])
        <5>1. pc[d] = "probe" /\ pc'[d] = AfterSuccess(d)
          BY <3>2, <3>3, <4>2, Zenon DEF AfterSuccess, ExtensionType, CallsType, Course
        <5>2. Probe(d)
          BY <2>7, <5>1, Zenon DEF CallStep, BeginTest, BeginEnable, BeginDisable, Get, ReadSecrets,
             ReadSecretsFails, Start, Await, AwaitFails, AdmitRouting, RevokeRouting, Stop,
             Terminate, TerminateFails, Commit, CommitLost, CommitFails, Record
        <5>3. ~Fail(d)
          <6>1. SUFFICES ASSUME Goto(d, AfterFailure(d), TRUE) PROVE FALSE
            BY Zenon DEF Fail
          <6>2. failed' = [failed EXCEPT ![d] = TRUE /\ AfterFailure(d) # "idle"]
                /\ pc' = [pc EXCEPT ![d] = AfterFailure(d)]
            BY <6>1, Zenon DEF Goto
          <6>3. failed'[d] = (TRUE /\ AfterFailure(d) # "idle") /\ pc'[d] = AfterFailure(d)
            BY <6>2, Zenon DEF ExtensionType, CallsType
          <6>4. QED
            BY <3>3, <6>3, Zenon
        <5>4. /\ Matches(d) /\ UNCHANGED row
              /\ healthy' = (healthy \/ (Present /\ running[registered].content = row.content))
          BY <5>2, <5>3, Zenon DEF Probe, dbVars
        <5>5. QED
          BY <5>4, ProbedIsTheRow, Zenon DEF HealthyAfter, Present
      <4>3. QED
        BY <4>1, <4>2, Zenon
    <3>4. ASSUME op[d] = "enable", pc'[d] \in {"await", "probe", "admit", "commit"}
          PROVE  Valid(seen[d].content)
      <4>1. CASE pc[d] \in {"await", "probe", "admit", "commit"}
        BY <3>4, <4>1, Zenon DEF ChecksHold
      <4>2. CASE pc[d] \notin {"await", "probe", "admit", "commit"}
        <5>1. pc[d] = "start" /\ ~failed[d]
          BY <1>3, <3>2, <3>4, <4>2, Zenon DEF AfterSuccess, AfterFailure, ExtensionType, CallsType,
             Course, Busy
        <5>2. Start(d)
          BY <2>7, <5>1, Zenon DEF CallStep, BeginTest, BeginEnable, BeginDisable, Get, ReadSecrets,
             ReadSecretsFails, Probe, Await, AwaitFails, AdmitRouting, RevokeRouting, Stop,
             Terminate, TerminateFails, Commit, CommitLost, CommitFails, Record
        <5>3. ~Fail(d)
          <6>1. SUFFICES ASSUME Goto(d, AfterFailure(d), TRUE) PROVE FALSE
            BY Zenon DEF Fail
          <6>2. pc'[d] = AfterFailure(d)
            BY <6>1, Zenon DEF Goto, ExtensionType, CallsType
          <6>3. QED
            BY <3>4, <5>1, <6>2, Zenon DEF AfterFailure
        <5>4. QED
          BY <5>2, <5>3, Zenon DEF Start, Startable
      <4>3. QED
        BY <4>1, <4>2, Zenon
    <3>5. QED
      BY <2>1, <2>4, <2>5, <3>3, <3>4, Zenon
  <2>8. ASSUME NEW c \in Call, CallStep(c), c # d PROVE pc'[d] = pc[d] /\ failed'[d] = failed[d]
    BY <2>8, OthersStay, Zenon DEF ExtensionType, RuntimeType
  <2>9. CASE Crash
    BY <1>3, <2>9, Zenon DEF Crash, Busy
  <2>10. CASE Administration \/ (\E p \in Process : Exit(p)) \/ UNCHANGED vars
    BY <2>6, <2>10, AdministrationSteps, Zenon DEF ExtensionType, Revises, Exit, vars, callVars
  <2>11. QED
    BY <2>6, <2>7, <2>8, <2>9, <2>10, Zenon DEF Next
<1>4. QED
  BY <1>1, <1>2, <1>3, Zenon

\* What is enabled was tested, and is complete.
LEMMA EnabledStep ==
    ASSUME ExtensionType, RevisionInv, [Next]_vars
    PROVE  EnabledWasTested' /\ EnabledIsComplete'
<1> USE DEF RevisionInv
<1>1. ASSUME UNCHANGED row, healthy => healthy' PROVE EnabledWasTested' /\ EnabledIsComplete'
  BY <1>1, Zenon DEF EnabledWasTested, EnabledIsComplete, Enabled, Present
<1>2. ASSUME NEW c \in Call, CallStep(c), Record(c)
      PROVE  EnabledWasTested' /\ EnabledIsComplete'
  <2>1. /\ Present /\ Present' /\ row \in Row /\ pc[c] = "commit" /\ seen[c].revision = row.revision
        /\ row'.revision = row.revision /\ row'.content = row.content
        /\ op[c] = "test" => row'.tested = row.revision /\ row'.enabled = row.enabled
        /\ op[c] # "test" => row'.tested = row.tested
        /\ op[c] = "enable" => row.tested = row.revision /\ row'.enabled
        /\ op[c] = "disable" => ~row'.enabled
        /\ op[c] \in {"test", "enable"} => ~row.enabled
        /\ healthy => healthy'
    BY <1>2, RecordSteps, CallsKeepRow, AbsenceAssumption, Zenon DEF ExtensionType, Present
  <2>2. ~failed[c] /\ op[c] \in {"test", "enable", "disable"} /\ Busy(c)
    BY <2>1, Zenon DEF ExtensionType, CallsType, Course, Busy
  <2>3. seen[c].content = row.content
    BY <2>1, <2>2, Zenon DEF CopiesAreExact, Exact
  <2>4. CASE op[c] = "test"
    <3>1. healthy
      BY <2>1, <2>2, <2>4, Zenon DEF ChecksHold, HealthyAt
    <3>2. QED
      BY <2>1, <2>4, <3>1, Zenon DEF EnabledWasTested, EnabledIsComplete, Enabled
  <2>5. CASE op[c] = "enable"
    <3>1. healthy
      BY <2>1, <2>5, Zenon DEF EnabledWasTested
    <3>2. row.content.secret # NoSecret /\ Valid(row.content)
      BY <2>1, <2>3, <2>5, Zenon DEF ChecksHold
    <3>3. QED
      BY <2>1, <2>5, <3>1, <3>2, Zenon DEF EnabledWasTested, EnabledIsComplete, Enabled, Valid
  <2>6. CASE op[c] = "disable"
    BY <2>1, <2>6, Zenon DEF EnabledWasTested, EnabledIsComplete, Enabled
  <2>7. QED
    BY <2>2, <2>4, <2>5, <2>6, Zenon
<1>3. CASE Revises
  <2>1. /\ row \in Row /\ row'.revision = row.revision + 1 /\ row'.tested = 0 /\ ~row'.enabled
    BY <1>3, Zenon DEF Revises, Configurable, Present, ExtensionType, RowType
  <2>2. row'.tested # row'.revision
    BY <2>1, ExtensionAssumption DEF Row, Revision
  <2>3. QED
    BY <2>1, <2>2, Zenon DEF EnabledWasTested, EnabledIsComplete, Enabled
<1>4. CASE Installs
  BY <1>4 DEF Installs, NewRow, EnabledWasTested, EnabledIsComplete, Enabled
<1>5. CASE row' = NoRow
  BY <1>5, Zenon DEF EnabledWasTested, EnabledIsComplete, Enabled, Present
<1>6. CASE Administration
  BY <1>1, <1>3, <1>4, <1>5, <1>6, AdministrationSteps, Zenon DEF ExtensionType, historyVars
<1>7. CASE \E c \in Call : CallStep(c)
  BY <1>1, <1>2, <1>7, CallsKeepRow, Zenon DEF ExtensionType
<1>8. CASE Crash \/ (\E p \in Process : Exit(p)) \/ UNCHANGED vars
  BY <1>1, <1>8 DEF Crash, Exit, vars, dbVars, historyVars
<1>9. QED
  BY <1>6, <1>7, <1>8, Zenon DEF Next

-----------------------------------------------------------------------------
(* Between calls the row, the routing and the process agree *)

\* The process a call has started, once it is registered.
Served(c) ==
    \/ op[c] = "enable" /\ pc[c] \in {"probe", "admit", "commit"}
    \/ op[c] = "disable" /\ pc[c] = "admit"

\* How far the only running call has come, read off the row, the routing and
\* the processes.
Phase(c) ==
    /\ op[c] \in {"test", "enable"} => ~Enabled
    /\ op[c] = "disable" => Enabled /\ seen[c].revision = row.revision
    /\ active <=> pc[c] = "revoke" \/ (op[c] = "enable" /\ pc[c] = "commit")
    /\ pc[c] \in {"secrets", "start", "await"} => registered = NoProcess
    /\ pc[c] = "commit" => (registered = NoProcess <=> op[c] # "enable")
    /\ pc[c] \in {"admit", "revoke"} => registered # NoProcess
    /\ pc[c] = "terminate" => target[c] = registered
    /\ pc[c] = "await" /\ Live(target[c]) => running[target[c]].revision = seen[c].revision
    /\ Served(c) /\ Live(registered) => running[registered].revision = seen[c].revision

Agrees ==
    /\ active <=> Enabled
    /\ Enabled <=> registered # NoProcess
    /\ Enabled /\ Live(registered) =>
          running[registered] = [revision |-> row.revision, content |-> row.content]

QuietInv ==
    ~disturbed => /\ \A c, d \in Call : Busy(c) /\ Busy(d) => c = d
                  /\ AtRest => Agrees
                  /\ \A c \in Call : Busy(c) => Phase(c)

\* A call that goes on takes with it what it knows.
LEMMA GoesOn ==
    ASSUME CallsType, NEW c \in Call, Busy(c), Succeed(c)
    PROVE  /\ pc'[c] = AfterSuccess(c)
           /\ pc'[c] # "idle" => op'[c] = op[c] /\ seen'[c] = seen[c]
<1>1. pc'[c] = AfterSuccess(c)
  BY Zenon DEF Succeed, Goto, CallsType
<1>2. QED
  BY <1>1, StepsMove, Zenon DEF Steps

\* An undisturbed call that fails undoes what it did.
LEMMA GoesBack ==
    ASSUME CallsType, NEW c \in Call, Busy(c), pc[c] # "revoke", Fail(c), ~disturbed'
    PROVE  /\ pc'[c] = AfterFailure(c)
           /\ pc'[c] # "idle" => op'[c] = op[c] /\ seen'[c] = seen[c]
           /\ ~failed[c] /\ pc[c] \notin {"stop", "terminate"}
<1>1. pc'[c] = AfterFailure(c)
  BY Zenon DEF Fail, Goto, CallsType
<1>2. ~failed[c] /\ pc[c] \notin {"stop", "terminate"}
  BY Zenon DEF Fail
<1>3. QED
  BY <1>1, <1>2, StepsMove, Zenon DEF Steps

\* Once in doubt, always in doubt.
LEMMA DoubtStays ==
    ASSUME ExtensionType, [Next]_vars, disturbed
    PROVE  disturbed'
<1>1. CASE Administration
  BY <1>1, AdministrationSteps, Zenon DEF ExtensionType, Revises, historyVars
<1>2. ASSUME NEW c \in Call, CallStep(c) PROVE disturbed'
  <2>1. Succeed(c) \/ Fail(c) => disturbed'
    BY Zenon DEF Succeed, Fail
  <2>2. QED
    BY <1>2, <2>1, Zenon DEF CallStep, BeginTest, BeginEnable, BeginDisable, Get, ReadSecrets,
       ReadSecretsFails, Start, Await, AwaitFails, Probe, AdmitRouting, RevokeRouting, Stop,
       Terminate, TerminateFails, Commit, CommitLost, CommitFails
<1>3. CASE Crash \/ (\E p \in Process : Exit(p)) \/ UNCHANGED vars
  BY <1>3, Zenon DEF Crash, Exit, vars, historyVars
<1>4. QED
  BY <1>1, <1>2, <1>3, Zenon DEF Next

\* An administrator does not touch an enabled row, nor enables one.
LEMMA AdministrationKeepsEnabled ==
    ASSUME ExtensionType, Administration
    PROVE  (Enabled' <=> Enabled) /\ (Enabled => UNCHANGED row)
<1>1. CASE Installs
  BY <1>1 DEF Installs, NewRow, Enabled
<1>2. CASE Revises
  BY <1>2, Zenon DEF Revises, Configurable, Enabled
<1>3. CASE Configurable /\ row' = NoRow
  BY <1>3, Zenon DEF Configurable, Enabled, Present
<1>4. CASE UNCHANGED row
  BY <1>4, Zenon DEF Enabled, Present
<1>5. QED
  BY <1>1, <1>2, <1>3, <1>4, AdministrationSteps, Zenon DEF ExtensionType

\* A new call finds the row, the routing and the process in agreement.
LEMMA QuietBegin ==
    ASSUME ExtensionType, Agrees, NEW c \in Call,
           BeginTest(c) \/ BeginEnable(c) \/ BeginDisable(c)
    PROVE  Phase(c)'
<1>1. /\ UNCHANGED <<row, running, registered, active, target>> /\ Present /\ row \in Row
      /\ seen' = [seen EXCEPT ![c] = row]
  BY Zenon DEF BeginTest, BeginEnable, BeginDisable, Get, dbVars, runtimeVars, ExtensionType,
     RowType, Present
<1>2. PICK step \in {"secrets", "revoke"}, operation \in {"test", "enable", "disable"} :
         /\ pc' = [pc EXCEPT ![c] = step] /\ op' = [op EXCEPT ![c] = operation]
         /\ operation \in {"test", "enable"} => ~row.enabled /\ step = "secrets"
         /\ operation = "disable" => row.enabled /\ step = "revoke"
  BY Zenon DEF BeginTest, BeginEnable, BeginDisable, Get
<1>3. pc'[c] = step /\ op'[c] = operation /\ seen'[c] = row
  BY <1>1, <1>2, Zenon DEF ExtensionType, CallsType
<1>4. CASE operation \in {"test", "enable"}
  <2>1. ~Enabled /\ ~Enabled' /\ ~active /\ registered = NoProcess /\ step = "secrets"
    BY <1>1, <1>2, <1>4, Zenon DEF Agrees, Enabled, Present
  <2>2. QED
    BY <1>1, <1>3, <1>4, <2>1, Zenon DEF Phase, Served, Live
<1>5. CASE operation = "disable"
  <2>1. Enabled /\ Enabled' /\ active /\ registered # NoProcess /\ step = "revoke"
    BY <1>1, <1>2, <1>5, Zenon DEF Agrees, Enabled, Present
  <2>2. QED
    BY <1>1, <1>3, <1>5, <2>1, Zenon DEF Phase, Served, Live
<1>6. QED
  BY <1>4, <1>5, Zenon

\* Each step of the only call leads to its next phase or to agreement.
LEMMA QuietCall ==
    ASSUME ExtensionType, CopiesAreExact, NEW c \in Call, CallStep(c), Busy(c), Phase(c),
           ~disturbed'
    PROVE  (pc'[c] = "idle" => Agrees') /\ (pc'[c] # "idle" => Phase(c)')
<1> DEFINE Goal == (pc'[c] = "idle" => Agrees') /\ (pc'[c] # "idle" => Phase(c)')
<1>0. /\ running \in [Process -> Child \union {Gone}]
      /\ registered \in Process \union {NoProcess} /\ active \in BOOLEAN
      /\ target \in [Call -> Process \union {NoProcess}]
      /\ pc[c] \in {"await", "terminate"} <=> target[c] # NoProcess
      /\ Course(pc[c], op[c], failed[c]) /\ seen[c] \in Row
  BY Zenon DEF ExtensionType, RuntimeType, CallsType
<1>1. Succeed(c) => /\ pc'[c] = AfterSuccess(c)
                    /\ pc'[c] # "idle" => op'[c] = op[c] /\ seen'[c] = seen[c]
  BY GoesOn, Zenon DEF ExtensionType
<1>2. Fail(c) /\ pc[c] # "revoke" =>
          /\ pc'[c] = AfterFailure(c)
          /\ pc'[c] # "idle" => op'[c] = op[c] /\ seen'[c] = seen[c]
          /\ ~failed[c] /\ pc[c] \notin {"stop", "terminate"}
  BY GoesBack, Zenon DEF ExtensionType
<1>3. UNCHANGED row => (Enabled' <=> Enabled)
  BY Zenon DEF Enabled, Present
<1>4. CASE ReadSecrets(c)
  <2>1. pc[c] = "secrets" /\ Succeed(c) /\ UNCHANGED <<row, running, registered, active, target>>
    BY <1>4, Zenon DEF ReadSecrets, dbVars, runtimeVars
  <2>2. pc'[c] = "start"
    BY <1>1, <2>1, Zenon DEF AfterSuccess
  <2>3. QED
    BY <1>1, <1>3, <2>1, <2>2, Zenon DEF Phase, Served, Live
<1>5. CASE ReadSecretsFails(c)
  <2>1. pc[c] = "secrets" /\ Fail(c) /\ UNCHANGED <<row, running, registered, active, target>>
    BY <1>5, Zenon DEF ReadSecretsFails, dbVars, runtimeVars
  <2>2. pc'[c] = "idle" /\ op[c] \in {"test", "enable"}
    BY <1>0, <1>2, <2>1, Zenon DEF AfterFailure, Course
  <2>3. QED
    BY <1>3, <2>1, <2>2, Zenon DEF Phase, Agrees
<1>6. CASE Start(c)
  <2>1. pc[c] = "start" /\ UNCHANGED row /\ registered = NoProcess /\ ~active
    BY <1>6, Zenon DEF Start, dbVars, Phase
  <2>2. ~Matches(c)
    BY <2>1, ExtensionAssumption, Zenon DEF Matches, Live
  <2>3. CASE Fail(c) /\ UNCHANGED <<target, runtimeVars>>
    <3>1. pc'[c] = "idle" /\ op[c] \in {"test", "enable"}
      BY <1>0, <1>2, <2>1, <2>3, Zenon DEF AfterFailure, Course
    <3>2. QED
      BY <1>3, <2>1, <2>3, <3>1, Zenon DEF Phase, Agrees, runtimeVars
  <2>4. ASSUME NEW p \in Process, running' = [running EXCEPT ![p] = Launch(c)],
               target' = [target EXCEPT ![c] = p], Goto(c, "await", failed[c]),
               UNCHANGED <<registered, active, stuck, disturbed>>
        PROVE  Goal
    <3>1. Steps(c) /\ pc'[c] = "await"
      BY <2>1, <2>4, Zenon DEF Steps, Goto, ExtensionType, CallsType
    <3>2. op'[c] = op[c] /\ seen'[c] = seen[c]
      BY <3>1, StepsMove, Zenon DEF ExtensionType
    <3>3. target'[c] = p /\ running'[p] = Launch(c) /\ Launch(c).revision = seen[c].revision
      BY <1>0, <2>4, Zenon DEF Launch
    <3>4. QED
      BY <1>3, <2>1, <2>4, <3>1, <3>2, <3>3, Zenon DEF Phase, Served
  <2>5. QED
    BY <1>6, <2>2, <2>3, <2>4, Zenon DEF Start
<1>7. CASE Await(c)
  <2>1. /\ pc[c] = "await" /\ registered' = target[c] /\ Succeed(c)
        /\ UNCHANGED <<row, running, active>>
    BY <1>7, Zenon DEF Await, dbVars
  <2>2. /\ pc'[c] = IF op[c] = "disable" THEN "admit" ELSE "probe"
        /\ registered' # NoProcess
    BY <1>0, <1>1, <2>1, Zenon DEF AfterSuccess
  <2>3. op'[c] = op[c] /\ seen'[c] = seen[c] /\ pc'[c] \in {"admit", "probe"}
    BY <1>1, <2>1, <2>2, Zenon
  <2>4. Live(registered)' => running'[registered'].revision = seen'[c].revision
    BY <2>1, <2>3, Zenon DEF Phase, Live
  <2>5. QED
    BY <1>3, <2>1, <2>2, <2>3, <2>4, Zenon DEF Phase
<1>8. CASE AwaitFails(c)
  <2>1. pc[c] = "await" /\ Fail(c) /\ UNCHANGED <<row, registered, active>>
    BY <1>8, Zenon DEF AwaitFails, dbVars
  <2>2. pc'[c] = "idle" /\ op[c] \in {"test", "enable"}
    BY <1>0, <1>2, <2>1, Zenon DEF AfterFailure, Course
  <2>3. QED
    BY <1>3, <2>1, <2>2, Zenon DEF Phase, Agrees
<1>9. CASE Probe(c)
  <2>1. pc[c] = "probe" /\ UNCHANGED <<row, running, registered, active, target>>
    BY <1>9, Zenon DEF Probe, dbVars, runtimeVars
  <2>2. CASE Matches(c) /\ Succeed(c)
    <3>1. registered # NoProcess
      BY <2>2, ExtensionAssumption, Zenon DEF Matches, Live
    <3>2. pc'[c] = IF op[c] = "test" THEN "stop" ELSE "admit"
      BY <1>1, <2>1, <2>2, Zenon DEF AfterSuccess
    <3>3. op[c] \in {"test", "enable"} /\ op'[c] = op[c] /\ seen'[c] = seen[c]
          /\ pc'[c] \in {"stop", "admit"}
      BY <1>0, <1>1, <2>1, <2>2, <3>2, Zenon DEF Course
    <3>4. QED
      BY <1>3, <2>1, <3>1, <3>2, <3>3, Zenon DEF Phase, Served, Live
  <2>3. CASE Fail(c)
    <3>1. pc'[c] = "stop" /\ op'[c] = op[c] /\ seen'[c] = seen[c]
      BY <1>2, <2>1, <2>3, Zenon DEF AfterFailure
    <3>2. QED
      BY <1>3, <2>1, <3>1, Zenon DEF Phase, Served, Live
  <2>4. QED
    BY <1>9, <2>2, <2>3, Zenon DEF Probe
<1>10. CASE AdmitRouting(c)
  <2>1. pc[c] = "admit" /\ UNCHANGED <<row, running, registered, target>> /\ registered # NoProcess
        /\ Served(c)
    BY <1>0, <1>10, Zenon DEF AdmitRouting, dbVars, Phase, Served, Course
  <2>2. CASE Live(registered) /\ active' = TRUE /\ Succeed(c)
    <3>1. CASE op[c] = "enable"
      <4>1. pc'[c] = "commit"
        BY <1>0, <1>1, <2>1, <2>2, <3>1, Zenon DEF AfterSuccess, Course
      <4>2. op'[c] = op[c] /\ seen'[c] = seen[c]
        BY <1>1, <2>2, <4>1, Zenon
      <4>3. QED
        BY <1>3, <2>1, <2>2, <3>1, <4>1, <4>2, Zenon DEF Phase, Served, Live
    <3>2. CASE op[c] = "disable"
      <4>1. pc'[c] = "idle"
        BY <1>0, <1>1, <2>1, <2>2, <3>2, Zenon DEF AfterSuccess, Course
      <4>2. Enabled /\ running[registered].revision = row.revision
        BY <2>1, <2>2, <3>2, Zenon DEF Phase
      <4>3. running[registered].content = row.content /\ running[registered] \in Child
        BY <1>0, <2>2, <4>2, Zenon DEF CopiesAreExact, Exact, Live, Enabled
      <4>4. running[registered] = [revision |-> row.revision, content |-> row.content]
        BY <4>2, <4>3, Zenon DEF Child
      <4>5. QED
        BY <1>3, <2>1, <2>2, <4>1, <4>2, <4>4, Zenon DEF Agrees
    <3>3. QED
      BY <1>0, <2>1, <3>1, <3>2, Zenon DEF Course
  <2>3. CASE Fail(c) /\ UNCHANGED active
    <3>1. pc'[c] = "stop"
      BY <1>2, <2>1, <2>3, Zenon DEF AfterFailure
    <3>2. op'[c] = op[c] /\ seen'[c] = seen[c] /\ ~active
      BY <1>2, <2>1, <2>3, <3>1, Zenon DEF Phase
    <3>3. QED
      BY <1>3, <2>1, <2>3, <3>1, <3>2, Zenon DEF Phase, Served, Live
  <2>4. QED
    BY <1>10, <2>2, <2>3, Zenon DEF AdmitRouting
<1>11. CASE RevokeRouting(c)
  <2>1. /\ pc[c] = "revoke" /\ active' = FALSE /\ Succeed(c)
        /\ UNCHANGED <<row, running, registered, target>>
    BY <1>11, Zenon DEF RevokeRouting, dbVars
  <2>2. pc'[c] = "stop" /\ op'[c] = op[c] /\ seen'[c] = seen[c]
    BY <1>1, <2>1, Zenon DEF AfterSuccess
  <2>3. QED
    BY <1>3, <2>1, <2>2, Zenon DEF Phase, Served, Live
<1>12. CASE Stop(c)
  <2>1. pc[c] = "stop" /\ UNCHANGED <<row, running, registered, active>> /\ ~active
    BY <1>12, Zenon DEF Stop, dbVars, runtimeVars, Phase
  <2>2. CASE registered = NoProcess /\ Succeed(c) /\ UNCHANGED target
    <3>1. pc'[c] = IF failed[c] THEN "idle" ELSE "commit"
      BY <1>1, <2>1, <2>2, Zenon DEF AfterSuccess
    <3>2. CASE failed[c]
      <4>1. op[c] \in {"test", "enable"}
        BY <1>0, <2>1, <3>2, Zenon DEF Course
      <4>2. QED
        BY <1>3, <2>1, <2>2, <3>1, <3>2, <4>1, Zenon DEF Phase, Agrees
    <3>3. CASE ~failed[c]
      <4>1. op[c] \in {"test", "disable"} /\ op'[c] = op[c] /\ seen'[c] = seen[c] /\ pc'[c] = "commit"
        BY <1>0, <1>1, <2>1, <2>2, <3>1, <3>3, Zenon DEF Course
      <4>2. QED
        BY <1>3, <2>1, <2>2, <4>1, Zenon DEF Phase, Served, Live
    <3>4. QED
      BY <3>2, <3>3, Zenon
  <2>3. CASE /\ target' = [target EXCEPT ![c] = registered]
             /\ Goto(c, "terminate", failed[c])
    <3>1. Steps(c) /\ pc'[c] = "terminate" /\ target'[c] = registered
      BY <1>0, <2>1, <2>3, Zenon DEF Steps, Goto, ExtensionType, CallsType
    <3>2. op'[c] = op[c] /\ seen'[c] = seen[c]
      BY <3>1, StepsMove, Zenon DEF ExtensionType
    <3>3. QED
      BY <1>3, <2>1, <3>1, <3>2, Zenon DEF Phase, Served, Live
  <2>4. QED
    BY <1>12, <2>1, <2>2, <2>3, Zenon DEF Stop
<1>13. CASE Terminate(c)
  <2>1. /\ pc[c] = "terminate" /\ (Succeed(c) \/ Fail(c)) /\ target[c] = registered
        /\ registered' = NoProcess /\ UNCHANGED <<row, active>> /\ ~active
    BY <1>13, Zenon DEF Terminate, dbVars, Phase
  <2>2. Succeed(c)
    BY <1>2, <2>1, Zenon
  <2>3. pc'[c] = IF failed[c] THEN "idle" ELSE "commit"
    BY <1>1, <2>1, <2>2, Zenon DEF AfterSuccess
  <2>4. CASE failed[c]
    <3>1. op[c] \in {"test", "enable"}
      BY <1>0, <2>1, <2>4, Zenon DEF Course
    <3>2. QED
      BY <1>3, <2>1, <2>3, <2>4, <3>1, Zenon DEF Phase, Agrees
  <2>5. CASE ~failed[c]
    <3>1. op[c] \in {"test", "disable"} /\ op'[c] = op[c] /\ seen'[c] = seen[c] /\ pc'[c] = "commit"
      BY <1>0, <1>1, <2>1, <2>2, <2>3, <2>5, Zenon DEF Course
    <3>2. QED
      BY <1>3, <2>1, <3>1, Zenon DEF Phase, Served, Live
  <2>6. QED
    BY <2>4, <2>5
<1>14. CASE TerminateFails(c)
  BY <1>2, <1>14, Zenon DEF TerminateFails
<1>15. CASE Commit(c)
  <2>1. /\ Record(c) /\ Succeed(c) /\ UNCHANGED <<running, registered, active, target>>
        /\ pc[c] = "commit"
    BY <1>15, Zenon DEF Commit, runtimeVars, Record
  <2>2. pc'[c] = "idle"
    BY <1>1, <2>1, Zenon DEF AfterSuccess
  <2>3. /\ Present' /\ row.revision = seen[c].revision
        /\ row'.revision = row.revision /\ row'.content = row.content
        /\ op[c] = "test" => row'.enabled = row.enabled
        /\ op[c] = "enable" => row'.enabled
        /\ op[c] = "disable" => ~row'.enabled
        /\ Present
    BY <2>1, RecordSteps, AbsenceAssumption, Zenon DEF ExtensionType, Present
  <2>4. CASE op[c] \in {"test", "disable"}
    <3>1. ~Enabled' /\ ~active /\ registered = NoProcess
      BY <2>1, <2>3, <2>4, Zenon DEF Phase, Enabled
    <3>2. QED
      BY <2>1, <2>2, <3>1, Zenon DEF Agrees
  <2>5. CASE op[c] = "enable"
    <3>1. Enabled' /\ active /\ registered # NoProcess /\ Served(c)
      BY <2>1, <2>3, <2>5, Zenon DEF Phase, Enabled, Served
    <3>2. ASSUME Live(registered)
          PROVE  running[registered] = [revision |-> row'.revision, content |-> row'.content]
      <4>1. running[registered].revision = row.revision
        BY <2>3, <3>1, <3>2, Zenon DEF Phase
      <4>2. running[registered].content = row.content /\ running[registered] \in Child
        BY <1>0, <2>3, <3>2, <4>1, Zenon DEF CopiesAreExact, Exact, Live
      <4>3. QED
        BY <2>3, <4>1, <4>2, Zenon DEF Child
    <3>3. QED
      BY <2>1, <2>2, <3>1, <3>2, Zenon DEF Agrees, Live
  <2>6. QED
    BY <1>0, <2>1, <2>4, <2>5, Zenon DEF Course
<1>16. CASE CommitLost(c)
  BY <1>16, Zenon DEF CommitLost
<1>17. CASE CommitFails(c)
  <2>1. pc[c] = "commit" /\ Fail(c) /\ UNCHANGED <<row, running, registered, active, target>>
    BY <1>17, Zenon DEF CommitFails, dbVars, runtimeVars
  <2>2. CASE op[c] = "test"
    <3>1. pc'[c] = "idle"
      BY <1>2, <2>1, <2>2, Zenon DEF AfterFailure
    <3>2. QED
      BY <1>3, <2>1, <2>2, <3>1, Zenon DEF Phase, Agrees
  <2>3. CASE op[c] = "enable"
    <3>1. pc'[c] = "revoke" /\ op'[c] = op[c] /\ seen'[c] = seen[c]
      BY <1>2, <2>1, <2>3, Zenon DEF AfterFailure
    <3>2. QED
      BY <1>3, <2>1, <2>3, <3>1, Zenon DEF Phase, Served, Live
  <2>4. CASE op[c] = "disable"
    <3>1. pc'[c] = "secrets" /\ op'[c] = op[c] /\ seen'[c] = seen[c]
      BY <1>2, <2>1, <2>4, Zenon DEF AfterFailure
    <3>2. QED
      BY <1>3, <2>1, <2>4, <3>1, Zenon DEF Phase, Served, Live
  <2>5. QED
    BY <1>0, <2>1, <2>2, <2>3, <2>4, Zenon DEF Course
<1>18. CASE BeginTest(c) \/ BeginEnable(c) \/ BeginDisable(c)
  BY <1>18, Zenon DEF BeginTest, BeginEnable, BeginDisable, Get, Busy
<1>19. QED
  BY <1>4, <1>5, <1>6, <1>7, <1>8, <1>9, <1>10, <1>11, <1>12, <1>13, <1>14, <1>15, <1>16,
     <1>17, <1>18, Zenon DEF CallStep

\* Every step keeps the account of the undisturbed call.
LEMMA QuietStep ==
    ASSUME ExtensionType, CopiesAreExact, QuietInv, [Next]_vars
    PROVE  QuietInv'
<1> SUFFICES ASSUME ~disturbed'
             PROVE  /\ \A c, d \in Call : Busy(c)' /\ Busy(d)' => c = d
                    /\ AtRest' => Agrees'
                    /\ \A c \in Call : Busy(c)' => Phase(c)'
  BY Zenon DEF QuietInv
<1>1. /\ ~disturbed
      /\ \A c, d \in Call : Busy(c) /\ Busy(d) => c = d
      /\ AtRest => Agrees
      /\ \A c \in Call : Busy(c) => Phase(c)
  BY DoubtStays, Zenon DEF QuietInv
<1>2. ASSUME UNCHANGED callVars, AtRest => Agrees',
             \A c \in Call : Busy(c) => Phase(c)'
      PROVE  /\ \A c, d \in Call : Busy(c)' /\ Busy(d)' => c = d
             /\ AtRest' => Agrees'
             /\ \A c \in Call : Busy(c)' => Phase(c)'
  BY <1>1, <1>2, Zenon DEF callVars, Busy, AtRest
<1>3. CASE Administration
  <2>1. /\ UNCHANGED <<runtimeVars, callVars>>
        /\ Enabled' <=> Enabled
        /\ Enabled => UNCHANGED row
    BY <1>3, AdministrationSteps, AdministrationKeepsEnabled, Zenon DEF ExtensionType, Revises
  <2>2. Agrees => Agrees'
    BY <2>1, Zenon DEF Agrees, Live, runtimeVars
  <2>3. \A c \in Call : Phase(c) => Phase(c)'
    BY <2>1 DEF Phase, Served, Live, runtimeVars, callVars
  <2>4. QED
    BY <1>1, <1>2, <2>1, <2>2, <2>3, Zenon
<1>4. ASSUME NEW c \in Call, CallStep(c), Busy(c)
      PROVE  /\ \A d, e \in Call : Busy(d)' /\ Busy(e)' => d = e
             /\ AtRest' => Agrees'
             /\ \A d \in Call : Busy(d)' => Phase(d)'
  <2>1. \A d \in Call : d # c => ~Busy(d)'
    <3>1. \A d \in Call : d # c => ~Busy(d) /\ pc'[d] = pc[d]
      BY <1>1, <1>4, OthersStay, Zenon DEF ExtensionType, RuntimeType
    <3>2. QED
      BY <3>1 DEF Busy
  <2>2. (pc'[c] = "idle" => Agrees') /\ (pc'[c] # "idle" => Phase(c)')
    BY <1>1, <1>4, QuietCall, Zenon
  <2>3. QED
    BY <2>1, <2>2, Zenon DEF Busy, AtRest
<1>5. ASSUME NEW c \in Call, CallStep(c), ~Busy(c)
      PROVE  /\ \A d, e \in Call : Busy(d)' /\ Busy(e)' => d = e
             /\ AtRest' => Agrees'
             /\ \A d \in Call : Busy(d)' => Phase(d)'
  <2>1. BeginTest(c) \/ BeginEnable(c) \/ BeginDisable(c)
    BY <1>5, Zenon DEF CallStep, Busy, ReadSecrets,
       ReadSecretsFails, Start, Await, AwaitFails, Probe, AdmitRouting, RevokeRouting, Stop,
       Terminate, TerminateFails, Commit, CommitLost, CommitFails, Record
  <2>2. AtRest
    BY <2>1, Zenon DEF BeginTest, BeginEnable, BeginDisable, Get
  <2>3. Phase(c)'
    BY <1>1, <2>1, <2>2, QuietBegin, Zenon
  <2>4. PICK step \in {"secrets", "revoke"} : pc' = [pc EXCEPT ![c] = step]
    BY <2>1, Zenon DEF BeginTest, BeginEnable, BeginDisable, Get
  <2>5. pc'[c] # "idle" /\ \A d \in Call : d # c => pc'[d] = "idle"
    BY <2>2, <2>4, Zenon DEF AtRest, ExtensionType, CallsType
  <2>6. QED
    BY <2>3, <2>5, Zenon DEF Busy, AtRest
<1>6. ASSUME NEW p \in Process, Exit(p)
      PROVE  /\ \A d, e \in Call : Busy(d)' /\ Busy(e)' => d = e
             /\ AtRest' => Agrees'
             /\ \A d \in Call : Busy(d)' => Phase(d)'
  <2>1. /\ UNCHANGED <<row, registered, active, callVars>>
        /\ \A q : Live(q)' => Live(q) /\ running'[q] = running[q]
    BY <1>6, Zenon DEF Exit, dbVars, Live, ExtensionType, RuntimeType
  <2>2. Enabled' <=> Enabled
    BY <2>1, Zenon DEF Enabled, Present
  <2>3. Agrees => Agrees'
    BY <2>1, <2>2, Zenon DEF Agrees
  <2>4. \A c \in Call : Phase(c) => Phase(c)'
    BY <2>1, <2>2 DEF Phase, Served, callVars
  <2>5. QED
    BY <1>1, <1>2, <2>1, <2>3, <2>4, Zenon
<1>7. CASE Crash
  BY <1>7, Zenon DEF Crash
<1>8. CASE UNCHANGED vars
  <2>1. UNCHANGED <<row, runtimeVars, callVars>>
    BY <1>8, Zenon DEF vars, dbVars
  <2>2. Enabled' <=> Enabled
    BY <2>1, Zenon DEF Enabled, Present
  <2>3. Agrees => Agrees'
    BY <2>1, <2>2, Zenon DEF Agrees, Live, runtimeVars
  <2>4. \A c \in Call : Phase(c) => Phase(c)'
    BY <2>1, <2>2 DEF Phase, Served, Live, runtimeVars, callVars
  <2>5. QED
    BY <1>1, <1>2, <2>1, <2>3, <2>4, Zenon
<1>9. QED
  BY <1>3, <1>4, <1>5, <1>6, <1>7, <1>8, Zenon DEF Next

-----------------------------------------------------------------------------

ExtensionInv == ExtensionType /\ ChildrenInv /\ RevisionInv /\ QuietInv

\* The registry starts empty, with no child.
LEMMA ExtensionInvInit == Init => ExtensionInv
<1> SUFFICES ASSUME Init PROVE ExtensionInv
  BY Zenon
<1> USE DEF Init
<1>1. RowType
  BY Zenon DEF RowType
<1>2. CallsType
  BY Zenon DEF CallsType, Step, Course, Busy
<1>3. RuntimeType
  BY Zenon DEF RuntimeType
<1>4. ChildrenInv
  BY Zenon DEF ChildrenInv, ChildrenAreKnown, StopsTheRegistered, Live
<1>5. LifeOfTheRow /\ ~Present
  BY Zenon DEF LifeOfTheRow, Present, Busy
<1>6. CopiesAreExact
  BY Zenon DEF CopiesAreExact, Busy
<1>7. ChecksHold /\ EnabledWasTested /\ EnabledIsComplete
  BY <1>5, Zenon DEF ChecksHold, EnabledWasTested, EnabledIsComplete, Enabled
<1>8. QuietInv
  BY <1>5, ExtensionAssumption, Zenon DEF QuietInv, Busy, Agrees, Enabled
<1>9. QED
  BY <1>1, <1>2, <1>3, <1>4, <1>5, <1>6, <1>7, <1>8, Zenon DEF ExtensionInv, ExtensionType, RevisionInv

\* Every step keeps the invariant.
LEMMA ExtensionInvStep == ExtensionInv /\ [Next]_vars => ExtensionInv'
<1> SUFFICES ASSUME ExtensionInv, [Next]_vars PROVE ExtensionInv'
  BY Zenon
<1> USE DEF ExtensionInv
<1>1. ExtensionType'
  BY ExtensionTypeStep, Zenon
<1>2. ChildrenInv'
  BY ChildrenStep, Zenon
<1>3. LifeOfTheRow' /\ CopiesAreExact' /\ ChecksHold'
  BY LifeOfTheRowStep, CopiesAreExactStep, ChecksHoldStep, Zenon DEF RevisionInv
<1>4. EnabledWasTested' /\ EnabledIsComplete'
  BY EnabledStep, Zenon
<1>5. QuietInv'
  BY QuietStep, Zenon DEF RevisionInv
<1>6. QED
  BY <1>1, <1>2, <1>3, <1>4, <1>5, Zenon DEF RevisionInv

\* The invariant of the extensions always holds.
LEMMA ExtensionInvariance == Spec => []ExtensionInv
BY ExtensionInvInit, ExtensionInvStep, PTL DEF Spec

\* However Test, Enable, Disable and the changes of an administrator
\* interleave, a revision of the registry row stands for one content: the one
\* a preview showed, a probe found healthy and Enable put into service.
THEOREM RevisionsStandForOneContent == Spec => []RevisionsAreExact
<1>1. ExtensionInv => RevisionsAreExact
  <2> SUFFICES ASSUME ExtensionInv PROVE RevisionsAreExact
    BY Zenon
  <2>1. PreviewsShowTheTruth
    BY Zenon DEF ExtensionInv, RevisionInv, CopiesAreExact, Exact, PreviewsShowTheTruth
  <2>2. QED
    BY <2>1, Zenon DEF ExtensionInv, RevisionInv, RevisionsAreExact
<1>2. QED
  BY <1>1, ExtensionInvariance, PTL

\* The supervisor (Start, Stop, terminate) loses no child process: a live one
\* is registered, is held by a call, or is one whose termination failed.
THEOREM NoChildIsForgotten == Spec => []ChildrenAreKnown
<1>1. ExtensionInv => ChildrenAreKnown
  BY Zenon DEF ExtensionInv, ChildrenInv
<1>2. QED
  BY <1>1, ExtensionInvariance, PTL

\* Calls that do not overlap and do not end in doubt leave the registry row,
\* the routing and the registered process in agreement, whichever of their
\* steps fail and are undone.
THEOREM RowRoutingAndProcessAgree == Spec => []Agreement
<1>1. ExtensionInv => Agreement
  BY Zenon DEF ExtensionInv, QuietInv, Agreement, Agrees
<1>2. QED
  BY <1>1, ExtensionInvariance, PTL

-----------------------------------------------------------------------------
(* PluginControl *)

PluginInv ==
    /\ healthCalls = [c \in HealthCaller |-> healthCalls[c]]
    /\ HealthyIsOwn

\* An answer that is accepted came from a process with the control plane's
\* session and token.
LEMMA AnswerIsOwn ==
    ASSUME PluginInv, NEW c \in HealthCaller, NEW next,
           Answer(c, validatedFoundation(Reached), next)
    PROVE  PluginInv'
BY Zenon DEF PluginInv, HealthyIsOwn, Answer, validatedFoundation, Authentic, NoCall

\* The plugin is reported healthy only by a process of the control plane's own
\* session and credentials, whatever processes take over the socket.
THEOREM HealthIsOwn == PluginSpec => []HealthyIsOwn
<1>1. PluginInit => PluginInv
  BY DEF PluginInit, PluginInv, HealthyIsOwn, NoCall
<1>2. PluginInv /\ [PluginNext]_pluginVars => PluginInv'
  <2> SUFFICES ASSUME PluginInv, [PluginNext]_pluginVars
               PROVE  PluginInv'
    OBVIOUS
  <2>1. CASE UNCHANGED healthCalls
    BY <2>1, Zenon DEF PluginInv, HealthyIsOwn
  <2>2. ASSUME NEW c \in HealthCaller, StartHealth(c) \/ HealthTimesOut(c)
       PROVE  PluginInv'
    BY <2>2, Zenon DEF StartHealth, HealthTimesOut, PluginInv, HealthyIsOwn, NoCall
  <2>3. ASSUME NEW c \in HealthCaller, Handshake(c) \/ Health(c)
       PROVE  PluginInv'
    BY <2>3, AnswerIsOwn, Zenon DEF Handshake, Health
  <2>4. QED
    BY <2>1, <2>2, <2>3, Zenon
    DEF PluginNext, RunPlugin, Listen, PluginDies, ServeFails, pluginVars
<1>3. PluginInv => HealthyIsOwn
  BY Zenon DEF PluginInv
<1>4. QED
  BY <1>1, <1>2, <1>3, PTL DEF PluginSpec
=============================================================================
