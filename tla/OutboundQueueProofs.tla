------------------------ MODULE OutboundQueueProofs ------------------------
(***************************************************************************)
(* The inductive invariant of OutboundQueue, the safety properties that    *)
(* follow from it, the refinement (OutboundQueue implements                *)
(* OutboundPromise when no Postfix command runs after its caller gave up)  *)
(* and what a completed activation achieves.  For any number of processes, *)
(* queue IDs, messages, domains and policy revisions.                      *)
(***************************************************************************)
EXTENDS OutboundLemmas

USE DEF Goto, ClearWork, End, Continue, Return, Unlock,
        policyVars, rowVars, lockVars, postfixVars, jobVars, workVars

-----------------------------------------------------------------------------
(* Locks, attempts and records *)

\* Advisory locks: only their holder frees them.
LEMMA LocksStep ==
    ASSUME TypeOK, CallsInv, LocksInv, Next
    PROVE  LocksInv'
<1>1. ASSUME NEW p \in Proc,
            Register(p) \/ DecideOk(p) \/ DecideHold(p) \/
            DecidedRelay(p) \/ RequireHold(p) \/ Relay(p) \/
            RecAttempt(p) \/ RecStart(p)
     PROVE  LocksInv'
  BY <1>1, QueueAssumption
  DEF TypeOK, JobType, LockType, CallsInv, LocksInv, LockedSteps,
      ReconcileSteps, ReleaseSteps, ActivateSteps, Register, DecideOk,
      DecideHold, DecidedRelay, RequireHold, Relay, RecAttempt, RecStart
<1>2. ASSUME NEW p \in Proc,
            RecInspect(p) \/ RecHold(p) \/ RecVerify(p)
     PROVE  LocksInv'
  BY <1>2, QueueAssumption
  DEF TypeOK, JobType, LockType, CallsInv, LocksInv, LockedSteps,
      ReconcileSteps, ReleaseSteps, ActivateSteps, RecConclude, RecInspect,
      RecHold, RecVerify
<1>3. ASSUME NEW p \in Proc,
            RelPolicy(p) \/ RelInspect(p) \/ RelStart(p)
     PROVE  LocksInv'
  BY <1>3, QueueAssumption
  DEF TypeOK, JobType, LockType, CallsInv, LocksInv, LockedSteps,
      ReconcileSteps, ReleaseSteps, ActivateSteps, RelPolicy, RelInspect,
      RelStart
<1>4. ASSUME NEW p \in Proc,
            RelCall(p) \/ RelVerify(p)
     PROVE  LocksInv'
  BY <1>4, QueueAssumption
  DEF TypeOK, JobType, LockType, CallsInv, LocksInv, LockedSteps,
      ReconcileSteps, ReleaseSteps, ActivateSteps, RelConclude, RelCall,
      RelVerify
<1>5. ASSUME NEW p \in Proc, NEW q \in Queue, StartDeliver(p, q)
     PROVE  LocksInv'
  BY <1>5, QueueAssumption, Zenon
  DEF TypeOK, JobType, LockType, CallsInv, LocksInv, LockedSteps,
      ReconcileSteps, ReleaseSteps, ActivateSteps, StartDeliver
<1>6. ASSUME NEW p \in Proc, NEW q \in Queue, StartReconcile(p, q)
     PROVE  LocksInv'
  BY <1>6, QueueAssumption, Zenon
  DEF TypeOK, JobType, LockType, CallsInv, LocksInv, LockedSteps,
      ReconcileSteps, ReleaseSteps, ActivateSteps, StartReconcile
<1>7. ASSUME NEW p \in Proc, NEW q \in Queue, StartRelease(p, q)
     PROVE  LocksInv'
  BY <1>7, QueueAssumption, Zenon
  DEF TypeOK, JobType, LockType, CallsInv, LocksInv, LockedSteps,
      ReconcileSteps, ReleaseSteps, ActivateSteps, StartRelease
<1>8. ASSUME NEW p \in Proc, NEW d \in Hosted, NEW to \in Scope, StartActivate(p, d, to)
     PROVE  LocksInv'
  BY <1>8, QueueAssumption, Zenon
  DEF TypeOK, JobType, LockType, CallsInv, LocksInv, LockedSteps,
      ReconcileSteps, ReleaseSteps, ActivateSteps, StartActivate
<1>9. ASSUME NEW p \in Proc, RecLock(p)
     PROVE  LocksInv'
  BY <1>9, QueueAssumption
  DEF TypeOK, JobType, LockType, CallsInv, LocksInv, LockedSteps,
      ReconcileSteps, ReleaseSteps, ActivateSteps, RecLock
<1>10. ASSUME NEW p \in Proc, RecFinish(p)
     PROVE  LocksInv'
  BY <1>10, QueueAssumption
  DEF TypeOK, JobType, LockType, CallsInv, LocksInv, LockedSteps,
      ReconcileSteps, ReleaseSteps, ActivateSteps, RecFinish
<1>11. ASSUME NEW p \in Proc, RelLock(p)
     PROVE  LocksInv'
  BY <1>11, QueueAssumption
  DEF TypeOK, JobType, LockType, CallsInv, LocksInv, LockedSteps,
      ReconcileSteps, ReleaseSteps, ActivateSteps, RelLock
<1>12. ASSUME NEW p \in Proc, RelFinish(p)
     PROVE  LocksInv'
  BY <1>12, QueueAssumption
  DEF TypeOK, JobType, LockType, CallsInv, LocksInv, LockedSteps,
      ReconcileSteps, ReleaseSteps, ActivateSteps, RelFinish
<1>13. ASSUME NEW p \in Proc, ActBegin(p)
     PROVE  LocksInv'
  BY <1>13, QueueAssumption
  DEF TypeOK, JobType, LockType, CallsInv, LocksInv, LockedSteps,
      ReconcileSteps, ReleaseSteps, ActivateSteps, ActBegin
<1>14. ASSUME NEW p \in Proc, ActCommit(p)
     PROVE  LocksInv'
  BY <1>14, QueueAssumption, Zenon
  DEF TypeOK, JobType, LockType, CallsInv, LocksInv, LockedSteps,
      ReconcileSteps, ReleaseSteps, ActivateSteps, ActCommit
<1>15. ASSUME NEW p \in Proc, ActNext(p)
     PROVE  LocksInv'
  BY <1>15, QueueAssumption, Zenon
  DEF TypeOK, JobType, LockType, CallsInv, LocksInv, LockedSteps,
      ReconcileSteps, ReleaseSteps, ActivateSteps, ActNext
<1>16. ASSUME NEW p \in Proc, Leave(p)
     PROVE  LocksInv'
  <2>1. pc'[p] \in {"idle", "act_next"} /\ \A o \in Proc : o # p =>
            pc'[o] = pc[o] /\ current'[o] = current[o]
    BY <1>16, Zenon DEF Leave, TypeOK, JobType
  <2>2. \A o \in Proc : o # p /\ pc[o] \in LockedSteps =>
            lock'[current[o]] = lock[current[o]]
    BY <1>16 DEF Leave, CallsInv, LocksInv, LockedSteps, ReconcileSteps,
              ReleaseSteps, ActivateSteps
  <2>3. "idle" \notin LockedSteps /\ "act_next" \notin LockedSteps
    BY Zenon DEF LockedSteps, ReconcileSteps, ReleaseSteps
  <2>4. QED
    BY <2>1, <2>2, <2>3 DEF LocksInv
<1>17. ASSUME NEW s \in Source, ToggleSource(s)
     PROVE  LocksInv'
  BY <1>17, QueueAssumption, Zenon
  DEF TypeOK, JobType, LockType, CallsInv, LocksInv, LockedSteps,
      ReconcileSteps, ReleaseSteps, ActivateSteps, ToggleSource
<1>18. ASSUME NEW q \in Queue, NEW m \in Message, Arrive(q, m)
     PROVE  LocksInv'
  BY <1>18, QueueAssumption, Zenon
  DEF TypeOK, JobType, LockType, CallsInv, LocksInv, LockedSteps,
      ReconcileSteps, ReleaseSteps, ActivateSteps, Arrive
<1>19. ASSUME NEW q \in Queue, Remove(q)
     PROVE  LocksInv'
  BY <1>19, QueueAssumption, Zenon
  DEF TypeOK, JobType, LockType, CallsInv, LocksInv, LockedSteps,
      ReconcileSteps, ReleaseSteps, ActivateSteps, Remove
<1>20. ASSUME NEW q \in Queue, LateCommand(q)
     PROVE  LocksInv'
  BY <1>20, QueueAssumption, Zenon
  DEF TypeOK, JobType, LockType, CallsInv, LocksInv, LockedSteps,
      ReconcileSteps, ReleaseSteps, ActivateSteps, LateCommand
<1>21. QED
  BY <1>1, <1>2, <1>3, <1>4, <1>5, <1>6, <1>7, <1>8, <1>9, <1>10, <1>11,
     <1>12, <1>13, <1>14, <1>15, <1>16, <1>17, <1>18, <1>19, <1>20,
     LeaveCases, DecidedCases, QueueAssumption, ZenonT(30)
  DEF Next, Start, Work, Deliver, Decide, Reconcile, Release, Activate,
      Environment

\* The SHARE lock keeps the policy a release found.
LEMMA SharesStep ==
    ASSUME TypeOK, RowsInv, CallsInv, BindingInv, SharesInv, Next
    PROVE  SharesInv'
<1>1. ASSUME NEW p \in Proc,
            DecideOk(p) \/ DecideHold(p) \/ DecidedRelay(p) \/
            RequireHold(p) \/ RecLock(p) \/ RecAttempt(p) \/ RecStart(p)
            \/ RelLock(p)
     PROVE  SharesInv'
  BY <1>1
  DEF TypeOK, JobType, SharesInv, PermittedNow, SharingSteps, ReleaseSteps,
      DecideOk, DecideHold, DecidedRelay, RequireHold, RecLock, RecAttempt,
      RecStart, RelLock
<1>2. ASSUME NEW p \in Proc,
            RecInspect(p) \/ RecHold(p) \/ RecVerify(p)
     PROVE  SharesInv'
  BY <1>2, Zenon
  DEF TypeOK, JobType, SharesInv, PermittedNow, SharingSteps, ReleaseSteps,
      RecConclude, RecInspect, RecHold, RecVerify
<1>3. ASSUME NEW p \in Proc,
            RelInspect(p) \/ RelStart(p)
     PROVE  SharesInv'
  BY <1>3, Zenon
  DEF TypeOK, JobType, SharesInv, PermittedNow, SharingSteps, ReleaseSteps,
      RelInspect, RelStart
<1>4. ASSUME NEW p \in Proc,
            RelCall(p) \/ RelVerify(p)
     PROVE  SharesInv'
  BY <1>4, Zenon
  DEF TypeOK, JobType, SharesInv, PermittedNow, SharingSteps, ReleaseSteps,
      RelConclude, RelCall, RelVerify
<1>5. ASSUME NEW p \in Proc,
            Relay(p) \/ RecFinish(p) \/ RelFinish(p) \/ Leave(p)
     PROVE  SharesInv'
  BY <1>5
  DEF TypeOK, JobType, SharesInv, PermittedNow, SharingSteps, ReleaseSteps,
      Relay, RecFinish, RelFinish, Leave
<1>6. ASSUME NEW p \in Proc, NEW q \in Queue, StartDeliver(p, q)
     PROVE  SharesInv'
  BY <1>6, Zenon
  DEF TypeOK, JobType, SharesInv, PermittedNow, SharingSteps, ReleaseSteps,
      StartDeliver
<1>7. ASSUME NEW p \in Proc, NEW q \in Queue, StartReconcile(p, q)
     PROVE  SharesInv'
  BY <1>7, Zenon
  DEF TypeOK, JobType, SharesInv, PermittedNow, SharingSteps, ReleaseSteps,
      StartReconcile
<1>8. ASSUME NEW p \in Proc, NEW q \in Queue, StartRelease(p, q)
     PROVE  SharesInv'
  BY <1>8, Zenon
  DEF TypeOK, JobType, SharesInv, PermittedNow, SharingSteps, ReleaseSteps,
      StartRelease
<1>9. ASSUME NEW p \in Proc, NEW d \in Hosted, NEW to \in Scope, StartActivate(p, d, to)
     PROVE  SharesInv'
  BY <1>9, Zenon
  DEF TypeOK, JobType, SharesInv, PermittedNow, SharingSteps, ReleaseSteps,
      StartActivate
<1>10. ASSUME NEW p \in Proc, Register(p)
     PROVE  SharesInv'
  <2>1. \A o \in Proc : o # p /\ pc[o] \in SharingSteps =>
            registered'[current[o]] = registered[current[o]]
    BY <1>10, MailAssumption
    DEF Register, BindingInv, Bound, RowsInv, CallsInv, TypeOK, RowType,
        SharingSteps, ReleaseSteps, ActivateSteps
  <2>2. "decide" \notin SharingSteps
    BY Zenon DEF SharingSteps, ReleaseSteps
  <2>3. QED
    BY <1>10, <2>1, <2>2, Zenon DEF Register, TypeOK, JobType, SharesInv, PermittedNow
<1>11. ASSUME NEW p \in Proc, RelPolicy(p)
     PROVE  SharesInv'
  <2>1. current[p] \in Queue /\ registered[current[p]] \in Message
    BY <1>11, BindingStep, Zenon DEF RelPolicy, CallsInv, ReleaseSteps, SharingSteps,
                           ActivateSteps, BindingInv, Bound, TypeOK, JobType,
                           Previewed, LockedSteps, Releasable
  <2>2. PermittedNow(registered[current[p]]) = Recipients[registered[current[p]]]
    BY <1>11, <2>1, PreviewedIsPermitted, Zenon DEF RelPolicy
  <2>3. QED
    BY <1>11, <2>2, Zenon
    DEF RelPolicy, TypeOK, JobType, LockType, SharesInv, PermittedNow
<1>12. ASSUME NEW p \in Proc, ActBegin(p)
     PROVE  SharesInv'
  BY <1>12
  DEF TypeOK, JobType, SharesInv, PermittedNow, SharingSteps, ReleaseSteps,
      ActBegin
<1>13. ASSUME NEW p \in Proc, ActCommit(p)
     PROVE  SharesInv'
  BY <1>13, Zenon
  DEF TypeOK, JobType, SharesInv, PermittedNow, SharingSteps, ReleaseSteps,
      LockType, ActCommit
<1>14. ASSUME NEW p \in Proc, ActNext(p)
     PROVE  SharesInv'
  BY <1>14, Zenon
  DEF TypeOK, JobType, SharesInv, PermittedNow, SharingSteps, ReleaseSteps,
      ActNext
<1>15. ASSUME NEW s \in Source, ToggleSource(s)
     PROVE  SharesInv'
  BY <1>15, Zenon
  DEF TypeOK, JobType, SharesInv, PermittedNow, SharingSteps, ReleaseSteps,
      LockType, ToggleSource
<1>16. ASSUME NEW q \in Queue, NEW m \in Message, Arrive(q, m)
     PROVE  SharesInv'
  BY <1>16, Zenon
  DEF TypeOK, JobType, SharesInv, PermittedNow, SharingSteps, ReleaseSteps,
      Arrive
<1>17. ASSUME NEW q \in Queue, Remove(q)
     PROVE  SharesInv'
  BY <1>17, Zenon
  DEF TypeOK, JobType, SharesInv, PermittedNow, SharingSteps, ReleaseSteps,
      Remove
<1>18. ASSUME NEW q \in Queue, LateCommand(q)
     PROVE  SharesInv'
  BY <1>18, Zenon
  DEF TypeOK, JobType, SharesInv, PermittedNow, SharingSteps, ReleaseSteps,
      LateCommand
<1>19. QED
  BY <1>1, <1>2, <1>3, <1>4, <1>5, <1>6, <1>7, <1>8, <1>9, <1>10, <1>11,
     <1>12, <1>13, <1>14, <1>15, <1>16, <1>17, <1>18, LeaveCases,
     DecidedCases, QueueAssumption, Zenon
  DEF Next, Start, Work, Deliver, Decide, Reconcile, Release, Activate,
      Environment

\* What a delivery attempt decided ok it has seen permitted.
LEMMA AttemptsStep ==
    ASSUME TypeOK, CallsInv, BindingInv, AttemptsInv, Next
    PROVE  AttemptsInv'
<1>1. ASSUME NEW p \in Proc,
            DecideHold(p) \/ RequireHold(p) \/ RecLock(p) \/
            RecAttempt(p) \/ RecStart(p) \/ RelLock(p) \/ RelPolicy(p)
            \/ RelInspect(p) \/ RelStart(p) \/ ActBegin(p)
     PROVE  AttemptsInv'
  BY <1>1, ZenonT(30)
  DEF TypeOK, JobType, AttemptsInv, PermittedNow, DecideHold, RequireHold,
      RecLock, RecAttempt, RecStart, RelLock, RelPolicy, RelInspect, RelStart,
      ActBegin
<1>2. ASSUME NEW p \in Proc,
            RecInspect(p) \/ RecHold(p) \/ RecVerify(p)
     PROVE  AttemptsInv'
  BY <1>2, Zenon
  DEF TypeOK, JobType, AttemptsInv, PermittedNow, RecConclude, RecInspect,
      RecHold, RecVerify
<1>3. ASSUME NEW p \in Proc,
            RelCall(p) \/ RelVerify(p)
     PROVE  AttemptsInv'
  BY <1>3, Zenon
  DEF TypeOK, JobType, AttemptsInv, PermittedNow, RelConclude, RelCall,
      RelVerify
<1>4. ASSUME NEW p \in Proc,
            Relay(p) \/ RecFinish(p) \/ RelFinish(p) \/ Leave(p)
     PROVE  AttemptsInv'
  BY <1>4
  DEF TypeOK, JobType, AttemptsInv, PermittedNow, WorkType, Relay, RecFinish,
      RelFinish, Leave
<1>5. ASSUME NEW p \in Proc, NEW q \in Queue, StartDeliver(p, q)
     PROVE  AttemptsInv'
  BY <1>5, Zenon
  DEF TypeOK, JobType, AttemptsInv, PermittedNow, WorkType, StartDeliver
<1>6. ASSUME NEW p \in Proc, NEW q \in Queue, StartReconcile(p, q)
     PROVE  AttemptsInv'
  BY <1>6, Zenon
  DEF TypeOK, JobType, AttemptsInv, PermittedNow, StartReconcile
<1>7. ASSUME NEW p \in Proc, NEW q \in Queue, StartRelease(p, q)
     PROVE  AttemptsInv'
  BY <1>7, Zenon
  DEF TypeOK, JobType, AttemptsInv, PermittedNow, StartRelease
<1>8. ASSUME NEW p \in Proc, NEW d \in Hosted, NEW to \in Scope, StartActivate(p, d, to)
     PROVE  AttemptsInv'
  BY <1>8, Zenon
  DEF TypeOK, JobType, AttemptsInv, PermittedNow, StartActivate
<1>9. ASSUME NEW p \in Proc, Register(p)
     PROVE  AttemptsInv'
  BY <1>9, Zenon
  DEF TypeOK, JobType, AttemptsInv, PermittedNow, BindingInv, Bound, Register
<1>10. ASSUME NEW p \in Proc, DecideOk(p)
     PROVE  AttemptsInv'
  <2>1. PICK r \in undecided[p] :
            /\ VerdictOn(p, r).action = "ok"
            /\ undecided' = [undecided EXCEPT ![p] = @ \ {r}]
    BY <1>10, Zenon DEF DecideOk
  <2>2. /\ registered[current[p]] = subject[p]
        /\ subject[p] \in Message
        /\ r \in Recipients[subject[p]]
    BY <1>10, Zenon DEF DecideOk, BindingInv, Bound
  <2>3. /\ Sources[subject[p]] \subseteq enabled
        /\ Judge("transport", r, GoverningNow(subject[p])).action = "ok"
    BY <2>1, <2>2, Zenon DEF VerdictOn, Unavailable, Verdict
  <2>4. r \in PermittedNow(subject[p])
    BY <2>2, <2>3, OkIsPermitted, Zenon
  <2>5. QED
    BY <1>10, <2>1, <2>4
    DEF DecideOk, TypeOK, JobType, WorkType, AttemptsInv, PermittedNow
<1>11. ASSUME NEW p \in Proc, DecidedRelay(p)
     PROVE  AttemptsInv'
  BY <1>11, Zenon
  DEF TypeOK, JobType, AttemptsInv, PermittedNow, DecidedRelay
<1>12. ASSUME NEW p \in Proc, ActCommit(p)
     PROVE  AttemptsInv'
  BY <1>12, Zenon
  DEF TypeOK, JobType, AttemptsInv, PermittedNow, Observe, WorkType, ActCommit
<1>13. ASSUME NEW p \in Proc, ActNext(p)
     PROVE  AttemptsInv'
  BY <1>13
  DEF TypeOK, JobType, AttemptsInv, PermittedNow, WorkType, CallsInv,
      ActivateSteps, ActNext
<1>14. ASSUME NEW s \in Source, ToggleSource(s)
     PROVE  AttemptsInv'
  BY <1>14, Zenon
  DEF TypeOK, JobType, AttemptsInv, PermittedNow, Observe, WorkType,
      ToggleSource
<1>15. ASSUME NEW q \in Queue, NEW m \in Message, Arrive(q, m)
     PROVE  AttemptsInv'
  BY <1>15, Zenon
  DEF TypeOK, JobType, AttemptsInv, PermittedNow, Arrive
<1>16. ASSUME NEW q \in Queue, Remove(q)
     PROVE  AttemptsInv'
  BY <1>16, Zenon
  DEF TypeOK, JobType, AttemptsInv, PermittedNow, Remove
<1>17. ASSUME NEW q \in Queue, LateCommand(q)
     PROVE  AttemptsInv'
  BY <1>17, Zenon
  DEF TypeOK, JobType, AttemptsInv, PermittedNow, LateCommand
<1>18. QED
  BY <1>1, <1>2, <1>3, <1>4, <1>5, <1>6, <1>7, <1>8, <1>9, <1>10, <1>11,
     <1>12, <1>13, <1>14, <1>15, <1>16, <1>17, LeaveCases, DecidedCases,
     QueueAssumption, Zenon
  DEF Next, Start, Work, Deliver, Decide, Reconcile, Release, Activate,
      Environment

\* Two processes inside the locked section work on different queue IDs.
LEMMA LockedApart ==
    ASSUME CallsInv, LocksInv, NEW p \in Proc, NEW o \in Proc, o # p,
           pc[p] \in LockedSteps, pc[o] \in LockedSteps
    PROVE  /\ current[p] \in Queue /\ current[o] \in Queue
           /\ current[o] # current[p]
BY DEF CallsInv, LocksInv, LockedSteps, ReconcileSteps, ReleaseSteps, ActivateSteps

\* The end of an attempt records its outcome, unless the record has changed.
LEMMA RecFinishMoves ==
    ASSUME RowType, JobType, WorkType, NEW p \in Proc, RecFinish(p)
    PROVE  /\ UNCHANGED <<place, message, late, registered>>
           /\ pc[p] = "rec_finish"
           /\ pc'[p] \in {"idle", "act_next"}
           /\ \A q \in Queue : \/ holdState'[q] = holdState[q]
                               \/ q = current[p] /\ holdState'[q] = outcome[p]
           /\ \A o \in Proc : o # p => /\ pc'[o] = pc[o]
                                       /\ current'[o] = current[o]
                                       /\ outcome'[o] = outcome[o]
BY DEF RecFinish, RowType, JobType, WorkType

\* Inside an attempt only RequireHold changes the record.
LEMMA RecordsStep ==
    ASSUME TypeOK, RowsInv, CallsInv, BindingInv, LocksInv, RecordsInv, Next
    PROVE  RecordsInv'
<1>1. ASSUME NEW p \in Proc,
            DecideOk(p) \/ DecideHold(p) \/ DecidedRelay(p) \/
            RelLock(p) \/ RelPolicy(p)
     PROVE  RecordsInv'
  BY <1>1
  DEF TypeOK, JobType, RowType, WorkType, RecordsInv, HoldingSteps,
      UnholdingSteps, DecideOk, DecideHold, DecidedRelay, RelLock, RelPolicy
<1>2. ASSUME NEW p \in Proc,
            RecLock(p) \/ RecAttempt(p) \/ RelInspect(p) \/ ActBegin(p)
     PROVE  RecordsInv'
  BY <1>2
  DEF TypeOK, JobType, RowType, WorkType, RecordsInv, HoldingSteps,
      UnholdingSteps, RecLock, RecAttempt, RelInspect, ActBegin
<1>3. ASSUME NEW p \in Proc,
            RecInspect(p) \/ RecHold(p) \/ RecVerify(p)
     PROVE  RecordsInv'
  BY <1>3
  DEF TypeOK, JobType, RowType, WorkType, RecordsInv, HoldingSteps,
      UnholdingSteps, RecConclude, RecInspect, RecHold, RecVerify
<1>4. ASSUME NEW p \in Proc,
            RelCall(p) \/ RelVerify(p)
     PROVE  RecordsInv'
  BY <1>4
  DEF TypeOK, JobType, RowType, WorkType, RecordsInv, HoldingSteps,
      UnholdingSteps, RelConclude, RelCall, RelVerify
<1>5. ASSUME NEW p \in Proc,
            Relay(p) \/ Leave(p)
     PROVE  RecordsInv'
  BY <1>5
  DEF TypeOK, JobType, RowType, WorkType, RecordsInv, HoldingSteps,
      UnholdingSteps, Relay, Leave
<1>6. ASSUME NEW p \in Proc, NEW q \in Queue, StartDeliver(p, q)
     PROVE  RecordsInv'
  BY <1>6
  DEF TypeOK, JobType, RowType, WorkType, RecordsInv, HoldingSteps,
      UnholdingSteps, StartDeliver
<1>7. ASSUME NEW p \in Proc, NEW q \in Queue, StartReconcile(p, q)
     PROVE  RecordsInv'
  BY <1>7, Zenon
  DEF TypeOK, JobType, RowType, WorkType, RecordsInv, HoldingSteps,
      UnholdingSteps, StartReconcile
<1>8. ASSUME NEW p \in Proc, NEW q \in Queue, StartRelease(p, q)
     PROVE  RecordsInv'
  BY <1>8, Zenon
  DEF TypeOK, JobType, RowType, WorkType, RecordsInv, HoldingSteps,
      UnholdingSteps, StartRelease
<1>9. ASSUME NEW p \in Proc, NEW d \in Hosted, NEW to \in Scope, StartActivate(p, d, to)
     PROVE  RecordsInv'
  BY <1>9, Zenon
  DEF TypeOK, JobType, RowType, WorkType, RecordsInv, HoldingSteps,
      UnholdingSteps, StartActivate
<1>10. ASSUME NEW p \in Proc, Register(p)
     PROVE  RecordsInv'
  <2>1. \A q \in Queue : holdState[q] # "absent" => holdState'[q] = holdState[q]
    BY <1>10, Zenon DEF Register, TypeOK, RowType
  <2>2. \A o \in Proc :
            pc[o] \in HoldingSteps \cup UnholdingSteps => current[o] \in Queue
    BY Zenon DEF CallsInv, HoldingSteps, UnholdingSteps, ActivateSteps
  <2>3. pc' = [pc EXCEPT ![p] = "decide"] /\ UNCHANGED <<current, outcome>>
    BY <1>10, Zenon DEF Register
  <2>4. "decide" \notin HoldingSteps \cup UnholdingSteps
    BY Zenon DEF HoldingSteps, UnholdingSteps
  <2>5. QED
    BY <2>1, <2>2, <2>3, <2>4, Zenon DEF RecordsInv, TypeOK, JobType
<1>11. ASSUME NEW p \in Proc, RequireHold(p)
     PROVE  RecordsInv'
  BY <1>11
  DEF TypeOK, JobType, RowType, WorkType, RecordsInv, HoldingSteps,
      UnholdingSteps, Reconcilable, Releasable, CallsInv, LocksInv,
      LockedSteps, ReconcileSteps, ReleaseSteps, ActivateSteps, RequireHold
<1>12. ASSUME NEW p \in Proc, RecStart(p)
     PROVE  RecordsInv'
  BY <1>12
  DEF TypeOK, JobType, RowType, WorkType, RecordsInv, HoldingSteps,
      UnholdingSteps, Reconcilable, Releasable, CallsInv, LocksInv,
      LockedSteps, ReconcileSteps, ReleaseSteps, ActivateSteps, RecStart
<1>13. ASSUME NEW p \in Proc, RecFinish(p)
     PROVE  RecordsInv'
  <2>1. /\ pc[p] = "rec_finish"
        /\ pc'[p] \in {"idle", "act_next"}
        /\ \A q \in Queue : q # current[p] => holdState'[q] = holdState[q]
        /\ \A o \in Proc : o # p => /\ pc'[o] = pc[o]
                                    /\ current'[o] = current[o]
                                    /\ outcome'[o] = outcome[o]
    BY <1>13, RecFinishMoves, Zenon DEF TypeOK
  <2>2. ASSUME NEW o \in Proc, o # p, pc[o] \in HoldingSteps \cup UnholdingSteps
        PROVE  current[o] \in Queue /\ current[o] # current[p]
    <3>1. pc[p] \in LockedSteps /\ pc[o] \in LockedSteps
      BY <2>1, <2>2, Zenon DEF HoldingSteps, UnholdingSteps, LockedSteps, ReconcileSteps,
                        ReleaseSteps
    <3>2. QED
      BY <2>2, <3>1, LockedApart, Zenon
  <2>3. pc'[p] \notin HoldingSteps \cup UnholdingSteps
    BY <2>1, Zenon DEF HoldingSteps, UnholdingSteps
  <2>4. \A o \in Proc :
            o # p /\ pc[o] \in HoldingSteps \cup UnholdingSteps =>
                holdState'[current'[o]] = holdState[current[o]]
    BY <2>1, <2>2, Zenon
  <2>5. "rec_finish" \in HoldingSteps /\ "rel_finish" \in UnholdingSteps
    BY Zenon DEF HoldingSteps, UnholdingSteps
  <2>6. QED
    BY <2>1, <2>3, <2>4, <2>5, ZenonT(30) DEF RecordsInv
<1>14. ASSUME NEW p \in Proc, RelStart(p)
     PROVE  RecordsInv'
  BY <1>14
  DEF TypeOK, JobType, RowType, WorkType, RecordsInv, HoldingSteps,
      UnholdingSteps, Reconcilable, Releasable, CallsInv, LocksInv,
      LockedSteps, ReconcileSteps, ReleaseSteps, ActivateSteps, RelStart
<1>15. ASSUME NEW p \in Proc, RelFinish(p)
     PROVE  RecordsInv'
  <2>1. /\ pc[p] = "rel_finish"
        /\ pc'[p] \in {"idle", "act_next"}
        /\ \A q \in Queue : q # current[p] => holdState'[q] = holdState[q]
        /\ \A o \in Proc : o # p => /\ pc'[o] = pc[o]
                                    /\ current'[o] = current[o]
                                    /\ outcome'[o] = outcome[o]
    BY <1>15, Zenon DEF RelFinish, TypeOK, RowType, JobType, WorkType
  <2>2. ASSUME NEW o \in Proc, o # p, pc[o] \in HoldingSteps \cup UnholdingSteps
        PROVE  current[o] \in Queue /\ current[o] # current[p]
    <3>1. pc[p] \in LockedSteps /\ pc[o] \in LockedSteps
      BY <2>1, <2>2, Zenon DEF HoldingSteps, UnholdingSteps, LockedSteps, ReconcileSteps,
                        ReleaseSteps
    <3>2. QED
      BY <2>2, <3>1, LockedApart, Zenon
  <2>3. pc'[p] \notin HoldingSteps \cup UnholdingSteps
    BY <2>1, Zenon DEF HoldingSteps, UnholdingSteps
  <2>4. \A o \in Proc :
            o # p /\ pc[o] \in HoldingSteps \cup UnholdingSteps =>
                holdState'[current'[o]] = holdState[current[o]]
    BY <2>1, <2>2, Zenon
  <2>5. "rec_finish" \in HoldingSteps /\ "rel_finish" \in UnholdingSteps
    BY Zenon DEF HoldingSteps, UnholdingSteps
  <2>6. QED
    BY <2>1, <2>3, <2>4, <2>5, ZenonT(30) DEF RecordsInv
<1>16. ASSUME NEW p \in Proc, ActCommit(p)
     PROVE  RecordsInv'
  BY <1>16, ZenonT(30)
  DEF TypeOK, JobType, RowType, WorkType, RecordsInv, HoldingSteps,
      UnholdingSteps, ActCommit
<1>17. ASSUME NEW p \in Proc, ActNext(p)
     PROVE  RecordsInv'
  BY <1>17
  DEF TypeOK, JobType, RowType, WorkType, RecordsInv, HoldingSteps,
      UnholdingSteps, ActNext
<1>18. ASSUME NEW s \in Source, ToggleSource(s)
     PROVE  RecordsInv'
  BY <1>18, Zenon
  DEF TypeOK, JobType, RowType, WorkType, RecordsInv, HoldingSteps,
      UnholdingSteps, ToggleSource
<1>19. ASSUME NEW q \in Queue, NEW m \in Message, Arrive(q, m)
     PROVE  RecordsInv'
  BY <1>19, Zenon
  DEF TypeOK, JobType, RowType, WorkType, RecordsInv, HoldingSteps,
      UnholdingSteps, Arrive
<1>20. ASSUME NEW q \in Queue, Remove(q)
     PROVE  RecordsInv'
  BY <1>20, Zenon
  DEF TypeOK, JobType, RowType, WorkType, RecordsInv, HoldingSteps,
      UnholdingSteps, Remove
<1>21. ASSUME NEW q \in Queue, LateCommand(q)
     PROVE  RecordsInv'
  BY <1>21, Zenon
  DEF TypeOK, JobType, RowType, WorkType, RecordsInv, HoldingSteps,
      UnholdingSteps, LateCommand
<1>22. QED
  BY <1>1, <1>2, <1>3, <1>4, <1>5, <1>6, <1>7, <1>8, <1>9, <1>10, <1>11,
     <1>12, <1>13, <1>14, <1>15, <1>16, <1>17, <1>18, <1>19, <1>20, <1>21,
     LeaveCases, DecidedCases, QueueAssumption, Zenon
  DEF Next, Start, Work, Deliver, Decide, Reconcile, Release, Activate,
      Environment


\* Held and released records: the lock keeps Postfix as the holder saw it.
LEMMA TruthStep ==
    ASSUME TypeOK, RowsInv, CallsInv, BindingInv, LocksInv, RecordsInv,
           TruthInv, Next
    PROVE  TruthInv'
<1>1. ASSUME NEW p \in Proc, NEW q \in Queue, StartDeliver(p, q)
     PROVE  TruthInv'
  BY <1>1
  DEF TypeOK, JobType, RowType, PostfixType, WorkType, TruthInv, TrueRecord,
      Observed, Matches, Held, StartDeliver
<1>2. ASSUME NEW p \in Proc, NEW q \in Queue, StartReconcile(p, q)
     PROVE  TruthInv'
  BY <1>2
  DEF TypeOK, JobType, RowType, PostfixType, WorkType, TruthInv, TrueRecord,
      Observed, Matches, Held, StartReconcile
<1>3. ASSUME NEW p \in Proc, NEW q \in Queue, StartRelease(p, q)
     PROVE  TruthInv'
  BY <1>3
  DEF TypeOK, JobType, RowType, PostfixType, WorkType, TruthInv, TrueRecord,
      Observed, Matches, Held, StartRelease
<1>4. ASSUME NEW p \in Proc, NEW d \in Hosted, NEW to \in Scope, StartActivate(p, d, to)
     PROVE  TruthInv'
  BY <1>4, Zenon
  DEF TypeOK, JobType, RowType, PostfixType, WorkType, TruthInv, TrueRecord,
      Observed, Matches, Held, StartActivate
<1>5. ASSUME NEW p \in Proc, Register(p)
     PROVE  TruthInv'
  <2>1. /\ UNCHANGED <<place, message, late, current, outcome>>
        /\ current[p] \in Queue
        /\ pc' = [pc EXCEPT ![p] = "decide"]
        /\ \A q \in Queue : \/ /\ holdState'[q] = holdState[q]
                               /\ registered'[q] = registered[q]
                            \/ holdState[q] = "absent" /\ holdState'[q] = "pending"
    <3>1. current[p] \in Queue
      BY <1>5, Zenon DEF Register, CallsInv, ActivateSteps
    <3>2. QED
      BY <1>5, <3>1, Zenon DEF Register, TypeOK, RowType
  <2>2. ASSUME NEW q \in Queue, TrueRecord(q) PROVE TrueRecord(q)'
    BY <2>1, <2>2, Zenon DEF TrueRecord, Matches, Held
  <2>3. ASSUME NEW o \in Proc, Observed(o) PROVE Observed(o)'
    <3>1. CASE pc'[o] \in {"rec_finish", "rel_finish", "rel_start", "rel_call"}
      <4>1. o # p /\ pc[o] = pc'[o] /\ current[o] \in Queue
        BY <2>1, <3>1, Zenon DEF TypeOK, JobType, CallsInv, ActivateSteps
      <4>2. holdState[current[o]] # "absent"
        <5>1. CASE pc[o] = "rec_finish"
          BY <5>1, Zenon DEF RecordsInv, HoldingSteps
        <5>2. CASE pc[o] \in {"rel_finish", "rel_start", "rel_call"}
          <6>1. pc[o] \in SharingSteps
            BY <5>2, Zenon DEF SharingSteps, ReleaseSteps
          <6>2. QED
            BY <4>1, <6>1, QueueAssumption, MailAssumption, Zenon
            DEF BindingInv, Bound, RowsInv
        <5>3. QED
          BY <3>1, <4>1, <5>1, <5>2, Zenon
      <4>3. QED
        BY <2>1, <2>3, <4>1, <4>2, Zenon DEF Observed, Matches, Held
    <3>2. CASE pc'[o] \notin {"rec_finish", "rel_finish", "rel_start", "rel_call"}
      BY <3>2, Zenon DEF Observed
    <3>3. QED
      BY <3>1, <3>2, Zenon
  <2>4. QED
    BY <2>1, <2>2, <2>3, Zenon DEF TruthInv
<1>6. ASSUME NEW p \in Proc, Relay(p)
     PROVE  TruthInv'
  <2>1. /\ UNCHANGED <<holdState, registered, late>>
        /\ \A q \in Queue : \/ place'[q] = place[q] /\ message'[q] = message[q]
                            \/ place'[q] = "none"
        /\ pc'[p] = "idle"
        /\ \A o \in Proc : o # p => /\ pc'[o] = pc[o]
                                    /\ current'[o] = current[o]
                                    /\ outcome'[o] = outcome[o]
    BY <1>6, Zenon DEF Relay, TypeOK, PostfixType, JobType, WorkType
  <2>2. ASSUME NEW q \in Queue, TrueRecord(q) PROVE TrueRecord(q)'
    BY <2>1, <2>2, Zenon DEF TrueRecord, Matches, Held
  <2>3. ASSUME NEW o \in Proc, Observed(o) PROVE Observed(o)'
    <3>1. CASE o = p \/ current[o] \notin Queue
      BY <2>1, <3>1, Zenon DEF Observed, CallsInv, ReconcileSteps, ReleaseSteps, ActivateSteps
    <3>2. CASE o # p /\ current[o] \in Queue
      BY <2>1, <2>3, <3>2, Zenon DEF Observed, Matches, Held
    <3>3. QED
      BY <3>1, <3>2, Zenon
  <2>4. QED
    BY <2>1, <2>2, <2>3, Zenon DEF TruthInv
<1>7. ASSUME NEW p \in Proc, DecideOk(p)
     PROVE  TruthInv'
  BY <1>7, Zenon
  DEF TypeOK, JobType, RowType, PostfixType, WorkType, TruthInv, TrueRecord,
      Observed, Matches, Held, DecideOk
<1>8. ASSUME NEW p \in Proc, DecideHold(p)
     PROVE  TruthInv'
  BY <1>8, Zenon
  DEF TypeOK, JobType, RowType, PostfixType, WorkType, TruthInv, TrueRecord,
      Observed, Matches, Held, DecideHold
<1>9. ASSUME NEW p \in Proc, DecidedRelay(p)
     PROVE  TruthInv'
  BY <1>9, ZenonT(30)
  DEF TypeOK, JobType, RowType, PostfixType, WorkType, TruthInv, TrueRecord,
      Observed, Matches, Held, DecidedRelay
<1>10. ASSUME NEW p \in Proc, RequireHold(p)
     PROVE  TruthInv'
  BY <1>10
  DEF TypeOK, JobType, RowType, PostfixType, WorkType, TruthInv, TrueRecord,
      Observed, Matches, Held, RowsInv, CallsInv, LocksInv, RecordsInv,
      LockedSteps, HoldingSteps, UnholdingSteps, ReconcileSteps, ReleaseSteps,
      ActivateSteps, RequireHold
<1>11. ASSUME NEW p \in Proc, RecLock(p)
     PROVE  TruthInv'
  BY <1>11, Zenon
  DEF TypeOK, JobType, RowType, PostfixType, WorkType, TruthInv, TrueRecord,
      Observed, Matches, Held, RecLock
<1>12. ASSUME NEW p \in Proc, RecAttempt(p)
     PROVE  TruthInv'
  BY <1>12, Zenon
  DEF TypeOK, JobType, RowType, PostfixType, WorkType, TruthInv, TrueRecord,
      Observed, Matches, Held, RecAttempt
<1>13. ASSUME NEW p \in Proc, RecStart(p)
     PROVE  TruthInv'
  BY <1>13
  DEF TypeOK, JobType, RowType, PostfixType, WorkType, TruthInv, TrueRecord,
      Observed, Matches, Held, RowsInv, CallsInv, LocksInv, RecordsInv,
      LockedSteps, HoldingSteps, UnholdingSteps, ReconcileSteps, ReleaseSteps,
      ActivateSteps, RecStart
<1>14. ASSUME NEW p \in Proc, RecInspect(p)
     PROVE  TruthInv'
  BY <1>14
  DEF TypeOK, JobType, RowType, PostfixType, WorkType, TruthInv, TrueRecord,
      Observed, Matches, Held, RecConclude, RecInspect
<1>15. ASSUME NEW p \in Proc, RecHold(p)
     PROVE  TruthInv'
  <2>1. current[p] \in Queue /\ pc[p] \in LockedSteps
    BY <1>15, Zenon DEF RecHold, CallsInv, LockedSteps, ReconcileSteps, ReleaseSteps,
              ActivateSteps
  <2>2. holdState[current[p]] \notin {"held", "released"}
    BY <1>15, Zenon DEF RecHold, RecordsInv, HoldingSteps, UnholdingSteps
  <2>3. /\ UNCHANGED <<message, holdState, registered, current>>
        /\ \A q \in Queue : q # current[p] => place'[q] = place[q]
        /\ ~LateCommands => late' = late
        /\ \A o \in Proc : o # p => pc'[o] = pc[o] /\ outcome'[o] = outcome[o]
        /\ pc'[p] = "rec_verify" \/
           (pc'[p] = "rec_finish" /\ outcome'[p] = "reconciliation_error")
    BY <1>15, <2>1, ZenonT(30) DEF RecHold, HoldEffect, RecConclude, TypeOK, JobType, WorkType,
                    PostfixType
  <2>4. ASSUME NEW q \in Queue, TrueRecord(q) PROVE TrueRecord(q)'
    BY <2>2, <2>3, <2>4, Zenon DEF TrueRecord, Matches, Held
  <2>5. ASSUME NEW o \in Proc, Observed(o) PROVE Observed(o)'
    <3>1. CASE o = p
      BY <2>3, <3>1, Zenon DEF Observed
    <3>2. CASE o # p /\ pc[o] \in {"rec_finish", "rel_finish", "rel_start", "rel_call"}
      <4>1. current[o] \in Queue /\ current[o] # current[p]
        BY <2>1, <3>2 DEF CallsInv, LocksInv, LockedSteps, ReconcileSteps,
                          ReleaseSteps, ActivateSteps
      <4>2. QED
        BY <2>3, <2>5, <3>2, <4>1, Zenon DEF Observed, Matches, Held
    <3>3. CASE o # p /\ pc[o] \notin {"rec_finish", "rel_finish", "rel_start", "rel_call"}
      BY <2>3, <3>3, Zenon DEF Observed
    <3>4. QED
      BY <3>1, <3>2, <3>3, Zenon
  <2>6. QED
    BY <2>3, <2>4, <2>5, Zenon DEF TruthInv
<1>16. ASSUME NEW p \in Proc, RecVerify(p)
     PROVE  TruthInv'
  BY <1>16
  DEF TypeOK, JobType, RowType, PostfixType, WorkType, TruthInv, TrueRecord,
      Observed, Matches, Held, RecConclude, RecVerify
<1>17. ASSUME NEW p \in Proc, RecFinish(p)
     PROVE  TruthInv'
  <2>1. /\ UNCHANGED <<place, message, late, registered>>
        /\ pc[p] = "rec_finish"
        /\ pc'[p] \in {"idle", "act_next"}
        /\ \A q \in Queue : \/ holdState'[q] = holdState[q]
                            \/ q = current[p] /\ holdState'[q] = outcome[p]
        /\ \A o \in Proc : o # p => /\ pc'[o] = pc[o]
                                    /\ current'[o] = current[o]
                                    /\ outcome'[o] = outcome[o]
    BY <1>17, RecFinishMoves, Zenon DEF TypeOK
  <2>2. ASSUME NEW q \in Queue, TrueRecord(q), Observed(p) PROVE TrueRecord(q)'
    <3>1. outcome[p] \in {"held", "reconciliation_error"}
      BY <2>1, Zenon DEF RecordsInv
    <3>2. QED
      BY <2>1, <2>2, <3>1, Zenon DEF TrueRecord, Observed, Matches, Held
  <2>3. ASSUME NEW o \in Proc, Observed(o) PROVE Observed(o)'
    BY <2>1, <2>3, Zenon DEF Observed, Matches, Held
  <2>4. QED
    BY <2>1, <2>2, <2>3, Zenon DEF TruthInv
<1>18. ASSUME NEW p \in Proc, RelLock(p)
     PROVE  TruthInv'
  BY <1>18, Zenon
  DEF TypeOK, JobType, RowType, PostfixType, WorkType, TruthInv, TrueRecord,
      Observed, Matches, Held, RelLock
<1>19. ASSUME NEW p \in Proc, RelPolicy(p)
     PROVE  TruthInv'
  BY <1>19
  DEF TypeOK, JobType, RowType, PostfixType, WorkType, TruthInv, TrueRecord,
      Observed, Matches, Held, RowsInv, CallsInv, LocksInv, RecordsInv,
      LockedSteps, HoldingSteps, UnholdingSteps, ReconcileSteps, ReleaseSteps,
      ActivateSteps, RelPolicy
<1>20. ASSUME NEW p \in Proc, RelInspect(p)
     PROVE  TruthInv'
  BY <1>20, Zenon
  DEF TypeOK, JobType, RowType, PostfixType, WorkType, TruthInv, TrueRecord,
      Observed, Matches, Held, RelInspect
<1>21. ASSUME NEW p \in Proc, RelStart(p)
     PROVE  TruthInv'
  BY <1>21
  DEF TypeOK, JobType, RowType, PostfixType, WorkType, TruthInv, TrueRecord,
      Observed, Matches, Held, RowsInv, CallsInv, LocksInv, RecordsInv,
      LockedSteps, HoldingSteps, UnholdingSteps, ReconcileSteps, ReleaseSteps,
      ActivateSteps, RelStart
<1>22. ASSUME NEW p \in Proc, RelCall(p)
     PROVE  TruthInv'
  <2>1. current[p] \in Queue /\ pc[p] \in LockedSteps
    BY <1>22, Zenon DEF RelCall, CallsInv, LockedSteps, ReconcileSteps, ReleaseSteps,
              ActivateSteps
  <2>2. holdState[current[p]] \notin {"held", "released"}
    BY <1>22, Zenon DEF RelCall, RecordsInv, HoldingSteps, UnholdingSteps
  <2>3. /\ UNCHANGED <<message, holdState, registered, current>>
        /\ \A q \in Queue : q # current[p] => place'[q] = place[q]
        /\ ~LateCommands => late' = late
        /\ \A o \in Proc : o # p => pc'[o] = pc[o] /\ outcome'[o] = outcome[o]
        /\ pc'[p] = "rel_verify" \/
           (pc'[p] = "rel_finish" /\ outcome'[p] = "release_error")
    BY <1>22, <2>1 DEF RelCall, ReleaseEffect, RelConclude, TypeOK, JobType, WorkType,
                    PostfixType
  <2>4. ASSUME NEW q \in Queue, TrueRecord(q) PROVE TrueRecord(q)'
    BY <2>2, <2>3, <2>4, Zenon DEF TrueRecord, Matches, Held
  <2>5. ASSUME NEW o \in Proc, Observed(o) PROVE Observed(o)'
    <3>1. CASE o = p
      BY <2>3, <3>1, Zenon DEF Observed
    <3>2. CASE o # p /\ pc[o] \in {"rec_finish", "rel_finish", "rel_start", "rel_call"}
      <4>1. current[o] \in Queue /\ current[o] # current[p]
        BY <2>1, <3>2 DEF CallsInv, LocksInv, LockedSteps, ReconcileSteps,
                          ReleaseSteps, ActivateSteps
      <4>2. QED
        BY <2>3, <2>5, <3>2, <4>1, Zenon DEF Observed, Matches, Held
    <3>3. CASE o # p /\ pc[o] \notin {"rec_finish", "rel_finish", "rel_start", "rel_call"}
      BY <2>3, <3>3, Zenon DEF Observed
    <3>4. QED
      BY <3>1, <3>2, <3>3
  <2>6. QED
    BY <2>3, <2>4, <2>5, Zenon DEF TruthInv
<1>23. ASSUME NEW p \in Proc, RelVerify(p)
     PROVE  TruthInv'
  BY <1>23
  DEF TypeOK, JobType, RowType, PostfixType, WorkType, TruthInv, TrueRecord,
      Observed, Matches, Held, RelConclude, RelVerify
<1>24. ASSUME NEW p \in Proc, RelFinish(p)
     PROVE  TruthInv'
  <2>1. /\ UNCHANGED <<place, message, late, registered>>
        /\ pc[p] = "rel_finish"
        /\ pc'[p] = "idle"
        /\ \A q \in Queue : \/ holdState'[q] = holdState[q]
                            \/ q = current[p] /\ holdState'[q] = outcome[p]
        /\ \A o \in Proc : o # p => /\ pc'[o] = pc[o]
                                    /\ current'[o] = current[o]
                                    /\ outcome'[o] = outcome[o]
    BY <1>24, Zenon DEF RelFinish, TypeOK, RowType, JobType, WorkType
  <2>2. ASSUME NEW q \in Queue, TrueRecord(q), Observed(p) PROVE TrueRecord(q)'
    <3>1. outcome[p] \in {"released", "release_error"}
      BY <2>1, Zenon DEF RecordsInv
    <3>2. QED
      BY <2>1, <2>2, <3>1, Zenon DEF TrueRecord, Observed, Matches, Held
  <2>3. ASSUME NEW o \in Proc, Observed(o) PROVE Observed(o)'
    BY <2>1, <2>3, Zenon DEF Observed, Matches, Held
  <2>4. QED
    BY <2>1, <2>2, <2>3, Zenon DEF TruthInv
<1>25. ASSUME NEW p \in Proc, ActBegin(p)
     PROVE  TruthInv'
  BY <1>25
  DEF TypeOK, JobType, RowType, PostfixType, WorkType, TruthInv, TrueRecord,
      Observed, Matches, Held, ActBegin
<1>26. ASSUME NEW p \in Proc, ActCommit(p)
     PROVE  TruthInv'
  BY <1>26, ZenonT(30)
  DEF TypeOK, JobType, RowType, PostfixType, WorkType, TruthInv, TrueRecord,
      Observed, Matches, Held, ActCommit
<1>27. ASSUME NEW p \in Proc, ActNext(p)
     PROVE  TruthInv'
  BY <1>27
  DEF TypeOK, JobType, RowType, PostfixType, WorkType, TruthInv, TrueRecord,
      Observed, Matches, Held, ActNext
<1>28. ASSUME NEW p \in Proc, Leave(p)
     PROVE  TruthInv'
  <2>1. UNCHANGED <<place, message, late, holdState, registered>>
    BY <1>28, Zenon DEF Leave
  <2>2. \A q \in Queue : TrueRecord(q)' <=> TrueRecord(q)
    BY <2>1, Zenon DEF TrueRecord, Matches, Held
  <2>3. ASSUME NEW o \in Proc, Observed(o) PROVE Observed(o)'
    <3>1. CASE o = p
      <4>1. pc'[p] \in {"idle", "act_next"}
        BY <1>28, Zenon DEF Leave, TypeOK, JobType
      <4>2. QED
        BY <3>1, <4>1, Zenon DEF Observed
    <3>2. CASE o # p
      <4>1. /\ pc'[o] = pc[o]
            /\ current'[o] = current[o]
            /\ outcome'[o] = outcome[o]
        BY <1>28, <3>2 DEF Leave, TypeOK, JobType, WorkType
      <4>2. QED
        BY <2>1, <2>3, <4>1, Zenon DEF Observed, Matches, Held
    <3>3. QED
      BY <3>1, <3>2, Zenon
  <2>4. QED
    BY <2>1, <2>2, <2>3, Zenon DEF TruthInv
<1>29. ASSUME NEW s \in Source, ToggleSource(s)
     PROVE  TruthInv'
  BY <1>29, Zenon
  DEF TypeOK, JobType, RowType, PostfixType, WorkType, TruthInv, TrueRecord,
      Observed, Matches, Held, ToggleSource
<1>30. ASSUME NEW q \in Queue, NEW m \in Message, Arrive(q, m)
     PROVE  TruthInv'
  BY <1>30
  DEF TypeOK, JobType, RowType, PostfixType, WorkType, TruthInv, TrueRecord,
      Observed, Matches, Held, RowsInv, CallsInv, LocksInv, RecordsInv,
      LockedSteps, HoldingSteps, UnholdingSteps, ReconcileSteps, ReleaseSteps,
      ActivateSteps, Arrive
<1>31. ASSUME NEW q \in Queue, Remove(q)
     PROVE  TruthInv'
  BY <1>31
  DEF TypeOK, JobType, RowType, PostfixType, WorkType, TruthInv, TrueRecord,
      Observed, Matches, Held, RowsInv, CallsInv, LocksInv, RecordsInv,
      LockedSteps, HoldingSteps, UnholdingSteps, ReconcileSteps, ReleaseSteps,
      ActivateSteps, Remove
<1>32. ASSUME NEW q \in Queue, LateCommand(q)
     PROVE  TruthInv'
  BY <1>32, Zenon
  DEF TypeOK, JobType, RowType, PostfixType, WorkType, TruthInv, TrueRecord,
      Observed, Matches, Held, LateCommand
<1>33. QED
  BY <1>1, <1>2, <1>3, <1>4, <1>5, <1>6, <1>7, <1>8, <1>9, <1>10, <1>11,
     <1>12, <1>13, <1>14, <1>15, <1>16, <1>17, <1>18, <1>19, <1>20, <1>21,
     <1>22, <1>23, <1>24, <1>25, <1>26, <1>27, <1>28, <1>29, <1>30, <1>31,
     <1>32, LeaveCases, DecidedCases, QueueAssumption, Zenon
  DEF Next, Start, Work, Deliver, Decide, Reconcile, Release, Activate,
      Environment


-----------------------------------------------------------------------------
(* The invariant *)

\* An empty queue satisfies the invariant.
LEMMA InitInv == Init => Inv
<1> SUFFICES ASSUME Init PROVE Inv
  BY Zenon
<1> USE MailAssumption DEF Init
<1>1. PolicyType /\ RowType
  BY DEF PolicyType, RowType
<1>2. LockType /\ PostfixType
  BY Zenon DEF LockType, PostfixType
<1>3. JobType
  BY Zenon DEF JobType, Step, Call
<1>4. WorkType
  BY Zenon DEF WorkType
<1>5. RowsInv
  BY Zenon DEF RowsInv
<1>6. \A p \in Proc : pc[p] = "idle" /\ call[p] = "none" /\ todo[p] = {}
  BY Zenon
<1>7. CallsInv
  BY <1>6, Zenon DEF CallsInv, ReconcileSteps, ReleaseSteps, ActivateSteps
<1>8. BindingInv /\ LocksInv /\ SharesInv
  BY <1>6, Zenon DEF BindingInv, Bound, LocksInv, SharesInv, LockedSteps, SharingSteps,
              ReconcileSteps, ReleaseSteps
<1>9. AttemptsInv /\ RecordsInv
  BY <1>6, Zenon DEF AttemptsInv, RecordsInv, HoldingSteps, UnholdingSteps
<1>10. TruthInv
  BY <1>6, Zenon DEF TruthInv, TrueRecord, Observed, Matches
<1>11. QED
  BY <1>1, <1>2, <1>3, <1>4, <1>5, <1>7, <1>8, <1>9, <1>10, Zenon DEF Inv, TypeOK

\* Every step keeps the invariant.
LEMMA InvStep == Inv /\ [Next]_vars => Inv'
<1>1. ASSUME Inv, Next PROVE Inv'
  BY <1>1, TypeStep, RowsStep, CallsStep, BindingStep, LocksStep, SharesStep,
     AttemptsStep, RecordsStep, TruthStep, Zenon
  DEF Inv
<1>2. ASSUME Inv, UNCHANGED vars PROVE Inv'
  <2>1. /\ UNCHANGED <<scope, revision, enabled, holdState, registered,
                      holdRevisions, lock, share, place, message, late, relayed>>
        /\ UNCHANGED <<call, current, subject, confirmed, plan, todo, failed,
                      undecided, demanded, loaded, outcome, pc, permittedSince>>
    BY <1>2, Zenon DEF vars
  <2>2. TypeOK'
    BY <1>2, <2>1, Zenon DEF Inv, TypeOK, PolicyType, RowType, LockType, PostfixType,
                      JobType, WorkType
  <2>3. RowsInv' /\ CallsInv' /\ LocksInv' /\ RecordsInv'
    BY <1>2, <2>1, Zenon DEF Inv, RowsInv, CallsInv, LocksInv, RecordsInv
  <2>4. BindingInv' /\ SharesInv' /\ AttemptsInv'
    BY <1>2, <2>1, Zenon DEF Inv, BindingInv, Bound, SharesInv, AttemptsInv, PermittedNow
  <2>5. TruthInv'
    BY <1>2, <2>1, Zenon DEF Inv, TruthInv, TrueRecord, Observed, Matches, Held
  <2>6. QED
    BY <2>2, <2>3, <2>4, <2>5, Zenon DEF Inv
<1>3. QED
  BY <1>1, <1>2, Zenon

\* Inv is an invariant of the queue, whatever the number of processes, queue
\* IDs, messages and domains, and whether or not commands run late: types, the
\* exclusion by advisory and SHARE locks, and what each step may rely on.
THEOREM Invariance == Spec => []Inv
BY InitInv, InvStep, PTL DEF Spec

\* Every variable of the queue keeps its type.
THEOREM TypeCorrectness == Spec => []TypeOK
<1>1. Inv => TypeOK
  BY Zenon DEF Inv
<1>2. QED
  BY <1>1, Invariance, PTL

\* The gate relays only what the policy permitted during the same delivery
\* attempt (gate.go:52-88), even when Postfix commands run late.
THEOREM Handoff == Spec => []HandoffWasPermitted
<1>1. Inv => HandoffWasPermitted
  BY Zenon DEF Inv, AttemptsInv, CallsInv, HandoffWasPermitted
<1>2. QED
  BY <1>1, Invariance, PTL

\* Unless commands run late, a held record belongs to a message on hold and a
\* released record to one that is not (reconcile.go:128-204, release.go:111-191).
THEOREM Truth == Spec => []RecordTellsTheTruth
<1>1. Inv => RecordTellsTheTruth
  BY Zenon DEF Inv, TruthInv, RecordTellsTheTruth
<1>2. QED
  BY <1>1, Invariance, PTL

-----------------------------------------------------------------------------
(* Action properties *)

\* Writers of the record and what they require of it.
LEMMA RequirementKept ==
    ASSUME TypeOK, Next
    PROVE  RequirementStep
<1>1. ASSUME NEW p \in Proc,
            Relay(p) \/ DecideOk(p) \/ DecideHold(p) \/ DecidedRelay(p)
            \/ RecLock(p) \/ RecAttempt(p) \/ RecInspect(p) \/
            RecHold(p) \/ RecVerify(p) \/ RelLock(p) \/ RelPolicy(p) \/
            RelInspect(p) \/ RelCall(p) \/ RelVerify(p) \/ ActBegin(p)
            \/ ActCommit(p) \/ ActNext(p) \/ Leave(p)
     PROVE  RequirementStep
  BY <1>1, Zenon
  DEF TypeOK, RowType, RequirementStep, Relay, DecideOk, DecideHold,
      DecidedRelay, RecLock, RecAttempt, RecInspect, RecHold, RecVerify,
      RelLock, RelPolicy, RelInspect, RelCall, RelVerify, ActBegin, ActCommit,
      ActNext, Leave
<1>2. ASSUME NEW p \in Proc, NEW q \in Queue, StartDeliver(p, q)
     PROVE  RequirementStep
  BY <1>2, Zenon
  DEF TypeOK, RowType, RequirementStep, StartDeliver
<1>3. ASSUME NEW p \in Proc, NEW q \in Queue, StartReconcile(p, q)
     PROVE  RequirementStep
  BY <1>3, Zenon
  DEF TypeOK, RowType, RequirementStep, StartReconcile
<1>4. ASSUME NEW p \in Proc, NEW q \in Queue, StartRelease(p, q)
     PROVE  RequirementStep
  BY <1>4, Zenon
  DEF TypeOK, RowType, RequirementStep, StartRelease
<1>5. ASSUME NEW p \in Proc, NEW d \in Hosted, NEW to \in Scope, StartActivate(p, d, to)
     PROVE  RequirementStep
  BY <1>5, Zenon
  DEF TypeOK, RowType, RequirementStep, StartActivate
<1>6. ASSUME NEW p \in Proc, Register(p)
     PROVE  RequirementStep
  BY <1>6, Zenon
  DEF TypeOK, RowType, RequirementStep, CallsInv, Register
<1>7. ASSUME NEW p \in Proc, RequireHold(p)
     PROVE  RequirementStep
  BY <1>7, Zenon
  DEF TypeOK, RowType, RequirementStep, Reconcilable, RequireHold
<1>8. ASSUME NEW p \in Proc, RecStart(p)
     PROVE  RequirementStep
  BY <1>8, Zenon
  DEF TypeOK, RowType, RequirementStep, Reconcilable, RecStart
<1>9. ASSUME NEW p \in Proc, RecFinish(p)
     PROVE  RequirementStep
  BY <1>9, Zenon
  DEF TypeOK, RowType, RequirementStep, CallsInv, RecFinish
<1>10. ASSUME NEW p \in Proc, RelStart(p)
     PROVE  RequirementStep
  BY <1>10, Zenon
  DEF TypeOK, RowType, RequirementStep, Releasable, RelStart
<1>11. ASSUME NEW p \in Proc, RelFinish(p)
     PROVE  RequirementStep
  BY <1>11, Zenon
  DEF TypeOK, RowType, RequirementStep, CallsInv, RelFinish
<1>12. ASSUME NEW s \in Source, ToggleSource(s)
     PROVE  RequirementStep
  BY <1>12, Zenon
  DEF TypeOK, RowType, RequirementStep, ToggleSource
<1>13. ASSUME NEW q \in Queue, NEW m \in Message, Arrive(q, m)
     PROVE  RequirementStep
  BY <1>13, Zenon
  DEF TypeOK, RowType, RequirementStep, Arrive
<1>14. ASSUME NEW q \in Queue, Remove(q)
     PROVE  RequirementStep
  BY <1>14, Zenon
  DEF TypeOK, RowType, RequirementStep, Remove
<1>15. ASSUME NEW q \in Queue, LateCommand(q)
     PROVE  RequirementStep
  BY <1>15, Zenon
  DEF TypeOK, RowType, RequirementStep, LateCommand
<1>16. QED
  BY <1>1, <1>2, <1>3, <1>4, <1>5, <1>6, <1>7, <1>8, <1>9, <1>10, <1>11,
     <1>12, <1>13, <1>14, <1>15, LeaveCases, DecidedCases, QueueAssumption, Zenon
  DEF Next, Start, Work, Deliver, Decide, Reconcile, Release, Activate,
      Environment

\* A hold requirement is never overwritten by the outcome of another call
\* (reconcile.go:263-312, release.go:306-348), even when commands run late.
THEOREM Requirement == Spec => RequirementSurvives
<1>1. Inv /\ Inv' /\ [Next]_vars => [RequirementStep]_vars
  BY RequirementKept, Zenon DEF Inv
<1>2. QED
  BY <1>1, Invariance, PTL DEF Spec, RequirementSurvives

\* The moves out of the hold queue and the writes of released.
LEMMA UnholdPermitted ==
    ASSUME ~LateCommands, TypeOK, CallsInv, SharesInv, RecordsInv, TruthInv,
           Next
    PROVE  UnholdStep
<1>1. ASSUME NEW p \in Proc,
            DecideOk(p) \/ DecideHold(p) \/ DecidedRelay(p) \/
            RecLock(p) \/ RecAttempt(p) \/ RecInspect(p) \/ RecVerify(p)
            \/ RelLock(p) \/ RelPolicy(p) \/ RelInspect(p) \/
            RelVerify(p) \/ ActBegin(p) \/ ActCommit(p) \/ ActNext(p) \/
            Leave(p)
     PROVE  UnholdStep
  BY <1>1, Zenon
  DEF TypeOK, RowType, PostfixType, TruthInv, UnholdStep, DecideOk,
      DecideHold, DecidedRelay, RecLock, RecAttempt, RecInspect, RecVerify,
      RelLock, RelPolicy, RelInspect, RelVerify, ActBegin, ActCommit, ActNext,
      Leave
<1>2. ASSUME NEW p \in Proc, NEW q \in Queue, StartDeliver(p, q)
     PROVE  UnholdStep
  BY <1>2, Zenon
  DEF TypeOK, RowType, PostfixType, TruthInv, UnholdStep, StartDeliver
<1>3. ASSUME NEW p \in Proc, NEW q \in Queue, StartReconcile(p, q)
     PROVE  UnholdStep
  BY <1>3, Zenon
  DEF TypeOK, RowType, PostfixType, TruthInv, UnholdStep, StartReconcile
<1>4. ASSUME NEW p \in Proc, NEW q \in Queue, StartRelease(p, q)
     PROVE  UnholdStep
  BY <1>4, Zenon
  DEF TypeOK, RowType, PostfixType, TruthInv, UnholdStep, StartRelease
<1>5. ASSUME NEW p \in Proc, NEW d \in Hosted, NEW to \in Scope, StartActivate(p, d, to)
     PROVE  UnholdStep
  BY <1>5, Zenon
  DEF TypeOK, RowType, PostfixType, TruthInv, UnholdStep, StartActivate
<1>6. ASSUME NEW p \in Proc, Register(p)
     PROVE  UnholdStep
  BY <1>6, Zenon
  DEF TypeOK, RowType, PostfixType, TruthInv, UnholdStep, Register
<1>7. ASSUME NEW p \in Proc, Relay(p)
     PROVE  UnholdStep
  BY <1>7, Zenon
  DEF TypeOK, RowType, PostfixType, TruthInv, UnholdStep, Relay
<1>8. ASSUME NEW p \in Proc, RequireHold(p)
     PROVE  UnholdStep
  BY <1>8, Zenon
  DEF TypeOK, RowType, PostfixType, TruthInv, UnholdStep, RequireHold
<1>9. ASSUME NEW p \in Proc, RecStart(p)
     PROVE  UnholdStep
  BY <1>9, Zenon
  DEF TypeOK, RowType, PostfixType, TruthInv, UnholdStep, RecStart
<1>10. ASSUME NEW p \in Proc, RecHold(p)
     PROVE  UnholdStep
  BY <1>10, Zenon
  DEF TypeOK, RowType, PostfixType, TruthInv, UnholdStep, HoldEffect, RecHold
<1>11. ASSUME NEW p \in Proc, RecFinish(p)
     PROVE  UnholdStep
  BY <1>11, Zenon
  DEF TypeOK, RowType, PostfixType, TruthInv, UnholdStep, RecordsInv,
      RecFinish
<1>12. ASSUME NEW p \in Proc, RelStart(p)
     PROVE  UnholdStep
  BY <1>12, Zenon
  DEF TypeOK, RowType, PostfixType, TruthInv, UnholdStep, RelStart
<1>13. ASSUME NEW p \in Proc, RelCall(p)
     PROVE  UnholdStep
  BY <1>13, Zenon
  DEF TypeOK, RowType, PostfixType, TruthInv, UnholdStep, ReleaseEffect,
      SharesInv, SharingSteps, ReleaseSteps, RelCall
<1>14. ASSUME NEW p \in Proc, RelFinish(p)
     PROVE  UnholdStep
  BY <1>14, Zenon
  DEF TypeOK, RowType, PostfixType, TruthInv, UnholdStep, SharesInv,
      SharingSteps, ReleaseSteps, RelFinish
<1>15. ASSUME NEW s \in Source, ToggleSource(s)
     PROVE  UnholdStep
  BY <1>15, Zenon
  DEF TypeOK, RowType, PostfixType, TruthInv, UnholdStep, ToggleSource
<1>16. ASSUME NEW q \in Queue, NEW m \in Message, Arrive(q, m)
     PROVE  UnholdStep
  BY <1>16, Zenon
  DEF TypeOK, RowType, PostfixType, TruthInv, UnholdStep, Arrive
<1>17. ASSUME NEW q \in Queue, Remove(q)
     PROVE  UnholdStep
  BY <1>17, Zenon
  DEF TypeOK, RowType, PostfixType, TruthInv, UnholdStep, Remove
<1>18. ASSUME NEW q \in Queue, LateCommand(q)
     PROVE  UnholdStep
  BY <1>18, Zenon
  DEF TypeOK, RowType, PostfixType, TruthInv, UnholdStep, LateCommand
<1>19. QED
  BY <1>1, <1>2, <1>3, <1>4, <1>5, <1>6, <1>7, <1>8, <1>9, <1>10, <1>11,
     <1>12, <1>13, <1>14, <1>15, <1>16, <1>17, <1>18, LeaveCases,
     DecidedCases, QueueAssumption, Zenon
  DEF Next, Start, Work, Deliver, Decide, Reconcile, Release, Activate,
      Environment

\* Unless commands run late, a message leaves the hold queue only while the
\* policy permits all of its recipients (release.go:111-191).
THEOREM ReleasePermitted == Spec => ReleaseIsPermitted
<1>1. Inv /\ Inv' /\ [Next]_vars => [~LateCommands => UnholdStep]_vars
  BY UnholdPermitted, Zenon DEF Inv
<1>2. QED
  BY <1>1, Invariance, PTL DEF Spec, ReleaseIsPermitted

-----------------------------------------------------------------------------
(* The mapping *)

\* Nothing the abstract specification speaks of has changed.
Stutter ==
    UNCHANGED <<scope, revision, enabled, place, message, relayed, Trying,
                permittedSince>>

PromiseStep == Promise!Next \/ Stutter

\* Both specifications read the policy alike.
LEMMA SamePermissions ==
    ASSUME NEW m, NEW sc, NEW rv, NEW on
    PROVE  Promise!Permitted(m, sc, rv, on) = Permitted(m, sc, rv, on)
BY Zenon DEF Promise!Permitted, Promise!Permits, Promise!ValidGoverning,
       Promise!Contradictory, Promise!RestrictedDomains, Promise!Governing,
       Promise!GoverningDomain, Promise!Scope, Permitted, Permits,
       ValidGoverning, Contradictory, RestrictedDomains, Governing,
       GoverningDomain, Scope

\* A call that ends stops its attempt.
LEMMA EndStops ==
    ASSUME TypeOK, NEW p \in Proc, End(p)
    PROVE  Promise!Stop(p)
BY Zenon DEF TypeOK, JobType, WorkType, Promise!Stop, Trying

\* An activation is no attempt.
LEMMA ContinueStutters ==
    ASSUME TypeOK, NEW p \in Proc, NEW ok, call[p] = "activate", Continue(p, ok)
    PROVE  UNCHANGED <<Trying, permittedSince>>
BY Zenon DEF TypeOK, JobType, Trying

\* An empty queue maps to the first state of the promise.
LEMMA InitPromise == Init => Promise!Init
BY Zenon DEF Init, Promise!Init, Trying, Promise!Scope, Scope

-----------------------------------------------------------------------------
(* The steps *)

\* The history records what running attempts see of a policy change.
LEMMA ObservedByPromise ==
    ASSUME Inv, Observe(scope', revision', enabled'),
           UNCHANGED <<place, message, relayed, Trying>>
    PROVE  Promise!Change
<1>1. ASSUME NEW p \in Proc
      PROVE  Trying[p] \in Message <=> call[p] = "deliver"
  BY MailAssumption, Zenon DEF Trying, Inv, CallsInv
<1>2. ASSUME NEW p \in Proc, call[p] = "deliver"
      PROVE  Trying[p] = subject[p]
  BY <1>2, Zenon DEF Trying
<1>3. QED
  BY <1>1, <1>2, SamePermissions, Zenon DEF Observe, Promise!Change, Promise!postfix

\* Every step is a step of the promise or none.
LEMMA StepIsPromised ==
    ASSUME ~LateCommands, Inv, Next
    PROVE  PromiseStep
<1>1. ASSUME NEW p \in Proc,
            Register(p) \/ DecideOk(p) \/ DecideHold(p) \/
            DecidedRelay(p) \/ RequireHold(p) \/ RecLock(p) \/
            RecAttempt(p) \/ RecStart(p) \/ RecInspect(p) \/
            RecVerify(p) \/ RelLock(p) \/ RelPolicy(p) \/ RelInspect(p)
            \/ RelStart(p) \/ RelVerify(p) \/ ActBegin(p)
     PROVE  PromiseStep
  BY <1>1, Zenon
  DEF PromiseStep, Stutter, Trying, Register, DecideOk, DecideHold,
      DecidedRelay, RequireHold, RecLock, RecAttempt, RecStart, RecInspect,
      RecVerify, RelLock, RelPolicy, RelInspect, RelStart, RelVerify, ActBegin
<1>2. ASSUME NEW p \in Proc, NEW q \in Queue, StartDeliver(p, q)
     PROVE  PromiseStep
  <2>1. message[q] \in Message
    BY <1>2, Zenon DEF StartDeliver, Inv, TypeOK, PostfixType, RowsInv
  <2>2. Trying[p] = NoMessage
    BY <1>2, Zenon DEF StartDeliver, Inv, CallsInv, Trying
  <2>3. Trying' = [Trying EXCEPT ![p] = message[q]]
    BY <1>2, Zenon DEF StartDeliver, Inv, TypeOK, JobType, Trying
  <2>4. Promise!Begin(p, q)
    BY <1>2, <2>2, <2>3, SamePermissions, Zenon
    DEF StartDeliver, PermittedNow, Promise!Begin, Promise!policy,
        Promise!postfix
  <2>5. QED
    BY <2>4, Zenon DEF PromiseStep, Promise!Next
<1>3. ASSUME NEW p \in Proc, NEW q \in Queue, StartReconcile(p, q)
     PROVE  PromiseStep
  BY <1>3, Zenon
  DEF Inv, TypeOK, JobType, CallsInv, PromiseStep, Stutter, Trying,
      StartReconcile
<1>4. ASSUME NEW p \in Proc, NEW q \in Queue, StartRelease(p, q)
     PROVE  PromiseStep
  BY <1>4, Zenon
  DEF Inv, TypeOK, JobType, CallsInv, PromiseStep, Stutter, Trying,
      StartRelease
<1>5. ASSUME NEW p \in Proc, NEW d \in Hosted, NEW to \in Scope, StartActivate(p, d, to)
     PROVE  PromiseStep
  BY <1>5, Zenon
  DEF Inv, TypeOK, JobType, CallsInv, PromiseStep, Stutter, Trying,
      StartActivate
<1>6. ASSUME NEW p \in Proc, Relay(p)
     PROVE  PromiseStep
  <2>1. Promise!Stop(p)
    BY <1>6, EndStops, Zenon DEF Relay, Inv
  <2>2. /\ call[p] = "deliver"
        /\ subject[p] \in Message
        /\ current[p] \in Queue
        /\ Recipients[subject[p]] \subseteq permittedSince[p]
    BY <1>6, Zenon DEF Relay, Inv, CallsInv, AttemptsInv, ActivateSteps
  <2>3. Trying[p] = subject[p]
    BY <2>2, Zenon DEF Trying
  <2>4. \/ UNCHANGED <<place, message>>
        \/ message[current[p]] = subject[p] /\ Promise!Vanish(current[p])
    BY <1>6, Zenon DEF Relay, Promise!Vanish
  <2>5. Promise!HandOver(p)
    BY <1>6, <2>1, <2>2, <2>3, <2>4, Zenon
    DEF Relay, Promise!HandOver, Promise!postfix, Promise!policy
  <2>6. QED
    BY <2>5, Zenon DEF PromiseStep, Promise!Next
<1>7. ASSUME NEW p \in Proc, RecHold(p)
     PROVE  PromiseStep
  <2>1. /\ current[p] \in Queue
        /\ UNCHANGED <<scope, revision, enabled, message, relayed, Trying,
                       permittedSince>>
    BY <1>7, Zenon DEF RecHold, Inv, CallsInv, ActivateSteps, Trying
  <2>2. CASE place[current[p]] = "queue" /\ place' = [place EXCEPT ![current[p]] = "hold"]
    <3>1. Promise!Hold(current[p])
      BY <2>1, <2>2, Zenon DEF Promise!Hold, Promise!policy, Promise!attempts
    <3>2. QED
      BY <2>1, <3>1, Zenon DEF PromiseStep, Promise!Next
  <2>3. CASE place' = place
    BY <2>1, <2>3, Zenon DEF PromiseStep, Stutter
  <2>4. QED
    BY <1>7, <2>1, <2>2, <2>3, Zenon DEF RecHold, HoldEffect, Inv, TypeOK, PostfixType
<1>8. ASSUME NEW p \in Proc, RecFinish(p)
     PROVE  PromiseStep
  <2>1. CASE End(p)
    <3>1. Promise!GiveUp(p)
      BY <1>8, <2>1, EndStops, Zenon
      DEF RecFinish, Inv, Promise!GiveUp, Promise!policy, Promise!postfix
    <3>2. QED
      BY <3>1, Zenon DEF PromiseStep, Promise!Next
  <2>2. CASE call[p] = "activate" /\ \E ok \in BOOLEAN : Continue(p, ok)
    BY <1>8, <2>2, ContinueStutters, Zenon DEF RecFinish, Inv, PromiseStep, Stutter
  <2>3. End(p) \/ (call[p] = "activate" /\ \E ok \in BOOLEAN : Continue(p, ok))
    BY <1>8, Zenon DEF RecFinish
  <2>4. QED
    BY <2>1, <2>2, <2>3, Zenon
<1>9. ASSUME NEW p \in Proc, RelCall(p)
     PROVE  PromiseStep
  <2>1. /\ current[p] \in Queue
        /\ UNCHANGED <<scope, revision, enabled, message, relayed, Trying,
                       permittedSince>>
    BY <1>9, Zenon DEF RelCall, Inv, CallsInv, ActivateSteps, Trying
  <2>2. CASE place[current[p]] = "hold" /\ place' = [place EXCEPT ![current[p]] = "queue"]
    <3>1. message[current[p]] = registered[current[p]]
      BY <1>9, <2>2, Zenon DEF RelCall, Inv, TruthInv, Observed, Matches, Held
    <3>2. PermittedNow(registered[current[p]]) = Recipients[registered[current[p]]]
      BY <1>9, Zenon DEF RelCall, Inv, SharesInv, SharingSteps, ReleaseSteps
    <3>3. Promise!AllPermitted(message[current[p]])
      BY <3>1, <3>2, SamePermissions, Zenon DEF PermittedNow, Promise!AllPermitted
    <3>4. Promise!Unhold(current[p])
      BY <2>1, <2>2, <3>3, Zenon DEF Promise!Unhold, Promise!policy, Promise!attempts
    <3>5. QED
      BY <2>1, <3>4, Zenon DEF PromiseStep, Promise!Next
  <2>3. CASE place' = place
    BY <2>1, <2>3 DEF PromiseStep, Stutter
  <2>4. QED
    BY <1>9, <2>1, <2>2, <2>3, Zenon DEF RelCall, ReleaseEffect, Inv, TypeOK, PostfixType
<1>10. ASSUME NEW p \in Proc, RelFinish(p)
     PROVE  PromiseStep
  <2>1. Promise!GiveUp(p)
    BY <1>10, EndStops, Zenon
    DEF RelFinish, Inv, Promise!GiveUp, Promise!policy, Promise!postfix
  <2>2. QED
    BY <2>1 DEF PromiseStep, Promise!Next
<1>11. ASSUME NEW p \in Proc, ActCommit(p)
     PROVE  PromiseStep
  <2>1. plan[p] \in Plan
    BY <1>11, Zenon DEF ActCommit, Inv, CallsInv, ActivateSteps
  <2>2. plan[p].domain \in Hosted /\ plan[p].requested \in Scope
    BY <2>1, Zenon DEF Plan
  <2>3. UNCHANGED <<place, message, relayed, Trying, enabled>>
    BY <1>11, Zenon DEF ActCommit, Trying
  <2>4. Observe(scope', revision', enabled')
    BY <1>11, Zenon DEF ActCommit
  <2>5. Promise!SetScope(plan[p].domain, plan[p].requested)
    BY <1>11, <2>3, <2>4, ObservedByPromise, Zenon DEF ActCommit, Promise!SetScope
  <2>6. QED
    BY <2>2, <2>5, Zenon DEF PromiseStep, Promise!Next, Promise!Scope, Scope
<1>12. ASSUME NEW p \in Proc, ActNext(p)
     PROVE  PromiseStep
  BY <1>12, Zenon
  DEF Inv, TypeOK, JobType, CallsInv, ActivateSteps, PromiseStep, Stutter,
      Trying, ActNext
<1>13. ASSUME NEW p \in Proc, Leave(p)
     PROVE  PromiseStep
  <2>1. CASE End(p)
    <3>1. Promise!GiveUp(p)
      BY <1>13, <2>1, EndStops, Zenon
      DEF Leave, Inv, Promise!GiveUp, Promise!policy, Promise!postfix
    <3>2. QED
      BY <3>1 DEF PromiseStep, Promise!Next
  <2>2. CASE call[p] = "activate" /\ \E ok \in BOOLEAN : Continue(p, ok)
    BY <1>13, <2>2, ContinueStutters, Zenon DEF Leave, Inv, PromiseStep, Stutter
  <2>3. QED
    BY <1>13, <2>1, <2>2, Zenon DEF Leave
<1>14. ASSUME NEW s \in Source, ToggleSource(s)
     PROVE  PromiseStep
  <2>1. UNCHANGED <<place, message, relayed, Trying>>
    BY <1>14, Zenon DEF ToggleSource, Trying
  <2>2. UNCHANGED <<scope, revision>> /\ enabled' \in SUBSET Source
    BY <1>14, Zenon DEF ToggleSource, Inv, TypeOK, PolicyType
  <2>3. Observe(scope', revision', enabled')
    BY <1>14, <2>2, Zenon DEF ToggleSource
  <2>4. Promise!SetEnabled(enabled')
    BY <2>1, <2>2, <2>3, ObservedByPromise, Zenon DEF Promise!SetEnabled
  <2>5. QED
    BY <2>2, <2>4, Zenon DEF PromiseStep, Promise!Next
<1>15. ASSUME NEW q \in Queue, NEW m \in Message, Arrive(q, m)
     PROVE  PromiseStep
  <2>1. Promise!Arrive(q, m)
    BY <1>15, Zenon DEF Arrive, Trying, Promise!Arrive, Promise!policy, Promise!attempts
  <2>2. QED
    BY <2>1, Zenon DEF PromiseStep, Promise!Next
<1>16. ASSUME NEW q \in Queue, Remove(q)
     PROVE  PromiseStep
  <2>1. Promise!Remove(q)
    BY <1>16, Zenon DEF Remove, Trying, Promise!Remove, Promise!Vanish, Promise!policy,
              Promise!attempts
  <2>2. QED
    BY <2>1, Zenon DEF PromiseStep, Promise!Next
<1>17. ASSUME NEW q \in Queue, LateCommand(q)
     PROVE  PromiseStep
  BY <1>17, Zenon
  DEF Inv, TruthInv, LateCommand
<1>18. QED
  BY <1>1, <1>2, <1>3, <1>4, <1>5, <1>6, <1>7, <1>8, <1>9, <1>10, <1>11,
     <1>12, <1>13, <1>14, <1>15, <1>16, <1>17, LeaveCases, DecidedCases,
     QueueAssumption, Zenon
  DEF Next, Start, Work, Deliver, Decide, Reconcile, Release, Activate,
      Environment

\* When no Postfix command runs late, the records, locks, reconciliation,
\* release and activation of the code implement the promise of the policy:
\* OutboundQueue refines OutboundPromise.
THEOREM Refinement == ASSUME ~LateCommands PROVE Spec => KeepsPromise
<1>1. Inv /\ [Next]_vars => [Promise!Next]_(Promise!vars)
  <2>1. ASSUME Inv, Next PROVE [Promise!Next]_(Promise!vars)
    BY <2>1, StepIsPromised, Zenon DEF PromiseStep, Stutter, Promise!vars
  <2>2. ASSUME UNCHANGED vars PROVE UNCHANGED Promise!vars
    BY <2>2, Zenon DEF vars, Promise!vars, Trying
  <2>3. QED
    BY <2>1, <2>2, Zenon
<1>2. QED
  BY <1>1, InitPromise, Invariance, PTL DEF Spec, KeepsPromise, Promise!Spec

-----------------------------------------------------------------------------
(* Activation *)

\* A message with a source in the domain and a recipient outside it.
Crossing(m, d) ==
    /\ m \in Message
    /\ \E s \in Sources[m] : SourceDomain[s] = d
    /\ \E r \in Recipients[m] : r # d

\* The activation has committed, or found its scope in place.
Applying(p) == call[p] = "activate" /\ pc[p] \notin {"act_begin", "act_commit"}

\* The revision of the domain once the activation has committed.
Expected(p) ==
    plan[p].revision + IF plan[p].scope = plan[p].requested THEN 0 ELSE 1

\* It is the next one, unless the scope was already in place.
LEMMA Expectations ==
    ASSUME NEW p \in Proc, plan[p].revision \in Nat
    PROVE  /\ Expected(p) \in Nat
           /\ plan[p].revision + 1 >= Expected(p)
           /\ plan[p].scope = plan[p].requested => plan[p].revision >= Expected(p)
BY DEF Expected

\* A revision that has not fallen is no lower than expected, and if it is the
\* expected one it has not moved.
LEMMA NotFallen ==
    ASSUME NEW p \in Proc, NEW d, Expected(p) \in Nat,
           revision[d] \in Nat, revision'[d] \in Nat,
           revision[d] >= Expected(p), revision'[d] >= revision[d]
    PROVE  /\ revision'[d] >= Expected(p)
           /\ revision'[d] = Expected(p) => revision'[d] = revision[d]
OBVIOUS

\* The restriction the activation asked for is still the policy.
InForce(p) ==
    /\ Applying(p)
    /\ plan[p].requested = "same_domain_only"
    /\ scope[plan[p].domain] = "same_domain_only"
    /\ revision[plan[p].domain] = Expected(p)

\* The message is not there for a delivery attempt to take.
Undeliverable(x) == ~(place[x[1]] = "queue" /\ message[x[1]] = x[2])

\* Every affected queue is still to come, being worked on, or not deliverable.
Sweeps(p) ==
    /\ pc[p] = "decide" =>
          {r \in Recipients[subject[p]] : r # plan[p].domain} \subseteq undecided[p]
    /\ ~failed[p] =>
          \A x \in plan[p].affected :
              x[1] \in todo[p] \/ x[1] = current[p] \/ Undeliverable(x)

\* What an activation has planned and what is left of it.
Activates(p) ==
    /\ \A x \in plan[p].affected : Crossing(x[2], plan[p].domain)
    /\ Applying(p) =>
          /\ revision[plan[p].domain] >= Expected(p)
          /\ \A q \in todo[p] : \E x \in plan[p].affected : x[1] = q
          /\ pc[p] = "decide" => Crossing(subject[p], plan[p].domain)
    /\ InForce(p) => Sweeps(p)

\* What a call is doing with respect to an activation.
Engaged(p) ==
    /\ pc[p] \in {"idle"} \cup ActivateSteps => current[p] = NoQueue
    /\ call[p] = "activate" => Activates(p)

ActivationInv == \A p \in Proc : Engaged(p)

SameJob(p) ==
    /\ pc'[p] = pc[p] /\ call'[p] = call[p] /\ plan'[p] = plan[p] /\ todo'[p] = todo[p]
    /\ failed'[p] = failed[p] /\ current'[p] = current[p] /\ subject'[p] = subject[p]
    /\ undecided'[p] = undecided[p]

\* A call changes its own state only.
LEMMA OthersKeepTheirJobs ==
    ASSUME TypeOK, Next, NEW p \in Proc, ~(Start(p) \/ Work(p) \/ Abort(p))
    PROVE  SameJob(p)
<1>0. /\ pc \in [Proc -> Step] /\ call \in [Proc -> Call]
      /\ DOMAIN plan = Proc /\ plan = [o \in Proc |-> plan[o]]
      /\ todo \in [Proc -> SUBSET Queue] /\ failed \in [Proc -> BOOLEAN]
      /\ current \in [Proc -> Queue \cup {NoQueue}]
      /\ subject \in [Proc -> Message \cup {NoMessage}]
      /\ undecided \in [Proc -> SUBSET Domain]
  BY Zenon DEF TypeOK, JobType, WorkType
<1>1. ASSUME NEW o \in Proc \ {p},
             Register(o) \/ DecideOk(o) \/ DecideHold(o) \/ DecidedRelay(o) \/ RequireHold(o)
      PROVE  SameJob(p)
  BY <1>0, <1>1, Zenon DEF SameJob, Register, DecideOk, DecideHold, DecidedRelay, RequireHold
<1>2. ASSUME NEW o \in Proc \ {p},
             RecLock(o) \/ RecAttempt(o) \/ RecStart(o) \/ RecInspect(o) \/ RecHold(o)
             \/ RecVerify(o)
      PROVE  SameJob(p)
  BY <1>0, <1>2, Zenon DEF SameJob, RecLock, RecAttempt, RecStart, RecInspect, RecHold,
                    RecVerify, RecConclude
<1>3. ASSUME NEW o \in Proc \ {p},
             RelLock(o) \/ RelPolicy(o) \/ RelInspect(o) \/ RelStart(o) \/ RelCall(o)
             \/ RelVerify(o)
      PROVE  SameJob(p)
  BY <1>0, <1>3, Zenon DEF SameJob, RelLock, RelPolicy, RelInspect, RelStart, RelCall,
                    RelVerify, RelConclude
<1>4. ASSUME NEW o \in Proc \ {p}, Relay(o) \/ RecFinish(o) \/ RelFinish(o) \/ Leave(o)
      PROVE  SameJob(p)
  BY <1>0, <1>4, Zenon DEF SameJob, Relay, RecFinish, RelFinish, Leave
<1>5. ASSUME NEW o \in Proc \ {p}, NEW q \in Queue,
             StartDeliver(o, q) \/ StartReconcile(o, q) \/ StartRelease(o, q)
      PROVE  SameJob(p)
  BY <1>0, <1>5, Zenon DEF SameJob, StartDeliver, StartReconcile, StartRelease
<1>6. ASSUME NEW o \in Proc \ {p}, NEW d \in Hosted, NEW to \in Scope, StartActivate(o, d, to)
      PROVE  SameJob(p)
  BY <1>0, <1>6, Zenon DEF SameJob, StartActivate
<1>7. ASSUME NEW o \in Proc \ {p}, ActBegin(o) \/ ActCommit(o) \/ ActNext(o)
      PROVE  SameJob(p)
  BY <1>0, <1>7, Zenon DEF SameJob, ActBegin, ActCommit, ActNext
<1>8. ASSUME Environment
      PROVE  SameJob(p)
  BY <1>8, Zenon DEF SameJob, Environment, ToggleSource, Arrive, Remove, LateCommand
<1>9. QED
  BY <1>1, <1>2, <1>3, <1>4, <1>5, <1>6, <1>7, <1>8, LeaveCases, DecidedCases, Zenon
  DEF Next, Start, Work, Deliver, Decide, Reconcile, Release, Activate

\* A scope changes with its revision, which never goes back.
LEMMA PolicyMoves ==
    ASSUME TypeOK, CallsInv, Next, NEW d \in Hosted
    PROVE  /\ revision'[d] >= revision[d]
           /\ revision'[d] = revision[d] => scope'[d] = scope[d]
<1>1. CASE UNCHANGED <<scope, revision>>
  BY <1>1 DEF TypeOK, PolicyType
<1>2. ASSUME NEW p \in Proc, ActCommit(p)
      PROVE  /\ revision'[d] >= revision[d]
             /\ revision'[d] = revision[d] => scope'[d] = scope[d]
  BY <1>2 DEF TypeOK, PolicyType, ActCommit
<1>3. ASSUME NEW p \in Proc, Start(p) \/ Work(p) \/ Abort(p), ~ActCommit(p)
      PROVE  UNCHANGED <<scope, revision>>
  BY <1>3, Zenon
  DEF Start, Work, Deliver, Decide, Reconcile, Release, Activate,
      StartDeliver, StartReconcile, StartRelease, StartActivate, Register,
      RegisterRefused, Relay, DecideOk, DecideHold, DecideUnavailable, DecidedAll,
      RequireHold, RecLock, RecAlreadyHeld, RecAttempt, RecNotRequired, RecStart,
      RecInspect, RecHold, RecVerify, RecFinish, RelLock, RelPolicy, RelInspect,
      RelStart, RelRefused, RelCall, RelVerify, RelFinish, ActBegin, ActRefused,
      ActNext, ActEnd, Abort
<1>4. ASSUME Environment
      PROVE  UNCHANGED <<scope, revision>>
  BY <1>4, Zenon DEF Environment, ToggleSource, Arrive, Remove, LateCommand
<1>5. QED
  BY <1>1, <1>2, <1>3, <1>4, Zenon DEF Next

\* How the file of a queue ID moves.
FileMoves(q) ==
    \/ place'[q] = place[q] /\ message'[q] = message[q]
    \/ place'[q] # "queue"
    \/ place[q] = "none" /\ message'[q] # registered[q]
    \/ place[q] = "hold" /\ place'[q] = "queue" /\ message'[q] = message[q]

\* Every step moves files this way.
LEMMA FilesMove ==
    ASSUME TypeOK, CallsInv, Next, NEW q \in Queue
    PROVE  FileMoves(q)
<1>0. place \in [Queue -> {"none", "queue", "hold"}] /\ DOMAIN message = Queue
      /\ message \in [Queue -> Message \cup {NoMessage}]
  BY Zenon DEF TypeOK, PostfixType
<1>1. CASE UNCHANGED <<place, message>>
  BY <1>1, Zenon DEF FileMoves
<1>2. ASSUME NEW p \in Proc, Relay(p)
      PROVE  FileMoves(q)
  BY <1>0, <1>2, Zenon DEF FileMoves, Relay
<1>3. ASSUME NEW p \in Proc, RecHold(p)
      PROVE  FileMoves(q)
  BY <1>0, <1>3, Zenon DEF FileMoves, RecHold, HoldEffect
<1>4. ASSUME NEW p \in Proc, RelCall(p)
      PROVE  FileMoves(q)
  BY <1>0, <1>4, Zenon DEF FileMoves, RelCall, ReleaseEffect
<1>5. ASSUME NEW p \in Proc, Start(p) \/ Work(p) \/ Abort(p),
             ~Relay(p), ~RecHold(p), ~RelCall(p)
      PROVE  UNCHANGED <<place, message>>
  BY <1>5, Zenon
  DEF Start, Work, Deliver, Decide, Reconcile, Release, Activate,
      StartDeliver, StartReconcile, StartRelease, StartActivate, Register,
      RegisterRefused, DecideOk, DecideHold, DecideUnavailable, DecidedAll,
      RequireHold, RecLock, RecAlreadyHeld, RecAttempt, RecNotRequired, RecStart,
      RecInspect, RecVerify, RecFinish, RelLock, RelPolicy, RelInspect,
      RelStart, RelRefused, RelVerify, RelFinish, ActBegin, ActRefused, ActCommit,
      ActNext, ActEnd, Abort
<1>6. ASSUME NEW s \in Administered, ToggleSource(s)
      PROVE  UNCHANGED <<place, message>>
  BY <1>6, Zenon DEF ToggleSource
<1>7. ASSUME NEW k \in Queue, NEW m \in Message, Arrive(k, m)
      PROVE  FileMoves(q)
  BY <1>0, <1>7, Zenon DEF FileMoves, Arrive
<1>8. ASSUME NEW k \in Queue, Remove(k)
      PROVE  FileMoves(q)
  BY <1>0, <1>8, Zenon DEF FileMoves, Remove
<1>9. ASSUME NEW k \in Queue, LateCommand(k)
      PROVE  FileMoves(q)
  BY <1>0, <1>9, Zenon DEF FileMoves, LateCommand, HoldEffect, ReleaseEffect
<1>10. QED
  BY <1>1, <1>2, <1>3, <1>4, <1>5, <1>6, <1>7, <1>8, <1>9, Zenon DEF Next, Environment

\* A restricted domain permits no recipient outside it.
LEMMA CrossingIsForbidden ==
    ASSUME NEW d \in Hosted, NEW m, Crossing(m, d), scope[d] = "same_domain_only"
    PROVE  /\ \A r \in Recipients[m] :
                 r # d => Judge("transport", r, GoverningNow(m)).action # "ok"
           /\ PermittedNow(m) # Recipients[m]
<1>0. PICK s \in Sources[m] : SourceDomain[s] = d
  BY Zenon DEF Crossing
<1>1. PICK x \in GoverningNow(m) : x.scope = "same_domain_only" /\ x.domain = d
  <2>1. [domain |-> d, scope |-> scope[d], revision |-> revision[d]] \in GoverningNow(m)
    BY <1>0, Zenon DEF GoverningNow, Governing
  <2>2. QED
    BY <2>1, Zenon
<1>2. \A r : r # d => Judge("transport", r, GoverningNow(m)).action # "ok"
  BY <1>1, PermittedExactly
<1>3. \A r : r # d => ~Permits(r, GoverningNow(m))
  BY <1>1, Zenon DEF Permits, RestrictedDomains
<1>4. PICK r \in Recipients[m] : r # d
  BY Zenon DEF Crossing
<1>5. r \notin PermittedNow(m)
  BY <1>3, <1>4, Zenon DEF PermittedNow, Permitted, GoverningNow
<1>6. QED
  BY <1>2, <1>4, <1>5, Zenon

\* An affected message that cannot be delivered stays so while the restriction
\* is in force: no release gets past the policy, and no arrival is the same.
LEMMA StaysUndeliverable ==
    ASSUME Inv, ~LateCommands, Next, NEW p \in Proc, InForce(p), Activates(p),
           NEW x \in plan[p].affected, Undeliverable(x)
    PROVE  Undeliverable(x)'
<1>1. /\ plan[p] \in Plan /\ plan[p].domain \in Hosted /\ x[1] \in Queue /\ x[2] \in Message
      /\ registered[x[1]] = x[2]
  BY DEF Inv, CallsInv, BindingInv, Bound, InForce, Applying, Plan
<1>2. PermittedNow(x[2]) # Recipients[x[2]]
  BY <1>1, CrossingIsForbidden, Zenon DEF InForce, Activates
<1>3. UnholdStep
  BY UnholdPermitted, Zenon DEF Inv
<1>4. ~(place[x[1]] = "hold" /\ place'[x[1]] = "queue")
  BY <1>1, <1>2, <1>3, Zenon DEF UnholdStep
<1>5. FileMoves(x[1])
  BY <1>1, FilesMove, Zenon DEF Inv
<1>6. QED
  BY <1>1, <1>4, <1>5, ZenonT(30) DEF FileMoves, Undeliverable

\* What a step has to do for the activation it belongs to.
LEMMA KeepsActivating ==
    ASSUME Inv, ~LateCommands, Next, NEW p \in Proc, Activates(p), Applying(p),
           call'[p] = "activate", plan'[p] = plan[p],
           pc'[p] \notin {"act_begin", "act_commit"}, todo'[p] \subseteq todo[p],
           pc'[p] = "decide" => Crossing(subject'[p], plan[p].domain),
           InForce(p) /\ pc'[p] = "decide" =>
               {r \in Recipients[subject'[p]] : r # plan[p].domain} \subseteq undecided'[p],
           InForce(p) /\ ~failed'[p] =>
               /\ ~failed[p]
               /\ \A x \in plan[p].affected :
                      x[1] \in todo[p] \/ x[1] = current[p] =>
                          x[1] \in todo'[p] \/ x[1] = current'[p] \/ Undeliverable(x)'
    PROVE  Activates(p)'
<1>0. plan[p] \in Plan /\ plan[p].domain \in Hosted /\ plan[p].revision \in Nat
  BY Zenon DEF Inv, CallsInv, Applying, Plan
<1>1. /\ revision[plan[p].domain] \in Nat /\ revision'[plan[p].domain] >= revision[plan[p].domain]
      /\ revision'[plan[p].domain] = revision[plan[p].domain]
           => scope'[plan[p].domain] = scope[plan[p].domain]
  BY <1>0, PolicyMoves, Zenon DEF Inv, TypeOK, PolicyType
<1>2. Expected(p) \in Nat
  BY <1>0, Expectations, Zenon
<1>3. revision[plan[p].domain] >= Expected(p) /\ Expected(p)' = Expected(p)
  BY Zenon DEF Activates, Expected
<1>4. /\ revision'[plan[p].domain] >= Expected(p)
      /\ revision'[plan[p].domain] = Expected(p)
           => revision'[plan[p].domain] = revision[plan[p].domain]
  <2>1. revision'[plan[p].domain] \in Nat
    BY <1>0, TypeStep, Zenon DEF Inv, TypeOK, PolicyType
  <2>2. QED
    BY <1>1, <1>2, <1>3, <2>1, NotFallen, Zenon
<1>10. InForce(p)' => InForce(p)
  BY <1>1, <1>3, <1>4, Zenon DEF InForce
<1>5. InForce(p) => Sweeps(p)'
  BY StaysUndeliverable, Zenon DEF Activates, Sweeps
<1>6. revision'[plan[p].domain] >= Expected(p)'
  BY <1>3, <1>4, Zenon
<1>7. \A x \in plan'[p].affected : Crossing(x[2], plan'[p].domain)
  BY Zenon DEF Activates
<1>8. \A q \in todo'[p] : \E x \in plan'[p].affected : x[1] = q
  BY Zenon DEF Activates
<1>9. QED
  BY <1>10, <1>5, <1>6, <1>7, <1>8, Zenon DEF Activates, Crossing

\* A call that leaves its job as it is stays engaged.
LEMMA SameJobEngaged ==
    ASSUME Inv, ~LateCommands, Next, NEW p \in Proc, SameJob(p), Engaged(p)
    PROVE  Engaged(p)'
<1>1. CASE call[p] # "activate"
  BY <1>1, Zenon DEF SameJob, Engaged
<1>2. CASE call[p] = "activate" /\ ~Applying(p)
  <2>1. ~Applying(p)' /\ plan'[p] = plan[p] /\ Activates(p)
    BY <1>2, Zenon DEF SameJob, Engaged, Applying
  <2>2. \A x \in plan'[p].affected : Crossing(x[2], plan'[p].domain)
    BY <2>1, Zenon DEF Activates
  <2>3. Activates(p)'
    BY <2>1, <2>2, Zenon DEF Activates, InForce, Crossing
  <2>4. QED
    BY <2>3, Zenon DEF SameJob, Engaged
<1>3. CASE Applying(p)
  <2>1. Activates(p)'
    <3>1. Activates(p) /\ call'[p] = "activate" /\ pc[p] \notin {"act_begin", "act_commit"}
      BY <1>3, Zenon DEF SameJob, Engaged, Applying
    <3>2. pc[p] = "decide" => Crossing(subject[p], plan[p].domain)
      BY <1>3, <3>1, Zenon DEF Activates
    <3>3. InForce(p) /\ pc[p] = "decide" =>
            {r \in Recipients[subject[p]] : r # plan[p].domain} \subseteq undecided[p]
      BY <3>1, Zenon DEF Activates, Sweeps
    <3>4. QED
      BY <1>3, <3>1, <3>2, <3>3, KeepsActivating, Zenon DEF SameJob
  <2>2. QED
    BY <2>1, Zenon DEF SameJob, Engaged
<1>4. QED
  BY <1>1, <1>2, <1>3, Zenon DEF Applying

\* The steps of a call between its decision and its answer.
LEMMA WorkEngaged ==
    ASSUME Inv, ~LateCommands, Next, NEW p \in Proc, Engaged(p), call[p] = "activate",
           pc[p] \notin ActivateSteps, pc'[p] \notin {"idle", "decide"} \cup ActivateSteps,
           UNCHANGED jobVars
    PROVE  Engaged(p)'
<1>1. /\ call'[p] = "activate" /\ plan'[p] = plan[p] /\ todo'[p] = todo[p]
      /\ failed'[p] = failed[p] /\ current'[p] = current[p]
  BY Zenon
<1>2. Activates(p) /\ Applying(p) /\ pc'[p] \notin {"act_begin", "act_commit", "decide"}
  BY Zenon DEF Engaged, Applying, ActivateSteps
<1>3. Activates(p)'
  BY <1>1, <1>2, KeepsActivating, Zenon
<1>4. QED
  BY <1>3, Zenon DEF Engaged

\* The loop goes on: the queue just left failed, or is not deliverable.
LEMMA ContinueEngaged ==
    ASSUME Inv, ~LateCommands, Next, NEW p \in Proc, Engaged(p), call[p] = "activate",
           current[p] # NoQueue, NEW ok \in BOOLEAN, Continue(p, ok),
           InForce(p) /\ ok =>
               \A x \in plan[p].affected : x[1] = current[p] => Undeliverable(x)'
    PROVE  Engaged(p)'
<1>1. /\ call'[p] = "activate" /\ plan'[p] = plan[p] /\ todo'[p] = todo[p]
      /\ pc'[p] = "act_next" /\ current'[p] = NoQueue
      /\ failed'[p] = (failed[p] \/ ~ok)
  BY Zenon DEF Inv, TypeOK, JobType
<1>2. Activates(p) /\ Applying(p)
  BY Zenon DEF Engaged, Applying, ActivateSteps
<1>3. InForce(p) /\ ~failed'[p] =>
        /\ ~failed[p]
        /\ \A x \in plan[p].affected : x[1] = current[p] => Undeliverable(x)'
  BY <1>1, Zenon
<1>4. Activates(p)'
  BY <1>1, <1>2, <1>3, KeepsActivating, Zenon
<1>5. QED
  BY <1>1, <1>4, Zenon DEF Engaged

\* An affected message that a call found on hold, or recorded held, is not
\* deliverable.
LEMMA HeldIsUndeliverable ==
    ASSUME Inv, ~LateCommands, NEW p \in Proc, call[p] = "activate", UNCHANGED postfixVars,
           \/ Matches(current[p]) /\ Held(current[p])
           \/ pc[p] = "rec_finish" /\ outcome[p] = "held",
           NEW x \in plan[p].affected, x[1] = current[p]
    PROVE  Undeliverable(x)'
<1>1. registered[current[p]] = x[2]
  BY Zenon DEF Inv, BindingInv, Bound
<1>2. Matches(current[p]) => Held(current[p])
  BY Zenon DEF Inv, TruthInv, Observed
<1>3. place[current[p]] # "queue" \/ message[current[p]] # x[2]
  BY <1>1, <1>2, Zenon DEF Matches, Held
<1>4. QED
  BY <1>3, Zenon DEF Undeliverable

\* No recipient outside a restricted domain is decided ok.
LEMMA DecideEngaged ==
    ASSUME Inv, ~LateCommands, Next, NEW p \in Proc, Engaged(p), call[p] = "activate",
           DecideOk(p) \/ DecidedAll(p)
    PROVE  Engaged(p)'
<1>0. /\ pc[p] = "decide" /\ current[p] \in Queue /\ current[p] # NoQueue
      /\ registered[current[p]] = subject[p] /\ plan[p].domain \in Hosted
  BY QueueAssumption, Zenon
  DEF Inv, CallsInv, BindingInv, Bound, Plan, DecideOk, DecidedAll, ActivateSteps
<1>1. Activates(p) /\ Applying(p) /\ Crossing(subject[p], plan[p].domain)
  BY <1>0, Zenon DEF Engaged, Applying, Activates
<1>2. CASE DecideOk(p)
  <2>1. PICK r \in undecided[p] :
            VerdictOn(p, r).action = "ok" /\ undecided' = [undecided EXCEPT ![p] = @ \ {r}]
    BY <1>2, Zenon DEF DecideOk
  <2>2. undecided'[p] = undecided[p] \ {r}
    BY <2>1, Zenon DEF Inv, TypeOK, WorkType
  <2>3. InForce(p) => r = plan[p].domain
    <3>1. Judge("transport", r, GoverningNow(subject[p])).action = "ok"
      BY <1>0, <2>1, Zenon DEF VerdictOn, Unavailable, Verdict
    <3>2. r \in Recipients[subject[p]]
      BY <1>0, <2>1, Zenon DEF Inv, BindingInv, Bound
    <3>3. QED
      BY <1>0, <1>1, <3>1, <3>2, CrossingIsForbidden, Zenon DEF InForce
  <2>4. /\ call'[p] = "activate" /\ plan'[p] = plan[p] /\ todo'[p] = todo[p]
        /\ failed'[p] = failed[p] /\ current'[p] = current[p] /\ pc'[p] = "decide"
        /\ subject'[p] = subject[p]
    BY <1>0, <1>2, Zenon DEF DecideOk
  <2>5. InForce(p) =>
            {t \in Recipients[subject[p]] : t # plan[p].domain} \subseteq undecided'[p]
    BY <1>0, <1>1, <2>2, <2>3, Zenon DEF Activates, Sweeps
  <2>6. Activates(p)'
    BY <1>0, <1>1, <2>4, <2>5, KeepsActivating, Zenon DEF Applying
  <2>7. QED
    BY <2>4, <2>6, Zenon DEF Engaged, ActivateSteps
<1>3. CASE DecidedAll(p)
  <2>1. Continue(p, TRUE) /\ undecided[p] = {}
    BY <1>3, Zenon DEF DecidedAll
  <2>2. ~InForce(p)
    BY <1>0, <1>1, <2>1, Zenon DEF Activates, Sweeps, Crossing
  <2>3. QED
    BY <1>0, <2>1, <2>2, ContinueEngaged, Zenon
<1>4. QED
  BY <1>2, <1>3, Zenon

\* The plan, its commit and the choice of the next queue.
LEMMA ActivateEngaged ==
    ASSUME Inv, ~LateCommands, Next, NEW p \in Proc, Engaged(p), call[p] = "activate",
           ActBegin(p) \/ ActCommit(p) \/ ActNext(p)
    PROVE  Engaged(p)'
<1>0. /\ plan[p] \in Plan /\ plan[p].domain \in Hosted /\ plan[p].revision \in Nat
      /\ revision \in [Hosted -> Nat \ {0}] /\ pc \in [Proc -> Step]
      /\ todo \in [Proc -> SUBSET Queue] /\ Activates(p)
      /\ call'[p] = "activate" /\ plan'[p] = plan[p] /\ failed'[p] = failed[p]
  BY Zenon DEF Inv, CallsInv, TypeOK, PolicyType, JobType, Plan, Engaged, ActBegin, ActCommit,
         ActNext
<1>1. CASE ActBegin(p) \/ ActCommit(p)
  <2>1. /\ current'[p] = NoQueue /\ pc'[p] \in {"act_commit", "act_next"}
    BY <1>0, <1>1, Zenon DEF Engaged, ActBegin, ActCommit, ActivateSteps
  <2>2. \A x \in plan[p].affected : Crossing(x[2], plan[p].domain)
    BY <1>0, Zenon DEF Activates
  <2>3. CASE pc'[p] = "act_commit"
    <3>1. ~Applying(p)'
      BY <2>3, Zenon DEF Applying
    <3>2. \A x \in plan'[p].affected : Crossing(x[2], plan'[p].domain)
      BY <1>0, <2>2, Zenon
    <3>3. Activates(p)'
      BY <3>1, <3>2, Zenon DEF Activates, InForce, Crossing
    <3>4. QED
      BY <2>1, <3>3, Zenon DEF Engaged
  <2>4. CASE pc'[p] = "act_next"
    <3>1. todo'[p] = IF plan[p].requested = "same_domain_only"
                     THEN {x[1] : x \in plan[p].affected} ELSE {}
      BY <1>0, <1>1, <2>4, Zenon DEF ActBegin, ActCommit
    <3>2. revision'[plan[p].domain] >= Expected(p)
      <4>1. CASE ActBegin(p)
        <5>1. plan[p].requested = plan[p].scope
          BY <1>0, <2>4, <4>1, Zenon DEF ActBegin
        <5>2. /\ revision' = revision
              /\ ChangePlan(plan[p].domain, plan[p].requested) = plan[p]
          BY <4>1, Zenon DEF ActBegin
        <5>3. ChangePlan(plan[p].domain, plan[p].requested).revision = revision[plan[p].domain]
          BY Zenon DEF ChangePlan
        <5>4. QED
          BY <1>0, <5>1, <5>2, <5>3, Expectations, Zenon
      <4>2. CASE ActCommit(p)
        <5>1. /\ revision[plan[p].domain] = plan[p].revision
              /\ revision'[plan[p].domain] = revision[plan[p].domain] + 1
          BY <1>0, <4>2, Zenon DEF ActCommit
        <5>2. QED
          BY <1>0, <5>1, Expectations, Zenon
      <4>3. QED
        BY <1>1, <4>1, <4>2, Zenon
    <3>3. Expected(p)' = Expected(p)
      BY <1>0, Zenon DEF Expected
    <3>4. Activates(p)'
      <4>1. \A q \in todo'[p] : \E x \in plan'[p].affected : x[1] = q
        BY <1>0, <3>1, ZenonT(30)
      <4>2. InForce(p)' => Sweeps(p)'
        BY <1>0, <2>4, <3>1, Zenon DEF InForce, Sweeps
      <4>3. \A x \in plan'[p].affected : Crossing(x[2], plan'[p].domain)
        BY <1>0, <2>2, Zenon
      <4>4. QED
        BY <1>0, <2>4, <3>2, <3>3, <4>1, <4>2, <4>3, Zenon DEF Activates, Crossing
    <3>5. QED
      BY <2>1, <3>4, Zenon DEF Engaged
  <2>5. QED
    BY <2>1, <2>3, <2>4, Zenon
<1>2. CASE ActNext(p)
  <2>1. PICK q \in todo[p] :
            /\ current'[p] = q /\ subject'[p] = registered[q]
            /\ undecided'[p] = Recipients[registered[q]] /\ todo'[p] = todo[p] \ {q}
    BY <1>0, <1>2, Zenon DEF ActNext, Inv, TypeOK, JobType, WorkType
  <2>2. pc[p] = "act_next" /\ pc'[p] = "decide" /\ current[p] = NoQueue /\ Applying(p)
    BY <1>0, <1>2, Zenon DEF ActNext, Engaged, ActivateSteps, Applying
  <2>3. PICK x \in plan[p].affected : x[1] = q
    BY <1>0, <2>2, Zenon DEF Activates
  <2>4. Crossing(subject'[p], plan[p].domain)
    <3>1. registered[q] = x[2]
      BY <2>3, Zenon DEF Inv, BindingInv, Bound
    <3>2. QED
      BY <1>0, <2>1, <3>1, Zenon DEF Activates
  <2>5. \A y \in plan[p].affected : y[1] # NoQueue
    BY <1>0, QueueAssumption, Zenon DEF Plan
  <2>6. Activates(p)'
    BY <1>0, <2>1, <2>2, <2>4, <2>5, KeepsActivating, Zenon
  <2>7. QED
    BY <2>2, <2>6, Zenon DEF Engaged, ActivateSteps
<1>3. QED
  BY <1>1, <1>2, Zenon

\* Starting a call: an activation plans with the messages that cross.
LEMMA StartEngaged ==
    ASSUME Inv, NEW p \in Proc, Engaged(p), Start(p)
    PROVE  Engaged(p)'
<1>0. pc \in [Proc -> Step] /\ call \in [Proc -> Call] /\ DOMAIN plan = Proc
      /\ current \in [Proc -> Queue \cup {NoQueue}]
  BY Zenon DEF Inv, TypeOK, JobType
<1>1. ASSUME NEW q \in Queue, StartDeliver(p, q) \/ StartReconcile(p, q) \/ StartRelease(p, q)
      PROVE  Engaged(p)'
  <2>1. call'[p] # "activate" /\ pc'[p] \notin {"idle"} \cup ActivateSteps
    BY <1>0, <1>1, Zenon DEF StartDeliver, StartReconcile, StartRelease, ActivateSteps
  <2>2. QED
    BY <2>1, Zenon DEF Engaged
<1>2. ASSUME NEW d \in Hosted, NEW to \in Scope, StartActivate(p, d, to)
      PROVE  Engaged(p)'
  <2>1. /\ pc[p] = "idle" /\ pc'[p] = "act_begin" /\ plan'[p] = ChangePlan(d, to)
        /\ current'[p] = NoQueue
    BY <1>0, <1>2, Zenon DEF StartActivate, Engaged
  <2>2. \A x \in AffectedBy(d) : Crossing(x[2], d)
    <3>1. \A q \in Queue : holdState[q] # "absent" => registered[q] \in Message
      BY Zenon DEF Inv, RowsInv, TypeOK, RowType
    <3>2. ASSUME NEW x \in AffectedBy(d) PROVE Crossing(x[2], d)
      <4>1. PICK q \in Queue :
                /\ x = <<q, registered[q]>> /\ holdState[q] \notin {"absent", "released"}
                /\ \E s \in Sources[registered[q]] : SourceDomain[s] = d
                /\ \E r \in Recipients[registered[q]] : r # d
        BY <3>2, Zenon DEF AffectedBy
      <4>2. x[2] = registered[q]
        BY <4>1, Zenon
      <4>3. QED
        BY <3>1, <4>1, <4>2, Zenon DEF Crossing
    <3>3. QED
      BY <3>2, Zenon
  <2>3. \A x \in plan'[p].affected : Crossing(x[2], plan'[p].domain)
    <3>1. ChangePlan(d, to).affected = AffectedBy(d) /\ ChangePlan(d, to).domain = d
      BY Zenon DEF ChangePlan
    <3>2. QED
      BY <2>1, <2>2, <3>1, Zenon
  <2>4. QED
    BY <2>1, <2>3, Zenon DEF Engaged, Activates, Applying, InForce, Crossing
<1>3. QED
  BY <1>1, <1>2, Zenon DEF Start

\* A step of a call keeps it engaged.
LEMMA OwnStepEngaged ==
    ASSUME Inv, ~LateCommands, Next, NEW p \in Proc, Engaged(p), Work(p) \/ Abort(p)
    PROVE  Engaged(p)'
<1>0. /\ pc \in [Proc -> Step] /\ call \in [Proc -> Call]
      /\ current \in [Proc -> Queue \cup {NoQueue}]
  BY Zenon DEF Inv, TypeOK, JobType
<1>1. ASSUME End(p)
      PROVE  Engaged(p)'
  <2>1. call'[p] = "none" /\ current'[p] = NoQueue
    BY <1>0, <1>1, Zenon
  <2>2. QED
    BY <2>1, Zenon DEF Engaged
<1>2. ASSUME Return(p, FALSE), pc[p] \notin {"idle"} \cup ActivateSteps
      PROVE  Engaged(p)'
  <2>1. current[p] # NoQueue
    BY <1>2, QueueAssumption, Zenon DEF Inv, CallsInv
  <2>2. QED
    BY <1>1, <1>2, <2>1, ContinueEngaged, Zenon
<1>3. CASE Deliver(p) \/ Release(p)
  <2>1. CASE RegisterRefused(p) \/ Relay(p) \/ RelRefused(p) \/ RelFinish(p)
    BY <1>1, <2>1, Zenon DEF RegisterRefused, Relay, RelRefused, RelFinish
  <2>2. CASE Register(p) \/ RelLock(p) \/ RelPolicy(p) \/ RelInspect(p) \/ RelStart(p)
             \/ RelCall(p) \/ RelVerify(p)
    <3>1. call'[p] = call[p] /\ call[p] # "activate"
      BY <2>2, Zenon
      DEF Inv, CallsInv, ReleaseSteps, Register, RelLock, RelPolicy, RelInspect, RelStart,
          RelCall, RelVerify
    <3>2. pc'[p] \notin {"idle"} \cup ActivateSteps
      BY <1>0, <2>2, Zenon
      DEF Register, RelLock, RelPolicy, RelInspect, RelStart, RelCall, RelVerify,
          RelConclude, ActivateSteps
    <3>3. QED
      BY <3>1, <3>2, Zenon DEF Engaged
  <2>3. QED
    BY <1>3, <2>1, <2>2, Zenon DEF Deliver, Release
<1>4. CASE Decide(p) \/ Reconcile(p)
  <2>0. pc[p] \notin {"idle"} \cup ActivateSteps
    BY <1>4, Zenon
    DEF Decide, Reconcile, DecideOk, DecideHold, DecideUnavailable, DecidedAll, RequireHold,
        RecLock, RecAlreadyHeld, RecAttempt, RecNotRequired, RecStart, RecInspect, RecHold,
        RecVerify, RecFinish, ActivateSteps
  <2>1. CASE DecideHold(p) \/ RequireHold(p) \/ RecLock(p) \/ RecAttempt(p) \/ RecStart(p)
             \/ RecInspect(p) \/ RecHold(p) \/ RecVerify(p)
    <3>1. pc'[p] \notin {"idle", "decide"} \cup ActivateSteps
      BY <1>0, <2>1, Zenon
      DEF DecideHold, RequireHold, RecLock, RecAttempt, RecStart, RecInspect, RecHold,
          RecVerify, RecConclude, ActivateSteps
    <3>2. UNCHANGED jobVars
      BY <2>1, Zenon
      DEF DecideHold, RequireHold, RecLock, RecAttempt, RecStart, RecInspect, RecHold,
          RecVerify
    <3>3. CASE call[p] = "activate"
      BY <2>0, <3>1, <3>2, <3>3, WorkEngaged, Zenon
    <3>4. CASE call[p] # "activate"
      BY <3>1, <3>2, <3>4, Zenon DEF Engaged
    <3>5. QED
      BY <3>3, <3>4, Zenon
  <2>2. CASE DecideUnavailable(p) \/ RecNotRequired(p)
    BY <1>2, <2>0, <2>2, Zenon DEF DecideUnavailable, RecNotRequired
  <2>3. CASE DecideOk(p) \/ DecidedAll(p)
    <3>1. CASE call[p] = "activate"
      BY <2>3, <3>1, DecideEngaged, Zenon
    <3>2. CASE call[p] # "activate"
      <4>1. pc'[p] \in {"decide", "relay"} /\ call'[p] = call[p]
        BY <1>0, <2>3, <3>2, Zenon DEF DecideOk, DecidedAll
      <4>2. QED
        BY <3>2, <4>1, Zenon DEF Engaged, ActivateSteps
    <3>3. QED
      BY <3>1, <3>2
  <2>4. CASE RecAlreadyHeld(p) \/ RecFinish(p)
    <3>1. CASE call[p] # "activate"
      BY <1>1, <2>4, <3>1, Zenon DEF RecAlreadyHeld, RecFinish
    <3>2. CASE call[p] = "activate"
      <4>1. PICK ok \in BOOLEAN :
                /\ Continue(p, ok)
                /\ ok => \/ Matches(current[p]) /\ Held(current[p])
                         \/ pc[p] = "rec_finish" /\ outcome[p] = "held"
        <5>1. CASE RecAlreadyHeld(p)
          BY <3>2, <5>1, Zenon DEF RecAlreadyHeld
        <5>2. CASE RecFinish(p)
          BY <3>2, <5>2, Zenon DEF RecFinish
        <5>3. QED
          BY <2>4, <5>1, <5>2, Zenon
      <4>2. UNCHANGED postfixVars
        BY <2>4, Zenon DEF RecAlreadyHeld, RecFinish
      <4>3. current[p] # NoQueue
        BY <2>0, QueueAssumption, Zenon DEF Inv, CallsInv
      <4>4. ok => \A x \in plan[p].affected : x[1] = current[p] => Undeliverable(x)'
        BY <3>2, <4>1, <4>2, HeldIsUndeliverable, Zenon
      <4>5. QED
        BY <3>2, <4>1, <4>3, <4>4, ContinueEngaged, Zenon
    <3>3. QED
      BY <3>1, <3>2, Zenon
  <2>5. QED
    BY <1>4, <2>1, <2>2, <2>3, <2>4, Zenon DEF Decide, Reconcile
<1>5. CASE Activate(p)
  <2>1. CASE ActRefused(p) \/ ActEnd(p)
    BY <1>1, <2>1, Zenon DEF ActRefused, ActEnd
  <2>2. CASE ActBegin(p) \/ ActCommit(p) \/ ActNext(p)
    <3>1. call[p] = "activate"
      BY <2>2, Zenon DEF Inv, CallsInv, ActivateSteps, ActBegin, ActCommit, ActNext
    <3>2. QED
      BY <2>2, <3>1, ActivateEngaged, Zenon
  <2>3. QED
    BY <1>5, <2>1, <2>2, Zenon DEF Activate
<1>6. CASE Abort(p)
  BY <1>1, <1>6, ContinueEngaged, Zenon DEF Abort
<1>7. QED
  BY <1>3, <1>4, <1>5, <1>6, Zenon DEF Work

\* ActivationInv is kept by every step.
LEMMA ActivationStep ==
    ASSUME ~LateCommands, Inv, ActivationInv, [Next]_vars
    PROVE  ActivationInv'
<1>1. CASE UNCHANGED vars
  <2>1. /\ scope' = scope /\ revision' = revision /\ place' = place /\ message' = message
        /\ pc' = pc /\ call' = call /\ plan' = plan /\ todo' = todo /\ failed' = failed
        /\ current' = current /\ subject' = subject /\ undecided' = undecided
    BY <1>1, Zenon DEF vars
  <2>2. \A p \in Proc : InForce(p)' = InForce(p) /\ Sweeps(p)' = Sweeps(p)
    BY <2>1, Zenon DEF InForce, Applying, Expected, Sweeps, Undeliverable
  <2>3. \A p \in Proc : Activates(p)' = Activates(p)
    BY <2>1, <2>2 DEF Activates, Applying, Expected, Crossing
  <2>4. QED
    BY <2>1, <2>3, Zenon DEF ActivationInv, Engaged
<1>2. ASSUME Next, NEW p \in Proc
      PROVE  Engaged(p)'
  BY <1>2, OthersKeepTheirJobs, SameJobEngaged, StartEngaged, OwnStepEngaged, Zenon
  DEF Inv, ActivationInv
<1>3. QED
  BY <1>1, <1>2, Zenon DEF ActivationInv

\* When an activation reports no failure and its restriction is still in
\* force, none of the queues it selected is deliverable, whatever deliveries,
\* releases, arrivals and other activations ran meanwhile (admin.go:160-217).
THEOREM ActivationHolds == Spec => []ActivationHoldsAffected
<1>1. CASE LateCommands
  <2>1. ActivationHoldsAffected
    BY <1>1, Zenon DEF ActivationHoldsAffected
  <2>2. QED
    BY <2>1, PTL
<1>2. CASE ~LateCommands
  <2>1. Init => ActivationInv
    BY DEF Init, ActivationInv, Engaged
  <2>2. Inv /\ ActivationInv => ActivationHoldsAffected
    <3>1. SUFFICES ASSUME Inv, ActivationInv, NEW p \in Proc,
                          pc[p] = "act_next", todo[p] = {}, ~failed[p],
                          plan[p].requested = "same_domain_only",
                          scope[plan[p].domain] = "same_domain_only",
                          revision[plan[p].domain] = Expected(p),
                          NEW x \in plan[p].affected
                   PROVE  Undeliverable(x)
      BY Zenon DEF ActivationHoldsAffected, Undeliverable, Expected
    <3>2. call[p] = "activate" /\ current[p] = NoQueue /\ Activates(p)
      BY <3>1, Zenon DEF Inv, CallsInv, ActivateSteps, ActivationInv, Engaged
    <3>3. InForce(p)
      BY <3>1, <3>2, Zenon DEF InForce, Applying
    <3>4. x[1] # NoQueue
      <4>1. plan[p] \in Plan
        BY <3>1, <3>2, Zenon DEF Inv, CallsInv
      <4>2. QED
        BY <4>1, <3>1, QueueAssumption, Zenon DEF Plan
    <3>5. QED
      BY <3>1, <3>2, <3>3, <3>4, Zenon DEF Activates, Sweeps
  <2>3. QED
    BY <1>2, <2>1, <2>2, ActivationStep, Invariance, PTL DEF Spec
<1>3. QED
  BY <1>1, <1>2, Zenon
=============================================================================
