--------------------------- MODULE OutboundLemmas ---------------------------
(***************************************************************************)
(* What the verdict on a set of governing domains guarantees, for every    *)
(* set of domains and every set of governing entries; that the loop of     *)
(* Evaluate computes this verdict for every list of governing entries, of  *)
(* any length and with any invalid, repeated or contradictory entries; and *)
(* the type correctness of OutboundQueue, the facts on policy reads and on *)
(* the cases of Next, and the structural part of its inductive invariant:  *)
(* which rows and files exist, which call a process runs and which message *)
(* it is bound to.  Each lemma takes the cases of Next one by one.         *)
(***************************************************************************)
EXTENDS OutboundQueue, OutboundPolicyLoop, TLAPS

\* The four shapes of a verdict (policy.go:156-212).
LEMMA JudgeCases ==
    ASSUME NEW stage, NEW r, NEW g
    PROVE  LET v == Judge(stage, r, g)
           IN  \/ ~ValidGoverning(g) /\ v = Unavailable
               \/ /\ Permits(r, g)
                  /\ v = Verdict("ok", PermittedReason(g), Restricted(g))
               \/ /\ ValidGoverning(g) /\ ~Permits(r, g) /\ stage = "transport"
                  /\ v = Verdict("defer", "recipient_domain_policy_hold",
                                 Restricted(g))
               \/ /\ ValidGoverning(g) /\ ~Permits(r, g) /\ stage # "transport"
                  /\ v = Verdict("reject", RejectedReason(g), Restricted(g))
BY Zenon DEF Judge, Permits

\* A request is permitted exactly when the governing entries are consistent
\* and every restricted one names the recipient's domain: nothing malformed or
\* contradictory is ever permitted (policy.go:177-211).
THEOREM PermittedExactly ==
    ASSUME NEW stage, NEW r, NEW g
    PROVE  Judge(stage, r, g).action = "ok" <=>
               /\ g \subseteq GoverningDomain
               /\ \A x, y \in g : x.domain = y.domain => x = y
               /\ \A x \in g : x.scope = "same_domain_only" => x.domain = r
<1>1. Judge(stage, r, g).action = "ok" <=> Permits(r, g)
  BY JudgeCases DEF Verdict, Unavailable, Permits
<1>2. QED
  BY <1>1, Zenon
  DEF Permits, ValidGoverning, Contradictory, RestrictedDomains

\* Submission and final transport permit the same recipients: what is accepted
\* under a policy is delivered under it (policy.go:199-211).
THEOREM StagesAgree ==
    ASSUME NEW r, NEW g
    PROVE  Judge("submission", r, g).action = "ok"
           <=> Judge("transport", r, g).action = "ok"
BY PermittedExactly

\* At final transport nothing is rejected: a forbidden recipient is deferred
\* with the revisions that forbid it, so the message can be held.
THEOREM TransportNeverRejects ==
    ASSUME NEW r, NEW g
    PROVE  Judge("transport", r, g).action \in {"ok", "defer"}
BY JudgeCases DEF Verdict, Unavailable

\* Another governing domain never turns a refusal into a permission.
THEOREM MoreGoverningNeverPermits ==
    ASSUME NEW stage, NEW r, NEW g, NEW h, g \subseteq h,
           Judge(stage, r, h).action = "ok"
    PROVE  Judge(stage, r, g).action = "ok"
BY PermittedExactly

\* Two restricted governing domains permit no recipient at all, the
\* cross-domain conflict of policy.go:199-203.
THEOREM ConflictPermitsNothing ==
    ASSUME NEW stage, NEW r, NEW g, NEW x \in g, NEW y \in g,
           x.scope = "same_domain_only", y.scope = "same_domain_only",
           x.domain # y.domain
    PROVE  Judge(stage, r, g).action # "ok"
BY PermittedExactly

\* The revisions of a verdict are those of governing entries.
LEMMA RevisionsType ==
    ASSUME NEW stage, NEW r, NEW g
    PROVE  Judge(stage, r, g).revisions \subseteq Domain \X Nat
<1>1. ValidGoverning(g) => Restricted(g) \subseteq Domain \X Nat
  BY DEF ValidGoverning, Restricted, GoverningDomain
<1>2. QED
  BY <1>1, JudgeCases DEF Verdict, Unavailable, Permits

-----------------------------------------------------------------------------
(* OutboundQueue *)

USE DEF Goto, ClearWork, End, Continue, Return, Unlock,
        policyVars, rowVars, lockVars, postfixVars, jobVars, workVars

-----------------------------------------------------------------------------
(* Reads of the policy *)

\* The governing entries of a message are consistent: they are read from one
\* row per domain.
LEMMA GoverningValid ==
    ASSUME NEW m \in Message, PolicyType
    PROVE  ValidGoverning(GoverningNow(m))
BY MailAssumption
DEF PolicyType, GoverningNow, Governing, ValidGoverning, Contradictory,
    GoverningDomain

\* Permitted recipients are recipients, and every message has one.
LEMMA PermittedType ==
    ASSUME NEW m \in Message, NEW sc, NEW rv, NEW on
    PROVE  /\ Permitted(m, sc, rv, on) \subseteq Recipients[m]
           /\ Recipients[m] \subseteq Domain
           /\ Recipients[m] # {}
BY MailAssumption, Zenon DEF Permitted

\* A verdict of ok is a permission of the policy as it stands.
LEMMA OkIsPermitted ==
    ASSUME NEW m \in Message, NEW r \in Recipients[m], Sources[m] \subseteq enabled,
           Judge("transport", r, GoverningNow(m)).action = "ok"
    PROVE  r \in PermittedNow(m)
<1>1. Permits(r, GoverningNow(m))
  BY JudgeCases DEF Verdict, Unavailable
<1>2. QED
  BY <1>1, Zenon DEF PermittedNow, Permitted, GoverningNow

\* A release that previewed its record found every recipient permitted.
LEMMA PreviewedIsPermitted ==
    ASSUME NEW q \in Queue, NEW state, registered[q] \in Message,
           Previewed(q, state)
    PROVE  PermittedNow(registered[q]) = Recipients[registered[q]]
<1>1. \A r \in Recipients[registered[q]] : r \in PermittedNow(registered[q])
  BY OkIsPermitted, Zenon DEF Previewed
<1>2. QED
  BY <1>1, PermittedType, Zenon DEF PermittedNow

\* The plan of an activation names registered messages.
LEMMA ChangePlanType ==
    ASSUME TypeOK, RowsInv, NEW d \in Hosted, NEW to \in Scope
    PROVE  /\ ChangePlan(d, to) \in Plan
           /\ \A x \in ChangePlan(d, to).affected :
                x \in Queue \X Message /\ registered[x[1]] = x[2]
<1>1. \A x \in AffectedBy(d) : x \in Queue \X Message /\ registered[x[1]] = x[2]
  BY DEF AffectedBy, TypeOK, RowType, RowsInv
<1>2. QED
  BY <1>1, Zenon DEF ChangePlan, Plan, TypeOK, PolicyType

-----------------------------------------------------------------------------
(* Cases of Next *)

\* A call ends, or an activation goes on with its next queue, and nothing
\* else changes but the locks it frees.
Leave(p) ==
    /\ \/ End(p)
       \/ call[p] = "activate" /\ \E ok \in BOOLEAN : Continue(p, ok)
    /\ Unlock(p) \/ UNCHANGED lockVars
    /\ UNCHANGED <<policyVars, rowVars, postfixVars>>

\* The steps that end a call without touching policy, rows or Postfix.
LEMMA LeaveCases ==
    ASSUME NEW p \in Proc,
           \/ RegisterRefused(p) \/ DecideUnavailable(p) \/ RecAlreadyHeld(p)
           \/ RecNotRequired(p) \/ RelRefused(p)
           \/ ActRefused(p) \/ ActEnd(p) \/ Abort(p)
    PROVE  Leave(p)
BY Zenon DEF Leave, RegisterRefused, DecideUnavailable, RecAlreadyHeld,
       RecNotRequired, RelRefused, ActRefused, ActEnd, Abort

\* The gate goes on to the relay.
DecidedRelay(p) ==
    /\ pc[p] = "decide"
    /\ undecided[p] = {}
    /\ call[p] = "deliver"
    /\ Goto(p, "relay")
    /\ UNCHANGED <<jobVars, workVars, permittedSince>>
    /\ UNCHANGED <<policyVars, rowVars, lockVars, postfixVars>>

\* After the last recipient the call relays the mail or ends.
LEMMA DecidedCases ==
    ASSUME NEW p \in Proc, DecidedAll(p)
    PROVE  DecidedRelay(p) \/ Leave(p)
BY Zenon DEF DecidedAll, DecidedRelay, Leave

-----------------------------------------------------------------------------
(* Rows, calls and bindings *)

\* A row keeps its message, so what a process is bound to stays.
LEMMA BindingStep ==
    ASSUME TypeOK, RowsInv, CallsInv, BindingInv, Next
    PROVE  BindingInv'
<1>1. ASSUME NEW p \in Proc,
            DecideOk(p) \/ DecideHold(p) \/ DecidedRelay(p) \/
            RequireHold(p) \/ RecAttempt(p) \/ RecStart(p)
     PROVE  BindingInv'
  BY <1>1
  DEF TypeOK, JobType, WorkType, BindingInv, Bound, LockedSteps, SharingSteps,
      ReconcileSteps, ReleaseSteps, ActivateSteps, DecideOk, DecideHold,
      DecidedRelay, RequireHold, RecAttempt, RecStart
<1>2. ASSUME NEW p \in Proc,
            RecInspect(p) \/ RecHold(p) \/ RecVerify(p)
     PROVE  BindingInv'
  BY <1>2
  DEF TypeOK, JobType, WorkType, BindingInv, Bound, LockedSteps, SharingSteps,
      ReconcileSteps, ReleaseSteps, ActivateSteps, RecConclude, RecInspect,
      RecHold, RecVerify
<1>3. ASSUME NEW p \in Proc,
            RelInspect(p) \/ RelStart(p)
     PROVE  BindingInv'
  BY <1>3
  DEF TypeOK, JobType, WorkType, BindingInv, Bound, LockedSteps, SharingSteps,
      ReconcileSteps, ReleaseSteps, ActivateSteps, RelInspect, RelStart
<1>4. ASSUME NEW p \in Proc,
            RelCall(p) \/ RelVerify(p)
     PROVE  BindingInv'
  BY <1>4
  DEF TypeOK, JobType, WorkType, BindingInv, Bound, LockedSteps, SharingSteps,
      ReconcileSteps, ReleaseSteps, ActivateSteps, RelConclude, RelCall,
      RelVerify
<1>5. ASSUME NEW p \in Proc,
            Relay(p) \/ RecFinish(p) \/ RelFinish(p) \/ Leave(p)
     PROVE  BindingInv'
  BY <1>5
  DEF TypeOK, JobType, WorkType, BindingInv, Bound, LockedSteps, SharingSteps,
      ReconcileSteps, ReleaseSteps, ActivateSteps, Relay, RecFinish,
      RelFinish, Leave
<1>6. ASSUME NEW p \in Proc, NEW q \in Queue, StartDeliver(p, q)
     PROVE  BindingInv'
  BY <1>6
  DEF TypeOK, JobType, WorkType, BindingInv, Bound, LockedSteps, SharingSteps,
      ReconcileSteps, ReleaseSteps, ActivateSteps, RowsInv, PostfixType,
      StartDeliver
<1>7. ASSUME NEW p \in Proc, NEW q \in Queue, StartReconcile(p, q)
     PROVE  BindingInv'
  BY <1>7
  DEF TypeOK, JobType, WorkType, BindingInv, Bound, LockedSteps, SharingSteps,
      ReconcileSteps, ReleaseSteps, ActivateSteps, StartReconcile
<1>8. ASSUME NEW p \in Proc, NEW q \in Queue, StartRelease(p, q)
     PROVE  BindingInv'
  BY <1>8
  DEF TypeOK, JobType, WorkType, BindingInv, Bound, LockedSteps, SharingSteps,
      ReconcileSteps, ReleaseSteps, ActivateSteps, StartRelease
<1>9. ASSUME NEW p \in Proc, NEW d \in Hosted, NEW to \in Scope, StartActivate(p, d, to)
     PROVE  BindingInv'
  <2>1. \A x \in ChangePlan(d, to).affected : registered[x[1]] = x[2]
    BY ChangePlanType, Zenon
  <2>2. QED
    BY <1>9, <2>1
    DEF TypeOK, JobType, BindingInv, Bound, LockedSteps, SharingSteps, ReconcileSteps,
        ReleaseSteps, StartActivate
<1>10. ASSUME NEW p \in Proc, Register(p)
     PROVE  BindingInv'
  <2>1. /\ registered'[current[p]] = subject[p]
        /\ subject[p] \in Message
        /\ current[p] \in Queue
    BY <1>10, Zenon DEF Register, CallsInv, TypeOK, RowType
  <2>2. \A q \in Queue : registered[q] # NoMessage => registered'[q] = registered[q]
    BY <1>10, Zenon DEF Register, RowsInv, TypeOK, RowType
  <2>3. \A o \in Proc :
            /\ pc[o] \in {"decide", "require_hold", "relay"} \cup LockedSteps
                => current[o] \in Queue
            /\ call[o] = "activate" =>
                \A x \in plan[o].affected : x[1] \in Queue /\ x[2] \in Message
            /\ todo[o] \subseteq Queue
    BY DEF CallsInv, LockedSteps, ReconcileSteps, ReleaseSteps, ActivateSteps,
           TypeOK, JobType, Plan
  <2>4. SharingSteps \subseteq LockedSteps
    BY Zenon DEF SharingSteps, LockedSteps, ReleaseSteps
  <2>5. pc' = [pc EXCEPT ![p] = "decide"] /\ pc \in [Proc -> Step]
    BY <1>10, Zenon DEF Register, TypeOK, JobType
  <2>6. "decide" \notin LockedSteps
    BY Zenon DEF LockedSteps, ReconcileSteps, ReleaseSteps
  <2>7. ASSUME NEW o \in Proc PROVE Bound(o)'
    <3>1. UNCHANGED <<current, subject, undecided, loaded, call, plan, todo>>
      BY <1>10, Zenon DEF Register
    <3>2. CASE o = p
      <4>1. pc[p] = "register" /\ pc'[p] = "decide" /\ call[p] = "deliver"
        BY <1>10, <2>5, Zenon DEF Register, CallsInv
      <4>2. undecided[p] = Recipients[subject[p]]
        BY <4>1, Zenon DEF BindingInv, Bound
      <4>3. \A q \in todo[p] : registered[q] \in Message
        BY Zenon DEF BindingInv, Bound
      <4>4. QED
        BY <2>1, <2>2, <2>3, <2>4, <2>6, <3>1, <3>2, <4>1, <4>2, <4>3,
           MailAssumption, Zenon
        DEF Bound
    <3>3. CASE o # p
      <4>1. pc'[o] = pc[o]
        BY <2>5, <3>3, Zenon
      <4>2. Bound(o)
        BY Zenon DEF BindingInv
      <4>3. QED
        BY <2>2, <2>3, <2>4, <3>1, <4>1, <4>2, MailAssumption DEF Bound
    <3>4. QED
      BY <3>2, <3>3, Zenon
  <2>8. QED
    BY <2>7, Zenon DEF BindingInv
<1>11. ASSUME NEW p \in Proc, RecLock(p)
     PROVE  BindingInv'
  BY <1>11
  DEF TypeOK, JobType, WorkType, BindingInv, Bound, LockedSteps, SharingSteps,
      ReconcileSteps, ReleaseSteps, ActivateSteps, RowsInv, RowType, CallsInv,
      RecLock
<1>12. ASSUME NEW p \in Proc, RelLock(p)
     PROVE  BindingInv'
  BY <1>12
  DEF TypeOK, JobType, WorkType, BindingInv, Bound, LockedSteps, SharingSteps,
      ReconcileSteps, ReleaseSteps, ActivateSteps, RowsInv, RowType, CallsInv,
      RelLock
<1>13. ASSUME NEW p \in Proc, RelPolicy(p)
     PROVE  BindingInv'
  BY <1>13, MailAssumption
  DEF TypeOK, JobType, WorkType, BindingInv, Bound, LockedSteps, SharingSteps,
      ReconcileSteps, ReleaseSteps, ActivateSteps, RowsInv, RowType,
      Previewed, Releasable, CallsInv, RelPolicy
<1>14. ASSUME NEW p \in Proc, ActBegin(p)
     PROVE  BindingInv'
  <2>1. \A x \in plan[p].affected : registered[x[1]] \in Message
    BY <1>14 DEF ActBegin, CallsInv, BindingInv, Bound, ActivateSteps, Plan
  <2>2. \A q \in {x[1] : x \in plan[p].affected} : registered[q] \in Message
    BY <2>1, Zenon
  <2>3. QED
    BY <1>14, <2>2
    DEF TypeOK, JobType, BindingInv, Bound, LockedSteps, SharingSteps, ReconcileSteps,
        ReleaseSteps, ActBegin
<1>15. ASSUME NEW p \in Proc, ActCommit(p)
     PROVE  BindingInv'
  <2>1. \A x \in plan[p].affected : registered[x[1]] \in Message
    BY <1>15 DEF ActCommit, CallsInv, BindingInv, Bound, ActivateSteps, Plan
  <2>2. \A q \in {x[1] : x \in plan[p].affected} : registered[q] \in Message
    BY <2>1
  <2>3. QED
    BY <1>15, <2>2
    DEF TypeOK, JobType, BindingInv, Bound, LockedSteps, SharingSteps, ReconcileSteps,
        ReleaseSteps, ActCommit
<1>16. ASSUME NEW p \in Proc, ActNext(p)
     PROVE  BindingInv'
  <2>1. ASSUME NEW o \in Proc, o # p PROVE Bound(o)'
    BY <1>16, <2>1 DEF TypeOK, JobType, WorkType, BindingInv, Bound, ActNext
  <2>2. Bound(p)'
    BY <1>16
    DEF TypeOK, JobType, WorkType, BindingInv, Bound, LockedSteps, SharingSteps,
        ReconcileSteps, ReleaseSteps, ActNext
  <2>3. QED
    BY <2>1, <2>2, Zenon DEF BindingInv
<1>17. ASSUME NEW s \in Source, ToggleSource(s)
     PROVE  BindingInv'
  BY <1>17, Zenon DEF BindingInv, Bound, ToggleSource
<1>18. ASSUME NEW q \in Queue, NEW m \in Message, Arrive(q, m)
     PROVE  BindingInv'
  BY <1>18, Zenon DEF BindingInv, Bound, Arrive
<1>19. ASSUME NEW q \in Queue, Remove(q)
     PROVE  BindingInv'
  BY <1>19, Zenon DEF BindingInv, Bound, Remove
<1>20. ASSUME NEW q \in Queue, LateCommand(q)
     PROVE  BindingInv'
  BY <1>20, Zenon DEF BindingInv, Bound, LateCommand
<1>21. QED
  BY <1>1, <1>2, <1>3, <1>4, <1>5, <1>6, <1>7, <1>8, <1>9, <1>10, <1>11,
     <1>12, <1>13, <1>14, <1>15, <1>16, <1>17, <1>18, <1>19, <1>20,
     LeaveCases, DecidedCases, QueueAssumption, Zenon
  DEF Next, Start, Work, Deliver, Decide, Reconcile, Release, Activate,
      Environment

\* Calls follow their steps.
LEMMA CallsStep ==
    ASSUME TypeOK, RowsInv, CallsInv, Next
    PROVE  CallsInv'
<1>1. ASSUME NEW p \in Proc,
            Register(p) \/ DecideOk(p) \/ DecideHold(p) \/
            DecidedRelay(p) \/ RequireHold(p)
     PROVE  CallsInv'
  BY <1>1, SMTT(20)
  DEF TypeOK, JobType, CallsInv, ReconcileSteps, ReleaseSteps, ActivateSteps,
      Register, DecideOk, DecideHold, DecidedRelay, RequireHold
<1>2. ASSUME NEW p \in Proc,
            RecLock(p) \/ RecAttempt(p) \/ RecStart(p) \/ RecInspect(p)
            \/ RecHold(p) \/ RecVerify(p)
     PROVE  CallsInv'
  BY <1>2, SMTT(20)
  DEF TypeOK, JobType, CallsInv, ReconcileSteps, ReleaseSteps, ActivateSteps,
      RecConclude, RecLock, RecAttempt, RecStart, RecInspect, RecHold,
      RecVerify
<1>3. ASSUME NEW p \in Proc,
            RelLock(p) \/ RelPolicy(p) \/ RelInspect(p) \/ RelStart(p)
            \/ RelCall(p) \/ RelVerify(p)
     PROVE  CallsInv'
  BY <1>3, SMTT(20)
  DEF TypeOK, JobType, CallsInv, ReconcileSteps, ReleaseSteps, ActivateSteps,
      RelConclude, RelLock, RelPolicy, RelInspect, RelStart, RelCall,
      RelVerify
<1>4. ASSUME NEW p \in Proc,
            Relay(p) \/ RecFinish(p) \/ RelFinish(p) \/ Leave(p)
     PROVE  CallsInv'
  BY <1>4
  DEF TypeOK, JobType, CallsInv, ReconcileSteps, ReleaseSteps, ActivateSteps,
      Relay, RecFinish, RelFinish, Leave
<1>5. ASSUME NEW p \in Proc, NEW q \in Queue, StartDeliver(p, q)
     PROVE  CallsInv'
  BY <1>5
  DEF TypeOK, JobType, CallsInv, ReconcileSteps, ReleaseSteps, ActivateSteps,
      RowsInv, RowType, PostfixType, StartDeliver
<1>6. ASSUME NEW p \in Proc, NEW q \in Queue, StartReconcile(p, q)
     PROVE  CallsInv'
  BY <1>6, Zenon
  DEF TypeOK, JobType, CallsInv, ReconcileSteps, ReleaseSteps, ActivateSteps,
      StartReconcile
<1>7. ASSUME NEW p \in Proc, NEW q \in Queue, StartRelease(p, q)
     PROVE  CallsInv'
  BY <1>7, Zenon
  DEF TypeOK, JobType, CallsInv, ReconcileSteps, ReleaseSteps, ActivateSteps,
      StartRelease
<1>8. ASSUME NEW p \in Proc, NEW d \in Hosted, NEW to \in Scope, StartActivate(p, d, to)
     PROVE  CallsInv'
  BY <1>8, ChangePlanType, Zenon
  DEF TypeOK, JobType, CallsInv, ReconcileSteps, ReleaseSteps, ActivateSteps,
      StartActivate
<1>9. ASSUME NEW p \in Proc, ActBegin(p)
     PROVE  CallsInv'
  BY <1>9
  DEF TypeOK, JobType, CallsInv, ReconcileSteps, ReleaseSteps, ActivateSteps,
      ActBegin
<1>10. ASSUME NEW p \in Proc, ActCommit(p)
     PROVE  CallsInv'
  BY <1>10, Zenon
  DEF TypeOK, JobType, CallsInv, ReconcileSteps, ReleaseSteps, ActivateSteps,
      ActCommit
<1>11. ASSUME NEW p \in Proc, ActNext(p)
     PROVE  CallsInv'
  BY <1>11
  DEF TypeOK, JobType, CallsInv, ReconcileSteps, ReleaseSteps, ActivateSteps,
      JobType, ActNext
<1>12. ASSUME NEW s \in Source, ToggleSource(s)
     PROVE  CallsInv'
  BY <1>12, Zenon
  DEF TypeOK, JobType, CallsInv, ReconcileSteps, ReleaseSteps, ActivateSteps,
      ToggleSource
<1>13. ASSUME NEW q \in Queue, NEW m \in Message, Arrive(q, m)
     PROVE  CallsInv'
  BY <1>13, Zenon
  DEF TypeOK, JobType, CallsInv, ReconcileSteps, ReleaseSteps, ActivateSteps,
      Arrive
<1>14. ASSUME NEW q \in Queue, Remove(q)
     PROVE  CallsInv'
  BY <1>14, Zenon
  DEF TypeOK, JobType, CallsInv, ReconcileSteps, ReleaseSteps, ActivateSteps,
      Remove
<1>15. ASSUME NEW q \in Queue, LateCommand(q)
     PROVE  CallsInv'
  BY <1>15, Zenon
  DEF TypeOK, JobType, CallsInv, ReconcileSteps, ReleaseSteps, ActivateSteps,
      LateCommand
<1>16. QED
  BY <1>1, <1>2, <1>3, <1>4, <1>5, <1>6, <1>7, <1>8, <1>9, <1>10, <1>11,
     <1>12, <1>13, <1>14, <1>15, LeaveCases, DecidedCases, QueueAssumption, ZenonT(30)
  DEF Next, Start, Work, Deliver, Decide, Reconcile, Release, Activate,
      Environment

\* Rows stay once they are there, and files have messages.
LEMMA RowsStep ==
    ASSUME TypeOK, RowsInv, CallsInv, BindingInv, RecordsInv, Next
    PROVE  RowsInv'
<1>1. ASSUME NEW p \in Proc,
            DecideOk(p) \/ DecideHold(p) \/ DecidedRelay(p) \/
            RecLock(p) \/ RecAttempt(p) \/ RecInspect(p) \/ RecVerify(p)
            \/ RelLock(p) \/ RelPolicy(p) \/ RelInspect(p) \/
            RelVerify(p) \/ ActBegin(p) \/ ActCommit(p) \/ ActNext(p) \/
            Leave(p)
     PROVE  RowsInv'
  BY <1>1, Zenon
  DEF TypeOK, RowType, PostfixType, RowsInv, DecideOk, DecideHold,
      DecidedRelay, RecLock, RecAttempt, RecInspect, RecVerify, RelLock,
      RelPolicy, RelInspect, RelVerify, ActBegin, ActCommit, ActNext, Leave
<1>2. ASSUME NEW p \in Proc, NEW q \in Queue, StartDeliver(p, q)
     PROVE  RowsInv'
  BY <1>2, Zenon
  DEF TypeOK, RowType, PostfixType, RowsInv, StartDeliver
<1>3. ASSUME NEW p \in Proc, NEW q \in Queue, StartReconcile(p, q)
     PROVE  RowsInv'
  BY <1>3, Zenon
  DEF TypeOK, RowType, PostfixType, RowsInv, StartReconcile
<1>4. ASSUME NEW p \in Proc, NEW q \in Queue, StartRelease(p, q)
     PROVE  RowsInv'
  BY <1>4, Zenon
  DEF TypeOK, RowType, PostfixType, RowsInv, StartRelease
<1>5. ASSUME NEW p \in Proc, NEW d \in Hosted, NEW to \in Scope, StartActivate(p, d, to)
     PROVE  RowsInv'
  BY <1>5, Zenon
  DEF TypeOK, RowType, PostfixType, RowsInv, StartActivate
<1>6. ASSUME NEW p \in Proc, Register(p)
     PROVE  RowsInv'
  BY <1>6, MailAssumption
  DEF TypeOK, RowType, PostfixType, RowsInv, CallsInv, Register
<1>7. ASSUME NEW p \in Proc, Relay(p)
     PROVE  RowsInv'
  BY <1>7
  DEF TypeOK, RowType, PostfixType, RowsInv, CallsInv, RecordsInv,
      HoldingSteps, UnholdingSteps, ReconcileSteps, ReleaseSteps,
      ActivateSteps, Relay
<1>8. ASSUME NEW p \in Proc, RequireHold(p)
     PROVE  RowsInv'
  BY <1>8, MailAssumption
  DEF TypeOK, RowType, PostfixType, RowsInv, CallsInv, BindingInv, Bound,
      RequireHold
<1>9. ASSUME NEW p \in Proc, RecStart(p)
     PROVE  RowsInv'
  BY <1>9, Zenon
  DEF TypeOK, RowType, PostfixType, RowsInv, CallsInv, Reconcilable,
      ReconcileSteps, ReleaseSteps, ActivateSteps, RecStart
<1>10. ASSUME NEW p \in Proc, RecHold(p)
     PROVE  RowsInv'
  BY <1>10, SMTT(20)
  DEF TypeOK, RowType, PostfixType, RowsInv, CallsInv, HoldEffect,
      ReconcileSteps, ReleaseSteps, ActivateSteps, RecHold
<1>11. ASSUME NEW p \in Proc, RecFinish(p)
     PROVE  RowsInv'
  BY <1>11
  DEF TypeOK, RowType, PostfixType, RowsInv, CallsInv, RecordsInv,
      HoldingSteps, UnholdingSteps, ReconcileSteps, ReleaseSteps,
      ActivateSteps, RecFinish
<1>12. ASSUME NEW p \in Proc, RelStart(p)
     PROVE  RowsInv'
  BY <1>12, Zenon
  DEF TypeOK, RowType, PostfixType, RowsInv, CallsInv, Releasable,
      ReconcileSteps, ReleaseSteps, ActivateSteps, RelStart
<1>13. ASSUME NEW p \in Proc, RelCall(p)
     PROVE  RowsInv'
  BY <1>13, SMTT(20)
  DEF TypeOK, RowType, PostfixType, RowsInv, CallsInv, ReleaseEffect,
      ReconcileSteps, ReleaseSteps, ActivateSteps, RelCall
<1>14. ASSUME NEW p \in Proc, RelFinish(p)
     PROVE  RowsInv'
  BY <1>14
  DEF TypeOK, RowType, PostfixType, RowsInv, CallsInv, RecordsInv,
      HoldingSteps, UnholdingSteps, ReconcileSteps, ReleaseSteps,
      ActivateSteps, RelFinish
<1>15. ASSUME NEW s \in Source, ToggleSource(s)
     PROVE  RowsInv'
  BY <1>15, Zenon
  DEF TypeOK, RowType, PostfixType, RowsInv, ToggleSource
<1>16. ASSUME NEW q \in Queue, NEW m \in Message, Arrive(q, m)
     PROVE  RowsInv'
  BY <1>16, MailAssumption, Zenon
  DEF TypeOK, RowType, PostfixType, RowsInv, Arrive
<1>17. ASSUME NEW q \in Queue, Remove(q)
     PROVE  RowsInv'
  BY <1>17, Zenon
  DEF TypeOK, RowType, PostfixType, RowsInv, Remove
<1>18. ASSUME NEW q \in Queue, LateCommand(q)
     PROVE  RowsInv'
  BY <1>18, Zenon
  DEF TypeOK, RowType, PostfixType, RowsInv, HoldEffect, ReleaseEffect,
      LateCommand
<1>19. QED
  BY <1>1, <1>2, <1>3, <1>4, <1>5, <1>6, <1>7, <1>8, <1>9, <1>10, <1>11,
     <1>12, <1>13, <1>14, <1>15, <1>16, <1>17, <1>18, LeaveCases,
     DecidedCases, QueueAssumption, Zenon
  DEF Next, Start, Work, Deliver, Decide, Reconcile, Release, Activate,
      Environment

-----------------------------------------------------------------------------
(* Types *)

\* The policy tables are written by activations and source changes only.
LEMMA PolicyTypeStep ==
    ASSUME TypeOK, CallsInv, Next
    PROVE  PolicyType'
<1>1. ASSUME NEW p \in Proc,
            Register(p) \/ Relay(p) \/ DecideOk(p) \/ DecideHold(p) \/
            DecidedRelay(p) \/ RequireHold(p) \/ RecLock(p) \/
            RecAttempt(p) \/ RecStart(p) \/ RecInspect(p) \/ RecHold(p)
            \/ RecVerify(p) \/ RecFinish(p) \/ RelLock(p) \/
            RelPolicy(p) \/ RelInspect(p) \/ RelStart(p) \/ RelCall(p)
            \/ RelVerify(p) \/ RelFinish(p) \/ ActBegin(p) \/ ActNext(p)
            \/ Leave(p)
     PROVE  PolicyType'
  BY <1>1, Zenon
  DEF TypeOK, PolicyType, Register, Relay, DecideOk, DecideHold, DecidedRelay,
      RequireHold, RecLock, RecAttempt, RecStart, RecInspect, RecHold,
      RecVerify, RecFinish, RelLock, RelPolicy, RelInspect, RelStart, RelCall,
      RelVerify, RelFinish, ActBegin, ActNext, Leave
<1>2. ASSUME NEW p \in Proc, NEW q \in Queue, StartDeliver(p, q)
     PROVE  PolicyType'
  BY <1>2, Zenon
  DEF TypeOK, PolicyType, StartDeliver
<1>3. ASSUME NEW p \in Proc, NEW q \in Queue, StartReconcile(p, q)
     PROVE  PolicyType'
  BY <1>3, Zenon
  DEF TypeOK, PolicyType, StartReconcile
<1>4. ASSUME NEW p \in Proc, NEW q \in Queue, StartRelease(p, q)
     PROVE  PolicyType'
  BY <1>4, Zenon
  DEF TypeOK, PolicyType, StartRelease
<1>5. ASSUME NEW p \in Proc, NEW d \in Hosted, NEW to \in Scope, StartActivate(p, d, to)
     PROVE  PolicyType'
  BY <1>5, Zenon
  DEF TypeOK, PolicyType, StartActivate
<1>6. ASSUME NEW p \in Proc, ActCommit(p)
     PROVE  PolicyType'
  <2>1. /\ pc[p] = "act_commit"
        /\ scope' = [scope EXCEPT ![plan[p].domain] = plan[p].requested]
        /\ revision' = [revision EXCEPT ![plan[p].domain] = @ + 1]
        /\ enabled' = enabled
    BY <1>6, Zenon DEF ActCommit
  <2>2. plan[p] \in Plan
    BY <2>1, Zenon DEF CallsInv, ActivateSteps
  <2>3. PolicyType
    BY Zenon DEF TypeOK
  <2>4. QED
    BY <2>1, <2>2, <2>3 DEF PolicyType, Plan
<1>7. ASSUME NEW s \in Source, ToggleSource(s)
     PROVE  PolicyType'
  BY <1>7, Zenon
  DEF TypeOK, PolicyType, ToggleSource
<1>8. ASSUME NEW q \in Queue, NEW m \in Message, Arrive(q, m)
     PROVE  PolicyType'
  BY <1>8, Zenon
  DEF TypeOK, PolicyType, Arrive
<1>9. ASSUME NEW q \in Queue, Remove(q)
     PROVE  PolicyType'
  BY <1>9, Zenon
  DEF TypeOK, PolicyType, Remove
<1>10. ASSUME NEW q \in Queue, LateCommand(q)
     PROVE  PolicyType'
  BY <1>10, Zenon
  DEF TypeOK, PolicyType, LateCommand
<1>11. QED
  BY <1>1, <1>2, <1>3, <1>4, <1>5, <1>6, <1>7, <1>8, <1>9, <1>10, LeaveCases,
     DecidedCases, QueueAssumption, Zenon
  DEF Next, Start, Work, Deliver, Decide, Reconcile, Release, Activate,
      Environment

\* Rows: registration, hold requirements and the outcomes of attempts.
LEMMA RowTypeStep ==
    ASSUME TypeOK, CallsInv, RecordsInv, Next
    PROVE  RowType'
<1>1. ASSUME NEW p \in Proc,
            Relay(p) \/ DecideOk(p) \/ DecideHold(p) \/ DecidedRelay(p)
            \/ RecLock(p) \/ RecAttempt(p) \/ RecInspect(p) \/
            RecHold(p) \/ RecVerify(p) \/ RelLock(p) \/ RelPolicy(p) \/
            RelInspect(p) \/ RelCall(p) \/ RelVerify(p) \/ ActBegin(p)
            \/ ActCommit(p) \/ ActNext(p) \/ Leave(p)
     PROVE  RowType'
  BY <1>1, Zenon
  DEF TypeOK, RowType, Relay, DecideOk, DecideHold, DecidedRelay, RecLock,
      RecAttempt, RecInspect, RecHold, RecVerify, RelLock, RelPolicy,
      RelInspect, RelCall, RelVerify, ActBegin, ActCommit, ActNext, Leave
<1>2. ASSUME NEW p \in Proc, NEW q \in Queue, StartDeliver(p, q)
     PROVE  RowType'
  BY <1>2, Zenon
  DEF TypeOK, RowType, StartDeliver
<1>3. ASSUME NEW p \in Proc, NEW q \in Queue, StartReconcile(p, q)
     PROVE  RowType'
  BY <1>3, Zenon
  DEF TypeOK, RowType, StartReconcile
<1>4. ASSUME NEW p \in Proc, NEW q \in Queue, StartRelease(p, q)
     PROVE  RowType'
  BY <1>4, Zenon
  DEF TypeOK, RowType, StartRelease
<1>5. ASSUME NEW p \in Proc, NEW d \in Hosted, NEW to \in Scope, StartActivate(p, d, to)
     PROVE  RowType'
  BY <1>5, Zenon
  DEF TypeOK, RowType, StartActivate
<1>6. ASSUME NEW p \in Proc, Register(p)
     PROVE  RowType'
  BY <1>6, Zenon
  DEF TypeOK, RowType, CallsInv, HoldState, JobType, WorkType, ReconcileSteps,
      ReleaseSteps, Register
<1>7. ASSUME NEW p \in Proc, RequireHold(p)
     PROVE  RowType'
  BY <1>7
  DEF TypeOK, RowType, CallsInv, HoldState, JobType, WorkType, ReconcileSteps,
      ReleaseSteps, RequireHold
<1>8. ASSUME NEW p \in Proc, RecStart(p)
     PROVE  RowType'
  BY <1>8, Zenon
  DEF TypeOK, RowType, CallsInv, HoldState, JobType, WorkType, ReconcileSteps,
      ReleaseSteps, RecStart
<1>9. ASSUME NEW p \in Proc, RecFinish(p)
     PROVE  RowType'
  BY <1>9, Zenon
  DEF TypeOK, RowType, CallsInv, HoldState, JobType, WorkType, ReconcileSteps,
      ReleaseSteps, RecFinish
<1>10. ASSUME NEW p \in Proc, RelStart(p)
     PROVE  RowType'
  BY <1>10, Zenon
  DEF TypeOK, RowType, CallsInv, HoldState, JobType, WorkType, ReconcileSteps,
      ReleaseSteps, RelStart
<1>11. ASSUME NEW p \in Proc, RelFinish(p)
     PROVE  RowType'
  BY <1>11, Zenon
  DEF TypeOK, RowType, CallsInv, HoldState, JobType, WorkType, ReconcileSteps,
      ReleaseSteps, RelFinish
<1>12. ASSUME NEW s \in Source, ToggleSource(s)
     PROVE  RowType'
  BY <1>12, Zenon
  DEF TypeOK, RowType, ToggleSource
<1>13. ASSUME NEW q \in Queue, NEW m \in Message, Arrive(q, m)
     PROVE  RowType'
  BY <1>13, Zenon
  DEF TypeOK, RowType, Arrive
<1>14. ASSUME NEW q \in Queue, Remove(q)
     PROVE  RowType'
  BY <1>14, Zenon
  DEF TypeOK, RowType, Remove
<1>15. ASSUME NEW q \in Queue, LateCommand(q)
     PROVE  RowType'
  BY <1>15, Zenon
  DEF TypeOK, RowType, LateCommand
<1>16. QED
  BY <1>1, <1>2, <1>3, <1>4, <1>5, <1>6, <1>7, <1>8, <1>9, <1>10, <1>11,
     <1>12, <1>13, <1>14, <1>15, LeaveCases, DecidedCases, QueueAssumption, Zenon
  DEF Next, Start, Work, Deliver, Decide, Reconcile, Release, Activate,
      Environment

\* Locks.
LEMMA LockTypeStep ==
    ASSUME TypeOK, Next
    PROVE  LockType'
<1>1. ASSUME NEW p \in Proc,
            Register(p) \/ Relay(p) \/ DecideOk(p) \/ DecideHold(p) \/
            DecidedRelay(p) \/ RequireHold(p) \/ RecAttempt(p) \/
            RecStart(p) \/ RecInspect(p) \/ RecHold(p) \/ RecVerify(p)
            \/ RelInspect(p) \/ RelStart(p) \/ RelCall(p) \/
            RelVerify(p) \/ ActBegin(p) \/ ActCommit(p) \/ ActNext(p)
     PROVE  LockType'
  BY <1>1, Zenon
  DEF TypeOK, LockType, Register, Relay, DecideOk, DecideHold, DecidedRelay,
      RequireHold, RecAttempt, RecStart, RecInspect, RecHold, RecVerify,
      RelInspect, RelStart, RelCall, RelVerify, ActBegin, ActCommit, ActNext
<1>2. ASSUME NEW p \in Proc, NEW q \in Queue, StartDeliver(p, q)
     PROVE  LockType'
  BY <1>2, Zenon
  DEF TypeOK, LockType, StartDeliver
<1>3. ASSUME NEW p \in Proc, NEW q \in Queue, StartReconcile(p, q)
     PROVE  LockType'
  BY <1>3, Zenon
  DEF TypeOK, LockType, StartReconcile
<1>4. ASSUME NEW p \in Proc, NEW q \in Queue, StartRelease(p, q)
     PROVE  LockType'
  BY <1>4, Zenon
  DEF TypeOK, LockType, StartRelease
<1>5. ASSUME NEW p \in Proc, NEW d \in Hosted, NEW to \in Scope, StartActivate(p, d, to)
     PROVE  LockType'
  BY <1>5, Zenon
  DEF TypeOK, LockType, StartActivate
<1>6. ASSUME NEW p \in Proc, RecLock(p)
     PROVE  LockType'
  BY <1>6, Zenon
  DEF TypeOK, LockType, RecLock
<1>7. ASSUME NEW p \in Proc, RecFinish(p)
     PROVE  LockType'
  BY <1>7, Zenon
  DEF TypeOK, LockType, RecFinish
<1>8. ASSUME NEW p \in Proc, RelLock(p)
     PROVE  LockType'
  BY <1>8, Zenon
  DEF TypeOK, LockType, RelLock
<1>9. ASSUME NEW p \in Proc, RelPolicy(p)
     PROVE  LockType'
  BY <1>9, Zenon
  DEF TypeOK, LockType, RelPolicy
<1>10. ASSUME NEW p \in Proc, RelFinish(p)
     PROVE  LockType'
  BY <1>10, Zenon
  DEF TypeOK, LockType, RelFinish
<1>11. ASSUME NEW p \in Proc, Leave(p)
     PROVE  LockType'
  BY <1>11, Zenon
  DEF TypeOK, LockType, Leave
<1>12. ASSUME NEW s \in Source, ToggleSource(s)
     PROVE  LockType'
  BY <1>12, Zenon
  DEF TypeOK, LockType, ToggleSource
<1>13. ASSUME NEW q \in Queue, NEW m \in Message, Arrive(q, m)
     PROVE  LockType'
  BY <1>13, Zenon
  DEF TypeOK, LockType, Arrive
<1>14. ASSUME NEW q \in Queue, Remove(q)
     PROVE  LockType'
  BY <1>14, Zenon
  DEF TypeOK, LockType, Remove
<1>15. ASSUME NEW q \in Queue, LateCommand(q)
     PROVE  LockType'
  BY <1>15, Zenon
  DEF TypeOK, LockType, LateCommand
<1>16. QED
  BY <1>1, <1>2, <1>3, <1>4, <1>5, <1>6, <1>7, <1>8, <1>9, <1>10, <1>11,
     <1>12, <1>13, <1>14, <1>15, LeaveCases, DecidedCases, QueueAssumption, Zenon
  DEF Next, Start, Work, Deliver, Decide, Reconcile, Release, Activate,
      Environment

\* The Postfix queue and the relay.
LEMMA PostfixTypeStep ==
    ASSUME TypeOK, CallsInv, Next
    PROVE  PostfixType'
<1>1. ASSUME NEW p \in Proc,
            Register(p) \/ DecideOk(p) \/ DecideHold(p) \/
            DecidedRelay(p) \/ RequireHold(p) \/ RecLock(p) \/
            RecAttempt(p) \/ RecStart(p) \/ RecInspect(p) \/
            RecVerify(p) \/ RecFinish(p) \/ RelLock(p) \/ RelPolicy(p)
            \/ RelInspect(p) \/ RelStart(p) \/ RelVerify(p) \/
            RelFinish(p) \/ ActBegin(p) \/ ActCommit(p) \/ ActNext(p) \/
            Leave(p)
     PROVE  PostfixType'
  BY <1>1, Zenon
  DEF TypeOK, PostfixType, Register, DecideOk, DecideHold, DecidedRelay,
      RequireHold, RecLock, RecAttempt, RecStart, RecInspect, RecVerify,
      RecFinish, RelLock, RelPolicy, RelInspect, RelStart, RelVerify,
      RelFinish, ActBegin, ActCommit, ActNext, Leave
<1>2. ASSUME NEW p \in Proc, NEW q \in Queue, StartDeliver(p, q)
     PROVE  PostfixType'
  BY <1>2, Zenon
  DEF TypeOK, PostfixType, StartDeliver
<1>3. ASSUME NEW p \in Proc, NEW q \in Queue, StartReconcile(p, q)
     PROVE  PostfixType'
  BY <1>3, Zenon
  DEF TypeOK, PostfixType, StartReconcile
<1>4. ASSUME NEW p \in Proc, NEW q \in Queue, StartRelease(p, q)
     PROVE  PostfixType'
  BY <1>4, Zenon
  DEF TypeOK, PostfixType, StartRelease
<1>5. ASSUME NEW p \in Proc, NEW d \in Hosted, NEW to \in Scope, StartActivate(p, d, to)
     PROVE  PostfixType'
  BY <1>5, Zenon
  DEF TypeOK, PostfixType, StartActivate
<1>6. ASSUME NEW p \in Proc, Relay(p)
     PROVE  PostfixType'
  BY <1>6
  DEF TypeOK, PostfixType, CallsInv, Relay
<1>7. ASSUME NEW p \in Proc, RecHold(p)
     PROVE  PostfixType'
  BY <1>7
  DEF TypeOK, PostfixType, HoldEffect, CallsInv, ReconcileSteps,
      ActivateSteps, RecHold
<1>8. ASSUME NEW p \in Proc, RelCall(p)
     PROVE  PostfixType'
  BY <1>8
  DEF TypeOK, PostfixType, ReleaseEffect, CallsInv, ReleaseSteps,
      ActivateSteps, RelCall
<1>9. ASSUME NEW s \in Source, ToggleSource(s)
     PROVE  PostfixType'
  BY <1>9, Zenon
  DEF TypeOK, PostfixType, ToggleSource
<1>10. ASSUME NEW q \in Queue, NEW m \in Message, Arrive(q, m)
     PROVE  PostfixType'
  BY <1>10, Zenon
  DEF TypeOK, PostfixType, Arrive
<1>11. ASSUME NEW q \in Queue, Remove(q)
     PROVE  PostfixType'
  BY <1>11, Zenon
  DEF TypeOK, PostfixType, Remove
<1>12. ASSUME NEW q \in Queue, LateCommand(q)
     PROVE  PostfixType'
  BY <1>12, Zenon
  DEF TypeOK, PostfixType, HoldEffect, ReleaseEffect, LateCommand
<1>13. QED
  BY <1>1, <1>2, <1>3, <1>4, <1>5, <1>6, <1>7, <1>8, <1>9, <1>10, <1>11,
     <1>12, LeaveCases, DecidedCases, QueueAssumption, Zenon
  DEF Next, Start, Work, Deliver, Decide, Reconcile, Release, Activate,
      Environment

\* Steps, calls and what they work on.
LEMMA JobTypeStep ==
    ASSUME TypeOK, RowsInv, CallsInv, Next
    PROVE  JobType'
<1>1. ASSUME NEW p \in Proc,
            Register(p) \/ DecideOk(p) \/ DecideHold(p) \/
            DecidedRelay(p) \/ RequireHold(p) \/ RelPolicy(p) \/
            RelInspect(p) \/ RelStart(p)
     PROVE  JobType'
  BY <1>1, Zenon
  DEF TypeOK, JobType, Step, Register, DecideOk, DecideHold, DecidedRelay,
      RequireHold, RelPolicy, RelInspect, RelStart
<1>2. ASSUME NEW p \in Proc,
            RecLock(p) \/ RecAttempt(p) \/ RecStart(p) \/ RecInspect(p)
            \/ RecHold(p) \/ RecVerify(p)
     PROVE  JobType'
  BY <1>2, Zenon
  DEF TypeOK, JobType, Step, RecConclude, RecLock, RecAttempt, RecStart,
      RecInspect, RecHold, RecVerify
<1>3. ASSUME NEW p \in Proc,
            RelLock(p) \/ RelCall(p) \/ RelVerify(p)
     PROVE  JobType'
  BY <1>3, Zenon
  DEF TypeOK, JobType, Step, RelConclude, RelLock, RelCall, RelVerify
<1>4. ASSUME NEW p \in Proc,
            Relay(p) \/ RecFinish(p) \/ RelFinish(p) \/ Leave(p)
     PROVE  JobType'
  <2>1. CASE Relay(p) \/ RecFinish(p)
    BY <2>1, ZenonT(30) DEF TypeOK, JobType, Step, Call, Relay, RecFinish
  <2>2. CASE RelFinish(p) \/ Leave(p)
    BY <2>2, ZenonT(30) DEF TypeOK, JobType, Step, Call, RelFinish, Leave
  <2>3. QED
    BY <1>4, <2>1, <2>2, Zenon
<1>5. ASSUME NEW p \in Proc, NEW q \in Queue, StartDeliver(p, q)
     PROVE  JobType'
  BY <1>5, Zenon
  DEF TypeOK, JobType, Step, PostfixType, RowsInv, Call, StartDeliver
<1>6. ASSUME NEW p \in Proc, NEW q \in Queue, StartReconcile(p, q)
     PROVE  JobType'
  BY <1>6, Zenon
  DEF TypeOK, JobType, Step, Call, StartReconcile
<1>7. ASSUME NEW p \in Proc, NEW q \in Queue, StartRelease(p, q)
     PROVE  JobType'
  <2>1. registered[q] \in Message
    BY <1>7, Zenon DEF StartRelease, Previewed, Releasable, TypeOK, RowType, RowsInv
  <2>2. GoverningNow(registered[q]) \subseteq GoverningDomain
    BY <2>1, GoverningValid, Zenon DEF ValidGoverning, TypeOK
  <2>3. QED
    BY <1>7, <2>2, Zenon DEF TypeOK, JobType, StartRelease, Step, Call
<1>8. ASSUME NEW p \in Proc, NEW d \in Hosted, NEW to \in Scope, StartActivate(p, d, to)
     PROVE  JobType'
  <2>1. ChangePlan(d, to) \in Plan
    BY ChangePlanType, Zenon
  <2>2. QED
    BY <1>8, <2>1, Zenon DEF TypeOK, JobType, StartActivate, Step, Call
<1>9. ASSUME NEW p \in Proc, ActBegin(p)
     PROVE  JobType'
  <2>1. plan[p] \in Plan
    BY <1>9, Zenon DEF ActBegin, CallsInv, ActivateSteps
  <2>2. {x[1] : x \in plan[p].affected} \subseteq Queue
    BY <2>1, Zenon DEF Plan
  <2>3. QED
    BY <1>9, <2>2 DEF TypeOK, JobType, ActBegin, Step
<1>10. ASSUME NEW p \in Proc, ActCommit(p)
     PROVE  JobType'
  <2>1. plan[p] \in Plan
    BY <1>10, Zenon DEF ActCommit, CallsInv, ActivateSteps
  <2>2. {x[1] : x \in plan[p].affected} \subseteq Queue
    BY <2>1 DEF Plan
  <2>3. QED
    BY <1>10, <2>2, Zenon DEF TypeOK, JobType, ActCommit, Step
<1>11. ASSUME NEW p \in Proc, ActNext(p)
     PROVE  JobType'
  BY <1>11
  DEF TypeOK, JobType, Step, RowType, ActNext
<1>12. ASSUME NEW s \in Source, ToggleSource(s)
     PROVE  JobType'
  BY <1>12, Zenon
  DEF TypeOK, JobType, Step, ToggleSource
<1>13. ASSUME NEW q \in Queue, NEW m \in Message, Arrive(q, m)
     PROVE  JobType'
  BY <1>13, Zenon
  DEF TypeOK, JobType, Step, Arrive
<1>14. ASSUME NEW q \in Queue, Remove(q)
     PROVE  JobType'
  BY <1>14, Zenon
  DEF TypeOK, JobType, Step, Remove
<1>15. ASSUME NEW q \in Queue, LateCommand(q)
     PROVE  JobType'
  BY <1>15, Zenon
  DEF TypeOK, JobType, Step, LateCommand
<1>16. QED
  BY <1>1, <1>2, <1>3, <1>4, <1>5, <1>6, <1>7, <1>8, <1>9, <1>10, <1>11,
     <1>12, <1>13, <1>14, <1>15, LeaveCases, DecidedCases, QueueAssumption, Zenon
  DEF Next, Start, Work, Deliver, Decide, Reconcile, Release, Activate,
      Environment

\* Local variables and the history.
LEMMA WorkTypeStep ==
    ASSUME TypeOK, RowsInv, CallsInv, BindingInv, Next
    PROVE  WorkType'
<1>1. ASSUME NEW p \in Proc,
            Register(p) \/ DecideOk(p) \/ DecidedRelay(p) \/
            RequireHold(p) \/ RelPolicy(p) \/ RelInspect(p) \/
            RelStart(p) \/ ActBegin(p) \/ RecAttempt(p) \/ RecStart(p)
     PROVE  WorkType'
  BY <1>1, Zenon
  DEF TypeOK, WorkType, Register, DecideOk, DecidedRelay, RequireHold,
      RelPolicy, RelInspect, RelStart, ActBegin, RecAttempt, RecStart
<1>2. ASSUME NEW p \in Proc,
            RecInspect(p) \/ RecHold(p) \/ RecVerify(p) \/ RelCall(p) \/
            RelVerify(p)
     PROVE  WorkType'
  BY <1>2, Zenon
  DEF TypeOK, WorkType, RecConclude, RelConclude, HoldState, RecInspect,
      RecHold, RecVerify, RelCall, RelVerify
<1>3. ASSUME NEW p \in Proc,
            Relay(p) \/ RecFinish(p) \/ RelFinish(p) \/ Leave(p)
     PROVE  WorkType'
  BY <1>3, Zenon
  DEF TypeOK, WorkType, HoldState, Relay, RecFinish, RelFinish, Leave
<1>4. ASSUME NEW p \in Proc, NEW q \in Queue, StartDeliver(p, q)
     PROVE  WorkType'
  <2>1. message[q] \in Message
    BY <1>4, Zenon DEF StartDeliver, TypeOK, PostfixType, RowsInv
  <2>2. /\ Recipients[message[q]] \subseteq Domain
        /\ PermittedNow(message[q]) \subseteq Domain
    BY <2>1, PermittedType, Zenon DEF PermittedNow
  <2>3. QED
    BY <1>4, <2>2, Zenon DEF TypeOK, WorkType, StartDeliver
<1>5. ASSUME NEW p \in Proc, NEW q \in Queue, StartReconcile(p, q)
     PROVE  WorkType'
  BY <1>5, Zenon
  DEF TypeOK, WorkType, StartReconcile
<1>6. ASSUME NEW p \in Proc, NEW q \in Queue, StartRelease(p, q)
     PROVE  WorkType'
  BY <1>6, Zenon
  DEF TypeOK, WorkType, StartRelease
<1>7. ASSUME NEW p \in Proc, NEW d \in Hosted, NEW to \in Scope, StartActivate(p, d, to)
     PROVE  WorkType'
  BY <1>7, Zenon
  DEF TypeOK, WorkType, StartActivate
<1>8. ASSUME NEW p \in Proc, DecideHold(p)
     PROVE  WorkType'
  <2>1. PICK r \in undecided[p] :
            /\ demanded' = [demanded EXCEPT ![p] = VerdictOn(p, r).revisions]
    BY <1>8, Zenon DEF DecideHold
  <2>2. VerdictOn(p, r).revisions \subseteq Domain \X Nat
    BY RevisionsType, Zenon DEF VerdictOn, Unavailable, Verdict
  <2>3. QED
    BY <1>8, <2>1, <2>2, Zenon DEF TypeOK, WorkType, DecideHold
<1>9. ASSUME NEW p \in Proc, RecLock(p)
     PROVE  WorkType'
  BY <1>9, Zenon
  DEF TypeOK, WorkType, RowType, CallsInv, ReconcileSteps, ReleaseSteps,
      ActivateSteps, RecLock
<1>10. ASSUME NEW p \in Proc, RelLock(p)
     PROVE  WorkType'
  BY <1>10, Zenon
  DEF TypeOK, WorkType, RowType, CallsInv, ReconcileSteps, ReleaseSteps,
      ActivateSteps, RelLock
<1>11. ASSUME NEW p \in Proc, ActCommit(p)
     PROVE  WorkType'
  <2>1. \A o \in Proc : call[o] = "deliver" => 
            Permitted(subject[o], scope', revision', enabled') \subseteq Domain
    BY PermittedType, Zenon DEF CallsInv
  <2>2. QED
    BY <1>11, <2>1, Zenon DEF TypeOK, WorkType, Observe, ActCommit
<1>12. ASSUME NEW p \in Proc, ActNext(p)
     PROVE  WorkType'
  <2>1. PICK q \in todo[p] :
            undecided' = [undecided EXCEPT ![p] = Recipients[registered[q]]]
    BY <1>12, Zenon DEF ActNext
  <2>2. Recipients[registered[q]] \subseteq Domain
    BY PermittedType, Zenon DEF BindingInv, Bound
  <2>3. QED
    BY <1>12, <2>1, <2>2, Zenon DEF TypeOK, WorkType, ActNext
<1>13. ASSUME NEW s \in Source, ToggleSource(s)
     PROVE  WorkType'
  <2>1. \A o \in Proc : call[o] = "deliver" => 
            Permitted(subject[o], scope', revision', enabled') \subseteq Domain
    BY PermittedType, Zenon DEF CallsInv
  <2>2. QED
    BY <1>13, <2>1, Zenon DEF TypeOK, WorkType, Observe, ToggleSource
<1>14. ASSUME NEW q \in Queue, NEW m \in Message, Arrive(q, m)
     PROVE  WorkType'
  BY <1>14, Zenon
  DEF TypeOK, WorkType, Arrive
<1>15. ASSUME NEW q \in Queue, Remove(q)
     PROVE  WorkType'
  BY <1>15, Zenon
  DEF TypeOK, WorkType, Remove
<1>16. ASSUME NEW q \in Queue, LateCommand(q)
     PROVE  WorkType'
  BY <1>16, Zenon
  DEF TypeOK, WorkType, LateCommand
<1>17. QED
  BY <1>1, <1>2, <1>3, <1>4, <1>5, <1>6, <1>7, <1>8, <1>9, <1>10, <1>11,
     <1>12, <1>13, <1>14, <1>15, <1>16, LeaveCases, DecidedCases,
     QueueAssumption, Zenon
  DEF Next, Start, Work, Deliver, Decide, Reconcile, Release, Activate,
      Environment

\* Every step keeps the types.
LEMMA TypeStep ==
    ASSUME TypeOK, RowsInv, CallsInv, BindingInv, RecordsInv, Next
    PROVE  TypeOK'
BY PolicyTypeStep, RowTypeStep, LockTypeStep, PostfixTypeStep, JobTypeStep,
   WorkTypeStep, Zenon
DEF TypeOK

-----------------------------------------------------------------------------
(* The loop *)

Visited == {request.governing[i] : i \in 1..visited}

\* The inductive invariant: the two maps hold what the visited part of the list says.
LoopInv ==
    /\ request \in Request
    /\ visited \in 0..Len(request.governing)
    /\ authoritative = Visited
    /\ ValidGoverning(authoritative)
    /\ restricted = Restricted(authoritative)
    /\ EvaluateAgrees

Entries == {request.governing[i] : i \in DOMAIN request.governing}

\* The shape of a request, whatever its entries.
LEMMA RequestType ==
    ASSUME request \in Request
    PROVE  /\ Len(request.governing) \in Nat
           /\ DOMAIN request.governing = 1..Len(request.governing)
           /\ request.recipient \in Domain \cup {Malformed}
           /\ Unavailable # Undecided
<1>1. request.governing \in Seq([domain: Domain \cup {Malformed}, scope: STRING,
                                revision: Nat])
  BY RequestAssumption, Zenon
<1>2. Unavailable \in Decision
  BY Zenon DEF Unavailable, Verdict, Decision, Action, Reason
<1>3. QED
  BY <1>1, <1>2, RequestAssumption

\* The early returns before the loop are those of the set-based definition.
LEMMA RefusedExactly ==
    ASSUME request \in Request
    PROVE  Evaluate(request) =
               IF Refused
               THEN Unavailable
               ELSE Judge(request.stage, request.recipient, Entries)
<1>1. Len(request.governing) \notin 1..MaxGoverning
        <=> (Len(request.governing) = 0 \/ Len(request.governing) > MaxGoverning)
  BY RequestType, PolicyAssumption
<1>2. QED
  BY <1>1, Zenon DEF Evaluate, Refused, Entries

\* One more entry is visited.
LEMMA VisitOne ==
    ASSUME LoopInv, visited < Len(request.governing), visited' = visited + 1,
           request' = request
    PROVE  /\ visited' \in 0..Len(request.governing)
           /\ Visited' = Visited \cup {Entry}
<1>1. visited \in Nat /\ Len(request.governing) \in Nat
  BY RequestType DEF LoopInv
<1>2. 1..(visited + 1) = (1..visited) \cup {visited + 1}
  BY <1>1
<1>3. QED
  BY <1>1, <1>2 DEF Visited, Entry

\* The early returns of the loop are those of an invalid governing set.
LEMMA BadEntry ==
    ASSUME LoopInv, VisitBad
    PROVE  Evaluate(request) = Unavailable
<1>1. /\ visited \in Nat
      /\ visited + 1 \in DOMAIN request.governing
  BY RequestType DEF LoopInv, VisitBad, Visiting
<1>2. Entry \in Entries /\ authoritative \subseteq Entries
  BY <1>1, RequestType DEF LoopInv, Visited, Entry, Entries
<1>3. ~ValidGoverning(Entries)
  BY <1>2, Zenon DEF VisitBad, ValidGoverning, Contradictory
<1>4. QED
  BY <1>3, RefusedExactly, Zenon DEF Judge, LoopInv

\* A list that was visited to its end is decided on the whole set.
LEMMA EndOfList ==
    ASSUME LoopInv, ~Refused, visited = Len(request.governing)
    PROVE  Conclusion = Evaluate(request)
<1>1. Entries = authoritative
  BY RequestType, Zenon DEF LoopInv, Visited, Entries
<1>2. Evaluate(request) = Judge(request.stage, request.recipient, authoritative)
  BY <1>1, RefusedExactly, Zenon DEF LoopInv
<1>3. /\ ValidGoverning(authoritative)
      /\ restricted = Restricted(authoritative)
  BY Zenon DEF LoopInv
<1>4. restricted = {} <=> RestrictedDomains(authoritative) = {}
  BY <1>3, Zenon DEF Restricted, RestrictedDomains
<1>5. ASSUME NEW d
      PROVE  (\E x \in restricted : x[1] = d)
                <=> d \in RestrictedDomains(authoritative)
  <2>1. ASSUME NEW x \in restricted, x[1] = d
        PROVE  d \in RestrictedDomains(authoritative)
    <3>1. PICK g \in authoritative :
            g.scope = "same_domain_only" /\ x = <<g.domain, g.revision>>
      BY <1>3, Zenon DEF Restricted
    <3>2. QED
      BY <2>1, <3>1, Zenon DEF RestrictedDomains
  <2>2. ASSUME d \in RestrictedDomains(authoritative)
        PROVE  \E x \in restricted : x[1] = d
    <3>1. PICK g \in authoritative :
            g.scope = "same_domain_only" /\ d = g.domain
      BY <2>2, Zenon DEF RestrictedDomains
    <3>2. <<g.domain, g.revision>> \in restricted
      BY <1>3, <3>1, Zenon DEF Restricted
    <3>3. QED
      BY <3>1, <3>2, Zenon
  <2>3. QED
    BY <2>1, <2>2, Zenon
<1>6. (\E x, y \in restricted : x # y)
        <=> (\E d, e \in RestrictedDomains(authoritative) : d # e)
  <2>1. ASSUME NEW x \in restricted, NEW y \in restricted, x # y
        PROVE  \E d, e \in RestrictedDomains(authoritative) : d # e
    <3>1. PICK g \in authoritative :
            g.scope = "same_domain_only" /\ x = <<g.domain, g.revision>>
      BY <1>3, Zenon DEF Restricted
    <3>2. PICK h \in authoritative :
            h.scope = "same_domain_only" /\ y = <<h.domain, h.revision>>
      BY <1>3, <2>1, Zenon DEF Restricted
    <3>3. g # h /\ g.domain # h.domain
      BY <1>3, <2>1, <3>1, <3>2, Zenon DEF ValidGoverning, Contradictory
    <3>4. QED
      BY <3>1, <3>2, <3>3, Zenon DEF RestrictedDomains
  <2>2. ASSUME NEW d \in RestrictedDomains(authoritative),
               NEW e \in RestrictedDomains(authoritative), d # e
        PROVE  \E x, y \in restricted : x # y
    BY <1>5, <2>2
  <2>3. QED
    BY <2>1, <2>2, Zenon
<1>7. QED
  <2>1. CASE RestrictedDomains(authoritative) = {}
    BY <1>2, <1>3, <1>4, <2>1, Zenon
    DEF Conclusion, Judge, Permits, PermittedReason, Restricted, Verdict
  <2>2. CASE \E d, e \in RestrictedDomains(authoritative) : d # e
    BY <1>2, <1>3, <1>4, <1>6, <2>2, Zenon
    DEF Conclusion, Judge, Permits, RejectedReason
  <2>3. CASE /\ RestrictedDomains(authoritative) # {}
             /\ ~\E d, e \in RestrictedDomains(authoritative) : d # e
    <3>1. request.recipient \in RestrictedDomains(authoritative)
            <=> RestrictedDomains(authoritative) \subseteq {request.recipient}
      BY <2>3, Zenon
    <3>2. QED
      BY <1>2, <1>3, <1>4, <1>5, <1>6, <2>3, <3>1, Zenon
      DEF Conclusion, Judge, Permits, PermittedReason, RejectedReason
  <2>4. QED
    BY <2>1, <2>2, <2>3, Zenon

\* Every step keeps the loop invariant.
LEMMA LoopStep == LoopInv /\ [LoopNext]_loopVars => LoopInv'
<1> SUFFICES ASSUME LoopInv, [LoopNext]_loopVars PROVE LoopInv'
  BY Zenon
<1>1. CASE Refuse
  <2>1. decision' = Evaluate(request)
    BY <1>1, RefusedExactly, Zenon DEF Refuse, LoopInv
  <2>2. QED
    BY <1>1, <2>1, Zenon DEF Refuse, LoopInv, EvaluateAgrees, Visited, Evaluate
<1>2. CASE VisitBad
  BY <1>2, BadEntry, Zenon DEF VisitBad, LoopInv, EvaluateAgrees, Visited, Evaluate
<1>3. CASE VisitRepeated
  BY <1>3, VisitOne, Zenon DEF VisitRepeated, Visiting, LoopInv, EvaluateAgrees, Evaluate
<1>4. CASE VisitNew
  <2>1. authoritative' = Visited' /\ visited' \in 0..Len(request.governing)
    BY <1>4, VisitOne, Zenon DEF VisitNew, Visiting, LoopInv
  <2>2. ValidGoverning(authoritative')
    BY <1>4, Zenon DEF VisitNew, LoopInv, ValidGoverning, Contradictory
  <2>3. restricted' = Restricted(authoritative')
    BY <1>4, Zenon DEF VisitNew, LoopInv, Restricted
  <2>4. QED
    BY <1>4, <2>1, <2>2, <2>3, Zenon DEF VisitNew, Visiting, LoopInv, EvaluateAgrees
<1>5. CASE Conclude
  BY <1>5, EndOfList, Zenon DEF Conclude, LoopInv, EvaluateAgrees, Visited, Evaluate
<1>6. CASE UNCHANGED loopVars
  BY <1>6, Zenon DEF loopVars, LoopInv, EvaluateAgrees, Visited, Evaluate
<1>7. QED
  BY <1>1, <1>2, <1>3, <1>4, <1>5, <1>6, Zenon DEF LoopNext

\* The maps start empty.
LEMMA LoopInitially == LoopInit => LoopInv
BY RequestType
DEF LoopInit, LoopInv, EvaluateAgrees, Visited, ValidGoverning, Contradictory, Restricted

\* Evaluate (policy.go:156-212) decides as the set-based definition does,
\* whatever the length, order and repetitions of the governing list.
THEOREM LoopComputesEvaluate == LoopSpec => []EvaluateAgrees
<1>1. LoopInv => EvaluateAgrees
  BY Zenon DEF LoopInv
<1>2. QED
  BY <1>1, LoopInitially, LoopStep, PTL DEF LoopSpec


\* Activating a restriction (policy.go:194-211) never turns a refusal into a
\* permission, for every request.
THEOREM RestrictionOnlyTightens == LoopSpec => []RestrictionNeverPermits
<1>1. LoopInv => RestrictionNeverPermits
  <2> SUFFICES ASSUME LoopInv, decision # Undecided, ValidGoverning(Entries),
                      NEW d \in Domain,
                      Evaluate([request EXCEPT
                          !.governing = Tighten(@, d)]).action = "ok"
               PROVE  decision.action = "ok"
    BY Zenon DEF RestrictionNeverPermits, Entries
  <2> DEFINE governing == request.governing
             tightened == [request EXCEPT !.governing = Tighten(@, d)]
             entries == {tightened.governing[i] :
                            i \in DOMAIN tightened.governing}
  <2>1. PICK n \in Nat : DOMAIN governing = 1..n /\ Len(governing) = n
    BY RequestType, Zenon DEF LoopInv
  <2>2. /\ tightened.governing = Tighten(governing, d)
        /\ tightened.stage = request.stage
        /\ tightened.validQueueID = request.validQueueID
        /\ tightened.recipient = request.recipient
    BY RequestAssumption, Zenon DEF LoopInv
  <2>3. /\ DOMAIN tightened.governing = DOMAIN governing
        /\ Len(tightened.governing) = Len(governing)
    BY <2>1, <2>2 DEF Tighten
  <2>4. /\ ~Refused
        /\ Judge(request.stage, request.recipient, entries).action = "ok"
    <3>1. Unavailable.action # "ok"
      BY Zenon DEF Unavailable, Verdict
    <3>2. ~Refused
      BY <2>2, <2>3, <3>1, RequestType, PolicyAssumption
      DEF Evaluate, Refused, LoopInv
    <3>3. \/ Evaluate(tightened) = Unavailable
          \/ Evaluate(tightened)
                = Judge(tightened.stage, tightened.recipient, entries)
      <4> HIDE DEF tightened
      <4>1. QED
        BY Zenon DEF Evaluate
    <3>4. QED
      <4> Evaluate(tightened).action = "ok"
        BY Zenon
      <4> HIDE DEF tightened, entries
      <4>1. QED
        BY <2>2, <3>1, <3>2, <3>3, Zenon
  <2>5. ASSUME NEW x \in Entries, x.scope = "same_domain_only"
        PROVE  x.domain = request.recipient
    <3>1. PICK i \in DOMAIN governing : x = governing[i]
      BY Zenon DEF Entries
    <3>2. /\ Tighten(governing, d)[i] \in entries
          /\ Tighten(governing, d)[i].scope = "same_domain_only"
          /\ Tighten(governing, d)[i].domain = x.domain
      <4>1. x \in GoverningDomain
        BY Zenon DEF ValidGoverning
      <4>2. QED
        BY <2>2, <2>3, <2>5, <3>1, <4>1, Zenon DEF Tighten, GoverningDomain
    <3>3. \A y \in entries :
            y.scope = "same_domain_only" => y.domain = request.recipient
      <4> HIDE DEF entries
      <4>1. QED
        BY <2>4, PermittedExactly
    <3>4. QED
      BY <3>2, <3>3, Zenon
  <2>6. Judge(request.stage, request.recipient, Entries).action = "ok"
    BY <2>5, PermittedExactly DEF ValidGoverning, Contradictory
  <2>7. QED
    BY <2>4, <2>6, RefusedExactly, Zenon DEF LoopInv, EvaluateAgrees
<1>2. QED
  BY <1>1, LoopInitially, LoopStep, PTL DEF LoopSpec
=============================================================================
