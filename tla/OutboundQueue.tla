---------------------------- MODULE OutboundQueue ----------------------------
(***************************************************************************)
(* Policy enforcement on queued mail: the durable queue records            *)
(* (internal/outboundpolicy/queue.go), the hold reconciler (reconcile.go), *)
(* the confirmed release (release.go), policy activation (admin.go) and    *)
(* the Postfix delivery gate (internal/postfixgate/gate.go), over one      *)
(* PostgreSQL database and one Postfix queue.                              *)
(*                                                                         *)
(* Every process runs one call at a time: a delivery attempt of the gate,  *)
(* a Reconcile request, an activation of ActivationService or a release.   *)
(* A committed database transaction, one SQL query outside a transaction   *)
(* and one command to Postfix are one step each.                           *)
(***************************************************************************)
EXTENDS OutboundMail

CONSTANTS
    Proc,          \* concurrent calls: gate processes and daemon handlers
    Administered,  \* the sources that are enabled and disabled meanwhile
    MaxRevision,   \* bound on a domain's policy revision
    LateCommands,  \* whether a Postfix command may run after its caller gave up
    NoProc, NoQueue, NoPlan

ASSUME QueueAssumption ==
    /\ Administered \subseteq Source
    /\ MaxRevision \in Nat
    /\ LateCommands \in BOOLEAN
    /\ NoProc \notin Proc
    /\ NoQueue \notin Queue

-----------------------------------------------------------------------------
(* State *)

VARIABLES
    \* PostgreSQL: domains.outbound_scope, domains.outbound_policy_revision
    \* and the sources that resolve to an enabled object of an enabled domain.
    scope, revision, enabled,
    \* PostgreSQL: the outbound_queue_messages row of each queue ID.
    holdState, registered, holdRevisions,
    \* PostgreSQL: the advisory lock of each queue ID, and the holders of
    \* the SHARE table lock a release takes on the policy tables.
    lock, share,
    \* Postfix: where the file of each queue ID is and which message it is,
    \* and the commands whose caller gave up before they ran.
    place, message, late,
    \* The relay: messages it has accepted.
    relayed,
    \* Each process: the step it is at, the call it runs, the queue ID and the
    \* message it works on, the recipients it still has to decide, the
    \* revisions of its hold decision, the hold state it loaded, the outcome
    \* it is about to record, and what its caller confirmed.
    pc, call, current, subject, undecided, demanded, loaded, outcome,
    confirmed, plan, todo, failed,
    \* History: recipients the policy permitted at some moment of the
    \* delivery attempt a process is running.
    permittedSince

policyVars  == <<scope, revision, enabled>>
rowVars     == <<holdState, registered, holdRevisions>>
lockVars    == <<lock, share>>
postfixVars == <<place, message, late, relayed>>
jobVars     == <<call, current, subject, confirmed, plan, todo, failed>>
workVars    == <<undecided, demanded, loaded, outcome>>

vars == <<policyVars, rowVars, lockVars, postfixVars, jobVars, workVars,
          pc, permittedSince>>

HoldState == {"pending", "hold_required", "reconciling", "held",
              "reconciliation_error", "release_reconciling",
              "release_error", "released"}

\* Wrong: an attempt interrupted by a crash is not taken up again.
ReconcilableButInterrupted == {"hold_required", "held", "reconciliation_error"}

\* States from which Reconcile starts an attempt, and Release accepts.
Reconcilable == {"hold_required", "reconciling", "held", "reconciliation_error"}
Releasable   == {"held", "release_error", "release_reconciling"}

Step == {"idle", "register", "decide", "require_hold", "relay",
         "rec_lock", "rec_check", "rec_start", "rec_inspect", "rec_hold",
         "rec_verify", "rec_finish",
         "rel_lock", "rel_policy", "rel_inspect", "rel_start", "rel_call",
         "rel_verify", "rel_finish",
         "act_begin", "act_commit", "act_next"}

Call == {"none", "deliver", "reconcile", "release", "activate"}

Plan == [domain: Hosted, requested: Scope, scope: Scope, revision: Nat,
         affected: SUBSET (Queue \X Message)]

PolicyType ==
    /\ scope \in [Hosted -> Scope]
    /\ revision \in [Hosted -> Nat \ {0}]
    /\ enabled \in SUBSET Source

RowType ==
    /\ holdState \in [Queue -> HoldState \cup {"absent"}]
    /\ registered \in [Queue -> Message \cup {NoMessage}]
    /\ holdRevisions \in [Queue -> SUBSET (Domain \X Nat)]

LockType ==
    /\ lock \in [Queue -> Proc \cup {NoProc}]
    /\ share \in SUBSET Proc

PostfixType ==
    /\ place \in [Queue -> {"none", "queue", "hold"}]
    /\ message \in [Queue -> Message \cup {NoMessage}]
    /\ late \in SUBSET (Queue \X {"hold", "release"})
    /\ relayed \in SUBSET Message

JobType ==
    /\ pc \in [Proc -> Step]
    /\ call \in [Proc -> Call]
    /\ current \in [Proc -> Queue \cup {NoQueue}]
    /\ subject \in [Proc -> Message \cup {NoMessage}]
    /\ confirmed \in [Proc -> SUBSET GoverningDomain]
    /\ plan \in [Proc -> Plan \cup {NoPlan}]
    /\ todo \in [Proc -> SUBSET Queue]
    /\ failed \in [Proc -> BOOLEAN]

WorkType ==
    /\ undecided \in [Proc -> SUBSET Domain]
    /\ demanded \in [Proc -> SUBSET (Domain \X Nat)]
    /\ loaded \in [Proc -> HoldState \cup {"absent"}]
    /\ outcome \in [Proc -> HoldState \cup {"absent"}]
    /\ permittedSince \in [Proc -> SUBSET Domain]

TypeOK ==
    PolicyType /\ RowType /\ LockType /\ PostfixType /\ JobType /\ WorkType

-----------------------------------------------------------------------------
(* Policy reads *)

GoverningNow(m) == Governing(m, scope, revision)
PermittedNow(m) == Permitted(m, scope, revision, enabled)

\* Registered queues loadQueuedRecipientImpact selects for a domain: not
\* released, some source in the domain, some recipient outside it.
AffectedBy(d) ==
    {<<q, registered[q]>> :
        q \in {k \in Queue :
            /\ holdState[k] \notin {"absent", "released"}
            /\ \E s \in Sources[registered[k]] : SourceDomain[s] = d
            /\ \E r \in Recipients[registered[k]] : r # d}}

\* loadChangePlan, with the digest kept as the state it is computed from.
ChangePlan(d, requested) ==
    [domain |-> d, requested |-> requested, scope |-> scope[d],
     revision |-> revision[d], affected |-> AffectedBy(d)]

\* What postqueue shows of a queue ID; an inspection may also fail.
Matches(q) == place[q] # "none" /\ message[q] = registered[q]
Held(q)    == place[q] = "hold"

-----------------------------------------------------------------------------
(* The end of a call *)

Goto(p, step) == pc' = [pc EXCEPT ![p] = step]

ClearWork(p) ==
    /\ undecided' = [undecided EXCEPT ![p] = {}]
    /\ demanded' = [demanded EXCEPT ![p] = {}]
    /\ loaded' = [loaded EXCEPT ![p] = "absent"]
    /\ outcome' = [outcome EXCEPT ![p] = "absent"]

\* The call returns, successfully or not.
End(p) ==
    /\ Goto(p, "idle")
    /\ ClearWork(p)
    /\ call' = [call EXCEPT ![p] = "none"]
    /\ current' = [current EXCEPT ![p] = NoQueue]
    /\ subject' = [subject EXCEPT ![p] = NoMessage]
    /\ confirmed' = [confirmed EXCEPT ![p] = {}]
    /\ plan' = [plan EXCEPT ![p] = NoPlan]
    /\ todo' = [todo EXCEPT ![p] = {}]
    /\ failed' = [failed EXCEPT ![p] = FALSE]
    /\ permittedSince' = [permittedSince EXCEPT ![p] = {}]

\* The loop of ActivationService.Apply goes on with the next queue, counting
\* a failure of this one.
Continue(p, ok) ==
    /\ Goto(p, "act_next")
    /\ ClearWork(p)
    /\ current' = [current EXCEPT ![p] = NoQueue]
    /\ subject' = [subject EXCEPT ![p] = NoMessage]
    /\ failed' = [failed EXCEPT ![p] = failed[p] \/ ~ok]
    /\ UNCHANGED <<call, confirmed, plan, todo, permittedSince>>

\* The end of what a call does for one queue ID.
Return(p, ok) ==
    IF call[p] = "activate" THEN Continue(p, ok) ELSE End(p)

Unlock(p) ==
    /\ lock' = [q \in Queue |-> IF lock[q] = p THEN NoProc ELSE lock[q]]
    /\ share' = share \ {p}

-----------------------------------------------------------------------------
(* Gate.Deliver and EnforcementService.Decide *)

\* Deliver starts with an inspection, and gives up unless the message is in
\* the queue and not on hold.
StartDeliver(p, q) ==
    /\ pc[p] = "idle"
    /\ place[q] = "queue"
    /\ Goto(p, "register")
    /\ call' = [call EXCEPT ![p] = "deliver"]
    /\ current' = [current EXCEPT ![p] = q]
    /\ subject' = [subject EXCEPT ![p] = message[q]]
    /\ undecided' = [undecided EXCEPT ![p] = Recipients[message[q]]]
    /\ permittedSince' = [permittedSince EXCEPT ![p] = PermittedNow(message[q])]
    /\ UNCHANGED <<policyVars, rowVars, lockVars, postfixVars, confirmed, plan,
                   todo, failed, demanded, loaded, outcome>>

\* Admit resolves the sources, which must be enabled, and QueueStore.Register
\* inserts the record or finds the same arrival identity in it.
Register(p) ==
    LET q == current[p]
        m == subject[p]
    IN  /\ pc[p] = "register"
        /\ Sources[m] \subseteq enabled
        /\ \/ /\ holdState[q] = "absent"
              /\ holdState' = [holdState EXCEPT ![q] = "pending"]
              /\ registered' = [registered EXCEPT ![q] = m]
           \/ /\ holdState[q] # "absent"
              /\ registered[q] = m
              /\ UNCHANGED <<holdState, registered>>
        /\ Goto(p, "decide")
        /\ UNCHANGED <<policyVars, holdRevisions, lockVars, postfixVars,
                       jobVars, workVars, permittedSince>>

\* A disabled source, or a queue ID bound to another arrival.
RegisterRefused(p) ==
    /\ pc[p] = "register"
    /\ \/ ~(Sources[subject[p]] \subseteq enabled)
       \/ /\ holdState[current[p]] # "absent"
          /\ registered[current[p]] # subject[p]
    /\ End(p)
    /\ UNCHANGED <<policyVars, rowVars, lockVars, postfixVars>>

\* The governing domains are read in one query, the decision made on them.
VerdictOn(p, r) ==
    IF Sources[registered[current[p]]] \subseteq enabled
    THEN Judge("transport", r, GoverningNow(registered[current[p]]))
    ELSE Unavailable

DecideOk(p) ==
    /\ pc[p] = "decide"
    /\ \E r \in undecided[p] :
        /\ VerdictOn(p, r).action = "ok"
        /\ undecided' = [undecided EXCEPT ![p] = @ \ {r}]
    /\ UNCHANGED <<policyVars, rowVars, lockVars, postfixVars, jobVars,
                   demanded, loaded, outcome, pc, permittedSince>>

\* Wrong: a forbidden recipient defers the delivery and requires no hold.
DecideHoldDeferring(p) ==
    /\ pc[p] = "decide"
    /\ \E r \in undecided[p] :
        VerdictOn(p, r).reason = "recipient_domain_policy_hold"
    /\ Return(p, FALSE)
    /\ UNCHANGED <<policyVars, rowVars, lockVars, postfixVars>>

DecideHold(p) ==
    /\ pc[p] = "decide"
    /\ \E r \in undecided[p] :
        /\ VerdictOn(p, r).reason = "recipient_domain_policy_hold"
        /\ demanded' = [demanded EXCEPT ![p] = VerdictOn(p, r).revisions]
    /\ Goto(p, "require_hold")
    /\ UNCHANGED <<policyVars, rowVars, lockVars, postfixVars, jobVars,
                   undecided, loaded, outcome, permittedSince>>

DecideUnavailable(p) ==
    /\ pc[p] = "decide"
    /\ \E r \in undecided[p] : VerdictOn(p, r) = Unavailable
    /\ Return(p, FALSE)
    /\ UNCHANGED <<policyVars, rowVars, lockVars, postfixVars>>

\* Wrong: one permitted recipient is enough.
DecidedFirst(p) ==
    /\ pc[p] = "decide"
    /\ undecided[p] # Recipients[subject[p]]
    /\ \/ /\ call[p] = "deliver"
          /\ Goto(p, "relay")
          /\ UNCHANGED <<jobVars, workVars, permittedSince>>
       \/ /\ call[p] = "activate"
          /\ Continue(p, TRUE)
    /\ UNCHANGED <<policyVars, rowVars, lockVars, postfixVars>>

\* Every recipient was decided ok: the gate hands the message over, an
\* activation counts the queue as no longer blocked.
DecidedAll(p) ==
    /\ pc[p] = "decide"
    /\ undecided[p] = {}
    /\ \/ /\ call[p] = "deliver"
          /\ Goto(p, "relay")
          /\ UNCHANGED <<jobVars, workVars, permittedSince>>
       \/ /\ call[p] = "activate"
          /\ Continue(p, TRUE)
    /\ UNCHANGED <<policyVars, rowVars, lockVars, postfixVars>>

\* RequireHold: one transaction on the row, without the advisory lock.  The
\* same requirement on a record that already pursues it changes nothing.
RequireHold(p) ==
    LET q == current[p]
        known == /\ holdRevisions[q] = demanded[p]
                 /\ holdState[q] \in Reconcilable
    IN  /\ pc[p] = "require_hold"
        /\ IF known
           THEN UNCHANGED <<holdState, holdRevisions>>
           ELSE /\ holdState' = [holdState EXCEPT ![q] = "hold_required"]
                /\ holdRevisions' = [holdRevisions EXCEPT ![q] = demanded[p]]
        /\ Goto(p, "rec_lock")
        /\ UNCHANGED <<policyVars, registered, lockVars, postfixVars, jobVars,
                       workVars, permittedSince>>

\* Relay.Submit.  The relay has accepted the message; Postfix removes it from
\* the queue unless the answer is lost or the file is on hold by then.
Relay(p) ==
    LET q == current[p]
    IN  /\ pc[p] = "relay"
        /\ relayed' = relayed \cup {subject[p]}
        /\ \/ UNCHANGED <<place, message>>
           \/ /\ place[q] = "queue" /\ message[q] = subject[p]
              /\ place' = [place EXCEPT ![q] = "none"]
              /\ message' = [message EXCEPT ![q] = NoMessage]
        /\ End(p)
        /\ UNCHANGED <<policyVars, rowVars, lockVars, late>>

-----------------------------------------------------------------------------
(* QueueReconciler.Reconcile *)

StartReconcile(p, q) ==
    /\ pc[p] = "idle"
    /\ Goto(p, "rec_lock")
    /\ call' = [call EXCEPT ![p] = "reconcile"]
    /\ current' = [current EXCEPT ![p] = q]
    /\ UNCHANGED <<policyVars, rowVars, lockVars, postfixVars, subject,
                   confirmed, plan, todo, failed, workVars, permittedSince>>

\* Wrong: the advisory lock is not taken.
RecLockUnguarded(p) ==
    /\ pc[p] = "rec_lock"
    /\ loaded' = [loaded EXCEPT ![p] = holdState[current[p]]]
    /\ Goto(p, "rec_check")
    /\ UNCHANGED <<policyVars, rowVars, lockVars, postfixVars, jobVars,
                   undecided, demanded, outcome, permittedSince>>

\* pg_advisory_lock, then loadQueueRecord on the same connection.
RecLock(p) ==
    LET q == current[p]
    IN  /\ pc[p] = "rec_lock"
        /\ lock[q] = NoProc
        /\ lock' = [lock EXCEPT ![q] = p]
        /\ loaded' = [loaded EXCEPT ![p] = holdState[q]]
        /\ Goto(p, "rec_check")
        /\ UNCHANGED <<policyVars, rowVars, share, postfixVars, jobVars,
                       undecided, demanded, outcome, permittedSince>>

\* A record that says held, and a message found on hold: nothing to do.
RecAlreadyHeld(p) ==
    /\ pc[p] = "rec_check"
    /\ loaded[p] = "held"
    /\ Matches(current[p]) /\ Held(current[p])
    /\ Return(p, TRUE)
    /\ Unlock(p)
    /\ UNCHANGED <<policyVars, rowVars, postfixVars>>

\* A record that says held is attempted again when the inspection fails or
\* shows anything else.
RecAttempt(p) ==
    /\ pc[p] = "rec_check"
    /\ loaded[p] \in Reconcilable
    /\ Goto(p, "rec_start")
    /\ UNCHANGED <<policyVars, rowVars, lockVars, postfixVars, jobVars,
                   workVars, permittedSince>>

\* Wrong: the early return leaves the advisory lock behind.
RecNotRequiredLocked(p) ==
    /\ pc[p] = "rec_check"
    /\ loaded[p] \notin Reconcilable
    /\ Return(p, FALSE)
    /\ UNCHANGED <<policyVars, rowVars, lockVars, postfixVars>>

RecNotRequired(p) ==
    /\ pc[p] = "rec_check"
    /\ loaded[p] \notin Reconcilable
    /\ Return(p, FALSE)
    /\ Unlock(p)
    /\ UNCHANGED <<policyVars, rowVars, postfixVars>>

\* startQueueReconciliation. Only this call can take the record out of these
\* states while it has the lock, so the UPDATE never misses its row.
RecStart(p) ==
    LET q == current[p]
    IN  /\ pc[p] = "rec_start"
        /\ holdState[q] \in Reconcilable
        /\ holdState' = [holdState EXCEPT ![q] = "reconciling"]
        /\ Goto(p, "rec_inspect")
        /\ UNCHANGED <<policyVars, registered, holdRevisions, lockVars,
                       postfixVars, jobVars, workVars, permittedSince>>

\* The outcome finishQueueReconciliation will record.
RecConclude(p, result) ==
    /\ outcome' = [outcome EXCEPT ![p] = result]
    /\ Goto(p, "rec_finish")
    /\ UNCHANGED <<undecided, demanded, loaded>>

\* The first inspection: already on hold, still to be held, or a failure.
RecInspect(p) ==
    LET q == current[p]
    IN  /\ pc[p] = "rec_inspect"
        /\ \/ Matches(q) /\ Held(q) /\ RecConclude(p, "held")
           \/ Matches(q) /\ ~Held(q) /\ Goto(p, "rec_hold") /\ UNCHANGED workVars
           \/ RecConclude(p, "reconciliation_error")
        /\ UNCHANGED <<policyVars, rowVars, lockVars, postfixVars, jobVars,
                       permittedSince>>

\* What postsuper -h and postsuper -H do to a queue ID.
HoldEffect(q) ==
    place' = [place EXCEPT ![q] = IF @ = "queue" THEN "hold" ELSE @]
ReleaseEffect(q) ==
    place' = [place EXCEPT ![q] = IF @ = "hold" THEN "queue" ELSE @]

\* Holder.Hold, through the helper: it answers after the command ran, or the
\* caller sees an error and the command ran, never runs or runs later.
RecHold(p) ==
    LET q == current[p]
    IN  /\ pc[p] = "rec_hold"
        /\ \/ HoldEffect(q) /\ Goto(p, "rec_verify") /\ UNCHANGED <<workVars, late>>
           \/ HoldEffect(q) /\ RecConclude(p, "reconciliation_error") /\ UNCHANGED late
           \/ RecConclude(p, "reconciliation_error") /\ UNCHANGED <<place, late>>
           \/ /\ LateCommands
              /\ RecConclude(p, "reconciliation_error")
              /\ late' = late \cup {<<q, "hold">>}
              /\ UNCHANGED place
        /\ UNCHANGED <<policyVars, rowVars, lockVars, message, relayed, jobVars,
                       permittedSince>>

\* The second inspection.
RecVerify(p) ==
    /\ pc[p] = "rec_verify"
    /\ \/ Matches(current[p]) /\ Held(current[p]) /\ RecConclude(p, "held")
       \/ RecConclude(p, "reconciliation_error")
    /\ UNCHANGED <<policyVars, rowVars, lockVars, postfixVars, jobVars,
                   permittedSince>>

\* finishQueueReconciliation: the outcome is recorded only in a record that is
\* still reconciling.  The lock is freed either way.
RecFinish(p) ==
    LET q == current[p]
        mine == holdState[q] = "reconciling"
    IN  /\ pc[p] = "rec_finish"
        /\ holdState' = IF mine THEN [holdState EXCEPT ![q] = outcome[p]]
                                ELSE holdState
        /\ Return(p, mine /\ outcome[p] = "held")
        /\ Unlock(p)
        /\ UNCHANGED <<policyVars, registered, holdRevisions, postfixVars>>

-----------------------------------------------------------------------------
(* QueueReleaseService: Preview and Release *)

\* previewRecord: the state admits a release and every recipient of the
\* record is permitted now.
Previewed(q, state) ==
    /\ state \in Releasable \cup {"released"}
    /\ Sources[registered[q]] \subseteq enabled
    /\ \A r \in Recipients[registered[q]] :
        Judge("transport", r, GoverningNow(registered[q])).action = "ok"

\* An operator previews a release and confirms the policy snapshot they saw.
StartRelease(p, q) ==
    /\ pc[p] = "idle"
    /\ Previewed(q, holdState[q])
    /\ Goto(p, "rel_lock")
    /\ call' = [call EXCEPT ![p] = "release"]
    /\ current' = [current EXCEPT ![p] = q]
    /\ confirmed' = [confirmed EXCEPT ![p] = GoverningNow(registered[q])]
    /\ UNCHANGED <<policyVars, rowVars, lockVars, postfixVars, subject, plan,
                   todo, failed, workVars, permittedSince>>

RelLock(p) ==
    LET q == current[p]
    IN  /\ pc[p] = "rel_lock"
        /\ lock[q] = NoProc
        /\ lock' = [lock EXCEPT ![q] = p]
        /\ loaded' = [loaded EXCEPT ![p] = holdState[q]]
        /\ Goto(p, "rel_policy")
        /\ UNCHANGED <<policyVars, rowVars, share, postfixVars, jobVars,
                       undecided, demanded, outcome, permittedSince>>

\* Wrong: a preview that was confirmed is not made again.
RelPolicyTrusting(p) ==
    /\ pc[p] = "rel_policy"
    /\ loaded[p] \in Releasable \cup {"released"}
    /\ GoverningNow(registered[current[p]]) = confirmed[p]
    /\ share' = share \cup {p}
    /\ Goto(p, "rel_inspect")
    /\ UNCHANGED <<policyVars, rowVars, lock, postfixVars, jobVars, workVars,
                   permittedSince>>

\* The SHARE lock on the policy tables, then the preview again under it.
RelPolicy(p) ==
    LET q == current[p]
    IN  /\ pc[p] = "rel_policy"
        /\ Previewed(q, loaded[p])
        /\ GoverningNow(registered[q]) = confirmed[p]
        /\ share' = share \cup {p}
        /\ Goto(p, "rel_inspect")
        /\ UNCHANGED <<policyVars, rowVars, lock, postfixVars, jobVars,
                       workVars, permittedSince>>

\* The inspection before the release: the message must be on hold.
RelInspect(p) ==
    /\ pc[p] = "rel_inspect"
    /\ loaded[p] \in Releasable
    /\ Matches(current[p]) /\ Held(current[p])
    /\ Goto(p, "rel_start")
    /\ UNCHANGED <<policyVars, rowVars, lockVars, postfixVars, jobVars,
                   workVars, permittedSince>>

\* startQueueRelease
RelStart(p) ==
    LET q == current[p]
    IN  /\ pc[p] = "rel_start"
        /\ holdState[q] \in Releasable
        /\ holdState' = [holdState EXCEPT ![q] = "release_reconciling"]
        /\ Goto(p, "rel_call")
        /\ UNCHANGED <<policyVars, registered, holdRevisions, lockVars,
                       postfixVars, jobVars, workVars, permittedSince>>

\* Release returns before its first write: the preview no longer holds or is
\* not the one confirmed, the record is already released, the message is not
\* found on hold, or the record left the releasable states.
RelRefused(p) ==
    LET q == current[p]
    IN  /\ \/ /\ pc[p] = "rel_policy"
              /\ \/ ~Previewed(q, loaded[p])
                 \/ GoverningNow(registered[q]) # confirmed[p]
           \/ pc[p] = "rel_inspect" /\ loaded[p] = "released"
           \/ pc[p] = "rel_inspect" /\ ~(Matches(q) /\ Held(q))
           \/ pc[p] = "rel_start" /\ holdState[q] \notin Releasable
        /\ End(p)
        /\ Unlock(p)
        /\ UNCHANGED <<policyVars, rowVars, postfixVars>>

RelConclude(p, result) ==
    /\ outcome' = [outcome EXCEPT ![p] = result]
    /\ Goto(p, "rel_finish")
    /\ UNCHANGED <<undecided, demanded, loaded>>

\* Boundary.Release, with the outcomes of Holder.Hold.
RelCall(p) ==
    LET q == current[p]
    IN  /\ pc[p] = "rel_call"
        /\ \/ ReleaseEffect(q) /\ Goto(p, "rel_verify") /\ UNCHANGED <<workVars, late>>
           \/ ReleaseEffect(q) /\ RelConclude(p, "release_error") /\ UNCHANGED late
           \/ RelConclude(p, "release_error") /\ UNCHANGED <<place, late>>
           \/ /\ LateCommands
              /\ RelConclude(p, "release_error")
              /\ late' = late \cup {<<q, "release">>}
              /\ UNCHANGED place
        /\ UNCHANGED <<policyVars, rowVars, lockVars, message, relayed, jobVars,
                       permittedSince>>

RelVerify(p) ==
    /\ pc[p] = "rel_verify"
    /\ \/ Matches(current[p]) /\ ~Held(current[p]) /\ RelConclude(p, "released")
       \/ RelConclude(p, "release_error")
    /\ UNCHANGED <<policyVars, rowVars, lockVars, postfixVars, jobVars,
                   permittedSince>>

\* Wrong: the outcome is recorded whatever the record says by then.
RelFinishUnconditional(p) ==
    /\ pc[p] = "rel_finish"
    /\ holdState' = [holdState EXCEPT ![current[p]] = outcome[p]]
    /\ End(p)
    /\ Unlock(p)
    /\ UNCHANGED <<policyVars, registered, holdRevisions, postfixVars>>

\* finishQueueRelease, then the rollback of the policy transaction and the
\* advisory unlock.
RelFinish(p) ==
    LET q == current[p]
    IN  /\ pc[p] = "rel_finish"
        /\ holdState' = IF holdState[q] = "release_reconciling"
                        THEN [holdState EXCEPT ![q] = outcome[p]]
                        ELSE holdState
        /\ End(p)
        /\ Unlock(p)
        /\ UNCHANGED <<policyVars, registered, holdRevisions, postfixVars>>

-----------------------------------------------------------------------------
(* ActivationService.Apply *)

\* A policy change adds to the recipients each running delivery has seen
\* permitted (history only).
Observe(sc, rv, on) ==
    permittedSince' =
        [p \in Proc |->
            IF call[p] = "deliver"
            THEN permittedSince[p] \cup Permitted(subject[p], sc, rv, on)
            ELSE permittedSince[p]]

\* An administrator previews a change of a domain's scope and confirms it.
\* MaxRevision bounds the number of changes.
StartActivate(p, d, requested) ==
    /\ pc[p] = "idle"
    /\ requested # scope[d] => revision[d] < MaxRevision
    /\ Goto(p, "act_begin")
    /\ call' = [call EXCEPT ![p] = "activate"]
    /\ plan' = [plan EXCEPT ![p] = ChangePlan(d, requested)]
    /\ UNCHANGED <<policyVars, rowVars, lockVars, postfixVars, current, subject,
                   confirmed, todo, failed, workVars, permittedSince>>

\* The reads of AdminService.Apply, in one serializable snapshot: the plan
\* must be the confirmed one.  A request for the present scope ends here.
ActBegin(p) ==
    LET change == plan[p]
    IN  /\ pc[p] = "act_begin"
        /\ ChangePlan(change.domain, change.requested) = change
        /\ IF change.requested = change.scope
           THEN /\ Goto(p, "act_next")
                /\ todo' = [todo EXCEPT ![p] =
                        IF change.requested = "same_domain_only"
                        THEN {x[1] : x \in change.affected} ELSE {}]
           ELSE /\ Goto(p, "act_commit")
                /\ UNCHANGED todo
        /\ UNCHANGED <<policyVars, rowVars, lockVars, postfixVars, call, current,
                       subject, confirmed, plan, failed, workVars,
                       permittedSince>>

\* A stale confirmation, or a domain changed since the snapshot.
ActRefused(p) ==
    LET change == plan[p]
    IN  /\ \/ /\ pc[p] = "act_begin"
              /\ ChangePlan(change.domain, change.requested) # change
           \/ /\ pc[p] = "act_commit"
              /\ revision[change.domain] # change.revision
        /\ End(p)
        /\ UNCHANGED <<policyVars, rowVars, lockVars, postfixVars>>

\* Wrong: the UPDATE does not wait for the SHARE locks.
ActCommitUnguarded(p) ==
    LET change == plan[p]
        d == change.domain
    IN  /\ pc[p] = "act_commit"
        /\ revision[d] = change.revision
        /\ scope' = [scope EXCEPT ![d] = change.requested]
        /\ revision' = [revision EXCEPT ![d] = @ + 1]
        /\ Observe(scope', revision', enabled)
        /\ todo' = [todo EXCEPT ![p] =
                IF change.requested = "same_domain_only"
                THEN {x[1] : x \in change.affected} ELSE {}]
        /\ Goto(p, "act_next")
        /\ UNCHANGED <<enabled, rowVars, lockVars, postfixVars, call, current,
                       subject, confirmed, plan, failed, workVars>>

\* The UPDATE and its commit, which wait for the SHARE locks of releases.
ActCommit(p) ==
    LET change == plan[p]
        d == change.domain
    IN  /\ pc[p] = "act_commit"
        /\ revision[d] = change.revision
        /\ share = {}
        /\ scope' = [scope EXCEPT ![d] = change.requested]
        /\ revision' = [revision EXCEPT ![d] = @ + 1]
        /\ Observe(scope', revision', enabled)
        /\ todo' = [todo EXCEPT ![p] =
                IF change.requested = "same_domain_only"
                THEN {x[1] : x \in change.affected} ELSE {}]
        /\ Goto(p, "act_next")
        /\ UNCHANGED <<enabled, rowVars, lockVars, postfixVars, call, current,
                       subject, confirmed, plan, failed, workVars>>

\* Wrong: the loop ends with the first affected queue.
ActNextOnly(p) ==
    /\ pc[p] = "act_next"
    /\ \E q \in todo[p] :
        /\ current' = [current EXCEPT ![p] = q]
        /\ subject' = [subject EXCEPT ![p] = registered[q]]
        /\ undecided' = [undecided EXCEPT ![p] = Recipients[registered[q]]]
        /\ todo' = [todo EXCEPT ![p] = {}]
    /\ Goto(p, "decide")
    /\ UNCHANGED <<policyVars, rowVars, lockVars, postfixVars, call, confirmed,
                   plan, failed, demanded, loaded, outcome, permittedSince>>

\* The next affected queue: Load, then the transport decision on its
\* recorded recipients.
ActNext(p) ==
    /\ pc[p] = "act_next"
    /\ \E q \in todo[p] :
        /\ current' = [current EXCEPT ![p] = q]
        /\ subject' = [subject EXCEPT ![p] = registered[q]]
        /\ undecided' = [undecided EXCEPT ![p] = Recipients[registered[q]]]
        /\ todo' = [todo EXCEPT ![p] = @ \ {q}]
    /\ Goto(p, "decide")
    /\ UNCHANGED <<policyVars, rowVars, lockVars, postfixVars, call, confirmed,
                   plan, failed, demanded, loaded, outcome, permittedSince>>

ActEnd(p) ==
    /\ pc[p] = "act_next"
    /\ todo[p] = {}
    /\ End(p)
    /\ UNCHANGED <<policyVars, rowVars, lockVars, postfixVars>>

-----------------------------------------------------------------------------
(* Failures and the environment *)

\* A process dies, its request is cancelled or a query fails: PostgreSQL rolls
\* back and frees the locks.  An activation may also lose one queue only.
Abort(p) ==
    /\ pc[p] # "idle"
    /\ \/ End(p)
       \/ current[p] # NoQueue /\ call[p] = "activate" /\ Continue(p, FALSE)
    /\ Unlock(p)
    /\ UNCHANGED <<policyVars, rowVars, postfixVars>>

\* Another administrator enables, disables or deletes a source; the statement
\* waits for the SHARE locks.  A deletion is a disabling that is never undone;
\* the activations it makes fail (admin.go:298) are among the aborted calls.
ToggleSource(s) ==
    /\ share = {}
    /\ enabled' = IF s \in enabled THEN enabled \ {s} ELSE enabled \cup {s}
    /\ Observe(scope, revision, enabled')
    /\ UNCHANGED <<scope, revision, rowVars, lockVars, postfixVars, jobVars,
                   workVars, pc>>

\* Postfix queues a message.  Its fingerprint contains the arrival time, so a
\* queue ID never shows a registered arrival a second time.
Arrive(q, m) ==
    /\ place[q] = "none"
    /\ registered[q] # m
    /\ place' = [place EXCEPT ![q] = "queue"]
    /\ message' = [message EXCEPT ![q] = m]
    /\ UNCHANGED <<policyVars, rowVars, lockVars, late, relayed, jobVars,
                   workVars, pc, permittedSince>>

\* Postfix bounces an expired message, or an operator deletes one.
Remove(q) ==
    /\ place[q] # "none"
    /\ place' = [place EXCEPT ![q] = "none"]
    /\ message' = [message EXCEPT ![q] = NoMessage]
    /\ UNCHANGED <<policyVars, rowVars, lockVars, late, relayed, jobVars,
                   workVars, pc, permittedSince>>

\* A command runs after its caller gave up on it.
LateCommand(q) ==
    /\ \/ <<q, "hold">> \in late /\ HoldEffect(q)
          /\ late' = late \ {<<q, "hold">>}
       \/ <<q, "release">> \in late /\ ReleaseEffect(q)
          /\ late' = late \ {<<q, "release">>}
    /\ UNCHANGED <<policyVars, rowVars, lockVars, message, relayed, jobVars,
                   workVars, pc, permittedSince>>

-----------------------------------------------------------------------------
(* The specification *)

Init ==
    /\ scope \in [Hosted -> Scope]
    /\ revision = [d \in Hosted |-> 1]
    /\ enabled = Source
    /\ holdState = [q \in Queue |-> "absent"]
    /\ registered = [q \in Queue |-> NoMessage]
    /\ holdRevisions = [q \in Queue |-> {}]
    /\ lock = [q \in Queue |-> NoProc]
    /\ share = {}
    /\ place = [q \in Queue |-> "none"]
    /\ message = [q \in Queue |-> NoMessage]
    /\ late = {}
    /\ relayed = {}
    /\ pc = [p \in Proc |-> "idle"]
    /\ call = [p \in Proc |-> "none"]
    /\ current = [p \in Proc |-> NoQueue]
    /\ subject = [p \in Proc |-> NoMessage]
    /\ undecided = [p \in Proc |-> {}]
    /\ demanded = [p \in Proc |-> {}]
    /\ loaded = [p \in Proc |-> "absent"]
    /\ outcome = [p \in Proc |-> "absent"]
    /\ confirmed = [p \in Proc |-> {}]
    /\ plan = [p \in Proc |-> NoPlan]
    /\ todo = [p \in Proc |-> {}]
    /\ failed = [p \in Proc |-> FALSE]
    /\ permittedSince = [p \in Proc |-> {}]

Start(p) ==
    \/ \E q \in Queue :
        StartDeliver(p, q) \/ StartReconcile(p, q) \/ StartRelease(p, q)
    \/ \E d \in Hosted, requested \in Scope : StartActivate(p, d, requested)

Deliver(p) == Register(p) \/ RegisterRefused(p) \/ Relay(p)

Decide(p) ==
    \/ DecideOk(p) \/ DecideHold(p) \/ DecideUnavailable(p) \/ DecidedAll(p)
    \/ RequireHold(p)

Reconcile(p) ==
    \/ RecLock(p) \/ RecAlreadyHeld(p) \/ RecAttempt(p) \/ RecNotRequired(p)
    \/ RecStart(p) \/ RecInspect(p) \/ RecHold(p)
    \/ RecVerify(p) \/ RecFinish(p)

Release(p) ==
    \/ RelLock(p) \/ RelPolicy(p) \/ RelInspect(p) \/ RelStart(p)
    \/ RelRefused(p) \/ RelCall(p) \/ RelVerify(p) \/ RelFinish(p)

Activate(p) ==
    ActBegin(p) \/ ActRefused(p) \/ ActCommit(p) \/ ActNext(p) \/ ActEnd(p)

Work(p) ==
    Deliver(p) \/ Decide(p) \/ Reconcile(p) \/ Release(p) \/ Activate(p)

Environment ==
    \/ \E s \in Administered : ToggleSource(s)
    \/ \E q \in Queue, m \in Message : Arrive(q, m)
    \/ \E q \in Queue : Remove(q) \/ LateCommand(q)

Next ==
    \/ \E p \in Proc : Start(p) \/ Work(p) \/ Abort(p)
    \/ Environment

Spec == Init /\ [][Next]_vars

-----------------------------------------------------------------------------
(* Safety *)

\* The gate hands a message to the relay only if every one of its recipients
\* was permitted by the policy in force at some moment of this very delivery
\* attempt (gate.go:68-87): neither the policy at acceptance nor the policy at
\* an earlier attempt authorises it, however activations, releases, source
\* changes and reused queue IDs interleave with the decisions.
HandoffWasPermitted ==
    \A p \in Proc :
        pc[p] = "relay" => Recipients[subject[p]] \subseteq permittedSince[p]

TrueRecord(q) ==
    Matches(q) => /\ holdState[q] = "held" => Held(q)
                  /\ holdState[q] = "released" => ~Held(q)

\* What Diagnose (release.go:54-88) compares: a record that says held belongs
\* to a message that is on hold, one that says released to a message that is
\* not, whichever calls ran, failed or died in between.
RecordTellsTheTruth == ~LateCommands => \A q \in Queue : TrueRecord(q)

UnholdStep ==
    \A q \in Queue :
        \/ place[q] = "hold" /\ place'[q] = "queue"
        \/ holdState[q] # "released" /\ holdState'[q] = "released"
        => PermittedNow(registered[q]) = Recipients[registered[q]]

\* A message leaves the hold queue, and its record becomes released, only
\* while the policy permits every one of its recipients: the SHARE lock
\* (release.go:142-149) keeps an activation from committing in between.
ReleaseIsPermitted == [][~LateCommands => UnholdStep]_vars

RequirementStep ==
    \A q \in Queue :
        holdState[q] = "hold_required"
        => holdState'[q] \in {"hold_required", "reconciling"}

\* A hold requirement recorded while another call is finishing is not
\* overwritten by that call's outcome: hold_required is left only by a new
\* reconciliation attempt (reconcile.go:275, release.go:318).
RequirementSurvives == [][RequirementStep]_vars

\* When an activation reports no failure and its policy is still in force,
\* none of the queues it selected is deliverable (admin.go:160-217).
ActivationHoldsAffected ==
    ~LateCommands =>
        \A p \in Proc :
            LET change == plan[p]
                d == change.domain
            IN  /\ pc[p] = "act_next" /\ todo[p] = {} /\ ~failed[p]
                /\ change.requested = "same_domain_only"
                /\ scope[d] = "same_domain_only"
                /\ revision[d] = change.revision
                                 + IF change.scope = change.requested THEN 0 ELSE 1
                => \A x \in change.affected :
                    ~(place[x[1]] = "queue" /\ message[x[1]] = x[2])

\* The message of each running delivery attempt.
Trying == [p \in Proc |-> IF call[p] = "deliver" THEN subject[p] ELSE NoMessage]

Promise == INSTANCE OutboundPromise
    WITH Attempt <- Proc, trying <- Trying, seen <- permittedSince

\* Records, locks, reconciliation, release and activation together keep the
\* promise of the policy, as long as no command runs late.
KeepsPromise == Promise!Spec

-----------------------------------------------------------------------------
(* The inductive invariant behind the safety properties *)

\* The steps a process takes with a queue ID, with its advisory lock, with the
\* SHARE lock, and after it wrote reconciling or release_reconciling.
ReconcileSteps == {"rec_lock", "rec_check", "rec_start", "rec_inspect",
                   "rec_hold", "rec_verify", "rec_finish"}
ReleaseSteps   == {"rel_lock", "rel_policy", "rel_inspect", "rel_start",
                   "rel_call", "rel_verify", "rel_finish"}
ActivateSteps  == {"act_begin", "act_commit", "act_next"}
LockedSteps    == (ReconcileSteps \cup ReleaseSteps) \ {"rec_lock", "rel_lock"}
SharingSteps   == ReleaseSteps \ {"rel_lock", "rel_policy"}
HoldingSteps   == {"rec_inspect", "rec_hold", "rec_verify", "rec_finish"}
UnholdingSteps == {"rel_call", "rel_verify", "rel_finish"}

\* The rows and the Postfix queue: a row exists once its queue ID is
\* registered, a file has a message.
RowsInv ==
    \A q \in Queue :
        /\ holdState[q] = "absent" <=> registered[q] = NoMessage
        /\ place[q] = "none" <=> message[q] = NoMessage

\* Which call a process is in at a step, and what it works on.
CallsInv ==
    \A p \in Proc :
        /\ pc[p] \in {"register", "relay"} => call[p] = "deliver"
        /\ pc[p] \in {"decide", "require_hold"} => call[p] \in {"deliver", "activate"}
        /\ pc[p] \in ReconcileSteps => call[p] \in {"deliver", "activate", "reconcile"}
        /\ pc[p] \in ReleaseSteps => call[p] = "release"
        /\ pc[p] \in ActivateSteps => call[p] = "activate"
        /\ pc[p] \notin {"idle"} \cup ActivateSteps => current[p] \in Queue
        /\ pc[p] = "idle" => call[p] = "none"
        /\ call[p] = "deliver" => subject[p] \in Message
        /\ call[p] = "activate" => plan[p] \in Plan

\* A process decides on, and relays, the message its queue ID is bound to.
\* What a process loaded or selected stays registered.
Bound(p) ==
    /\ pc[p] = "register" => undecided[p] = Recipients[subject[p]]
    /\ pc[p] \in {"decide", "require_hold", "relay"} =>
        /\ registered[current[p]] = subject[p]
        /\ subject[p] \in Message
        /\ undecided[p] \subseteq Recipients[subject[p]]
    /\ pc[p] \in LockedSteps /\ loaded[p] # "absent" =>
        registered[current[p]] \in Message
    /\ pc[p] \in SharingSteps => registered[current[p]] \in Message
    /\ call[p] = "activate" =>
        \A x \in plan[p].affected : registered[x[1]] = x[2]
    /\ \A q \in todo[p] : registered[q] \in Message

BindingInv == \A p \in Proc : Bound(p)

\* The advisory lock excludes: a process inside a locked section has the lock
\* of the queue ID it works on.
LocksInv ==
    \A p \in Proc : pc[p] \in LockedSteps => lock[current[p]] = p

\* The SHARE lock freezes the policy that a release found permissive.
SharesInv ==
    \A p \in Proc :
        pc[p] \in SharingSteps =>
            /\ p \in share
            /\ PermittedNow(registered[current[p]])
                   = Recipients[registered[current[p]]]

\* A delivery attempt has seen the present permissions and those of every
\* recipient it decided ok.
AttemptsInv ==
    \A p \in Proc :
        call[p] = "deliver" =>
            /\ PermittedNow(subject[p]) \subseteq permittedSince[p]
            /\ pc[p] = "decide" =>
                Recipients[subject[p]] \ undecided[p] \subseteq permittedSince[p]
            /\ pc[p] = "relay" => Recipients[subject[p]] \subseteq permittedSince[p]

\* Inside an attempt only RequireHold, which takes no lock, changes the record.
RecordsInv ==
    \A p \in Proc :
        /\ pc[p] \in HoldingSteps =>
            holdState[current[p]] \in {"reconciling", "hold_required"}
        /\ pc[p] \in UnholdingSteps =>
            holdState[current[p]] \in {"release_reconciling", "hold_required"}
        /\ pc[p] = "rec_finish" => outcome[p] \in {"held", "reconciliation_error"}
        /\ pc[p] = "rel_finish" => outcome[p] \in {"released", "release_error"}

\* What an attempt observed of Postfix stays true until it is recorded.
Observed(p) ==
    LET q == current[p]
    IN  /\ pc[p] = "rec_finish" /\ outcome[p] = "held" => (Matches(q) => Held(q))
        /\ pc[p] = "rel_finish" /\ outcome[p] = "released" => (Matches(q) => ~Held(q))
        /\ pc[p] \in {"rel_start", "rel_call"} /\ Held(q) => Matches(q)

TruthInv ==
    ~LateCommands =>
        /\ late = {}
        /\ \A q \in Queue : TrueRecord(q)
        /\ \A p \in Proc : Observed(p)

Inv ==
    /\ TypeOK /\ RowsInv /\ CallsInv /\ BindingInv /\ LocksInv /\ SharesInv
    /\ AttemptsInv /\ RecordsInv /\ TruthInv

-----------------------------------------------------------------------------
(* Liveness *)

\* A call dies, or a Postfix command or inspection of it fails although the
\* message is there.
Outage(p) ==
    \/ Abort(p) /\ ~Work(p)
    \/ RecAttempt(p) /\ loaded[p] = "held" /\ Matches(current[p]) /\ Held(current[p])
    \/ RecInspect(p) /\ Matches(current[p]) /\ outcome'[p] = "reconciliation_error"
    \/ RecHold(p) /\ outcome'[p] = "reconciliation_error"
    \/ /\ RecVerify(p) /\ Matches(current[p]) /\ Held(current[p])
       /\ outcome'[p] = "reconciliation_error"
    \/ RelCall(p) /\ outcome'[p] = "release_error"
    \/ /\ RelVerify(p) /\ Matches(current[p]) /\ ~Held(current[p])
       /\ outcome'[p] = "release_error"

\* Running calls go on; PostgreSQL grants a lock to a call that keeps waiting
\* for it, its lock queues being first come, first served.
FairCalls ==
    \A p \in Proc :
        /\ WF_vars(Work(p))
        /\ SF_vars(RecLock(p) \/ RelLock(p) \/ ActCommit(p))

\* Postfix tries a queued message again and again, operators retry the
\* reconciliation and the release of a queue ID, and outages end.
FairRetries ==
    /\ \A q \in Queue :
        /\ SF_vars(\E p \in Proc : StartDeliver(p, q))
        /\ SF_vars(\E p \in Proc : StartReconcile(p, q))
        /\ SF_vars(\E p \in Proc : StartRelease(p, q))
    /\ <>[][\A p \in Proc : ~Outage(p)]_vars

RetrySpec == Spec /\ FairCalls /\ FairRetries

\* Every call returns: no set of calls waits on the advisory locks, the SHARE
\* lock and each other for ever, whichever of them die before the outages end.
CallsReturn == \A p \in Proc : []<>(pc[p] = "idle")

Forbidden(q) ==
    /\ place[q] = "queue"
    /\ message[q] = registered[q]
    /\ Sources[message[q]] \subseteq enabled
    /\ PermittedNow(message[q]) # Recipients[message[q]]

\* A registered message the policy forbids does not stay deliverable: retried
\* delivery attempts put it on hold, unless it leaves the queue or the policy
\* permits it first (gate.go:68-80).
ForbiddenIsHeld == \A q \in Queue : []<>~Forbidden(q)

\* A recorded hold requirement is carried out: the record reaches held unless
\* the message is gone (reconcile.go:128-204).
RequirementIsMet ==
    \A q \in Queue :
        holdState[q] \in Reconcilable /\ Matches(q)
        ~> holdState[q] = "held" \/ ~Matches(q)
=============================================================================
