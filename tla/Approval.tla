------------------------------- MODULE Approval -------------------------------
(***************************************************************************)
(* One approval of a queue command by chat: the prompt                     *)
(* (internal/notifyruntime/approval_service.go), the row of                *)
(* notification_approvals (internal/notification/approval.go) and the      *)
(* callbacks that execute it (internal/notifyruntime/executor.go).         *)
(*                                                                         *)
(* A transaction, a query outside a transaction and a command to Postfix   *)
(* are one step each; any number of callbacks run at the same time.        *)
(***************************************************************************)
EXTENDS Naturals, FiniteSets

CONSTANTS
    Callback,    \* callbacks that can be processed at the same time
    Account,     \* chat accounts
    Actor,       \* the actors accounts are mapped to
    Authorized,  \* the actors the authorizer allows the command
    Snapshot,    \* what the queue can look like
    Action,      \* the command: "queue:flush" or "queue:retry"
    Lifetime,    \* how long a prompt is valid
    Lease,       \* how long a claim reserves the approval
    MaxTime,     \* bound on the clock: a prompt is made early enough to expire
    NoActor, NoBinding, NoInput, Gone

ASSUME ApprovalAssumption ==
    /\ Authorized \subseteq Actor
    /\ NoActor \notin Actor
    /\ Gone \notin Snapshot
    /\ Action \in {"queue:flush", "queue:retry"}
    /\ Lifetime \in Nat /\ Lease \in Nat /\ MaxTime \in Nat

-----------------------------------------------------------------------------
(* State *)

VARIABLES
    \* Time, and whether a callback has outlived its lease.
    clock, overdue,
    \* Postfix: the queue as a snapshot shows it; Gone once the message a
    \* retry is about has left it.
    queue,
    \* PostgreSQL: notification_actor_mappings.
    mapping,
    \* PostgreSQL: the notification_approvals row. used_at is set exactly
    \* when the result is approved.
    result, startedAt, bound,
    \* RequestTelegramApproval: the step it is at and what it is bound to.
    requester, draft,
    \* Whether the prompt, and with it the binding token, reached the account.
    prompted,
    \* Each callback: the step, the account and whether it proves the binding
    \* token, the actor, the result its first Get returned, and its Now.
    pc, input, mapped, seen, now,
    \* History: a callback found the queue as the prompt showed it, and the
    \* queue command took effect.
    compared, executed

rowVars  == <<result, startedAt, bound>>
reqVars  == <<requester, draft, prompted>>
callVars == <<input, mapped, seen, now>>
envVars  == <<clock, overdue, queue, mapping>>
history  == <<compared, executed>>
vars     == <<envVars, rowVars, reqVars, pc, callVars, history>>

Result == {"absent", "creating", "pending", "executing", "approved",
           "rejected", "expired"}

\* What a confirmation is compared with.
Binding == [account: Account, actor: Actor, hash: Snapshot,
            created: Nat, expires: Nat]

Input == [account: Account, token: BOOLEAN]

TypeOK ==
    /\ clock \in Nat /\ overdue \in BOOLEAN
    /\ queue \in Snapshot \cup {Gone}
    /\ mapping \in [Account -> Actor \cup {NoActor}]
    /\ result \in Result
    /\ startedAt \in Nat
    /\ bound \in Binding \cup {NoBinding}
    /\ draft \in Binding \cup {NoBinding}
    /\ requester \in {"idle", "create", "prompt", "activate",
                      "invalidate", "done"}
    /\ prompted \in BOOLEAN
    /\ pc \in [Callback -> {"idle", "map", "get", "preflight", "claim",
                            "expire", "take", "execute", "retry", "complete"}]
    /\ input \in [Callback -> Input \cup {NoInput}]
    /\ mapped \in [Callback -> Actor \cup {NoActor}]
    /\ seen \in [Callback -> {"absent", "pending", "executing"}]
    /\ now \in [Callback -> Nat]
    /\ compared \in BOOLEAN /\ executed \in BOOLEAN

-----------------------------------------------------------------------------
(* RequestTelegramApproval *)

\* Map, Decide and queueApprovalRequestHash. The handler of the request computed
\* the expiry a while ago; Create refuses a prompt that is already expired.
Request(x) ==
    /\ requester = "idle"
    /\ mapping[x] \in Authorized
    /\ queue # Gone
    /\ clock + Lifetime + Lease <= MaxTime
    /\ \E e \in clock + 1 .. clock + Lifetime :
        draft' = [account |-> x, actor |-> mapping[x], hash |-> queue,
                  created |-> clock, expires |-> e]
    /\ requester' = "create"
    /\ UNCHANGED <<envVars, rowVars, prompted, pc, callVars, history>>

\* Wrong: the approval can be confirmed before its prompt is known to be sent.
CreatePending ==
    /\ requester = "create"
    /\ result' = "pending"
    /\ bound' = draft
    /\ requester' = "prompt"
    /\ UNCHANGED <<envVars, startedAt, draft, prompted, pc, callVars, history>>

Create ==
    /\ requester = "create"
    /\ result' = "creating"
    /\ bound' = draft
    /\ requester' = "prompt"
    /\ UNCHANGED <<envVars, startedAt, draft, prompted, pc, callVars, history>>

\* SendPrompt; the prompt may have been delivered though an error came back.
SendPrompt ==
    /\ requester = "prompt"
    /\ \/ prompted' = TRUE /\ requester' \in {"activate", "invalidate"}
       \/ UNCHANGED prompted /\ requester' = "invalidate"
    /\ UNCHANGED <<envVars, rowVars, draft, pc, callVars, history>>

Activate ==
    /\ requester = "activate"
    /\ result = "creating"
    /\ result' = "pending"
    /\ requester' = "done"
    /\ UNCHANGED <<envVars, startedAt, bound, draft, prompted, pc, callVars,
                   history>>

Invalidate ==
    /\ requester = "invalidate"
    /\ result \in {"creating", "pending"}
    /\ result' = "rejected"
    /\ requester' = "done"
    /\ UNCHANGED <<envVars, startedAt, bound, draft, prompted, pc, callVars,
                   history>>

\* A failed query or a crash.
RequestAborts ==
    /\ requester \in {"create", "prompt", "activate", "invalidate"}
    /\ requester' = "done"
    /\ UNCHANGED <<envVars, rowVars, draft, prompted, pc, callVars, history>>

-----------------------------------------------------------------------------
(* ExecuteTelegramApproval *)

\* The steps between the moment a callback read the clock and its last one,
\* and those after it claimed the approval.
ClaimingSteps == {"claim", "expire", "take", "execute", "retry", "complete"}
HoldingSteps  == {"execute", "retry", "complete"}

Goto(c, step) == pc' = [pc EXCEPT ![c] = step]

\* The call ends and its local variables go out of scope.
Return(c) ==
    /\ Goto(c, "idle")
    /\ input' = [input EXCEPT ![c] = NoInput]
    /\ mapped' = [mapped EXCEPT ![c] = NoActor]
    /\ seen' = [seen EXCEPT ![c] = "absent"]
    /\ now' = [now EXCEPT ![c] = 0]

\* A callback arrives. The token is known once the prompt was delivered.
Press(c, x, token) ==
    /\ pc[c] = "idle"
    /\ token => prompted
    /\ input' = [input EXCEPT ![c] = [account |-> x, token |-> token]]
    /\ Goto(c, "map")
    /\ UNCHANGED <<envVars, rowVars, reqVars, mapped, seen, now, history>>

Map(c) ==
    /\ pc[c] = "map"
    /\ mapping[input[c].account] # NoActor
    /\ mapped' = [mapped EXCEPT ![c] = mapping[input[c].account]]
    /\ Goto(c, "get")
    /\ UNCHANGED <<envVars, rowVars, reqVars, input, seen, now, history>>

Open == result \in {"pending", "executing"}

\* The callback reads the clock for its confirmation, before Claim reads the row.
TakeNow(c) == now' = [now EXCEPT ![c] = clock]

\* Get, and Decide for the mapped actor. Only an approval found pending is
\* compared with the queue.
Get(c) ==
    /\ pc[c] = "get"
    /\ Open
    /\ mapped[c] \in Authorized
    /\ seen' = [seen EXCEPT ![c] = result]
    /\ \/ result = "pending" /\ Goto(c, "preflight") /\ UNCHANGED now
       \/ result = "executing" /\ Goto(c, "claim") /\ TakeNow(c)
    /\ UNCHANGED <<envVars, rowVars, reqVars, input, mapped, history>>

\* The queue must look as it did when the prompt was made.
Preflight(c) ==
    /\ pc[c] = "preflight"
    /\ queue = bound.hash
    /\ compared' = TRUE
    /\ TakeNow(c)
    /\ Goto(c, "claim")
    /\ UNCHANGED <<envVars, rowVars, reqVars, input, mapped, seen, executed>>

\* A claim found executing is reserved for the callback that took it.
Reserved(c) == result = "executing" /\ now[c] < startedAt + Lease

Expired(c) == now[c] >= bound.expires

Confirms(c) ==
    /\ input[c].token
    /\ input[c].account = bound.account
    /\ mapped[c] = bound.actor

\* The checks Claim makes on the row it reads, in their order.
Claimable(c) ==
    /\ Open /\ ~Reserved(c)
    /\ bound.created <= now[c]
    /\ Expired(c) \/ Confirms(c)

Claim(c) ==
    /\ pc[c] = "claim"
    /\ Claimable(c)
    /\ Goto(c, IF Expired(c) THEN "expire" ELSE "take")
    /\ UNCHANGED <<envVars, rowVars, reqVars, callVars, history>>

\* Wrong: only a pending approval expires.
ExpirePendingOnly(c) ==
    /\ pc[c] = "expire"
    /\ result' = IF result = "pending" THEN "expired" ELSE result
    /\ Return(c)
    /\ UNCHANGED <<envVars, startedAt, bound, reqVars, history>>

\* recordDenied with terminal set.
Expire(c) ==
    /\ pc[c] = "expire"
    /\ result' = IF Open THEN "expired" ELSE result
    /\ Return(c)
    /\ UNCHANGED <<envVars, startedAt, bound, reqVars, history>>

\* Wrong: a claim is taken over whatever its age.
TakableAtAnyAge(c) == Open

\* Claim's UPDATE checks the row again.
Takable(c) ==
    \/ result = "pending"
    \/ result = "executing" /\ startedAt + Lease < now[c]

Take(c) ==
    /\ pc[c] = "take"
    /\ Takable(c)
    /\ result' = "executing"
    /\ startedAt' = now[c]
    /\ Goto(c, "execute")
    /\ UNCHANGED <<envVars, bound, reqVars, callVars, history>>

\* The denials of a callback, which are only audited.
Denied(c) ==
    \/ pc[c] = "map" /\ mapping[input[c].account] = NoActor
    \/ pc[c] = "get" /\ (~Open \/ mapped[c] \notin Authorized)
    \/ pc[c] = "preflight" /\ queue # bound.hash
    \/ pc[c] = "claim" /\ ~Claimable(c)
    \/ pc[c] = "take" /\ ~Takable(c)

Deny(c) ==
    /\ Denied(c)
    /\ Return(c)
    /\ UNCHANGED <<envVars, rowVars, reqVars, history>>

\* Flush and Retry of the Postfix boundary. A command that fails may have
\* taken effect, and counts as done when its message is found to be gone.
Execute(c) ==
    /\ pc[c] = "execute"
    /\ \/ executed' = TRUE /\ Goto(c, "complete")
       \/ executed' \in {executed, TRUE} /\ Goto(c, "retry")
       \/ queue = Gone /\ UNCHANGED executed /\ Goto(c, "complete")
    /\ UNCHANGED <<envVars, rowVars, reqVars, callVars, compared>>

\* Retry: the approval is pending again, whoever claimed it.
RetryLater(c) ==
    /\ pc[c] = "retry"
    /\ result' = IF result = "executing" THEN "pending" ELSE result
    /\ startedAt' = IF result = "executing" THEN 0 ELSE startedAt
    /\ Return(c)
    /\ UNCHANGED <<envVars, bound, reqVars, history>>

Complete(c) ==
    /\ pc[c] = "complete"
    /\ result' = IF result = "executing" THEN "approved" ELSE result
    /\ Return(c)
    /\ UNCHANGED <<envVars, startedAt, bound, reqVars, history>>

\* A failed query or a crash.
Abort(c) ==
    /\ pc[c] # "idle"
    /\ Return(c)
    /\ UNCHANGED <<envVars, rowVars, reqVars, history>>

-----------------------------------------------------------------------------
(* Environment *)

Tick ==
    /\ clock < MaxTime
    /\ clock' = clock + 1
    /\ overdue' = (overdue \/ \E c \in Callback :
                      pc[c] \in ClaimingSteps /\ clock >= now[c] + Lease)
    /\ UNCHANGED <<queue, mapping, rowVars, reqVars, pc, callVars, history>>

\* Mail arrives and leaves; a message that left does not come back.
QueueChanges ==
    /\ queue # Gone
    /\ queue' \in Snapshot \cup (IF Action = "queue:retry" THEN {Gone} ELSE {})
    /\ UNCHANGED <<clock, overdue, mapping, rowVars, reqVars, pc, callVars, history>>

\* Put and ReplaceTelegram of the actor mappings.
MappingChanges(x, a) ==
    /\ mapping' = [mapping EXCEPT ![x] = a]
    /\ UNCHANGED <<clock, overdue, queue, rowVars, reqVars, pc, callVars, history>>

-----------------------------------------------------------------------------
Init ==
    /\ clock = 0 /\ overdue = FALSE
    /\ queue \in Snapshot
    /\ mapping \in [Account -> Actor \cup {NoActor}]
    /\ result = "absent" /\ startedAt = 0
    /\ bound = NoBinding /\ draft = NoBinding
    /\ requester = "idle" /\ prompted = FALSE
    /\ pc = [c \in Callback |-> "idle"]
    /\ input = [c \in Callback |-> NoInput]
    /\ mapped = [c \in Callback |-> NoActor]
    /\ seen = [c \in Callback |-> "absent"]
    /\ now = [c \in Callback |-> 0]
    /\ compared = FALSE /\ executed = FALSE

Requesting ==
    \/ \E x \in Account : Request(x)
    \/ Create \/ SendPrompt \/ Activate \/ Invalidate

Confirming(c) ==
    \/ Map(c) \/ Get(c) \/ Preflight(c) \/ Claim(c) \/ Expire(c) \/ Take(c)
    \/ Deny(c) \/ Execute(c) \/ RetryLater(c) \/ Complete(c)

Next ==
    \/ Requesting \/ RequestAborts
    \/ \E c \in Callback :
        \/ \E x \in Account, token \in BOOLEAN : Press(c, x, token)
        \/ Confirming(c) \/ Abort(c)
    \/ Tick \/ QueueChanges
    \/ \E x \in Account, a \in Actor \cup {NoActor} : MappingChanges(x, a)

Spec == Init /\ [][Next]_vars

-----------------------------------------------------------------------------
(* Properties *)

\* A callback that has claimed the approval came from the account and the
\* actor the prompt was made for, with its token, before it expired, and a
\* callback had found the queue as the prompt showed it
\* (executor.go:87-100, approval.go:275-290).
RunsOnlyConfirmed ==
    \A c \in Callback :
        pc[c] \in HoldingSteps =>
            /\ input[c] = [account |-> bound.account, token |-> TRUE]
            /\ mapped[c] = bound.actor /\ mapped[c] \in Authorized
            /\ bound.created <= now[c] /\ now[c] < bound.expires
            /\ compared

\* An approval is recorded as approved only when its command took effect, or
\* the message it was about has left the queue (executor.go:105-117).
ApprovedWasExecuted == result = "approved" => executed \/ queue = Gone

\* An approval whose prompt could not be delivered never runs, even when the
\* prompt arrived nevertheless (approval_service.go:84-93).
RejectedNeverRuns == result = "rejected" => ~executed

\* The row tells what ran: approved means done, and rejected means that it was
\* not and will not be done.
RowTellsWhatRan == ApprovedWasExecuted /\ RejectedNeverRuns

\* At most one callback at a time executes the command, as long as none of them
\* has outlived its lease (the conditions on execution_started_at,
\* approval.go:278 and 296).
ExclusiveExecution ==
    ~overdue =>
        \A c, d \in Callback :
            pc[c] \in HoldingSteps /\ pc[d] \in HoldingSteps => c = d

\* A used, rejected or expired approval stays what it is (the WHERE clauses of
\* approval.go).
TerminalIsFinal ==
    [][(result \in {"approved", "rejected", "expired"}) =>
            (result' = result)]_vars

-----------------------------------------------------------------------------
(* The inductive invariant *)

\* The requester is the only one to write the row until it is pending.
RequestInv ==
    /\ requester = "idle" => result = "absent"
    /\ requester = "create" => result = "absent" /\ draft \in Binding
    /\ requester \in {"prompt", "activate", "invalidate"} => result = "creating"
    /\ result # "absent" => bound \in Binding

\* What a callback has checked stays true of it.
CallbackInv ==
    \A c \in Callback :
        /\ pc[c] # "idle" => input[c] \in Input
        /\ pc[c] \in {"preflight"} \cup ClaimingSteps =>
            /\ result \notin {"absent", "creating", "rejected"}
            /\ mapped[c] \in Authorized
        /\ pc[c] \in {"take"} \cup HoldingSteps =>
            /\ input[c] = [account |-> bound.account, token |-> TRUE]
            /\ mapped[c] = bound.actor
            /\ bound.created <= now[c] /\ now[c] < bound.expires

\* What the queue and the row say of what happened.
HistoryInv ==
    /\ result \in {"executing", "approved"} => compared
    /\ \A c \in Callback : pc[c] \in ClaimingSteps => compared
    /\ executed => result \notin {"absent", "creating", "rejected"}
    /\ \A c \in Callback : pc[c] = "complete" => executed \/ queue = Gone
    /\ ApprovedWasExecuted

\* A callback that is executing owns the claim, unless it has run out.
LeaseInv ==
    ~overdue =>
        /\ \A c \in Callback : pc[c] \in ClaimingSteps =>
               now[c] <= clock /\ clock <= now[c] + Lease
        /\ \A c \in Callback : pc[c] \in HoldingSteps =>
               \/ result \in {"approved", "expired"}
               \/ result = "executing" /\ startedAt = now[c]
        /\ ExclusiveExecution

Inv == TypeOK /\ RequestInv /\ CallbackInv /\ HistoryInv /\ LeaseInv

-----------------------------------------------------------------------------
(* Liveness *)

\* Callbacks go on, the prompted account presses the button again and again,
\* time passes, and outages end.
FairCallbacks ==
    /\ \A c \in Callback : WF_vars(Confirming(c))
    /\ SF_vars(\E c \in Callback : Press(c, bound.account, TRUE))
    /\ WF_vars(Tick)
    /\ <>[][\A c \in Callback : Abort(c) => Confirming(c)]_vars

FairSpec == Spec /\ FairCallbacks

\* An approval does not stay claimed for ever: its callback finishes, or
\* another one takes the claim over or finds it expired, as long as the
\* account stays mapped to the actor.
ClaimsEnd ==
    <>[](\A x \in Account : mapping[x] \in Authorized)
        => (result = "executing" ~> result # "executing")
=============================================================================
