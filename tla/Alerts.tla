------------------------------- MODULE Alerts -------------------------------
(***************************************************************************)
(* The operational monitor and the delivery of its alerts (notifyruntime,  *)
(* notification).  A round looks at a condition, notes in one transaction  *)
(* whether it has changed, and sends the alert that is pending for it.     *)
(* The e-mail or Telegram backend runs in a plugin behind gRPC, so that    *)
(* the outcome of a delivery and what the monitor learns of it are two     *)
(* things.                                                                 *)
(***************************************************************************)
EXTENDS Naturals, FiniteSets

CONSTANTS MaxFlips, MaxCrashes, MaxSeq

VARIABLES transport,   \* the backend the plugin was started with
          condition, flips, crashes,
          event,       \* the row of notification_event_states
          round,       \* where the monitor is
          deliveries,  \* the rows of notification_deliveries, by alert
          arrived,     \* how often an alert reached the recipient, up to twice
          settled,     \* history: delivered, or given up for good
          uncertain    \* history: an answer on the way back, or the note of it, was lost

monitorVars == <<event, round, deliveries>>
alertVars == <<condition, flips, crashes, monitorVars, arrived, settled, uncertain>>

Alert == 1..MaxSeq

Waiting == [pc |-> "waiting", saw |-> "ok", alert |-> 0, result |-> "none"]

\* The round at its next step, with the alert it is about and what became of it.
Round(pc, alert, result) == [pc |-> pc, saw |-> round.saw, alert |-> alert, result |-> result]

Flip ==
    /\ flips < MaxFlips
    /\ flips' = flips + 1
    /\ condition' = IF condition = "ok" THEN "failing" ELSE "ok"
    /\ UNCHANGED <<crashes, monitorVars, arrived, settled, uncertain>>

RunOnce ==
    /\ round.pc = "waiting"
    /\ round' = [Waiting EXCEPT !.pc = "looked", !.saw = condition]
    /\ UNCHANGED <<condition, flips, crashes, event, deliveries, arrived, settled, uncertain>>

\* Wrong: the alert is pending only in the round that sees the change.
ObservedOnce(saw) ==
    IF event.state = saw THEN [event EXCEPT !.pending = 0]
    ELSE [state |-> saw, seq |-> event.seq + 1,
          pending |-> IF saw = "failing" THEN event.seq + 1 ELSE 0]

\* The row after a look: a change, the first look included, has a new number,
\* and an alert pending if it is for the worse.  The alert of a state that has passed is dropped.
Observed(saw) ==
    IF event.state = saw THEN event
    ELSE [state |-> saw, seq |-> event.seq + 1,
          pending |-> IF saw = "failing" THEN event.seq + 1 ELSE 0]

Observe ==
    /\ round.pc = "looked"
    /\ event' = Observed(round.saw)
    /\ round' = IF Observed(round.saw).pending = 0 THEN Waiting
                ELSE Round("pending", Observed(round.saw).pending, "none")
    /\ UNCHANGED <<condition, flips, crashes, deliveries, arrived, settled, uncertain>>

\* The row of an alert sent before is reset.
RecordPending ==
    /\ round.pc = "pending"
    /\ deliveries' = [deliveries EXCEPT ![round.alert] = "pending"]
    /\ round' = [round EXCEPT !.pc = "sending"]
    /\ UNCHANGED <<condition, flips, crashes, event, arrived, settled, uncertain>>

\* Once, or several times.
Reaches(reached) ==
    arrived' = IF reached /\ arrived[round.alert] < 2
               THEN [arrived EXCEPT ![round.alert] = @ + 1] ELSE arrived

\* Wrong: an uncertain handover to the server is retried.
smtpDeliveryFailureRetrying(answer) ==
    IF answer = "permanent" THEN "failed_permanent" ELSE "failed_retryable"

\* A message that may have been accepted is not sent again.
smtpDeliveryFailure(answer) ==
    IF answer \in {"permanent", "ambiguous"} THEN "failed_permanent" ELSE "failed_retryable"

\* HTTPPolicyClient: an answer of the control plane counts if it came, can be
\* read, belongs to the request and is a decision with a reason that fits.
validWireDecision ==
    {<<"ok", "outbound_scope_unrestricted">>, <<"ok", "same_domain">>,
     <<"reject", "recipient_domain_forbidden">>, <<"reject", "cross_domain_policy_conflict">>,
     <<"defer", "recipient_domain_policy_hold">>, <<"defer", "outbound_policy_unavailable">>}

Wire == [readable: {TRUE}, ours: BOOLEAN,
         decision: validWireDecision \union {<<"ok", "recipient_domain_forbidden">>}]
        \union [readable: {FALSE}, ours: {TRUE}, decision: {<<"ok", "same_domain">>}]

Decide(wire) ==
    IF wire.readable /\ wire.ours /\ wire.decision \in validWireDecision
    THEN wire.decision[1] ELSE "error"

ClassifyAutomaticDecision(action) ==
    CASE action = "ok" -> "ok"
      [] action = "reject" -> "refused"
      [] OTHER -> "unavailable"

\* The e-mail backend asks the outbound policy, resolves the signing identity,
\* signs, verifies what it signed, and submits; each of them may refuse for
\* good or be unavailable.
SignedEmail(policy, identity, signature, smtp) ==
    LET answers == <<policy, identity, signature>>
        failing == {i \in 1..3 : answers[i] # "ok"}
        first == CHOOSE i \in failing : \A j \in failing : i <= j
    IN  IF failing # {}
        THEN IF answers[first] = "refused" THEN "failed_permanent" ELSE "failed_retryable"
        ELSE IF smtp = "accepted" THEN "delivered" ELSE smtpDeliveryFailure(smtp)

Answers == {"ok", "refused", "unavailable"}

\* What a delivery comes to: the status the backend reports, whether the
\* message arrived or may have, and whether trying again is of no use.
EmailOutcomes ==
    {LET asked == <<policy, identity, signature>>
         submitted == asked = <<"ok", "ok", "ok">>
     IN  [status |-> SignedEmail(policy, identity, signature, smtp),
          reached |-> submitted /\ smtp = "accepted",
          lost |-> submitted /\ smtp = "ambiguous",
          final |-> \/ submitted /\ smtp # "temporary"
                    \/ \E i \in 1..3 : asked[i] = "refused" /\ \A j \in 1..i - 1 : asked[j] = "ok"] :
        policy \in {ClassifyAutomaticDecision(Decide(wire)) : wire \in Wire},
        identity \in Answers, signature \in Answers,
        smtp \in {"accepted", "permanent", "temporary", "ambiguous"}}

\* TelegramBackend.send: no answer, one that cannot be read, "later", "no" and
\* "yes".
send(answer) ==
    CASE answer = "yes" -> "delivered"
      [] answer = "no" -> "failed_permanent"
      [] OTHER -> "failed_retryable"

\* What cannot be told from the answer may have arrived.
TelegramOutcomes ==
    {[status |-> send(answer), reached |-> answer = "yes",
      lost |-> answer \in {"none", "unreadable"}, final |-> answer \in {"yes", "no"}] :
        answer \in {"none", "unreadable", "later", "no", "yes"}}

\* The checks of the plugin's registry, and the code each of them answers with.
auth(caller) ==
    CASE caller = "another plugin" -> "NotFound"
      [] caller = "disabled" -> "PermissionDenied"
      [] caller = "old token" -> "Unauthenticated"
      [] OTHER -> "OK"

Caller == {"known", "another plugin", "disabled", "old token"}

\* The codes an error of the backend without a status is translated to.
notificationSinkError(code) ==
    IF code \in {"Canceled", "InvalidArgument", "DeadlineExceeded", "ResourceExhausted",
                 "Unavailable", "Unimplemented"}
    THEN code ELSE "Unavailable"

grpcDeliveryFailure(code) ==
    IF code \in {"InvalidArgument", "PermissionDenied", "Unimplemented"}
    THEN "failed_permanent" ELSE "failed_retryable"

Undelivered(code, final) ==
    [status |-> grpcDeliveryFailure(code), reached |-> FALSE, lost |-> FALSE, final |-> final]

\* NotificationServer.SendAlert behind GRPCNotificationBackend.SendAlert: the
\* status of the backend comes through, an error without one as its code.
PluginOutcomes ==
    {Undelivered(auth(caller), caller = "disabled") : caller \in {c \in Caller : auth(c) # "OK"}}
    \union {Undelivered(notificationSinkError(code), FALSE) : code \in {"Unavailable", "Canceled", "Unknown"}}
    \union (IF transport = "email" THEN EmailOutcomes ELSE TelegramOutcomes)

SendAlert ==
    /\ round.pc = "sending"
    /\ \E o \in PluginOutcomes, r \in BOOLEAN :
          /\ ~o.lost => r = o.reached
          /\ Reaches(r)
          /\ round' = Round("sent", round.alert, o.status)
          /\ settled' = IF o.final THEN settled \union {round.alert} ELSE settled
          /\ uncertain' = IF transport # "email" /\ o.lost
                          THEN uncertain \union {round.alert} ELSE uncertain
    /\ UNCHANGED <<condition, flips, crashes, event, deliveries>>

\* The call to the plugin runs into its deadline: retryable, whatever became
\* of the message.
GRPCDeadline ==
    /\ round.pc = "sending"
    /\ crashes < MaxCrashes
    /\ crashes' = crashes + 1
    /\ \E reached \in BOOLEAN : Reaches(reached)
    /\ round' = Round("sent", round.alert, "failed_retryable")
    /\ uncertain' = uncertain \union {round.alert}
    /\ UNCHANGED <<condition, flips, event, deliveries, settled>>

RecordFinal ==
    /\ round.pc = "sent"
    /\ deliveries' = [deliveries EXCEPT ![round.alert] = round.result]
    /\ round' = IF round.result = "failed_retryable" THEN Waiting
                ELSE [round EXCEPT !.pc = "recorded"]
    /\ UNCHANGED <<condition, flips, crashes, event, arrived, settled, uncertain>>

Acknowledge ==
    /\ round.pc = "recorded"
    /\ event' = IF event.pending = round.alert THEN [event EXCEPT !.pending = 0] ELSE event
    /\ round' = Waiting
    /\ UNCHANGED <<condition, flips, crashes, deliveries, arrived, settled, uncertain>>

\* An error of the database, or the end of the process, ends the round; a
\* message on its way may still arrive.
EndRound ==
    /\ round.pc # "waiting"
    /\ crashes < MaxCrashes
    /\ crashes' = crashes + 1
    /\ \E reached \in BOOLEAN : Reaches(reached /\ round.pc = "sending")
    /\ round' = Waiting
    /\ uncertain' = IF round.pc \in {"sending", "sent", "recorded"}
                    THEN uncertain \union {round.alert} ELSE uncertain
    /\ UNCHANGED <<condition, flips, event, deliveries, settled>>

AlertsInit ==
    /\ transport \in {"email", "telegram"}
    /\ condition = "ok" /\ flips = 0 /\ crashes = 0
    /\ event = [state |-> "none", seq |-> 0, pending |-> 0]
    /\ round = Waiting
    /\ deliveries = [a \in Alert |-> "none"]
    /\ arrived = [a \in Alert |-> 0]
    /\ settled = {} /\ uncertain = {}

MonitorStep == RunOnce \/ Observe \/ RecordPending \/ SendAlert \/ RecordFinal \/ Acknowledge

AlertsNext == (Flip \/ MonitorStep \/ GRPCDeadline \/ EndRound) /\ UNCHANGED transport

AlertsSpec == AlertsInit /\ [][AlertsNext]_<<alertVars, transport>>

-----------------------------------------------------------------------------
(* Properties                                                              *)

\* No alert is forgotten: while the condition that was noted lasts, its alert
\* stays pending until a delivery of that very alert has succeeded or failed
\* for good.
AcknowledgedWasSettled ==
    event.state = "failing" /\ event.pending = 0 => event.seq \in settled

\* "Do not blindly retry after an uncertain DATA acceptance boundary": an
\* alert reaches its recipient at most once, unless the answer of the plugin or
\* of Telegram, or the note of it, was lost.
NoBlindRetry == \A a \in Alert : arrived[a] > 1 => a \in uncertain

\* An alert is neither lost nor repeated.
NeitherLostNorRepeated == AcknowledgedWasSettled /\ NoBlindRetry

\* A condition that stays bad is noted, and its alert is delivered or given up
\* for good, whatever the rounds before it have left pending.
FailureIsReported ==
    <>[](condition = "failing") => <>[](event.state = "failing" /\ event.seq \in settled)
=============================================================================
