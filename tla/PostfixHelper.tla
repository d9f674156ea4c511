---------------------------- MODULE PostfixHelper ----------------------------
(***************************************************************************)
(* The commands of the Postfix queue, from the client in the control plane *)
(* or in the delivery gate (outboundpolicy/remote_postfix.go) through the  *)
(* helper beside Postfix (postfixgate/helper.go) to postqueue and          *)
(* postsuper (outboundpolicy/postfix.go).  Requests and answers get lost,  *)
(* commands fail before or after their effect, and Postfix goes on         *)
(* delivering, deferring and taking in mail.                               *)
(***************************************************************************)
EXTENDS Naturals

CONSTANTS
    Client,         \* callers, one call at a time
    ReleaseHolder,  \* those that have the release credential
    QueueID,
    MaxFaults,      \* bound on lost messages and failing commands
    NoFile, NoID

ASSUME HelperAssumption ==
    /\ NoFile \notin {"active", "deferred", "hold"}
    /\ NoID \notin QueueID

VARIABLES
    files,   \* [QueueID -> the Postfix queue the message is in, or NoFile]
    helps,   \* the call of each client, and what has become of it
    faults

helperVars == <<files, helps, faults>>

Operation == {"inspect", "hold", "release", "summary", "flush", "retry"}

\* The requests that need the credential Postfix pipe services do not have.
Releasing == {"release", "flush", "retry"}

\* asked: the command took effect during the call.  absent: the queue ID was not
\* in the queue at some time during the call.
Idle == [pc |-> "idle", op |-> "summary", id |-> NoID, nested |-> FALSE, status |-> 0,
         outcome |-> "none", asked |-> FALSE, absent |-> FALSE]

HelperInit ==
    /\ files \in [QueueID -> {"active", "deferred", "hold", NoFile}]
    /\ helps = [c \in Client |-> Idle]
    /\ faults = 0

Fault == faults < MaxFaults /\ faults' = faults + 1

-----------------------------------------------------------------------------
(* Postfix *)

\* What postsuper -h and -H and postqueue -f and -i do to the file of a queue ID.
Moved(op, file) ==
    CASE op = "hold" /\ file # NoFile -> "hold"
      [] op = "release" /\ file = "hold" -> "deferred"
      [] op \in {"flush", "retry"} /\ file = "deferred" -> "active"
      [] OTHER -> file

Effect(op, id) ==
    [i \in QueueID |-> IF i = id \/ op = "flush" THEN Moved(op, files[i]) ELSE files[i]]

\* Every call in progress that is about the queue ID notices that it is gone.
Vanishes(i) ==
    helps' = [c \in Client |-> IF helps[c].id = i /\ helps[c].pc \notin {"idle", "done"}
                               THEN [helps[c] EXCEPT !.absent = TRUE] ELSE helps[c]]

Deliver(i) ==
    /\ files[i] = "active"
    /\ \/ files' = [files EXCEPT ![i] = NoFile] /\ Vanishes(i)
       \/ files' = [files EXCEPT ![i] = "deferred"] /\ UNCHANGED helps
    /\ UNCHANGED faults

Arrive(i) ==
    /\ files[i] = NoFile
    /\ files' = [files EXCEPT ![i] = "active"]
    /\ UNCHANGED <<helps, faults>>

-----------------------------------------------------------------------------
(* RemotePostfixBoundary *)

Current(c) == IF helps[c].nested THEN "summary" ELSE helps[c].op

\* A client without the release credential does not send what needs it.
Call(c) ==
    /\ helps[c].pc \in {"idle", "done"}
    /\ \E op \in Operation, id \in QueueID \union {NoID} :
          /\ op \in {"inspect", "hold", "release", "retry"} => id # NoID
          /\ op = "flush" => id = NoID
          /\ LET refused == op \in Releasing /\ c \notin ReleaseHolder
             IN  helps' = [helps EXCEPT ![c] =
                    [pc |-> IF refused THEN "done" ELSE "sent", op |-> op, id |-> id,
                     nested |-> FALSE, status |-> 0,
                     outcome |-> IF refused THEN "error" ELSE "none",
                     asked |-> FALSE, absent |-> id # NoID /\ files[id] = NoFile]]
    /\ UNCHANGED <<files, faults>>

\* The call after a step.
Goes(h, pc, nested, status, outcome, asked) ==
    [pc |-> pc, op |-> h.op, id |-> h.id, nested |-> nested, status |-> status,
     outcome |-> outcome, asked |-> asked, absent |-> h.absent]

\* Wrong: a retry that failed succeeds if the queue cannot be looked at either.
RetriedOnAnyError(outcome) == outcome # "ok"

\* A retry that failed succeeds if the queue ID is no longer in the queue.
Retried(outcome) == outcome = "not_found"

\* What the client makes of the answer, or of having none.
Receives(c, outcome, asked) ==
    LET h == helps[c]
    IN  helps' = [helps EXCEPT ![c] =
            Goes(h, IF h.op = "retry" /\ ~h.nested /\ outcome # "ok" THEN "sent" ELSE "done",
                 h.op = "retry" /\ outcome # "ok", 0,
                 IF ~h.nested THEN outcome ELSE IF Retried(outcome) THEN "ok" ELSE "error", asked)]

callOptional(op, status) ==
    CASE status \in {200, 204} -> "ok"
      [] status = 404 /\ op = "summary" -> "not_found"
      [] OTHER -> "error"

Receive(c) ==
    /\ helps[c].pc = "answered"
    /\ Receives(c, callOptional(Current(c), helps[c].status), helps[c].asked)
    /\ UNCHANGED <<files, faults>>

\* The request, or the answer, is lost, or the client's 10 seconds are over; the
\* command of a request under way is stopped before or after its effect.
Lose(c) ==
    /\ helps[c].pc \in {"sent", "check", "answered"}
    /\ Fault
    /\ \E runs \in BOOLEAN :
          /\ runs => helps[c].pc = "sent" /\ Current(c) # "summary"
          /\ files' = IF runs THEN Effect(Current(c), helps[c].id) ELSE files
          /\ Receives(c, "error", helps[c].asked \/ runs)

-----------------------------------------------------------------------------
(* Helper and PostfixBoundary *)

Answer(c, status, asked) ==
    helps' = [helps EXCEPT ![c] = Goes(@, "answered", @.nested, status, @.outcome, asked)]

\* The token was replaced on one side only.
Unauthorized(c) ==
    /\ helps[c].pc = "sent"
    /\ Fault
    /\ Answer(c, 401, helps[c].asked)
    /\ UNCHANGED files

\* Snapshot of one queue ID, or of the queue.
SummaryStatus(id) == IF id # NoID /\ files[id] = NoFile THEN 404 ELSE 200

Look(c) ==
    /\ helps[c].pc = "sent"
    /\ Current(c) \in {"summary", "inspect"}
    /\ Answer(c, IF Current(c) = "summary" THEN SummaryStatus(helps[c].id)
                 ELSE IF files[helps[c].id] = NoFile THEN 409 ELSE 200, helps[c].asked)
    /\ UNCHANGED <<files, faults>>

Run(c) ==
    /\ helps[c].pc = "sent"
    /\ Current(c) \notin {"summary", "inspect"}
    /\ files' = Effect(Current(c), helps[c].id)
    /\ Answer(c, 204, TRUE)
    /\ UNCHANGED faults

\* The command, or the listing of the queue, fails, before or after its effect;
\* PostfixBoundary.Retry then looks whether the queue ID is still there.
RunFails(c) ==
    /\ helps[c].pc = "sent"
    /\ Fault
    /\ \E runs \in BOOLEAN :
          /\ runs => Current(c) \notin {"summary", "inspect"}
          /\ files' = IF runs THEN Effect(Current(c), helps[c].id) ELSE files
          /\ IF Current(c) = "retry"
             THEN helps' = [helps EXCEPT ![c] =
                              Goes(@, "check", @.nested, @.status, @.outcome, @.asked \/ runs)]
             ELSE Answer(c, 409, helps[c].asked \/ runs)

Check(c) ==
    /\ helps[c].pc = "check"
    /\ Answer(c, IF files[helps[c].id] = NoFile THEN 204 ELSE 409, helps[c].asked)
    /\ UNCHANGED <<files, faults>>

CheckFails(c) ==
    /\ helps[c].pc = "check"
    /\ Fault
    /\ Answer(c, 409, helps[c].asked)
    /\ UNCHANGED files

HelperNext ==
    \/ \E i \in QueueID : Deliver(i) \/ Arrive(i)
    \/ \E c \in Client :
        Call(c) \/ Receive(c) \/ Lose(c) \/ Unauthorized(c) \/ Look(c) \/ Run(c) \/ RunFails(c)
        \/ Check(c) \/ CheckFails(c)

HelperSpec == HelperInit /\ [][HelperNext]_helperVars

-----------------------------------------------------------------------------
(* Properties *)

\* A caller that is told of success can rely on it: the command took effect
\* during the call or, for a retry, the message had left the queue, whatever
\* was lost or failed on the way and however often the outcome was looked up.
OkWasDone ==
    \A c \in Client : helps[c].pc = "done" /\ helps[c].outcome = "ok" =>
        \/ helps[c].op \in {"summary", "inspect"}
        \/ helps[c].asked
        \/ helps[c].op = "retry" /\ helps[c].absent
=============================================================================
