--------------------------- MODULE TelegramUpdates --------------------------
(***************************************************************************)
(* The Telegram webhook (notification).  Telegram delivers an update again *)
(* until it is answered.  The store runs an update under an advisory lock  *)
(* and keeps the reply for the next delivery; what the update does (an     *)
(* approval executed, an audit event written) is done on other             *)
(* connections, outside the transaction that keeps the reply.              *)
(***************************************************************************)
EXTENDS Naturals, FiniteSets

CONSTANTS Commands, Callbacks, Unsupported,  \* the updates, by what they carry
          Hook, MaxDeliveries, MaxLost

Update == Commands \union Callbacks \union Unsupported

VARIABLES hooks,     \* where each delivery is
          replies,   \* the rows of notification_telegram_updates
          runs, executed, audited, sent, delivered, lost

telegramVars == <<hooks, replies, runs, executed, audited, sent, delivered, lost>>

Free == [pc |-> "free", update |-> 0, reply |-> "none"]

HookAt(h, pc) == hooks[h].pc = pc

Receive(h, u) ==
    /\ HookAt(h, "free")
    /\ delivered[u] < MaxDeliveries
    /\ delivered' = [delivered EXCEPT ![u] = @ + 1]
    /\ hooks' = [hooks EXCEPT ![h] = [pc |-> "received", update |-> u, reply |-> "none"]]
    /\ UNCHANGED <<replies, runs, executed, audited, sent, lost>>

\* Wrong: the transaction does not wait for another one of the same update.
LockNothing(h) ==
    /\ HookAt(h, "received")
    /\ hooks' = [hooks EXCEPT ![h].pc = "locked"]
    /\ UNCHANGED <<replies, runs, executed, audited, sent, delivered, lost>>

\* pg_advisory_xact_lock: held until the transaction ends.
Lock(h) ==
    /\ HookAt(h, "received")
    /\ \A g \in Hook : hooks[g].update = hooks[h].update => hooks[g].pc \notin {"locked", "ran"}
    /\ hooks' = [hooks EXCEPT ![h].pc = "locked"]
    /\ UNCHANGED <<replies, runs, executed, audited, sent, delivered, lost>>

\* The answer carries the reply, or nothing when there is an error.
Reply(h, reply) ==
    /\ sent' = IF reply = "none" THEN sent
               ELSE [sent EXCEPT ![hooks[h].update] = @ \union {reply}]
    /\ hooks' = [hooks EXCEPT ![h] = Free]

Replay(h) ==
    /\ HookAt(h, "locked") /\ replies[hooks[h].update] # "none"
    /\ Reply(h, replies[hooks[h].update])
    /\ UNCHANGED <<replies, runs, executed, audited, delivered, lost>>

-----------------------------------------------------------------------------
(* What an update does                                                     *)

RunAt(h) == HookAt(h, "locked") /\ replies[hooks[h].update] = "none"

Ran(h, reply) ==
    /\ hooks' = [hooks EXCEPT ![h] = [pc |-> "ran", update |-> hooks[h].update, reply |-> reply]]
    /\ runs' = [runs EXCEPT ![hooks[h].update] = @ + 1]

Audit(u, result, written) ==
    audited' = IF written THEN audited \union {<<u, result>>} ELSE audited

CommandReply(succeeds) == IF succeeds THEN "summary" ELSE "command denied"

\* The actor is mapped and authorized, the summary made, and its event
\* written last: an error of any of them is a denial.
RunCommand(h) ==
    /\ RunAt(h) /\ hooks[h].update \in Commands
    /\ \E result \in {"success", "denied", "failure"}, written \in BOOLEAN :
          /\ Audit(hooks[h].update, result, written)
          /\ Ran(h, CommandReply(result = "success" /\ written))
    /\ UNCHANGED <<replies, executed, sent, delivered, lost>>

\* An approval is claimed once: a second execution is refused (module Approval).
RunCallback(h) ==
    /\ RunAt(h) /\ hooks[h].update \in Callbacks
    /\ \/ /\ hooks[h].update \notin executed
          /\ executed' = executed \union {hooks[h].update}
          /\ Ran(h, "approval accepted")
       \/ Ran(h, "approval rejected") /\ UNCHANGED executed
    /\ UNCHANGED <<replies, audited, sent, delivered, lost>>

RejectUnsupported(h) ==
    /\ RunAt(h) /\ hooks[h].update \in Unsupported
    /\ \E written \in BOOLEAN : Audit(hooks[h].update, "denied", written)
    /\ Ran(h, "unsupported")
    /\ UNCHANGED <<replies, executed, sent, delivered, lost>>

-----------------------------------------------------------------------------

\* The insert, refused when the update has a row, and the commit.
Keep(h) ==
    /\ HookAt(h, "ran")
    /\ IF replies[hooks[h].update] = "none"
       THEN /\ replies' = [replies EXCEPT ![hooks[h].update] = hooks[h].reply]
            /\ Reply(h, hooks[h].reply)
       ELSE UNCHANGED replies /\ Reply(h, "none")
    /\ UNCHANGED <<runs, executed, audited, delivered, lost>>

\* The transaction is lost after the update was run; the answer is empty, and
\* the update is run again if it is delivered again.
KeepLost(h) ==
    /\ HookAt(h, "ran")
    /\ lost[hooks[h].update] < MaxLost
    /\ lost' = [lost EXCEPT ![hooks[h].update] = @ + 1]
    /\ Reply(h, "none")
    /\ UNCHANGED <<replies, runs, executed, audited, delivered>>

\* The database fails before: the update is answered all the same.
Drop(h) ==
    /\ hooks[h].pc \in {"received", "locked"}
    /\ Reply(h, "none")
    /\ UNCHANGED <<replies, runs, executed, audited, delivered, lost>>

TelegramInit ==
    /\ hooks = [h \in Hook |-> Free]
    /\ replies = [u \in Update |-> "none"]
    /\ runs = [u \in Update |-> 0]
    /\ executed = {} /\ audited = {}
    /\ sent = [u \in Update |-> {}]
    /\ delivered = [u \in Update |-> 0]
    /\ lost = [u \in Update |-> 0]

TelegramNext ==
    \E h \in Hook :
       \/ \E u \in Update : Receive(h, u)
       \/ Lock(h) \/ Replay(h)
       \/ RunCommand(h) \/ RunCallback(h) \/ RejectUnsupported(h)
       \/ Keep(h) \/ KeepLost(h) \/ Drop(h)

TelegramSpec == TelegramInit /\ [][TelegramNext]_telegramVars

-----------------------------------------------------------------------------
(* Properties                                                              *)

\* However often an update is delivered, and to however many handlers at once,
\* it is run again only where the reply of a run was lost.
RunsOnce == \A u \in Update : runs[u] <= 1 + lost[u]

\* Every answer to an update is the one that is kept: a duplicate delivery is
\* never told something else.
OneAnswer == \A u \in Update : sent[u] \subseteq {replies[u]}

\* A chat is told that an approval was rejected although it was executed only
\* where the reply of the run that executed it was lost.
RejectedWasNotDone ==
    \A u \in Callbacks :
        replies[u] = "approval rejected" /\ u \in executed => lost[u] > 0

\* No summary leaves without the audit event of its success.
SummariesAreOnRecord ==
    \A u \in Commands : "summary" \in sent[u] => <<u, "success">> \in audited

\* An update has one effect and one answer, and the answer fits the effect.
OneOutcome == RunsOnce /\ OneAnswer /\ RejectedWasNotDone /\ SummariesAreOnRecord
=============================================================================
