-------------------------- MODULE OperationsProofs --------------------------
(***************************************************************************)
(* Theorems on the operators' plans, the retention of the audit log, the   *)
(* updates from Telegram, the alerts and the administrator's mass changes  *)
(* of the directory; for any number of operators, handlers, updates,       *)
(* alerts and requests, and for any exports and item lists.                *)
(***************************************************************************)
EXTENDS OperatorPlan, AuditRetention, TelegramUpdates, Alerts, DirectoryOps, FiniteSetTheorems,
        TLAPS

-----------------------------------------------------------------------------
(* OperatorPlan *)

\* A plan's digest binds the row that was shown with it.
DigestBindsSeen(plan) ==
    /\ plan.kind = "role" => plan.digest.binding = plan.seen
    /\ plan.kind = "token" => plan.digest.verifier = plan.seen

PlanInv ==
    /\ plans = [p \in Operator |-> plans[p]]
    /\ \A p \in Operator : plans[p] # NoPlan => DigestBindsSeen(plans[p])
    /\ ReplacesWhatWasShown

\* What a confirmed change replaces is what the digest binds, and so what was
\* shown, however the tables and the other operators' plans have changed since.
THEOREM ShownIsReplaced == PlanSpec => []ReplacesWhatWasShown
<1>1. PlanInit => PlanInv
  BY DEF PlanInit, PlanInv, ReplacesWhatWasShown
<1>2. PlanInv /\ [PlanNext]_planVars => PlanInv'
  <2> SUFFICES ASSUME PlanInv, [PlanNext]_planVars
               PROVE  PlanInv'
    BY Zenon
  <2> USE DEF PlanInv, DigestBindsSeen, ReplacesWhatWasShown
  <2>1. ASSUME NEW p \in Operator, NEW op, NEW r, PreviewRole(p, op, r)
       PROVE  PlanInv'
    BY <2>1, Zenon DEF PreviewRole, RoleDigest
  <2>2. ASSUME NEW p \in Operator, ApplyRole(p)
       PROVE  PlanInv'
    BY <2>2 DEF ApplyRole, RoleDigest, Shown, Noted
  <2>3. ASSUME NEW p \in Operator, NEW s, PreviewToken(p, s)
       PROVE  PlanInv'
    BY <2>3, Zenon DEF PreviewToken, TokenDigest
  <2>4. ASSUME NEW p \in Operator, ApplyToken(p)
       PROVE  PlanInv'
    BY <2>4 DEF ApplyToken, TokenDigest, Shown, Noted
  <2>5. CASE Provision \/ RevokeToken \/ UNCHANGED planVars
    BY <2>5, Zenon DEF Provision, RevokeToken, planVars
  <2>6. QED
    BY <2>1, <2>2, <2>3, <2>4, <2>5, Zenon DEF PlanNext
<1>3. PlanInv => ReplacesWhatWasShown
  BY Zenon DEF PlanInv
<1>4. QED
  BY <1>1, <1>2, <1>3, PTL DEF PlanSpec

-----------------------------------------------------------------------------
(* TelegramUpdates *)

Answer == {"none", "summary", "command denied", "approval accepted", "approval rejected",
           "unsupported"}

HookRecord ==
    [pc : {"free", "received", "locked", "ran"}, update : Update \union {0}, reply : Answer]

TelegramType ==
    /\ hooks \in [Hook -> HookRecord]
    /\ \A h \in Hook : hooks[h].pc # "free" => hooks[h].update \in Update
    /\ replies \in [Update -> Answer]
    /\ runs \in [Update -> Nat]
    /\ lost \in [Update -> Nat]
    /\ sent \in [Update -> SUBSET Answer]

\* The handler that has run an update and not kept its reply yet.
Running(h, u) == hooks[h].pc = "ran" /\ hooks[h].update = u

\* The advisory lock: of the handlers of one update, one is past it, and while
\* it is there nothing is kept by another.
LockHolds ==
    /\ \A g, h \in Hook :
          /\ hooks[g].pc \in {"locked", "ran"} /\ hooks[h].pc \in {"locked", "ran"}
          /\ hooks[g].update = hooks[h].update
          => g = h
    /\ \A h \in Hook, u \in Update :
          Running(h, u) => replies[u] = "none" /\ hooks[h].reply # "none"

\* Every run is accounted for: its reply was lost, is kept, or is on its way.
RunsAreCounted ==
    \A u \in Update :
        /\ runs[u] <= 1 + lost[u]
        /\ replies[u] = "none" /\ (\A h \in Hook : ~Running(h, u)) => runs[u] <= lost[u]

SentIsKept ==
    /\ OneAnswer
    /\ \A u \in Update : replies[u] = "none" => sent[u] = {}

\* An execution whose answer was not lost is answered with "accepted".
ExecutedIsTold ==
    \A u \in executed \intersect Update :
        \/ lost[u] # 0
        \/ replies[u] = "approval accepted"
        \/ \E h \in Hook : Running(h, u) /\ hooks[h].reply = "approval accepted"

SummaryIsAudited ==
    /\ \A u \in Update : replies[u] = "summary" => <<u, "success">> \in audited
    /\ \A h \in Hook, u \in Update :
          Running(h, u) /\ hooks[h].reply = "summary" => <<u, "success">> \in audited

TelegramInv ==
    TelegramType /\ LockHolds /\ RunsAreCounted /\ SentIsKept /\ ExecutedIsTold /\ SummaryIsAudited

\* Facts about the counters.
LEMMA OneMore ==
    ASSUME NEW f \in [Update -> Nat], NEW u \in Update
    PROVE  LET g == [f EXCEPT ![u] = f[u] + 1]
           IN  g \in [Update -> Nat] /\ g[u] # 0 /\ \A v \in Update \ {u} : g[v] = f[v]
OBVIOUS

\* A number that is not zero is positive.
LEMMA Positive == ASSUME NEW n \in Nat, n # 0 PROVE n > 0
OBVIOUS

\* Counting one more on both sides keeps the order.
LEMMA Successor == ASSUME NEW m \in Nat, NEW n \in Nat, m <= n PROVE m + 1 <= 1 + n
OBVIOUS

\* A handler that runs its update, whatever the update is.
LEMMA RunStep ==
    ASSUME TelegramInv, NEW h \in Hook, NEW reply \in Answer \ {"none"},
           RunAt(h), Ran(h, reply), UNCHANGED <<replies, sent, lost>>,
           audited \subseteq audited',
           reply = "summary" => <<hooks[h].update, "success">> \in audited',
           \/ executed' = executed
           \/ reply = "approval accepted" /\ executed' = executed \union {hooks[h].update}
    PROVE  TelegramInv'
<1> USE DEF TelegramInv
<1>1. PICK u \in Update : u = hooks[h].update
  BY Zenon DEF TelegramType, RunAt, HookAt
<1>2. /\ hooks' = [hooks EXCEPT ![h] = [pc |-> "ran", update |-> u, reply |-> reply]]
      /\ runs' = [runs EXCEPT ![u] = runs[u] + 1]
      /\ replies[u] = "none"
      /\ hooks[h].pc = "locked"
  BY <1>1, Zenon DEF RunAt, Ran, HookAt
<1>3. /\ hooks' \in [Hook -> HookRecord]
      /\ hooks'[h].pc = "ran" /\ hooks'[h].update = u /\ hooks'[h].reply = reply
      /\ \A g \in Hook \ {h} : hooks'[g] = hooks[g]
  <2>1. [pc |-> "ran", update |-> u, reply |-> reply] \in HookRecord
    BY Zenon DEF HookRecord
  <2>2. QED
    BY <1>2, <2>1, Zenon DEF TelegramType
<1>4. \A g \in Hook : ~Running(g, u)
  BY <1>1, <1>2, Zenon DEF LockHolds, Running
<1>5. TelegramType'
  <2>1. runs' \in [Update -> Nat]
    BY <1>2, OneMore, Zenon DEF TelegramType
  <2>2. \A g \in Hook : hooks'[g].pc # "free" => hooks'[g].update \in Update
    BY <1>3, Zenon DEF TelegramType
  <2>3. QED
    BY <1>3, <2>1, <2>2, Zenon DEF TelegramType
<1>6. LockHolds'
  BY <1>1, <1>2, <1>3, ZenonT(30) DEF LockHolds, Running
<1>7. RunsAreCounted'
  <2>1. runs[u] \in Nat /\ lost[u] \in Nat /\ runs[u] <= lost[u] /\ runs'[u] = runs[u] + 1
    BY <1>2, <1>4, Zenon DEF TelegramType, RunsAreCounted
  <2>2. \A v \in Update \ {u} : runs'[v] = runs[v]
    BY <1>2, Zenon DEF TelegramType
  <2>3. Running(h, u)'
    BY <1>3, Zenon DEF Running
  <2>4. ASSUME NEW v \in Update \ {u}, \A g \in Hook : ~Running(g, v)'
       PROVE  \A g \in Hook : ~Running(g, v)
    BY <1>2, <1>3, <2>4, Zenon DEF Running
  <2>5. runs'[u] <= 1 + lost'[u]
    BY <2>1, Successor, Zenon
  <2>6. QED
    BY <2>2, <2>3, <2>4, <2>5, Zenon DEF RunsAreCounted
<1>8. SentIsKept'
  BY Zenon DEF SentIsKept, OneAnswer
<1>9. ExecutedIsTold'
  <2>1. \A g \in Hook, v \in Update : Running(g, v) => hooks'[g] = hooks[g]
    BY <1>2, <1>3, Zenon DEF Running
  <2> SUFFICES ASSUME NEW v \in executed' \intersect Update, lost[v] = 0,
                      replies[v] # "approval accepted"
               PROVE  \E g \in Hook : Running(g, v)' /\ hooks'[g].reply = "approval accepted"
    BY Zenon DEF ExecutedIsTold
  <2>2. CASE v \in executed
    <3>1. PICK g \in Hook : Running(g, v) /\ hooks[g].reply = "approval accepted"
      BY <2>2, Zenon DEF ExecutedIsTold
    <3>2. QED
      BY <2>1, <3>1, Zenon DEF Running
  <2>3. CASE v \notin executed
    BY <1>1, <1>3, <2>3, Zenon DEF Running
  <2>4. QED
    BY <2>2, <2>3, Zenon
<1>10. SummaryIsAudited'
  BY <1>1, <1>3, Zenon DEF SummaryIsAudited, Running
<1>11. QED
  BY <1>5, <1>6, <1>7, <1>8, <1>9, <1>10, Zenon

\* Every step of a handler keeps the invariant.
LEMMA TelegramStep ==
    ASSUME TelegramInv, [TelegramNext]_telegramVars
    PROVE  TelegramInv'
<1> USE DEF TelegramInv
<1>1. ASSUME NEW h \in Hook, NEW u \in Update, Receive(h, u)
     PROVE  TelegramInv'
  <2> USE <1>1 DEF Receive, HookAt
  <2>1. TelegramType'
    BY Zenon DEF TelegramType, HookRecord, Answer
  <2>2. LockHolds'
    BY Zenon DEF TelegramType, HookRecord, LockHolds, Running
  <2>3. RunsAreCounted'
    BY Zenon DEF TelegramType, HookRecord, LockHolds, RunsAreCounted, Running
  <2>4. SentIsKept'
    BY Zenon DEF TelegramType, HookRecord, LockHolds, SentIsKept, OneAnswer, Running
  <2>5. ExecutedIsTold'
    BY Zenon DEF TelegramType, HookRecord, LockHolds, ExecutedIsTold, Running
  <2>6. SummaryIsAudited'
    BY Zenon DEF TelegramType, HookRecord, LockHolds, SummaryIsAudited, Running
  <2>7. QED
    BY <2>1, <2>2, <2>3, <2>4, <2>5, <2>6, Zenon
<1>2. ASSUME NEW h \in Hook, Lock(h)
     PROVE  TelegramInv'
  <2> USE <1>2 DEF Lock, HookAt
  <2>1. TelegramType'
    BY Zenon DEF TelegramType, HookRecord, Answer
  <2>2. LockHolds'
    BY Zenon DEF TelegramType, HookRecord, LockHolds, Running
  <2>3. RunsAreCounted'
    BY Zenon DEF TelegramType, HookRecord, LockHolds, RunsAreCounted, Running
  <2>4. SentIsKept'
    BY Zenon DEF TelegramType, HookRecord, LockHolds, SentIsKept, OneAnswer, Running
  <2>5. ExecutedIsTold'
    BY Zenon DEF TelegramType, HookRecord, LockHolds, ExecutedIsTold, Running
  <2>6. SummaryIsAudited'
    BY Zenon DEF TelegramType, HookRecord, LockHolds, SummaryIsAudited, Running
  <2>7. QED
    BY <2>1, <2>2, <2>3, <2>4, <2>5, <2>6, Zenon
<1>3. ASSUME NEW h \in Hook, Replay(h)
     PROVE  TelegramInv'
  <2> USE <1>3 DEF Replay, Reply, Free, HookAt
  <2>1. TelegramType'
    BY Zenon DEF TelegramType, HookRecord, Answer
  <2>2. LockHolds'
    BY Zenon DEF TelegramType, HookRecord, LockHolds, Running
  <2>3. RunsAreCounted'
    BY Zenon DEF TelegramType, HookRecord, LockHolds, RunsAreCounted, Running
  <2>4. SentIsKept'
    BY Zenon DEF TelegramType, HookRecord, LockHolds, SentIsKept, OneAnswer, Running
  <2>5. ExecutedIsTold'
    BY Zenon DEF TelegramType, HookRecord, LockHolds, ExecutedIsTold, Running
  <2>6. SummaryIsAudited'
    BY Zenon DEF TelegramType, HookRecord, LockHolds, SummaryIsAudited, Running
  <2>7. QED
    BY <2>1, <2>2, <2>3, <2>4, <2>5, <2>6, Zenon
<1>4. ASSUME NEW h \in Hook, RunCommand(h)
     PROVE  TelegramInv'
  <2>1. PICK result \in {"success", "denied", "failure"}, noted \in BOOLEAN :
             /\ Audit(hooks[h].update, result, noted)
             /\ Ran(h, CommandReply(result = "success" /\ noted))
    BY <1>4, Zenon DEF RunCommand
  <2>2. CASE result = "success" /\ noted
    BY <1>4, <2>1, <2>2, RunStep, Zenon DEF RunCommand, CommandReply, Audit, Answer
  <2>3. CASE ~(result = "success" /\ noted)
    BY <1>4, <2>1, <2>3, RunStep, Zenon DEF RunCommand, CommandReply, Audit, Answer
  <2>4. QED
    BY <2>2, <2>3, Zenon
<1>5. ASSUME NEW h \in Hook, RunCallback(h)
     PROVE  TelegramInv'
  BY <1>5, RunStep, Zenon DEF RunCallback, Answer
<1>6. ASSUME NEW h \in Hook, RejectUnsupported(h)
     PROVE  TelegramInv'
  BY <1>6, RunStep, Zenon DEF RejectUnsupported, Audit, Answer
<1>7. ASSUME NEW h \in Hook, Keep(h)
     PROVE  TelegramInv'
  <2>1. PICK u \in Update : u = hooks[h].update
    BY <1>7, Zenon DEF TelegramType, Keep, HookAt
  <2>2. Running(h, u) /\ replies[u] = "none" /\ hooks[h].reply # "none"
    BY <1>7, <2>1, Zenon DEF Keep, HookAt, LockHolds, Running
  <2>3. /\ replies' = [replies EXCEPT ![u] = hooks[h].reply]
        /\ sent' = [sent EXCEPT ![u] = sent[u] \union {hooks[h].reply}]
        /\ hooks' = [hooks EXCEPT ![h] = Free]
        /\ UNCHANGED <<runs, executed, audited, lost>>
    BY <1>7, <2>1, <2>2, Zenon DEF Keep, Reply
  <2>4. hooks[h].reply \in Answer
    BY Zenon DEF TelegramType, HookRecord
  <2>5. TelegramType'
    BY <2>3, <2>4, Zenon DEF TelegramType, HookRecord, Free, Answer
  <2>6. /\ \A g \in Hook, v \in Update : Running(g, v)' => Running(g, v) /\ v # u
        /\ \A g \in Hook \ {h} : hooks'[g] = hooks[g]
    BY <2>2, <2>3, Zenon DEF TelegramType, LockHolds, Running, Free
  <2>7. LockHolds'
    BY <2>3, <2>6 DEF TelegramType, LockHolds, Running, Free
  <2>8. RunsAreCounted'
    BY <2>2, <2>3, <2>6, Zenon DEF TelegramType, RunsAreCounted, Running
  <2>9. SentIsKept'
    BY <2>2, <2>3, Zenon DEF TelegramType, SentIsKept, OneAnswer
  <2>10. ExecutedIsTold'
    <3> SUFFICES ASSUME NEW v \in executed \intersect Update, lost[v] = 0,
                        replies'[v] # "approval accepted"
                 PROVE  \E g \in Hook : Running(g, v)' /\ hooks'[g].reply = "approval accepted"
      BY <2>3, Zenon DEF ExecutedIsTold
    <3>1. replies[v] # "approval accepted"
      BY <2>2, <2>3, Zenon DEF TelegramType
    <3>2. PICK g \in Hook : Running(g, v) /\ hooks[g].reply = "approval accepted"
      BY <3>1, Zenon DEF ExecutedIsTold
    <3>3. g # h
      BY <2>2, <2>3, <3>2, Zenon DEF TelegramType, Running
    <3>4. QED
      BY <2>6, <3>2, <3>3, Zenon DEF Running
  <2>11. SummaryIsAudited'
    BY <2>2, <2>3, <2>6, Zenon DEF TelegramType, SummaryIsAudited, Running
  <2>12. QED
    BY <2>5, <2>7, <2>8, <2>9, <2>10, <2>11, Zenon
<1>8. ASSUME NEW h \in Hook, KeepLost(h)
     PROVE  TelegramInv'
  <2>1. PICK u \in Update : u = hooks[h].update
    BY <1>8, Zenon DEF TelegramType, KeepLost, HookAt
  <2>2. /\ lost' = [lost EXCEPT ![u] = lost[u] + 1]
        /\ hooks' = [hooks EXCEPT ![h] = Free]
        /\ UNCHANGED <<replies, runs, executed, audited, sent>>
    BY <1>8, <2>1, Zenon DEF KeepLost, Reply
  <2>3. TelegramType'
    <3>1. Free \in HookRecord
      BY Zenon DEF HookRecord, Free, Answer
    <3>2. lost' \in [Update -> Nat]
      BY <2>2 DEF TelegramType
    <3>3. hooks' \in [Hook -> HookRecord]
      BY <2>2, <3>1, Zenon DEF TelegramType
    <3>4. \A g \in Hook : hooks'[g].pc # "free" => hooks'[g].update \in Update
      BY <2>2, Zenon DEF TelegramType, Free
    <3>5. QED
      BY <2>2, <3>2, <3>3, <3>4, Zenon DEF TelegramType
  <2>4. /\ \A g \in Hook, v \in Update : Running(g, v)' => Running(g, v)
        /\ \A g \in Hook, v \in Update \ {u} : Running(g, v) => Running(g, v)' /\ g # h
        /\ \A g \in Hook \ {h} : hooks'[g] = hooks[g]
    BY <1>8, <2>1, <2>2, Zenon DEF TelegramType, LockHolds, Running, Free
  <2>5. LockHolds'
    BY <2>2, <2>4 DEF TelegramType, LockHolds, Running, Free
  <2>6. RunsAreCounted'
    BY <2>2, <2>4 DEF TelegramType, RunsAreCounted
  <2>7. SentIsKept'
    BY <2>2, Zenon DEF SentIsKept, OneAnswer
  <2>8. ExecutedIsTold'
    <3>0. lost'[u] # 0 /\ \A v \in Update \ {u} : lost'[v] = lost[v]
      BY <2>2, OneMore DEF TelegramType
    <3> SUFFICES ASSUME NEW v \in executed \intersect Update, lost'[v] = 0,
                        replies[v] # "approval accepted"
                 PROVE  \E g \in Hook : Running(g, v)' /\ hooks'[g].reply = "approval accepted"
      BY <2>2, Zenon DEF ExecutedIsTold
    <3>1. v # u /\ lost[v] = 0
      BY <3>0, Zenon
    <3>2. PICK g \in Hook : Running(g, v) /\ hooks[g].reply = "approval accepted"
      BY <3>1, Zenon DEF ExecutedIsTold
    <3>3. QED
      BY <2>4, <3>1, <3>2, Zenon
  <2>9. SummaryIsAudited'
    BY <2>2, <2>4 DEF SummaryIsAudited, Running, Free
  <2>10. QED
    BY <2>3, <2>5, <2>6, <2>7, <2>8, <2>9
<1>9. ASSUME NEW h \in Hook, Drop(h)
     PROVE  TelegramInv'
  <2> USE <1>9 DEF Drop, Reply, Free, HookAt
  <2>1. TelegramType'
    BY Zenon DEF TelegramType, HookRecord, Answer
  <2>2. LockHolds'
    BY Zenon DEF TelegramType, HookRecord, LockHolds, Running
  <2>3. RunsAreCounted'
    BY Zenon DEF TelegramType, HookRecord, LockHolds, RunsAreCounted, Running
  <2>4. SentIsKept'
    BY Zenon DEF TelegramType, HookRecord, LockHolds, SentIsKept, OneAnswer, Running
  <2>5. ExecutedIsTold'
    <3> SUFFICES ASSUME NEW u \in executed \intersect Update, lost[u] = 0,
                        replies'[u] # "approval accepted"
                 PROVE  \E g \in Hook : Running(g, u)' /\ hooks'[g].reply = "approval accepted"
      BY Zenon DEF ExecutedIsTold
    <3>1. PICK g \in Hook : Running(g, u) /\ hooks[g].reply = "approval accepted"
      BY Zenon DEF TelegramType, HookRecord, LockHolds, ExecutedIsTold
    <3>2. g # h
      BY <3>1, Zenon DEF TelegramType, HookRecord, LockHolds, Running
    <3>3. QED
      BY <3>1, <3>2, Zenon DEF TelegramType, Running
  <2>6. SummaryIsAudited'
    BY Zenon DEF TelegramType, HookRecord, LockHolds, SummaryIsAudited, Running
  <2>7. QED
    BY <2>1, <2>2, <2>3, <2>4, <2>5, <2>6, Zenon
<1>10. CASE UNCHANGED telegramVars
  <2> USE <1>10 DEF telegramVars
  <2>1. TelegramType'
    BY Zenon DEF TelegramType
  <2>2. LockHolds'
    BY Zenon DEF LockHolds, Running
  <2>3. RunsAreCounted'
    BY Zenon DEF RunsAreCounted, Running
  <2>4. SentIsKept'
    BY Zenon DEF SentIsKept, OneAnswer
  <2>5. ExecutedIsTold'
    BY Zenon DEF ExecutedIsTold, Running
  <2>6. SummaryIsAudited'
    BY Zenon DEF SummaryIsAudited, Running
  <2>7. QED
    BY <2>1, <2>2, <2>3, <2>4, <2>5, <2>6, Zenon
<1>11. QED
  BY <1>1, <1>2, <1>3, <1>4, <1>5, <1>6, <1>7, <1>8, <1>9, <1>10, Zenon DEF TelegramNext

\* An update is run once but where a reply was lost, is answered with one
\* reply, is not called rejected when it was done, and is summarized on record:
\* for any number of deliveries at once.
THEOREM UpdatesHaveOneOutcome == TelegramSpec => []OneOutcome
<1>1. TelegramInit => TelegramInv
  BY DEF TelegramInit, TelegramInv, TelegramType, HookRecord, Answer, Free, LockHolds,
         RunsAreCounted, SentIsKept, OneAnswer, ExecutedIsTold, SummaryIsAudited, Running
<1>2. TelegramInv => OneOutcome
  <2> SUFFICES ASSUME TelegramInv
               PROVE  OneOutcome
    BY Zenon
  <2> USE DEF TelegramInv
  <2>1. RunsOnce
    BY Zenon DEF RunsOnce, RunsAreCounted
  <2>2. OneAnswer
    BY Zenon DEF SentIsKept
  <2>3. RejectedWasNotDone
    <3> SUFFICES ASSUME NEW u \in Callbacks, replies[u] = "approval rejected", u \in executed
                 PROVE  lost[u] > 0
      BY Zenon DEF RejectedWasNotDone
    <3>1. u \in Update
      BY Zenon DEF Update
    <3>2. lost[u] # 0
      BY <3>1, Zenon DEF ExecutedIsTold, LockHolds
    <3>3. lost[u] \in Nat
      BY <3>1, Zenon DEF TelegramType
    <3>4. QED
      BY <3>2, <3>3, Positive, Zenon
  <2>4. SummariesAreOnRecord
    BY Zenon DEF SummariesAreOnRecord, SentIsKept, OneAnswer, SummaryIsAudited, Update
  <2>5. QED
    BY <2>1, <2>2, <2>3, <2>4, Zenon DEF OneOutcome
<1>3. QED
  BY <1>1, <1>2, TelegramStep, PTL DEF TelegramSpec

-----------------------------------------------------------------------------
(* Alerts *)

Status3 == {"delivered", "failed_permanent", "failed_retryable"}

\* An outcome is retried only when that is of use, and a message that arrived,
\* or may have, is not sent again; but where Telegram's answer was lost.
SoundOutcome(o) ==
    /\ o.status \in Status3
    /\ o.status # "failed_retryable" => o.final
    /\ o.reached => o.status # "failed_retryable"
    /\ o.lost => transport # "email" \/ o.status # "failed_retryable"

\* The outcomes of a signed e-mail: the first of the three steps that does not
\* succeed decides, and after them the server's answer.
LEMMA EmailIsSound ==
    ASSUME NEW policy \in Answers, NEW identity \in Answers, NEW signature \in Answers,
           NEW smtp \in {"accepted", "permanent", "temporary", "ambiguous"}
    PROVE  LET asked == <<policy, identity, signature>>
               submitted == asked = <<"ok", "ok", "ok">>
               status == SignedEmail(policy, identity, signature, smtp)
           IN  /\ status \in Status3
               /\ submitted /\ smtp \in {"accepted", "ambiguous"} => status # "failed_retryable"
               /\ status # "failed_retryable" =>
                     \/ submitted /\ smtp # "temporary"
                     \/ \E i \in 1..3 : asked[i] = "refused" /\ \A j \in 1..i - 1 : asked[j] = "ok"
<1> DEFINE asked == <<policy, identity, signature>>
           failing == {i \in 1..3 : asked[i] # "ok"}
           first == CHOOSE i \in failing : \A j \in failing : i <= j
           status == SignedEmail(policy, identity, signature, smtp)
<1>1. status = IF failing # {}
               THEN IF asked[first] = "refused" THEN "failed_permanent" ELSE "failed_retryable"
               ELSE IF smtp = "accepted" THEN "delivered" ELSE smtpDeliveryFailure(smtp)
  BY Zenon DEF SignedEmail
<1>2. CASE failing = {}
  <2>1. asked = <<"ok", "ok", "ok">>
    BY <1>2
  <2>2. status = IF smtp = "accepted" THEN "delivered" ELSE smtpDeliveryFailure(smtp)
    BY <1>1, <1>2, Zenon
  <2>3. status \in Status3
        /\ (smtp \in {"accepted", "ambiguous"} => status # "failed_retryable")
        /\ (status # "failed_retryable" => smtp # "temporary")
    BY <2>2, Zenon DEF smtpDeliveryFailure, Status3
  <2>4. QED
    BY <2>1, <2>3, Zenon
<1>3. CASE failing # {}
  <2>1. \E i \in failing : \A j \in failing : i <= j
    <3>1. CASE 1 \in failing
      BY <3>1
    <3>2. CASE 1 \notin failing /\ 2 \in failing
      BY <3>2
    <3>3. CASE 1 \notin failing /\ 2 \notin failing
      BY <1>3, <3>3
    <3>4. QED
      BY <3>1, <3>2, <3>3, Zenon
  <2>2. first \in failing /\ \A j \in failing : first <= j
    BY <2>1, Zenon
  <2> HIDE DEF first
  <2>3. first \in 1..3 /\ \A j \in 1..first - 1 : asked[j] = "ok"
    <3>1. first \in 1..3
      BY <2>2, Zenon
    <3>2. ASSUME NEW j \in 1..first - 1
         PROVE  j \in 1..3 /\ ~(first <= j)
      BY <3>1, <3>2
    <3>3. \A j \in 1..first - 1 : j \in 1..3 /\ j \notin failing
      BY <2>2, <3>2, Zenon
    <3>4. QED
      BY <3>1, <3>3, Zenon
  <2>4. asked # <<"ok", "ok", "ok">>
    BY <1>3
  <2>5. status = IF asked[first] = "refused" THEN "failed_permanent" ELSE "failed_retryable"
    BY <1>1, <1>3, Zenon
  <2> HIDE DEF status, failing
  <2>6. QED
    BY <2>3, <2>4, <2>5, Zenon DEF status, Status3
<1>4. QED
  BY <1>2, <1>3, Zenon

\* Whatever the plugin answers is sound.
LEMMA OutcomesAreSound ==
    ASSUME NEW o \in PluginOutcomes
    PROVE  SoundOutcome(o)
<1>1. ASSUME NEW code, NEW final, o = Undelivered(code, final),
             grpcDeliveryFailure(code) # "failed_retryable" => final
     PROVE  SoundOutcome(o)
  BY <1>1, Zenon DEF Undelivered, SoundOutcome, grpcDeliveryFailure, Status3
<1>2. ASSUME NEW caller \in Caller, auth(caller) # "OK",
             o = Undelivered(auth(caller), caller = "disabled")
     PROVE  SoundOutcome(o)
  BY <1>1, <1>2, Zenon DEF auth, Caller, grpcDeliveryFailure
<1>3. ASSUME NEW code \in {"Unavailable", "Canceled", "Unknown"},
             o = Undelivered(notificationSinkError(code), FALSE)
     PROVE  SoundOutcome(o)
  BY <1>1, <1>3, Zenon DEF notificationSinkError, grpcDeliveryFailure
<1>4. CASE o \in EmailOutcomes
  <2>1. PICK policy \in {ClassifyAutomaticDecision(Decide(wire)) : wire \in Wire},
             identity \in Answers, signature \in Answers,
             smtp \in {"accepted", "permanent", "temporary", "ambiguous"} :
             o = LET asked == <<policy, identity, signature>>
                     submitted == asked = <<"ok", "ok", "ok">>
                 IN  [status |-> SignedEmail(policy, identity, signature, smtp),
                      reached |-> submitted /\ smtp = "accepted",
                      lost |-> submitted /\ smtp = "ambiguous",
                      final |-> \/ submitted /\ smtp # "temporary"
                                \/ \E i \in 1..3 :
                                      asked[i] = "refused" /\ \A j \in 1..i - 1 : asked[j] = "ok"]
    BY <1>4 DEF EmailOutcomes
  <2>2. policy \in Answers
    BY Zenon DEF ClassifyAutomaticDecision, Answers
  <2> DEFINE asked == <<policy, identity, signature>>
             submitted == asked = <<"ok", "ok", "ok">>
             decisive == \E i \in 1..3 :
                            asked[i] = "refused" /\ \A j \in 1..i - 1 : asked[j] = "ok"
  <2>3. /\ o.status = SignedEmail(policy, identity, signature, smtp)
        /\ o.reached = (submitted /\ smtp = "accepted")
        /\ o.lost = (submitted /\ smtp = "ambiguous")
        /\ o.final = ((submitted /\ smtp # "temporary") \/ decisive)
    BY <2>1, Zenon
  <2>4. /\ o.status \in Status3
        /\ submitted /\ smtp \in {"accepted", "ambiguous"} => o.status # "failed_retryable"
        /\ o.status # "failed_retryable" => (submitted /\ smtp # "temporary") \/ decisive
    <3>1. LET st == SignedEmail(policy, identity, signature, smtp)
          IN  /\ st \in Status3
              /\ submitted /\ smtp \in {"accepted", "ambiguous"} => st # "failed_retryable"
              /\ st # "failed_retryable" => (submitted /\ smtp # "temporary") \/ decisive
      BY <2>2, EmailIsSound
    <3>2. QED
      BY <2>3, <3>1, Zenon
  <2> HIDE DEF submitted, decisive
  <2>5. QED
    BY <2>3, <2>4, Zenon DEF SoundOutcome
<1>5. CASE o \in TelegramOutcomes /\ transport # "email"
  <2>1. PICK answer \in {"none", "unreadable", "later", "no", "yes"} :
             o = [status |-> send(answer), reached |-> answer = "yes",
                  lost |-> answer \in {"none", "unreadable"}, final |-> answer \in {"yes", "no"}]
    BY <1>5, Zenon DEF TelegramOutcomes
  <2>2. /\ o.status = send(answer)
        /\ o.reached = (answer = "yes")
        /\ o.final = (answer \in {"yes", "no"})
    BY <2>1, Zenon
  <2>3. send(answer) \in Status3 /\ (send(answer) # "failed_retryable" <=> answer \in {"yes", "no"})
    BY Zenon DEF send, Status3
  <2>4. QED
    BY <1>5, <2>2, <2>3, Zenon DEF SoundOutcome
<1>6. QED
  BY <1>2, <1>3, <1>4, <1>5, Zenon DEF PluginOutcomes

RoundRecord ==
    [pc : {"waiting", "looked", "pending", "sending", "sent", "recorded"},
     saw : {"ok", "failing"}, alert : Nat, result : Status3 \union {"none"}]

EventRow == [state : {"none", "ok", "failing"}, seq : Nat, pending : Nat]

\* The round works on the alert that is pending, which is the last one.
RoundIsPending ==
    /\ condition \in {"ok", "failing"}
    /\ round \in RoundRecord
    /\ event \in EventRow
    /\ event.pending \in {0, event.seq}
    /\ round.pc \in {"pending", "sending", "sent", "recorded"} =>
          round.alert = event.pending /\ round.alert # 0

\* What a round has recorded for good is settled.
ResultIsSettled ==
    /\ round.pc \in {"sent", "recorded"} /\ round.result # "failed_retryable" =>
          round.alert \in settled
    /\ round.pc = "recorded" => round.result # "failed_retryable"
    /\ AcknowledgedWasSettled

\* The round has a result that is not tried again.
Concluded == round.pc \in {"sent", "recorded"} /\ round.result # "failed_retryable"

\* An alert that has arrived and is not uncertain has arrived once and will not
\* be sent again.
ArrivedIsDone ==
    /\ arrived \in [Alert -> 0..2]
    /\ \A a \in Alert : arrived[a] # 0 /\ a \notin uncertain =>
          arrived[a] = 1 /\ a <= event.seq /\ (event.pending = a => Concluded)

AlertsInv == RoundIsPending /\ ResultIsSettled /\ ArrivedIsDone

\* A message that arrives is counted for the alert of the round, and only there.
LEMMA ReachedIsCounted ==
    ASSUME arrived \in [Alert -> 0..2], NEW reached \in BOOLEAN, Reaches(reached)
    PROVE  /\ arrived' \in [Alert -> 0..2]
           /\ \A a \in Alert \ {round.alert} : arrived'[a] = arrived[a]
           /\ round.alert \in Alert /\ arrived'[round.alert] # arrived[round.alert] =>
                 reached /\ arrived'[round.alert] = arrived[round.alert] + 1
<1> DEFINE about == round.alert
<1>1. arrived' = IF reached /\ arrived[about] < 2
                 THEN [arrived EXCEPT ![about] = @ + 1] ELSE arrived
  BY Zenon DEF Reaches
<1> HIDE DEF about
<1>2. about \in Alert /\ arrived[about] < 2 => arrived[about] + 1 \in 0..2
  OBVIOUS
<1>3. /\ arrived' \in [Alert -> 0..2]
      /\ \A a \in Alert \ {about} : arrived'[a] = arrived[a]
      /\ about \in Alert /\ arrived'[about] # arrived[about] =>
            reached /\ arrived'[about] = arrived[about] + 1
  <2>1. CASE about \in Alert
    BY <1>1, <1>2, <2>1, Zenon
  <2>2. CASE about \notin Alert
    BY <1>1, <2>2, Zenon
  <2>3. QED
    BY <2>1, <2>2, Zenon
<1>4. QED
  BY <1>3, Zenon DEF about

\* Every step of a round keeps the invariant.
LEMMA AlertsStep ==
    ASSUME AlertsInv, AlertsNext
    PROVE  AlertsInv'
<1> USE DEF AlertsInv, monitorVars
<1>1. CASE Flip
  BY <1>1, Zenon DEF Flip, RoundIsPending, ResultIsSettled, AcknowledgedWasSettled, ArrivedIsDone, Concluded
<1>2. CASE RunOnce
  <2>1. round' = [pc |-> "looked", saw |-> condition, alert |-> 0, result |-> "none"]
    BY <1>2, Zenon DEF RunOnce, Waiting
  <2>2. round.pc = "waiting" /\ UNCHANGED <<condition, event, arrived, settled, uncertain>>
    BY <1>2, Zenon DEF RunOnce
  <2>3. RoundIsPending'
    BY <2>1, <2>2, Zenon DEF RoundIsPending, RoundRecord
  <2>4. ResultIsSettled' /\ ArrivedIsDone'
    BY <2>1, <2>2, Zenon DEF ResultIsSettled, AcknowledgedWasSettled, ArrivedIsDone, Concluded
  <2>5. QED
    BY <2>3, <2>4, Zenon
<1>3. CASE Observe
  <2> DEFINE new == Observed(round.saw)
  <2>1. /\ new \in EventRow
        /\ new.pending \in {0, new.seq}
        /\ event.seq <= new.seq
        /\ new = event \/ new.pending = 0 \/ new.pending = event.seq + 1
        /\ new.state = "failing" /\ new.pending = 0 => new = event
    BY DEF Observed, RoundIsPending, RoundRecord, EventRow
  <2>2. /\ event' = new
        /\ round' = IF new.pending = 0 THEN Waiting
                    ELSE Round("pending", new.pending, "none")
        /\ round.pc = "looked" /\ UNCHANGED <<condition, arrived, settled, uncertain>>
    BY <1>3, Zenon DEF Observe
  <2> HIDE DEF new
  <2>3. /\ round' \in RoundRecord
        /\ \/ round'.pc = "waiting"
           \/ round'.pc = "pending" /\ round'.alert = new.pending /\ new.pending # 0
    <3>1. CASE new.pending = 0
      BY <2>2, <3>1, Zenon DEF RoundRecord, Waiting
    <3>2. CASE new.pending # 0
      <4>1. new.pending \in Nat /\ round.saw \in {"ok", "failing"}
        BY <2>1, Zenon DEF EventRow, RoundIsPending, RoundRecord
      <4>2. round' = [pc |-> "pending", saw |-> round.saw, alert |-> new.pending, result |-> "none"]
        BY <2>2, <3>2, Zenon DEF Round
      <4>3. QED
        BY <3>2, <4>1, <4>2, Zenon DEF RoundRecord
    <3>3. QED
      BY <3>1, <3>2, Zenon
  <2>4. RoundIsPending'
    BY <2>1, <2>2, <2>3, Zenon DEF RoundIsPending
  <2>5. ResultIsSettled'
    BY <2>1, <2>2, <2>3, Zenon DEF ResultIsSettled, AcknowledgedWasSettled
  <2>6. ArrivedIsDone'
    BY <2>1, <2>2, <2>3 DEF ArrivedIsDone, Concluded, RoundIsPending, EventRow, Alert
  <2>7. QED
    BY <2>4, <2>5, <2>6, Zenon
<1>4. CASE RecordPending
  BY <1>4, Zenon DEF RecordPending, RoundIsPending, RoundRecord, ResultIsSettled, AcknowledgedWasSettled,
              ArrivedIsDone, Concluded
<1>5. ASSUME NEW reached \in BOOLEAN, NEW result \in Status3,
             round.pc = "sending", Reaches(reached),
             round' = Round("sent", round.alert, result),
             settled \subseteq settled', uncertain \subseteq uncertain',
             result # "failed_retryable" => round.alert \in settled',
             reached /\ result = "failed_retryable" => round.alert \in uncertain',
             UNCHANGED <<condition, event>>
     PROVE  AlertsInv'
  <2>1. /\ round'.pc = "sent" /\ round'.alert = round.alert /\ round'.result = result
        /\ round' \in RoundRecord
        /\ round.alert = event.pending /\ round.alert # 0
    BY <1>5, Zenon DEF RoundIsPending, RoundRecord, Round
  <2>2. RoundIsPending'
    BY <1>5, <2>1, Zenon DEF RoundIsPending
  <2>3. ResultIsSettled'
    BY <1>5, <2>1, Zenon DEF ResultIsSettled, AcknowledgedWasSettled
  <2>4. /\ arrived' \in [Alert -> 0..2]
        /\ \A a \in Alert \ {round.alert} : arrived'[a] = arrived[a]
        /\ round.alert \in Alert /\ arrived'[round.alert] # arrived[round.alert] =>
              reached /\ arrived'[round.alert] = arrived[round.alert] + 1
    BY <1>5, ReachedIsCounted, Zenon DEF ArrivedIsDone
  <2>5. ASSUME round.alert \in Alert, arrived'[round.alert] # 0, round.alert \notin uncertain'
       PROVE  arrived'[round.alert] = 1 /\ round.alert <= event.seq /\ Concluded'
    <3>1. round.alert \notin uncertain
      BY <1>5, <2>5, Zenon
    <3>2. arrived[round.alert] = 0
      BY <1>5, <2>1, <2>5, <3>1, Zenon DEF ArrivedIsDone, Concluded
    <3>3. arrived'[round.alert] = 1 /\ reached
      BY <2>4, <2>5, <3>2
    <3>4. round.alert <= event.seq
      BY <2>1 DEF RoundIsPending, EventRow
    <3>5. QED
      BY <1>5, <2>1, <2>5, <3>3, <3>4, Zenon DEF Concluded
  <2>6. ArrivedIsDone'
    BY <1>5, <2>1, <2>4, <2>5, Zenon DEF ArrivedIsDone
  <2>7. QED
    BY <2>2, <2>3, <2>6, Zenon
<1>6. CASE SendAlert
  <2>1. PICK o \in PluginOutcomes, r \in BOOLEAN :
             /\ ~o.lost => r = o.reached
             /\ Reaches(r)
             /\ round' = Round("sent", round.alert, o.status)
             /\ settled' = IF o.final THEN settled \union {round.alert} ELSE settled
             /\ uncertain' = IF transport # "email" /\ o.lost
                             THEN uncertain \union {round.alert} ELSE uncertain
    BY <1>6, Zenon DEF SendAlert
  <2>2. SoundOutcome(o)
    BY OutcomesAreSound, Zenon
  <2>3. o.status \in Status3 /\ (o.status # "failed_retryable" => round.alert \in settled')
    BY <2>1, <2>2, Zenon DEF SoundOutcome
  <2>4. r /\ o.status = "failed_retryable" => round.alert \in uncertain'
    BY <2>1, <2>2, Zenon DEF SoundOutcome
  <2>5. settled \subseteq settled' /\ uncertain \subseteq uncertain'
    BY <2>1, Zenon
  <2>6. round.pc = "sending" /\ UNCHANGED <<condition, event>>
    BY <1>6, Zenon DEF SendAlert
  <2>7. QED
    BY <1>5, <2>1, <2>3, <2>4, <2>5, <2>6, Zenon
<1>7. CASE GRPCDeadline
  BY <1>5, <1>7, Zenon DEF GRPCDeadline, Status3
<1>8. CASE RecordFinal
  <2>1. /\ round' \in RoundRecord
        /\ \/ round'.pc = "waiting" /\ round.result = "failed_retryable"
           \/ /\ round'.pc = "recorded" /\ round'.alert = round.alert
              /\ round'.result = round.result /\ round.result # "failed_retryable"
    BY <1>8, Zenon DEF RecordFinal, RoundIsPending, RoundRecord, Waiting
  <2>2. round.pc = "sent" /\ UNCHANGED <<condition, event, arrived, settled, uncertain>>
    BY <1>8, Zenon DEF RecordFinal
  <2>3. RoundIsPending'
    BY <2>1, <2>2, Zenon DEF RoundIsPending
  <2>4. ResultIsSettled'
    BY <2>1, <2>2, Zenon DEF ResultIsSettled, AcknowledgedWasSettled
  <2>5. ArrivedIsDone'
    BY <2>1, <2>2, Zenon DEF ArrivedIsDone, Concluded
  <2>6. QED
    BY <2>3, <2>4, <2>5
<1>9. CASE Acknowledge
  <2>1. /\ round.pc = "recorded" /\ event' = [event EXCEPT !.pending = 0] /\ round' = Waiting
        /\ UNCHANGED <<condition, arrived, settled, uncertain>>
        /\ round.alert = event.pending /\ round.alert \in settled /\ event.pending = event.seq
    BY <1>9, Zenon DEF Acknowledge, RoundIsPending, ResultIsSettled
  <2>2. /\ event' \in EventRow /\ event'.pending = 0 /\ event'.seq = event.seq
        /\ event'.state = event.state
    BY <2>1, Zenon DEF RoundIsPending, EventRow
  <2>3. RoundIsPending'
    BY <2>1, <2>2, Zenon DEF RoundIsPending, RoundRecord, Waiting
  <2>4. ResultIsSettled'
    BY <2>1, <2>2 DEF ResultIsSettled, AcknowledgedWasSettled, Waiting
  <2>5. ArrivedIsDone'
    BY <2>1, <2>2 DEF ArrivedIsDone, Alert
  <2>6. QED
    BY <2>3, <2>4, <2>5
<1>10. CASE EndRound
  <2>1. /\ round' = Waiting /\ UNCHANGED <<condition, event, settled>>
        /\ uncertain' = IF round.pc \in {"sending", "sent", "recorded"}
                        THEN uncertain \union {round.alert} ELSE uncertain
    BY <1>10, Zenon DEF EndRound
  <2>2. RoundIsPending'
    BY <2>1, Zenon DEF RoundIsPending, RoundRecord, Waiting
  <2>3. ResultIsSettled'
    BY <2>1, Zenon DEF ResultIsSettled, AcknowledgedWasSettled, Waiting
  <2>4. PICK reached \in BOOLEAN : Reaches(reached /\ round.pc = "sending")
    BY <1>10, Zenon DEF EndRound
  <2>5. CASE round.pc = "sending"
    <3>1. arrived' \in [Alert -> 0..2] /\ \A a \in Alert \ {round.alert} : arrived'[a] = arrived[a]
      BY <2>4, ReachedIsCounted, Zenon DEF ArrivedIsDone
    <3>2. round.alert \in uncertain'
      BY <2>1, <2>5, Zenon
    <3>3. QED
      BY <2>1, <2>2, <2>3, <2>5, <3>1, <3>2, Zenon DEF ArrivedIsDone, Concluded, RoundIsPending
  <2>6. CASE round.pc # "sending"
    <3>1. arrived' = arrived
      BY <2>4, <2>6, Zenon DEF Reaches
    <3>2. ArrivedIsDone'
      BY <2>1, <3>1, Zenon DEF ArrivedIsDone, Concluded, RoundIsPending
    <3>3. QED
      BY <2>2, <2>3, <3>2, Zenon
  <2>7. QED
    BY <2>5, <2>6, Zenon
<1>11. QED
  BY <1>1, <1>2, <1>3, <1>4, <1>6, <1>7, <1>8, <1>9, <1>10, Zenon DEF AlertsNext, MonitorStep

\* An alert stays pending until it is settled, and arrives once but where an
\* answer was lost, whatever the backends answer and wherever a round ends.
THEOREM AlertsAreNeitherLostNorRepeated == AlertsSpec => []NeitherLostNorRepeated
<1>1. AlertsInit => AlertsInv
  BY DEF AlertsInit, AlertsInv, RoundIsPending, RoundRecord, EventRow, Waiting, ResultIsSettled,
         AcknowledgedWasSettled, ArrivedIsDone, Alert
<1>2. AlertsInv /\ [AlertsNext]_<<alertVars, transport>> => AlertsInv'
  <2>1. ASSUME AlertsInv, UNCHANGED <<alertVars, transport>>
       PROVE  AlertsInv'
    BY <2>1, Zenon DEF AlertsInv, alertVars, monitorVars, RoundIsPending, ResultIsSettled,
                AcknowledgedWasSettled, ArrivedIsDone, Concluded
  <2>2. QED
    BY <2>1, AlertsStep, Zenon
<1>3. AlertsInv => NeitherLostNorRepeated
  BY DEF AlertsInv, ResultIsSettled, ArrivedIsDone, NeitherLostNorRepeated, NoBlindRetry
<1>4. QED
  BY <1>1, <1>2, <1>3, PTL DEF AlertsSpec

-----------------------------------------------------------------------------
(* AuditRetention *)

\* The retentions are numbered as they come, and the event of one has its
\* number and its day.
RetentionInv ==
    /\ today \in Nat
    /\ offers \subseteq Days
    /\ IsFiniteSet(retentions)
    /\ \A r \in retentions : r.n \in 1..Cardinality(retentions)
    /\ \A e \in log : e.day \in Nat /\ e.by \in 0..Cardinality(retentions)
    /\ \A e \in log, r \in retentions : e.by = r.n => e.day = r.day
    /\ DeletionsAreJustified

\* A retention writes its own event and deletes what is older than its policy
\* says, the event of an earlier retention included.
LEMMA RetentionApplied ==
    ASSUME RetentionInv, NEW days \in offers, ApplyRetention(days)
    PROVE  RetentionInv'
<1> DEFINE n == Cardinality(retentions) + 1
           cutoff == retentionCutoff(days, today)
           record == [id |-> MaxEvents + n, day |-> today, by |-> n]
           all == log \union {record}
           new == [n |-> n, day |-> today, days |-> days, deleted |-> Older(all, cutoff),
                   cutoff |-> cutoff]
<1>1. /\ log' = all \ Older(all, cutoff)
      /\ retentions' = retentions \union {new}
      /\ today' = today /\ offers' = offers
  BY Zenon DEF ApplyRetention
<1>2. Cardinality(retentions) \in Nat /\ today \in Nat /\ days \in Nat /\ n \in Nat \ {0}
  BY FS_CardinalityType, DaysAssumption DEF RetentionInv
<1>3. cutoff \in Nat /\ cutoff <= today /\ \A d \in Nat : d < cutoff => d + days < today
  BY <1>2 DEF retentionCutoff
<1>4. record.day = today /\ record.by = n
  BY Zenon
<1>5. new.n = n /\ new.day = today /\ new.days = days /\ new.deleted = Older(all, cutoff)
      /\ new.cutoff = cutoff
  BY Zenon
<1>6. \A e \in all : e.day \in Nat /\ e.by \in 0..n
  BY <1>2, <1>4 DEF RetentionInv
<1> HIDE DEF n, cutoff, record, new
<1>7. new \notin retentions
  BY <1>2, <1>5 DEF RetentionInv, n
<1>8. IsFiniteSet(retentions') /\ Cardinality(retentions') = n
  BY <1>1, <1>7, FS_AddElement, Zenon DEF RetentionInv, n
<1>9. \A r \in retentions' : r.n \in 1..n
  BY <1>1, <1>2, <1>5 DEF RetentionInv, n
<1>10. \A e \in log', r \in retentions' : e.by = r.n => e.day = r.day
  BY <1>1, <1>2, <1>4, <1>5 DEF RetentionInv, n
<1>11. record \in log'
  BY <1>1, <1>2, <1>3, <1>4 DEF Older
<1>12. DeletionsAreOnRecord'
  <2> SUFFICES ASSUME NEW r \in retentions', \A e \in log' : e.by # r.n
               PROVE  \E s \in retentions' : s.n > r.n /\ r.day < s.cutoff
    BY Zenon DEF DeletionsAreOnRecord
  <2>1. r \in retentions
    BY <1>1, <1>4, <1>5, <1>11, Zenon
  <2>2. CASE \E e \in log : e.by = r.n
    <3>1. PICK e \in log : e.by = r.n
      BY <2>2, Zenon
    <3>2. e \in Older(all, cutoff)
      BY <1>1, <3>1, Zenon
    <3>3. r.day < cutoff
      BY <2>1, <3>1, <3>2, Zenon DEF Older, RetentionInv
    <3>4. n > r.n
      BY <1>2, <2>1 DEF RetentionInv, n
    <3>5. QED
      BY <1>1, <1>5, <3>3, <3>4, Zenon
  <2>3. CASE \E s \in retentions : s.n > r.n /\ r.day < s.cutoff
    BY <1>1, <2>3, Zenon
  <2>4. QED
    BY <2>1, <2>2, <2>3, Zenon DEF RetentionInv, DeletionsAreJustified, DeletionsAreOnRecord
<1>13. YoungEventsStay'
  <2>1. \A e \in Older(all, cutoff) : e.day + days < today
    BY <1>3, <1>6, Zenon DEF Older
  <2>2. \A e \in new.deleted : e.day + new.days < new.day
    BY <1>5, <2>1, Zenon
  <2>3. QED
    BY <1>1, <2>2, Zenon DEF RetentionInv, DeletionsAreJustified, YoungEventsStay
<1>14. \A e \in log' : e.day \in Nat /\ e.by \in 0..n
  BY <1>1, <1>6, Zenon
<1>15. QED
  BY <1>1, <1>2, <1>8, <1>9, <1>10, <1>12, <1>13, <1>14, Zenon
  DEF RetentionInv, DeletionsAreJustified

\* Every deletion of audit events is on record and takes only what its policy
\* allows on the day it is applied, for any days and any number of retentions.
THEOREM RetentionsAreJustified == RetentionSpec => []DeletionsAreJustified
<1>1. RetentionInit => RetentionInv
  BY FS_EmptySet
  DEF RetentionInit, RetentionInv, DeletionsAreJustified, DeletionsAreOnRecord, YoungEventsStay
<1>2. RetentionInv /\ [RetentionNext]_retentionVars => RetentionInv'
  <2> SUFFICES ASSUME RetentionInv, [RetentionNext]_retentionVars
               PROVE  RetentionInv'
    OBVIOUS
  <2>1. CASE WriteEvent
    <3>1. Cardinality(retentions) \in Nat
      BY FS_CardinalityType, Zenon DEF RetentionInv
    <3>2. PICK e : log' = log \union {e} /\ e.day = today /\ e.by = 0
      <4> DEFINE noted == [id |-> written + 1, day |-> today, by |-> 0]
      <4>1. log' = log \union {noted}
        BY <2>1, Zenon DEF WriteEvent
      <4>2. noted.day = today /\ noted.by = 0
        BY Zenon
      <4> HIDE DEF noted
      <4>3. QED
        BY <4>1, <4>2, Zenon
    <3>3. UNCHANGED <<today, offers, retentions>>
      BY <2>1, Zenon DEF WriteEvent
    <3>4. \A f \in log' : f.day \in Nat /\ f.by \in 0..Cardinality(retentions)
      BY <3>1, <3>2 DEF RetentionInv
    <3>5. \A f \in log', r \in retentions : f.by = r.n => f.day = r.day
      BY <3>1, <3>2 DEF RetentionInv
    <3>6. DeletionsAreJustified'
      BY <3>2, <3>3, Zenon
      DEF RetentionInv, DeletionsAreJustified, DeletionsAreOnRecord, YoungEventsStay
    <3>7. QED
      BY <3>3, <3>4, <3>5, <3>6, Zenon DEF RetentionInv
  <2>2. ASSUME NEW days \in Days, PreviewRetention(days)
       PROVE  RetentionInv'
    BY <2>2, Zenon DEF PreviewRetention, RetentionInv, DeletionsAreJustified, DeletionsAreOnRecord,
                YoungEventsStay
  <2>3. ASSUME NEW days \in offers, ApplyRetention(days)
       PROVE  RetentionInv'
    BY <2>3, RetentionApplied, Zenon
  <2>4. CASE Sunrise \/ UNCHANGED retentionVars
    <3>1. today' \in Nat /\ UNCHANGED <<log, offers, retentions>>
      BY <2>4 DEF Sunrise, retentionVars, RetentionInv
    <3>2. DeletionsAreJustified'
      BY <3>1, Zenon
      DEF RetentionInv, DeletionsAreJustified, DeletionsAreOnRecord, YoungEventsStay
    <3>3. QED
      BY <3>1, <3>2, Zenon DEF RetentionInv
  <2>5. QED
    BY <2>1, <2>2, <2>3, <2>4, Zenon DEF RetentionNext
<1>3. RetentionInv => DeletionsAreJustified
  BY Zenon DEF RetentionInv
<1>4. QED
  BY <1>1, <1>2, <1>3, PTL DEF RetentionSpec

-----------------------------------------------------------------------------
(* DirectoryOps *)

Phase == {"previewed", "checked", "running", "committed", "applied", "failed"}

ImportCall == [kind : {"import"}, actor : Actor, source : Source, pc : Phase]

BulkCall ==
    [kind : {"bulk"}, actor : Actor, operation : Operation, items : Batch,
     found : Seq(BOOLEAN), pc : Phase]

CallsType == calls \in [Call -> ImportCall \union BulkCall \union {None}]

\* Of what a running call has changed, every item is audited.
ItemsAreAudited ==
    \A q \in Call : At(q, "bulk", "running") =>
        \A i \in DOMAIN calls[q].found : Event(calls[q], calls[q].items[i]) \in audits

\* No row is changed by two transactions at once.
RowsAreHeldOnce ==
    \A q, r \in Call :
        /\ q # r
        /\ At(q, "bulk", "running") /\ At(r, "bulk", "running")
        /\ Table(calls[q].operation) = Table(calls[r].operation)
        => Hits(calls[q]) \intersect Hits(calls[r]) = {}

\* The rows a running call deletes are there until it commits.
HeldRowsAreThere ==
    \A q \in Call : At(q, "bulk", "running") /\ calls[q].operation = "delete-aliases" =>
        Hits(calls[q]) \subseteq DOMAIN aliases

\* What a committed call has found it has changed.
CommittedIsChanged ==
    \A q \in Call : At(q, "bulk", "committed") =>
        \A i \in DOMAIN calls[q].found : calls[q].found[i] =>
            [by |-> q, event |-> Event(calls[q], calls[q].items[i])] \in changed

PreviewedHasNothing ==
    \A q \in Call : At(q, "bulk", "previewed") => calls[q].found = <<>>

BulkInv ==
    /\ CallsType
    /\ ItemsAreAudited /\ RowsAreHeldOnce /\ HeldRowsAreThere
    /\ CommittedIsChanged /\ PreviewedHasNothing
    /\ BulkChangesAreAudited /\ JobsTellTheTruth

\* A call at another step is the same call.
SameCall(q) ==
    /\ calls'[q].kind = calls[q].kind
    /\ calls'[q].actor = calls[q].actor
    /\ calls[q].kind = "import" => calls'[q].source = calls[q].source
    /\ calls[q].kind = "bulk" =>
          /\ calls'[q].operation = calls[q].operation
          /\ calls'[q].items = calls[q].items
          /\ calls'[q].found = calls[q].found

\* Goto moves one call and leaves what it works on alone.
LEMMA GotoMoves ==
    ASSUME CallsType, NEW q \in Call, calls[q] # None, NEW pc \in Phase, Goto(q, pc)
    PROVE  /\ CallsType'
           /\ \A r \in Call \ {q} : calls'[r] = calls[r]
           /\ calls'[q].pc = pc
           /\ SameCall(q)
<1> DEFINE c == calls[q]
           d == [c EXCEPT !.pc = pc]
<1>1. c \in ImportCall \/ c \in BulkCall
  BY Zenon DEF CallsType
<1>2. calls' = [calls EXCEPT ![q] = d]
  BY Zenon DEF Goto
<1>3. /\ d \in ImportCall \union BulkCall
      /\ d.pc = pc /\ d.kind = c.kind /\ d.actor = c.actor
      /\ c.kind = "import" => d.source = c.source
      /\ c.kind = "bulk" => d.operation = c.operation /\ d.items = c.items /\ d.found = c.found
  <2>1. CASE c \in ImportCall
    <3>1. d \in ImportCall
      BY <2>1, Zenon DEF ImportCall
    <3>2. QED
      BY <2>1, <3>1, Zenon DEF ImportCall
  <2>2. CASE c \in BulkCall
    <3>1. d \in BulkCall
      BY <2>2, Zenon DEF BulkCall
    <3>2. QED
      BY <2>2, <3>1, Zenon DEF BulkCall
  <2>3. QED
    BY <1>1, <2>1, <2>2, Zenon
<1> HIDE DEF d
<1>4. calls'[q] = d /\ (\A r \in Call \ {q} : calls'[r] = calls[r]) /\ CallsType'
  BY <1>2, <1>3, Zenon DEF CallsType
<1>5. QED
  BY <1>3, <1>4, Zenon DEF SameCall

\* A step of one call that neither runs nor commits a bulk operation.
LEMMA BulkQuiet ==
    ASSUME BulkInv, NEW q \in Call, CallsType',
           \A r \in Call \ {q} : calls'[r] = calls[r],
           ~At(q, "bulk", "running")', ~At(q, "bulk", "committed")', PreviewedHasNothing',
           audits \subseteq audits', UNCHANGED <<changed, jobs>>,
           DOMAIN aliases \subseteq DOMAIN aliases'
    PROVE  BulkInv'
<1> USE DEF BulkInv
<1>1. \A r \in Call : At(r, "bulk", "running")' \/ At(r, "bulk", "committed")' =>
        r # q /\ calls'[r] = calls[r]
  BY Zenon
<1>2. ItemsAreAudited'
  BY <1>1, Zenon DEF ItemsAreAudited, At, Event
<1>3. RowsAreHeldOnce'
  <2>1. \A r \in Call : At(r, "bulk", "running")' =>
          /\ At(r, "bulk", "running")
          /\ Table(calls'[r].operation) = Table(calls[r].operation)
          /\ Hits(calls'[r]) = Hits(calls[r])
    BY <1>1, Zenon DEF At
  <2>2. QED
    BY <2>1, Zenon DEF RowsAreHeldOnce
<1>4. HeldRowsAreThere'
  BY <1>1, Zenon DEF HeldRowsAreThere, At, Hits
<1>5. CommittedIsChanged'
  BY <1>1, Zenon DEF CommittedIsChanged, At, Event
<1>6. BulkChangesAreAudited' /\ JobsTellTheTruth'
  BY Zenon DEF BulkChangesAreAudited, JobsTellTheTruth
<1>7. QED
  BY <1>2, <1>3, <1>4, <1>5, <1>6, Zenon

\* The next item of a running call is changed.
LEMMA ChangeItemStep ==
    ASSUME BulkInv, NEW q \in Call, ChangeItem(q)
    PROVE  BulkInv'
<1> USE DEF BulkInv
<1> DEFINE c == calls[q]
           n == Len(c.found) + 1
           item == c.items[n]
           hit == Found(c, item)
           d == [c EXCEPT !.found = Append(c.found, hit)]
<1>1. /\ At(q, "bulk", "running") /\ item \notin Locked(q, Table(c.operation))
      /\ calls' = [calls EXCEPT ![q] = d]
      /\ audits' = audits \union {Event(c, item)}
      /\ UNCHANGED <<tables, jobs, history>>
  BY Zenon DEF ChangeItem
<1>2. c \in BulkCall
  BY <1>1, Zenon DEF At, CallsType, ImportCall
<1>3. hit \in BOOLEAN
  BY DEF Found
<1>4. /\ c.found \in Seq(BOOLEAN) /\ Append(c.found, hit) \in Seq(BOOLEAN)
      /\ DOMAIN c.found = 1..Len(c.found) /\ Len(c.found) \in Nat
      /\ DOMAIN Append(c.found, hit) = 1..n
      /\ Append(c.found, hit)[n] = hit
      /\ \A i \in 1..Len(c.found) : Append(c.found, hit)[i] = c.found[i]
  <2>1. c.found \in Seq(BOOLEAN)
    BY <1>2, Zenon DEF BulkCall
  <2>2. QED
    BY <1>3, <2>1
<1>5. /\ d \in BulkCall /\ d.found = Append(c.found, hit)
      /\ d.kind = c.kind /\ d.actor = c.actor /\ d.operation = c.operation /\ d.items = c.items
      /\ d.pc = c.pc
  <2> DEFINE after == Append(c.found, hit)
  <2>1. after \in Seq(BOOLEAN)
    BY <1>4, Zenon
  <2> HIDE DEF after
  <2>2. /\ [c EXCEPT !.found = after] \in BulkCall
        /\ LET e == [c EXCEPT !.found = after]
           IN  /\ e.found = after /\ e.kind = c.kind /\ e.actor = c.actor
               /\ e.operation = c.operation /\ e.items = c.items /\ e.pc = c.pc
    BY <1>2, <2>1, Zenon DEF BulkCall
  <2>3. QED
    BY <2>2, Zenon DEF after
<1> HIDE DEF d, hit, item
<1>6. calls'[q] = d /\ (\A r \in Call \ {q} : calls'[r] = calls[r]) /\ CallsType'
  BY <1>1, <1>5, Zenon DEF CallsType
<1>7. \A r \in Call : At(r, "bulk", "running")' => At(r, "bulk", "running")
  BY <1>1, <1>6, Zenon DEF At
<1>8. Hits(d) \subseteq Hits(c) \union {item} /\ (~hit => Hits(d) \subseteq Hits(c))
  <2>1. ASSUME NEW i \in 1..n, d.found[i]
       PROVE  (d.items[i] \in Hits(c)) \/ (hit /\ d.items[i] = item)
    <3>1. CASE i = n
      BY <1>4, <1>5, <2>1, <3>1, Zenon DEF item
    <3>2. CASE i # n
      <4>1. i \in 1..Len(c.found)
        BY <1>4, <3>2
      <4>2. QED
        BY <1>4, <1>5, <2>1, <4>1, Zenon DEF Hits
    <3>3. QED
      BY <3>1, <3>2, Zenon
  <2>2. QED
    BY <1>4, <1>5, <2>1, Zenon DEF Hits
<1>9. ItemsAreAudited'
  <2>1. SUFFICES ASSUME NEW r \in Call, At(r, "bulk", "running")',
                        NEW i \in DOMAIN calls'[r].found
                 PROVE  Event(calls'[r], calls'[r].items[i]) \in audits'
    BY Zenon DEF ItemsAreAudited
  <2>2. CASE r # q
    BY <1>1, <1>6, <1>7, <2>1, <2>2 DEF ItemsAreAudited
  <2>3. CASE r = q
    <3>1. i \in 1..n
      BY <1>4, <1>5, <1>6, <2>1, <2>3, Zenon
    <3>2. Event(calls'[r], calls'[r].items[i]) = Event(c, c.items[i])
      BY <1>5, <1>6, <2>3, Zenon DEF Event
    <3>3. CASE i = n
      BY <1>1, <3>2, <3>3 DEF item
    <3>4. CASE i # n
      <4>1. i \in DOMAIN c.found
        BY <1>4, <3>1, <3>4
      <4>2. QED
        BY <1>1, <3>2, <4>1 DEF ItemsAreAudited
    <3>5. QED
      BY <3>3, <3>4, Zenon
  <2>4. QED
    BY <2>2, <2>3, Zenon
<1>10. RowsAreHeldOnce'
  <2>1. ASSUME NEW r \in Call \ {q}, At(r, "bulk", "running"),
               Table(calls[r].operation) = Table(c.operation)
       PROVE  Hits(d) \intersect Hits(calls[r]) = {}
    <3>1. Hits(c) \intersect Hits(calls[r]) = {}
      BY <1>1, <2>1, Zenon DEF RowsAreHeldOnce
    <3>2. item \notin Hits(calls[r])
      BY <1>1, <2>1, Zenon DEF Locked
    <3>3. QED
      BY <1>8, <3>1, <3>2, Zenon
  <2>2. \A r \in Call \ {q} : Hits(calls'[r]) = Hits(calls[r])
    BY <1>6, Zenon
  <2>3. SUFFICES ASSUME NEW r \in Call, NEW s \in Call, r # s,
                        At(r, "bulk", "running")', At(s, "bulk", "running")',
                        Table(calls'[r].operation) = Table(calls'[s].operation)
                 PROVE  Hits(calls'[r]) \intersect Hits(calls'[s]) = {}
    BY Zenon DEF RowsAreHeldOnce
  <2>4. CASE r = q
    BY <1>5, <1>6, <1>7, <2>1, <2>2, <2>3, <2>4, Zenon
  <2>5. CASE s = q
    BY <1>5, <1>6, <1>7, <2>1, <2>2, <2>3, <2>5, Zenon
  <2>6. CASE r # q /\ s # q
    BY <1>6, <1>7, <2>2, <2>3, <2>6, Zenon DEF RowsAreHeldOnce
  <2>7. QED
    BY <2>4, <2>5, <2>6, Zenon
<1>11. HeldRowsAreThere'
  <2>1. SUFFICES ASSUME NEW r \in Call, At(r, "bulk", "running")',
                        calls'[r].operation = "delete-aliases"
                 PROVE  Hits(calls'[r]) \subseteq DOMAIN aliases
    BY <1>1, Zenon DEF HeldRowsAreThere, tables
  <2>2. CASE r # q
    BY <1>6, <1>7, <2>1, <2>2, Zenon DEF HeldRowsAreThere
  <2>3. CASE r = q
    <3>1. c.operation = "delete-aliases"
      BY <1>5, <1>6, <2>1, <2>3, Zenon
    <3>2. Hits(c) \subseteq DOMAIN aliases
      BY <1>1, <3>1, Zenon DEF HeldRowsAreThere
    <3>3. hit => item \in DOMAIN aliases
      BY <3>1, Zenon DEF hit, Found, Table
    <3>4. QED
      BY <1>6, <1>8, <2>3, <3>2, <3>3, Zenon
  <2>4. QED
    BY <2>2, <2>3, Zenon
<1>12. CommittedIsChanged'
  <2>1. ~At(q, "bulk", "committed")'
    BY <1>1, <1>5, <1>6, Zenon DEF At
  <2>2. QED
    BY <1>1, <1>6, <2>1 DEF CommittedIsChanged, At, Event, history
<1>13. PreviewedHasNothing'
  <2>1. ~At(q, "bulk", "previewed")'
    BY <1>1, <1>5, <1>6, Zenon DEF At
  <2>2. QED
    BY <1>6, <2>1, Zenon DEF PreviewedHasNothing, At
<1>14. BulkChangesAreAudited' /\ JobsTellTheTruth'
  BY <1>1, Zenon DEF BulkChangesAreAudited, JobsTellTheTruth, history
<1>15. QED
  BY <1>6, <1>9, <1>10, <1>11, <1>12, <1>13, <1>14, Zenon

\* A bulk operation commits, whether its caller hears of it or not.
LEMMA CommitBulkStep ==
    ASSUME BulkInv, NEW q \in Call, CommitBulk(q)
    PROVE  BulkInv'
<1> USE DEF BulkInv
<1> DEFINE c == calls[q]
           affected == IF c.operation = "delete-aliases" THEN Hits(c) \intersect DOMAIN aliases
                   ELSE Hits(c)
<1>1. /\ At(q, "bulk", "running")
      /\ aliases' = IF c.operation # "delete-aliases" THEN aliases
                    ELSE [n \in DOMAIN aliases \ Hits(c) |-> aliases[n]]
      /\ changed' = changed \union {[by |-> q, event |-> Event(c, i)] : i \in affected}
      /\ UNCHANGED <<audits, jobs>>
  BY Zenon DEF CommitBulk, records
<1>2. PICK pc \in {"committed", "failed"} : Goto(q, pc)
  BY Zenon DEF CommitBulk
<1>3. /\ CallsType'
      /\ \A r \in Call \ {q} : calls'[r] = calls[r]
      /\ calls'[q].pc = pc
      /\ SameCall(q)
  BY <1>1, <1>2, GotoMoves, Zenon DEF At, Phase
<1>4. \A r \in Call : At(r, "bulk", "running")' =>
        r # q /\ At(r, "bulk", "running") /\ calls'[r] = calls[r]
  BY <1>3, Zenon DEF At
<1>5. affected = Hits(c)
  BY <1>1, Zenon DEF HeldRowsAreThere
<1> HIDE DEF affected
<1>6. ItemsAreAudited'
  BY <1>1, <1>4, Zenon DEF ItemsAreAudited
<1>7. RowsAreHeldOnce'
  BY <1>4, Zenon DEF RowsAreHeldOnce
<1>8. HeldRowsAreThere'
  <2>1. SUFFICES ASSUME NEW r \in Call, At(r, "bulk", "running")',
                        calls'[r].operation = "delete-aliases"
                 PROVE  Hits(calls[r]) \subseteq DOMAIN aliases'
    BY <1>4, Zenon DEF HeldRowsAreThere
  <2>2. /\ r # q /\ At(r, "bulk", "running") /\ calls[r].operation = "delete-aliases"
        /\ Hits(calls[r]) \subseteq DOMAIN aliases
    BY <1>4, <2>1, Zenon DEF HeldRowsAreThere
  <2>3. c.operation = "delete-aliases" => Hits(calls[r]) \intersect Hits(c) = {}
    BY <1>1, <2>2, Zenon DEF RowsAreHeldOnce
  <2>4. QED
    BY <1>1, <2>2, <2>3, Zenon
<1>9. CommittedIsChanged'
  <2>1. SUFFICES ASSUME NEW r \in Call, At(r, "bulk", "committed")',
                        NEW i \in DOMAIN calls'[r].found, calls'[r].found[i]
                 PROVE  [by |-> r, event |-> Event(calls'[r], calls'[r].items[i])] \in changed'
    BY Zenon DEF CommittedIsChanged
  <2>2. CASE r # q
    BY <1>1, <1>3, <2>1, <2>2, Zenon DEF CommittedIsChanged, At
  <2>3. CASE r = q
    <3>1. Event(calls'[r], calls'[r].items[i]) = Event(c, c.items[i])
      BY <1>1, <1>3, <2>3, Zenon DEF SameCall, At, Event
    <3>2. c.items[i] \in Hits(c)
      BY <1>1, <1>3, <2>1, <2>3, Zenon DEF SameCall, At, Hits
    <3>3. QED
      BY <1>1, <1>5, <2>3, <3>1, <3>2, Zenon
  <2>4. QED
    BY <2>2, <2>3, Zenon
<1>10. PreviewedHasNothing'
  BY <1>3, Zenon DEF PreviewedHasNothing, At
<1>11. BulkChangesAreAudited'
  <2>1. ASSUME NEW x \in Hits(c)
       PROVE  Event(c, x) \in audits
    BY <1>1, Zenon DEF Hits, ItemsAreAudited
  <2>2. QED
    BY <1>1, <1>5, <2>1 DEF BulkChangesAreAudited
<1>12. JobsTellTheTruth'
  BY <1>1, Zenon DEF JobsTellTheTruth
<1>13. QED
  BY <1>3, <1>6, <1>7, <1>8, <1>9, <1>10, <1>11, <1>12, Zenon

\* Every step keeps what a bulk operation relies on.
LEMMA BulkStep ==
    ASSUME BulkInv, [OpsNext]_opsVars
    PROVE  BulkInv'
<1> USE DEF BulkInv
<1>1. ASSUME NEW q \in Call, NEW c \in ImportCall \union BulkCall,
             calls[q] = None, calls' = [calls EXCEPT ![q] = c], c.pc = "previewed",
             c.kind = "bulk" => c.found = <<>>,
             UNCHANGED <<tables, records, history>>
     PROVE  BulkInv'
  <2>1. CallsType' /\ calls'[q] = c /\ \A r \in Call \ {q} : calls'[r] = calls[r]
    BY <1>1, Zenon DEF CallsType
  <2>2. PreviewedHasNothing'
    BY <1>1, <2>1, Zenon DEF PreviewedHasNothing, At
  <2>3. QED
    BY <1>1, <2>1, <2>2, BulkQuiet, Zenon DEF At, tables, records, history
<1>2. ASSUME NEW q \in Call, NEW a \in Actor, NEW s \in Source, PreviewImport(q, a, s)
     PROVE  BulkInv'
  <2> DEFINE c == [kind |-> "import", actor |-> a, source |-> s, pc |-> "previewed"]
  <2>1. c \in ImportCall /\ c.pc = "previewed" /\ c.kind # "bulk"
    BY Zenon DEF ImportCall, Phase
  <2>2. calls[q] = None /\ calls' = [calls EXCEPT ![q] = c] /\ UNCHANGED <<tables, records, history>>
    BY <1>2, Zenon DEF PreviewImport
  <2> HIDE DEF c
  <2>3. QED
    BY <1>1, <2>1, <2>2, Zenon
<1>3. ASSUME NEW q \in Call, NEW a \in Actor, NEW op \in Operation, NEW items \in Batch,
             PreviewBulk(q, a, op, items)
     PROVE  BulkInv'
  <2> DEFINE c == [kind |-> "bulk", actor |-> a, operation |-> op, items |-> items,
                   found |-> <<>>, pc |-> "previewed"]
  <2>1. c \in BulkCall /\ c.pc = "previewed" /\ c.found = <<>>
    BY DEF BulkCall, Phase
  <2>2. calls[q] = None /\ calls' = [calls EXCEPT ![q] = c] /\ UNCHANGED <<tables, records, history>>
    BY <1>3, Zenon DEF PreviewBulk
  <2> HIDE DEF c
  <2>3. QED
    BY <1>1, <2>1, <2>2, Zenon
<1>4. ASSUME NEW q \in Call, calls[q] # None, NEW pc \in Phase, Goto(q, pc),
             calls[q].kind = "import" \/ pc \in {"failed", "applied"}, pc # "previewed",
             audits \subseteq audits', UNCHANGED <<changed, jobs>>,
             DOMAIN aliases \subseteq DOMAIN aliases'
     PROVE  BulkInv'
  <2>1. /\ CallsType' /\ calls'[q].pc = pc /\ calls'[q].kind = calls[q].kind
        /\ \A r \in Call \ {q} : calls'[r] = calls[r]
    BY <1>4, GotoMoves, Zenon DEF SameCall
  <2>2. PreviewedHasNothing' /\ ~At(q, "bulk", "running")' /\ ~At(q, "bulk", "committed")'
    BY <1>4, <2>1, Zenon DEF PreviewedHasNothing, At
  <2>3. QED
    BY <1>4, <2>1, <2>2, BulkQuiet, Zenon
<1>5. ASSUME NEW q \in Call, BeginImport(q)
     PROVE  BulkInv'
  BY <1>4, <1>5, Zenon DEF BeginImport, At, Phase, tables, records, history
<1>6. ASSUME NEW q \in Call, CommitImport(q)
     PROVE  BulkInv'
  <2>1. DOMAIN aliases \subseteq DOMAIN aliases'
    BY <1>6, Zenon DEF CommitImport, WriteImport, Upsert
  <2>2. QED
    BY <1>4, <1>6, <2>1, Zenon DEF CommitImport, At, Phase, records
<1>7. ASSUME NEW q \in Call, FinishImport(q)
     PROVE  BulkInv'
  BY <1>4, <1>7, Zenon DEF FinishImport, At, Phase, tables, history
<1>8. ASSUME NEW q \in Call, BeginBulk(q)
     PROVE  BulkInv'
  <2>1. /\ CallsType' /\ calls'[q].pc = "running"
        /\ \A r \in Call \ {q} : calls'[r] = calls[r]
        /\ calls[q].found = <<>> /\ calls'[q].found = <<>>
    BY <1>8, GotoMoves, Zenon DEF BeginBulk, At, Phase, SameCall, PreviewedHasNothing
  <2>2. Hits(calls'[q]) = {}
    BY <2>1 DEF Hits
  <2>3. UNCHANGED <<aliases, audits, jobs, changed>>
    BY <1>8, Zenon DEF BeginBulk, tables, records, history
  <2>4. ItemsAreAudited'
    BY <2>1, <2>3 DEF ItemsAreAudited, At, Event
  <2>5. RowsAreHeldOnce'
    <3>1. \A r \in Call \ {q} : Hits(calls'[r]) = Hits(calls[r])
      BY <2>1, Zenon
    <3>2. \A r \in Call \ {q} : At(r, "bulk", "running")' => At(r, "bulk", "running")
      BY <2>1, Zenon DEF At
    <3>3. QED
      BY <2>1, <2>2, <3>1, <3>2, Zenon DEF RowsAreHeldOnce
  <2>6. HeldRowsAreThere'
    BY <2>1, <2>2, <2>3, Zenon DEF HeldRowsAreThere, At
  <2>7. CommittedIsChanged' /\ PreviewedHasNothing'
    BY <2>1, <2>3, Zenon DEF CommittedIsChanged, PreviewedHasNothing, At, Event
  <2>8. BulkChangesAreAudited' /\ JobsTellTheTruth'
    BY <2>3, Zenon DEF BulkChangesAreAudited, JobsTellTheTruth
  <2>9. QED
    BY <2>1, <2>4, <2>5, <2>6, <2>7, <2>8, Zenon
<1>9. ASSUME NEW q \in Call, FinishBulk(q)
     PROVE  BulkInv'
  <2> DEFINE c == calls[q]
             job == [actor |-> c.actor, operation |-> c.operation, items |-> c.items,
                     by |-> q, found |-> c.found]
  <2>1. /\ At(q, "bulk", "committed") /\ Goto(q, "applied")
        /\ jobs' \subseteq jobs \union {job}
        /\ UNCHANGED <<aliases, audits, changed>>
    BY <1>9, Zenon DEF FinishBulk, tables, history
  <2>2. ASSUME NEW i \in DOMAIN job.found, job.found[i]
       PROVE  [by |-> job.by, event |-> [action |-> job.operation, item |-> job.items[i],
                                         actor |-> job.actor]] \in changed
    BY <2>1, <2>2, Zenon DEF CommittedIsChanged, Event
  <2> HIDE DEF job
  <2>3. JobsTellTheTruth'
    BY <2>1, <2>2, Zenon DEF JobsTellTheTruth
  <2>4. /\ CallsType' /\ calls'[q].pc = "applied"
        /\ \A r \in Call \ {q} : calls'[r] = calls[r]
    BY <2>1, GotoMoves, Zenon DEF At, Phase
  <2>5. \A r \in Call, pc \in {"running", "committed", "previewed"} : At(r, "bulk", pc)' =>
          At(r, "bulk", pc) /\ calls'[r] = calls[r]
    BY <2>4, Zenon DEF At
  <2>6. ItemsAreAudited' /\ CommittedIsChanged' /\ PreviewedHasNothing'
    BY <2>1, <2>5, Zenon DEF ItemsAreAudited, CommittedIsChanged, PreviewedHasNothing
  <2>7. RowsAreHeldOnce' /\ HeldRowsAreThere'
    BY <2>1, <2>5, Zenon DEF RowsAreHeldOnce, HeldRowsAreThere
  <2>8. BulkChangesAreAudited'
    BY <2>1, Zenon DEF BulkChangesAreAudited
  <2>9. QED
    BY <2>3, <2>4, <2>6, <2>7, <2>8, Zenon
<1>10. ASSUME NEW q \in Call, FailCall(q)
     PROVE  BulkInv'
  BY <1>4, <1>10, Zenon DEF FailCall, Phase, tables, records, history
<1>11. ASSUME UNCHANGED <<calls, aliases, audits, jobs, changed>>
     PROVE  BulkInv'
  <2>1. \A r \in Call, pc \in {"running", "committed", "previewed"} : At(r, "bulk", pc)' =>
          At(r, "bulk", pc) /\ calls'[r] = calls[r]
    BY <1>11, Zenon DEF At
  <2>2. ItemsAreAudited' /\ CommittedIsChanged' /\ PreviewedHasNothing'
    BY <1>11, <2>1, Zenon DEF ItemsAreAudited, CommittedIsChanged, PreviewedHasNothing
  <2>3. RowsAreHeldOnce' /\ HeldRowsAreThere'
    BY <1>11, <2>1, Zenon DEF RowsAreHeldOnce, HeldRowsAreThere
  <2>4. CallsType' /\ BulkChangesAreAudited' /\ JobsTellTheTruth'
    BY <1>11, Zenon DEF CallsType, BulkChangesAreAudited, JobsTellTheTruth
  <2>5. QED
    BY <2>2, <2>3, <2>4, Zenon
<1>12. QED
  BY <1>2, <1>3, <1>5, <1>6, <1>7, <1>8, <1>9, <1>10, <1>11, ChangeItemStep, CommitBulkStep, Zenon
     DEF OpsNext, DisableElsewhere, opsVars, tables, records, history

\* A user of an import has an enabled domain, and a mailbox that is enabled
\* unless somebody has disabled it since.
Landed(u) ==
    /\ Home(u) \in DOMAIN domains /\ domains[Home(u)]
    /\ u \in DOMAIN mailboxes
    /\ mailboxes[u] \/ u \in disturbed

ImportsHaveLanded ==
    \A q \in Call : At(q, "import", "committed") \/ At(q, "import", "applied") =>
        \A u \in Brings(calls[q].source, "user") : Landed(u)

\* No step takes away what an import has brought.
LEMMA LandedStays ==
    ASSUME CallsType, [OpsNext]_opsVars, NEW u, Landed(u)
    PROVE  Landed(u)'
<1>1. ASSUME UNCHANGED <<domains, mailboxes, disturbed>>
     PROVE  Landed(u)'
  BY <1>1, Zenon DEF Landed
<1>2. ASSUME NEW q \in Call, CommitImport(q)
     PROVE  Landed(u)'
  <2> DEFINE boxes == Brings(calls[q].source, "user")
             names == Brings(calls[q].source, "domain")
                      \union {Home(x) : x \in boxes \union Brings(calls[q].source, "alias")}
  <2>1. /\ domains' = [n \in DOMAIN domains \union names |-> IF n \in names THEN TRUE ELSE domains[n]]
        /\ mailboxes' = [n \in DOMAIN mailboxes \union boxes |->
                            IF n \in boxes THEN TRUE ELSE mailboxes[n]]
        /\ disturbed' = disturbed \ boxes
    BY <1>2, Zenon DEF CommitImport, WriteImport, Upsert
  <2> HIDE DEF boxes, names
  <2>2. QED
    BY <2>1, Zenon DEF Landed
<1>3. ASSUME NEW q \in Call, CommitBulk(q)
     PROVE  Landed(u)'
  <2> DEFINE op == calls[q].operation
             affected == Hits(calls[q])
  <2>1. /\ mailboxes' = IF op = "delete-aliases" THEN mailboxes
                        ELSE [n \in DOMAIN mailboxes \union affected |->
                                IF n \in affected THEN op = "enable-users" ELSE mailboxes[n]]
        /\ disturbed' = IF op = "disable-users" THEN disturbed \union affected ELSE disturbed
        /\ domains' = domains
    BY <1>3, Zenon DEF CommitBulk, Upsert
  <2>2. op \in Operation
    BY <1>3, Zenon DEF CommitBulk, At, CallsType, ImportCall, BulkCall
  <2> HIDE DEF op, affected
  <2>3. QED
    BY <2>1, <2>2, Zenon DEF Landed, Operation
<1>4. ASSUME NEW m \in Address, DisableElsewhere(m)
     PROVE  Landed(u)'
  BY <1>4, Zenon DEF DisableElsewhere, Landed
<1>5. QED
  BY <1>1, <1>2, <1>3, <1>4, Zenon
     DEF OpsNext, PreviewImport, BeginImport, FinishImport, PreviewBulk, BeginBulk, ChangeItem,
         FinishBulk, FailCall, opsVars, tables, records, history

\* A call is at an import's last steps by its commit, and stays the same.
LEMMA ImportStep ==
    ASSUME BulkInv, ImportsHaveLanded, [OpsNext]_opsVars
    PROVE  ImportsHaveLanded'
<1> DEFINE Done(r) == At(r, "import", "committed") \/ At(r, "import", "applied")
<1>1. CallsType
  BY Zenon DEF BulkInv
<1>2. SUFFICES ASSUME NEW r \in Call, Done(r)', NEW u \in Brings(calls'[r].source, "user")
               PROVE  Landed(u)'
  BY Zenon DEF ImportsHaveLanded
<1>3. ASSUME Done(r), calls'[r].source = calls[r].source
     PROVE  Landed(u)'
  <2>1. u \in Brings(calls[r].source, "user")
    BY <1>2, <1>3, Zenon
  <2>2. QED
    BY <1>1, <1>3, <2>1, LandedStays, Zenon DEF ImportsHaveLanded
<1>4. ASSUME calls'[r] = calls[r]
     PROVE  Landed(u)'
  BY <1>2, <1>3, <1>4, Zenon DEF At
<1>5. ASSUME NEW q \in Call, calls[q] # None, NEW pc \in Phase, Goto(q, pc),
             pc \notin {"committed", "applied"} \/ At(q, "bulk", "running")
                \/ At(q, "bulk", "committed") \/ Done(q)
     PROVE  Landed(u)'
  <2>1. /\ \A x \in Call \ {q} : calls'[x] = calls[x]
        /\ calls'[q].pc = pc
        /\ SameCall(q)
    BY <1>1, <1>5, GotoMoves, Zenon
  <2>2. CASE r # q
    BY <1>4, <2>1, <2>2, Zenon
  <2>3. CASE r = q
    BY <1>2, <1>3, <1>5, <2>1, <2>3, Zenon DEF At, SameCall
  <2>4. QED
    BY <2>2, <2>3, Zenon
<1>6. ASSUME NEW q \in Call, NEW c, calls[q] = None, calls' = [calls EXCEPT ![q] = c],
             c.pc = "previewed"
     PROVE  Landed(u)'
  <2>1. CASE r # q
    BY <1>1, <1>4, <1>6, <2>1, Zenon DEF CallsType
  <2>2. CASE r = q
    BY <1>1, <1>2, <1>6, <2>2, Zenon DEF CallsType, At
  <2>3. QED
    BY <2>1, <2>2, Zenon
<1>7. ASSUME NEW q \in Call, NEW a \in Actor, NEW s \in Source, PreviewImport(q, a, s)
     PROVE  Landed(u)'
  BY <1>6, <1>7, Zenon DEF PreviewImport
<1>8. ASSUME NEW q \in Call, NEW a \in Actor, NEW op \in Operation, NEW items \in Batch,
             PreviewBulk(q, a, op, items)
     PROVE  Landed(u)'
  BY <1>6, <1>8, Zenon DEF PreviewBulk
<1>9. ASSUME NEW q \in Call, CommitImport(q)
     PROVE  Landed(u)'
  <2>1. PICK pc \in {"committed", "failed"} : Goto(q, pc)
    BY <1>9, Zenon DEF CommitImport
  <2>2. CASE r # q
    BY <1>1, <1>4, <1>9, <2>1, <2>2, GotoMoves, Zenon DEF CommitImport, At, Phase
  <2>3. CASE r = q
    <3> DEFINE boxes == Brings(calls[q].source, "user")
               names == Brings(calls[q].source, "domain")
                        \union {Home(x) : x \in boxes \union Brings(calls[q].source, "alias")}
    <3>1. /\ domains' = [n \in DOMAIN domains \union names |-> IF n \in names THEN TRUE ELSE domains[n]]
          /\ mailboxes' = [n \in DOMAIN mailboxes \union boxes |->
                              IF n \in boxes THEN TRUE ELSE mailboxes[n]]
      BY <1>9, Zenon DEF CommitImport, WriteImport, Upsert
    <3>2. calls'[q].source = calls[q].source
      BY <1>1, <1>9, <2>1, GotoMoves, Zenon DEF CommitImport, At, Phase, SameCall
    <3>3. u \in boxes /\ Home(u) \in names
      BY <1>2, <2>3, <3>2, Zenon
    <3> HIDE DEF boxes, names
    <3>4. QED
      BY <3>1, <3>3, Zenon DEF Landed
  <2>4. QED
    BY <2>2, <2>3, Zenon
<1>10. ASSUME NEW q \in Call, FinishImport(q)
     PROVE  Landed(u)'
  BY <1>5, <1>10, Zenon DEF FinishImport, At, Phase
<1>11. ASSUME NEW q \in Call, BeginImport(q) \/ BeginBulk(q) \/ CommitBulk(q) \/ FinishBulk(q)
     PROVE  Landed(u)'
  BY <1>5, <1>11, Zenon DEF BeginImport, BeginBulk, CommitBulk, FinishBulk, At, Phase
<1>12. ASSUME NEW q \in Call, FailCall(q)
     PROVE  Landed(u)'
  BY <1>5, <1>12, Zenon DEF FailCall, Phase
<1>13. ASSUME NEW q \in Call, ChangeItem(q)
     PROVE  Landed(u)'
  <2> DEFINE d == [calls[q] EXCEPT !.found =
                     Append(calls[q].found, Found(calls[q], calls[q].items[Len(calls[q].found) + 1]))]
  <2>1. calls' = [calls EXCEPT ![q] = d] /\ At(q, "bulk", "running")
    BY <1>13, Zenon DEF ChangeItem
  <2>2. d.kind = "bulk"
    BY <1>1, <2>1, Zenon DEF CallsType, At, ImportCall, BulkCall
  <2> HIDE DEF d
  <2>3. QED
    BY <1>1, <1>2, <1>4, <2>1, <2>2, Zenon DEF CallsType, At
<1>14. ASSUME calls' = calls
     PROVE  Landed(u)'
  BY <1>4, <1>14, Zenon
<1>15. QED
  BY <1>7, <1>8, <1>9, <1>10, <1>11, <1>12, <1>13, <1>14, Zenon DEF OpsNext, DisableElsewhere, opsVars

\* What the audit log, the jobs and the answers to imports say is true of the
\* tables, for any number of requests at once and any exports and item lists.
THEOREM ReportsOfTheDirectoryAreTrue == OpsSpec => []ReportsAreTrue
<1>1. OpsInit => BulkInv /\ ImportsHaveLanded
  BY Zenon DEF OpsInit, BulkInv, CallsType, ItemsAreAudited, RowsAreHeldOnce, HeldRowsAreThere,
         CommittedIsChanged, PreviewedHasNothing, BulkChangesAreAudited, JobsTellTheTruth, At,
         ImportsHaveLanded
<1>2. BulkInv /\ ImportsHaveLanded /\ [OpsNext]_opsVars => BulkInv' /\ ImportsHaveLanded'
  BY BulkStep, ImportStep, Zenon
<1>3. BulkInv /\ ImportsHaveLanded => ReportsAreTrue
  <2>1. ASSUME NEW u, Landed(u), u \notin disturbed
       PROVE  Received(u)
    <3>1. /\ Service(mailboxes).unavailable = FALSE
          /\ Service(mailboxes).mailboxes = Rows(mailboxes)
      BY Zenon DEF Service
    <3>2. /\ DOMAIN Rows(mailboxes) = DOMAIN mailboxes
          /\ u \in DOMAIN mailboxes /\ Rows(mailboxes)[u] = [enabled |-> mailboxes[u]]
      BY <2>1, Zenon DEF Landed, Rows
    <3>3. Rows(mailboxes)[u].enabled
      BY <2>1, <3>2 DEF Landed
    <3>4. Directory!PostfixRecipient(Service(mailboxes), u) = "ok"
      BY <3>1, <3>2, <3>3, Zenon DEF Directory!PostfixRecipient, Directory!PostfixMailbox, Directory!Lookup
    <3>5. QED
      BY <2>1, <3>4, Zenon DEF Landed, Received
  <2>2. QED
    BY <2>1, Zenon DEF BulkInv, ImportsHaveLanded, ReportsAreTrue, ImportedUsersReceive
<1>4. QED
  BY <1>1, <1>2, <1>3, PTL DEF OpsSpec
=============================================================================
