--------------------------- MODULE ApprovalProofs ---------------------------
(***************************************************************************)
(* The inductive invariant of Approval and what follows from it, for any   *)
(* number of callbacks, accounts, actors and any lease; and the theorems   *)
(* on what an approved operation acts on: the processes of the container   *)
(* and the helper that drives Postfix for the server.                      *)
(***************************************************************************)
EXTENDS Approval, Container, PostfixHelper, TLAPS

-----------------------------------------------------------------------------
(* Approval *)

USE DEF Goto, Return, rowVars, reqVars, callVars, envVars, history

\* RequestTelegramApproval binds the approval to what it read.
LEMMA DraftType ==
    ASSUME TypeOK, NEW x \in Account, Request(x)
    PROVE  draft' \in Binding
<1>1. mapping[x] \in Actor /\ queue \in Snapshot
  BY ApprovalAssumption, Zenon DEF Request, TypeOK
<1>2. PICK e \in clock + 1 .. clock + Lifetime :
        draft' = [account |-> x, actor |-> mapping[x], hash |-> queue,
                  created |-> clock, expires |-> e]
  BY Zenon DEF Request
<1>3. clock \in Nat /\ e \in Nat
  BY ApprovalAssumption DEF TypeOK
<1>4. QED
  BY <1>1, <1>2, <1>3, Zenon DEF Binding

\* Every step keeps the types.
LEMMA TypeStep ==
    ASSUME TypeOK, RequestInv, CallbackInv, Next
    PROVE  TypeOK'
<1>1. ASSUME NEW x \in Account, Request(x)
     PROVE  TypeOK'
  <2>1. draft' \in Binding
    BY <1>1, DraftType, Zenon
  <2>2. QED
    BY <1>1, <2>1, Zenon DEF TypeOK, Request
<1>2. ASSUME Create
     PROVE  TypeOK'
  BY <1>2, ApprovalAssumption, Zenon
  DEF TypeOK, Result, Input, Binding, Create
<1>3. ASSUME SendPrompt
     PROVE  TypeOK'
  <2>1. prompted' \in BOOLEAN /\ requester' \in {"activate", "invalidate"}
    BY <1>3, Zenon DEF TypeOK, SendPrompt
  <2>2. QED
    BY <1>3, <2>1, Zenon DEF TypeOK, SendPrompt
<1>4. ASSUME Activate
     PROVE  TypeOK'
  BY <1>4, ApprovalAssumption, Zenon
  DEF TypeOK, Result, Input, Binding, Activate
<1>5. ASSUME Invalidate
     PROVE  TypeOK'
  BY <1>5, ApprovalAssumption, Zenon
  DEF TypeOK, Result, Input, Binding, Invalidate
<1>6. ASSUME RequestAborts
     PROVE  TypeOK'
  BY <1>6, ApprovalAssumption
  DEF TypeOK, Result, Input, Binding, RequestAborts
<1>7. ASSUME NEW c \in Callback, NEW x \in Account, NEW token \in BOOLEAN, Press(c, x, token)
     PROVE  TypeOK'
  BY <1>7, ApprovalAssumption
  DEF TypeOK, Result, Input, Binding, Press
<1>8. ASSUME NEW c \in Callback, Map(c)
     PROVE  TypeOK'
  <2>1. input[c] \in Input
    BY <1>8, Zenon DEF CallbackInv, Map
  <2>2. mapping[input[c].account] \in Actor \cup {NoActor}
    BY <2>1, Zenon DEF TypeOK, Input
  <2>3. QED
    BY <1>8, <2>2 DEF TypeOK, Map
<1>9. ASSUME NEW c \in Callback, Get(c)
     PROVE  TypeOK'
  BY <1>9, ApprovalAssumption
  DEF TypeOK, Result, Input, Binding, Get, Open, TakeNow
<1>10. ASSUME NEW c \in Callback, Preflight(c)
     PROVE  TypeOK'
  BY <1>10, ApprovalAssumption
  DEF TypeOK, Result, Input, Binding, Preflight, TakeNow
<1>11. ASSUME NEW c \in Callback, Claim(c)
     PROVE  TypeOK'
  BY <1>11, ApprovalAssumption
  DEF TypeOK, Result, Input, Binding, Claim, Claimable, Expired, Confirms,
      Open, Reserved
<1>12. ASSUME NEW c \in Callback, Expire(c)
     PROVE  TypeOK'
  BY <1>12, ApprovalAssumption
  DEF TypeOK, Result, Input, Binding, Expire, Open
<1>13. ASSUME NEW c \in Callback, Take(c)
     PROVE  TypeOK'
  BY <1>13, ApprovalAssumption
  DEF TypeOK, Result, Input, Binding, Take, Takable
<1>14. ASSUME NEW c \in Callback, Deny(c)
     PROVE  TypeOK'
  BY <1>14, ApprovalAssumption
  DEF TypeOK, Result, Input, Binding, Deny
<1>15. ASSUME NEW c \in Callback, Execute(c)
     PROVE  TypeOK'
  <2>1. executed' \in BOOLEAN
    BY <1>15, Zenon DEF TypeOK, Execute
  <2>2. pc' = [pc EXCEPT ![c] = "complete"] \/ pc' = [pc EXCEPT ![c] = "retry"]
    BY <1>15, Zenon DEF Execute
  <2>3. UNCHANGED <<envVars, rowVars, reqVars, callVars, compared>>
    BY <1>15, Zenon DEF Execute
  <2>4. QED
    BY <2>1, <2>2, <2>3, Zenon DEF TypeOK
<1>16. ASSUME NEW c \in Callback, RetryLater(c)
     PROVE  TypeOK'
  BY <1>16, ApprovalAssumption
  DEF TypeOK, Result, Input, Binding, RetryLater
<1>17. ASSUME NEW c \in Callback, Complete(c)
     PROVE  TypeOK'
  BY <1>17, ApprovalAssumption
  DEF TypeOK, Result, Input, Binding, Complete
<1>18. ASSUME NEW c \in Callback, Abort(c)
     PROVE  TypeOK'
  BY <1>18, ApprovalAssumption
  DEF TypeOK, Result, Input, Binding, Abort
<1>19. ASSUME Tick
     PROVE  TypeOK'
  <2>1. overdue' \in BOOLEAN
    BY <1>19, Zenon DEF Tick, TypeOK
  <2>2. clock' \in Nat
    BY <1>19 DEF Tick, TypeOK
  <2>3. QED
    BY <1>19, <2>1, <2>2, Zenon DEF Tick, TypeOK
<1>20. ASSUME QueueChanges
     PROVE  TypeOK'
  BY <1>20, ApprovalAssumption
  DEF TypeOK, Result, Input, Binding, QueueChanges
<1>21. ASSUME NEW x \in Account, NEW a \in Actor \cup {NoActor},
            MappingChanges(x, a)
     PROVE  TypeOK'
  BY <1>21, ApprovalAssumption
  DEF TypeOK, Result, Input, Binding, MappingChanges
<1>22. QED
  BY <1>1, <1>2, <1>3, <1>4, <1>5, <1>6, <1>7, <1>8, <1>9, <1>10, <1>11,
     <1>12, <1>13, <1>14, <1>15, <1>16, <1>17, <1>18, <1>19, <1>20, <1>21,
     Zenon
  DEF Next, Requesting, Confirming

\* The row is the requester's until it is pending.
LEMMA RequestStep ==
    ASSUME TypeOK, RequestInv, CallbackInv, Next
    PROVE  RequestInv'
<1>1. ASSUME NEW x \in Account, Request(x)
     PROVE  RequestInv'
  <2>1. draft' \in Binding
    BY <1>1, DraftType
  <2>2. QED
    BY <1>1, <2>1, Zenon DEF RequestInv, Request
<1>2. ASSUME Create
     PROVE  RequestInv'
  BY <1>2, Zenon
  DEF RequestInv, Create
<1>3. ASSUME SendPrompt
     PROVE  RequestInv'
  BY <1>3, Zenon
  DEF RequestInv, SendPrompt
<1>4. ASSUME Activate
     PROVE  RequestInv'
  BY <1>4, Zenon
  DEF RequestInv, Activate
<1>5. ASSUME Invalidate
     PROVE  RequestInv'
  BY <1>5, Zenon
  DEF RequestInv, Invalidate
<1>6. ASSUME RequestAborts
     PROVE  RequestInv'
  BY <1>6, Zenon
  DEF RequestInv, RequestAborts
<1>7. ASSUME NEW c \in Callback, NEW x \in Account, NEW token \in BOOLEAN, Press(c, x, token)
     PROVE  RequestInv'
  BY <1>7, Zenon
  DEF RequestInv, Press
<1>8. ASSUME NEW c \in Callback, Map(c)
     PROVE  RequestInv'
  BY <1>8, Zenon
  DEF RequestInv, Map
<1>9. ASSUME NEW c \in Callback, Get(c)
     PROVE  RequestInv'
  BY <1>9, Zenon
  DEF RequestInv, Get, Open, TakeNow
<1>10. ASSUME NEW c \in Callback, Preflight(c)
     PROVE  RequestInv'
  BY <1>10, Zenon
  DEF RequestInv, Preflight, TakeNow
<1>11. ASSUME NEW c \in Callback, Claim(c)
     PROVE  RequestInv'
  BY <1>11, Zenon
  DEF RequestInv, Claim, Claimable, Expired, Confirms, Open, Reserved
<1>12. ASSUME NEW c \in Callback, Expire(c)
     PROVE  RequestInv'
  BY <1>12, Zenon
  DEF RequestInv, Expire, Open
<1>13. ASSUME NEW c \in Callback, Take(c)
     PROVE  RequestInv'
  BY <1>13, Zenon
  DEF RequestInv, Take, Takable
<1>14. ASSUME NEW c \in Callback, Deny(c)
     PROVE  RequestInv'
  BY <1>14, Zenon
  DEF RequestInv, Deny
<1>15. ASSUME NEW c \in Callback, Execute(c)
     PROVE  RequestInv'
  BY <1>15, Zenon
  DEF RequestInv, Execute
<1>16. ASSUME NEW c \in Callback, RetryLater(c)
     PROVE  RequestInv'
  BY <1>16, Zenon
  DEF RequestInv, RetryLater
<1>17. ASSUME NEW c \in Callback, Complete(c)
     PROVE  RequestInv'
  BY <1>17, Zenon
  DEF RequestInv, Complete
<1>18. ASSUME NEW c \in Callback, Abort(c)
     PROVE  RequestInv'
  BY <1>18, Zenon
  DEF RequestInv, Abort
<1>19. ASSUME Tick
     PROVE  RequestInv'
  BY <1>19, Zenon
  DEF RequestInv, Tick
<1>20. ASSUME QueueChanges
     PROVE  RequestInv'
  BY <1>20, Zenon
  DEF RequestInv, QueueChanges
<1>21. ASSUME NEW x \in Account, NEW a \in Actor \cup {NoActor},
            MappingChanges(x, a)
     PROVE  RequestInv'
  BY <1>21, Zenon
  DEF RequestInv, MappingChanges
<1>22. QED
  BY <1>1, <1>2, <1>3, <1>4, <1>5, <1>6, <1>7, <1>8, <1>9, <1>10, <1>11,
     <1>12, <1>13, <1>14, <1>15, <1>16, <1>17, <1>18, <1>19, <1>20, <1>21,
     Zenon
  DEF Next, Requesting, Confirming

\* The binding of a row never changes, so what a callback checked stays true.
LEMMA CallbackStep ==
    ASSUME TypeOK, RequestInv, CallbackInv, Next
    PROVE  CallbackInv'
<1>1. ASSUME NEW x \in Account, Request(x)
     PROVE  CallbackInv'
  BY <1>1, Zenon
  DEF TypeOK, RequestInv, CallbackInv, ClaimingSteps, HoldingSteps, Request
<1>2. ASSUME Create
     PROVE  CallbackInv'
  BY <1>2, Zenon
  DEF TypeOK, RequestInv, CallbackInv, ClaimingSteps, HoldingSteps, Create
<1>3. ASSUME SendPrompt
     PROVE  CallbackInv'
  BY <1>3, Zenon
  DEF TypeOK, RequestInv, CallbackInv, ClaimingSteps, HoldingSteps,
      SendPrompt
<1>4. ASSUME Activate
     PROVE  CallbackInv'
  BY <1>4, Zenon
  DEF TypeOK, RequestInv, CallbackInv, ClaimingSteps, HoldingSteps, Activate
<1>5. ASSUME Invalidate
     PROVE  CallbackInv'
  BY <1>5, Zenon
  DEF TypeOK, RequestInv, CallbackInv, ClaimingSteps, HoldingSteps,
      Invalidate
<1>6. ASSUME RequestAborts
     PROVE  CallbackInv'
  BY <1>6, Zenon
  DEF TypeOK, RequestInv, CallbackInv, ClaimingSteps, HoldingSteps,
      RequestAborts
<1>7. ASSUME NEW c \in Callback, NEW x \in Account, NEW token \in BOOLEAN, Press(c, x, token)
     PROVE  CallbackInv'
  <2>1. [account |-> x, token |-> token] \in Input
    BY Zenon DEF Input
  <2>2. QED
    BY <1>7, <2>1, Zenon DEF TypeOK, CallbackInv, ClaimingSteps, HoldingSteps, Press
<1>8. ASSUME NEW c \in Callback, Map(c)
     PROVE  CallbackInv'
  BY <1>8, Zenon
  DEF TypeOK, RequestInv, CallbackInv, ClaimingSteps, HoldingSteps, Map
<1>9. ASSUME NEW c \in Callback, Get(c)
     PROVE  CallbackInv'
  BY <1>9
  DEF TypeOK, RequestInv, CallbackInv, ClaimingSteps, HoldingSteps, Get,
      Open, TakeNow
<1>10. ASSUME NEW c \in Callback, Preflight(c)
     PROVE  CallbackInv'
  BY <1>10, Zenon
  DEF TypeOK, RequestInv, CallbackInv, ClaimingSteps, HoldingSteps,
      Preflight, TakeNow
<1>11. ASSUME NEW c \in Callback, Claim(c)
     PROVE  CallbackInv'
  <2>1. pc' = [pc EXCEPT ![c] = "expire"] \/
        /\ pc' = [pc EXCEPT ![c] = "take"]
        /\ now[c] < bound.expires
        /\ Confirms(c)
    <3>1. bound \in Binding /\ now[c] \in Nat
      BY <1>11, Zenon DEF Claim, Claimable, Open, RequestInv, TypeOK
    <3>2. bound.expires \in Nat
      BY <3>1, Zenon DEF Binding
    <3>3. ~Expired(c) => now[c] < bound.expires
      BY <3>1, <3>2 DEF Expired
    <3>4. QED
      BY <1>11, <3>3, Zenon DEF Claim, Claimable
  <2>2. Confirms(c) =>
          /\ input[c] = [account |-> bound.account, token |-> TRUE]
          /\ mapped[c] = bound.actor
    <3>1. input[c] \in Input
      BY <1>11, Zenon DEF Claim, CallbackInv
    <3>2. input[c] = [account |-> input[c].account, token |-> input[c].token]
      BY <3>1, Zenon DEF Input
    <3>3. input[c].token \in BOOLEAN
      BY <3>1, Zenon DEF Input
    <3>4. QED
      BY <3>2, <3>3, Zenon DEF Confirms
  <2>3. UNCHANGED <<rowVars, callVars>> /\ bound.created <= now[c]
    BY <1>11, Zenon DEF Claim, Claimable
  <2>4. pc[c] = "claim" /\ {"claim", "expire", "take"} \subseteq ClaimingSteps
    BY <1>11, Zenon DEF Claim, ClaimingSteps
  <2>5. "expire" \notin {"take"} \cup HoldingSteps
    BY Zenon DEF HoldingSteps
  <2>6. QED
    BY <2>1, <2>2, <2>3, <2>4, <2>5, Zenon DEF TypeOK, CallbackInv
<1>12. ASSUME NEW c \in Callback, Expire(c)
     PROVE  CallbackInv'
  BY <1>12, Zenon
  DEF TypeOK, RequestInv, CallbackInv, ClaimingSteps, HoldingSteps, Expire,
      Open
<1>13. ASSUME NEW c \in Callback, Take(c)
     PROVE  CallbackInv'
  BY <1>13, Zenon
  DEF TypeOK, RequestInv, CallbackInv, ClaimingSteps, HoldingSteps, Take,
      Takable
<1>14. ASSUME NEW c \in Callback, Deny(c)
     PROVE  CallbackInv'
  BY <1>14, Zenon
  DEF TypeOK, RequestInv, CallbackInv, ClaimingSteps, HoldingSteps, Deny
<1>15. ASSUME NEW c \in Callback, Execute(c)
     PROVE  CallbackInv'
  <2>1. /\ pc[c] = "execute"
        /\ pc' = [pc EXCEPT ![c] = "complete"] \/ pc' = [pc EXCEPT ![c] = "retry"]
        /\ UNCHANGED <<rowVars, callVars>>
    BY <1>15, Zenon DEF Execute
  <2>2. {"execute", "retry", "complete"} \subseteq ClaimingSteps \cap HoldingSteps
    BY Zenon DEF ClaimingSteps, HoldingSteps
  <2>3. QED
    BY <2>1, <2>2, Zenon DEF TypeOK, CallbackInv
<1>16. ASSUME NEW c \in Callback, RetryLater(c)
     PROVE  CallbackInv'
  BY <1>16, Zenon
  DEF TypeOK, RequestInv, CallbackInv, ClaimingSteps, HoldingSteps,
      RetryLater
<1>17. ASSUME NEW c \in Callback, Complete(c)
     PROVE  CallbackInv'
  BY <1>17, Zenon
  DEF TypeOK, RequestInv, CallbackInv, ClaimingSteps, HoldingSteps, Complete
<1>18. ASSUME NEW c \in Callback, Abort(c)
     PROVE  CallbackInv'
  BY <1>18, Zenon
  DEF TypeOK, RequestInv, CallbackInv, ClaimingSteps, HoldingSteps, Abort
<1>19. ASSUME Tick
     PROVE  CallbackInv'
  BY <1>19, Zenon
  DEF TypeOK, RequestInv, CallbackInv, ClaimingSteps, HoldingSteps, Tick
<1>20. ASSUME QueueChanges
     PROVE  CallbackInv'
  BY <1>20, Zenon
  DEF TypeOK, RequestInv, CallbackInv, ClaimingSteps, HoldingSteps,
      QueueChanges
<1>21. ASSUME NEW x \in Account, NEW a \in Actor \cup {NoActor},
            MappingChanges(x, a)
     PROVE  CallbackInv'
  BY <1>21, Zenon
  DEF TypeOK, RequestInv, CallbackInv, ClaimingSteps, HoldingSteps,
      MappingChanges
<1>22. QED
  BY <1>1, <1>2, <1>3, <1>4, <1>5, <1>6, <1>7, <1>8, <1>9, <1>10, <1>11,
     <1>12, <1>13, <1>14, <1>15, <1>16, <1>17, <1>18, <1>19, <1>20, <1>21,
     Zenon
  DEF Next, Requesting, Confirming

\* Executing and approved rows tell what happened.
LEMMA HistoryStep ==
    ASSUME TypeOK, RequestInv, CallbackInv, HistoryInv, Next
    PROVE  HistoryInv'
<1>1. ASSUME NEW x \in Account, Request(x)
     PROVE  HistoryInv'
  BY <1>1, Zenon
  DEF TypeOK, RequestInv, CallbackInv, HistoryInv, ApprovedWasExecuted,
      ClaimingSteps, HoldingSteps, Request
<1>2. ASSUME Create
     PROVE  HistoryInv'
  BY <1>2, Zenon
  DEF TypeOK, RequestInv, CallbackInv, HistoryInv, ApprovedWasExecuted,
      ClaimingSteps, HoldingSteps, Create
<1>3. ASSUME SendPrompt
     PROVE  HistoryInv'
  BY <1>3, Zenon
  DEF TypeOK, RequestInv, CallbackInv, HistoryInv, ApprovedWasExecuted,
      ClaimingSteps, HoldingSteps, SendPrompt
<1>4. ASSUME Activate
     PROVE  HistoryInv'
  BY <1>4, Zenon
  DEF TypeOK, RequestInv, CallbackInv, HistoryInv, ApprovedWasExecuted,
      ClaimingSteps, HoldingSteps, Activate
<1>5. ASSUME Invalidate
     PROVE  HistoryInv'
  BY <1>5, Zenon
  DEF TypeOK, RequestInv, CallbackInv, HistoryInv, ApprovedWasExecuted,
      ClaimingSteps, HoldingSteps, Invalidate
<1>6. ASSUME RequestAborts
     PROVE  HistoryInv'
  BY <1>6, Zenon
  DEF TypeOK, RequestInv, CallbackInv, HistoryInv, ApprovedWasExecuted,
      ClaimingSteps, HoldingSteps, RequestAborts
<1>7. ASSUME NEW c \in Callback, NEW x \in Account, NEW token \in BOOLEAN, Press(c, x, token)
     PROVE  HistoryInv'
  BY <1>7, Zenon
  DEF TypeOK, RequestInv, CallbackInv, HistoryInv, ApprovedWasExecuted,
      ClaimingSteps, HoldingSteps, Press
<1>8. ASSUME NEW c \in Callback, Map(c)
     PROVE  HistoryInv'
  BY <1>8, Zenon
  DEF TypeOK, RequestInv, CallbackInv, HistoryInv, ApprovedWasExecuted,
      ClaimingSteps, HoldingSteps, Map
<1>9. ASSUME NEW c \in Callback, Get(c)
     PROVE  HistoryInv'
  BY <1>9, Zenon
  DEF TypeOK, RequestInv, CallbackInv, HistoryInv, ApprovedWasExecuted,
      ClaimingSteps, HoldingSteps, Get, Open, TakeNow
<1>10. ASSUME NEW c \in Callback, Preflight(c)
     PROVE  HistoryInv'
  BY <1>10, Zenon
  DEF TypeOK, RequestInv, CallbackInv, HistoryInv, ApprovedWasExecuted,
      ClaimingSteps, HoldingSteps, Preflight, TakeNow
<1>11. ASSUME NEW c \in Callback, Claim(c)
     PROVE  HistoryInv'
  BY <1>11, Zenon
  DEF TypeOK, RequestInv, CallbackInv, HistoryInv, ApprovedWasExecuted,
      ClaimingSteps, HoldingSteps, Claim, Claimable, Expired, Confirms,
      Open, Reserved
<1>12. ASSUME NEW c \in Callback, Expire(c)
     PROVE  HistoryInv'
  BY <1>12, Zenon
  DEF TypeOK, RequestInv, CallbackInv, HistoryInv, ApprovedWasExecuted,
      ClaimingSteps, HoldingSteps, Expire, Open
<1>13. ASSUME NEW c \in Callback, Take(c)
     PROVE  HistoryInv'
  BY <1>13, Zenon
  DEF TypeOK, RequestInv, CallbackInv, HistoryInv, ApprovedWasExecuted,
      ClaimingSteps, HoldingSteps, Take, Takable
<1>14. ASSUME NEW c \in Callback, Deny(c)
     PROVE  HistoryInv'
  BY <1>14, Zenon
  DEF TypeOK, RequestInv, CallbackInv, HistoryInv, ApprovedWasExecuted,
      ClaimingSteps, HoldingSteps, Deny
<1>15. ASSUME NEW c \in Callback, Execute(c)
     PROVE  HistoryInv'
  <2>1. /\ pc[c] = "execute"
        /\ \/ pc' = [pc EXCEPT ![c] = "retry"]
           \/ /\ pc' = [pc EXCEPT ![c] = "complete"]
              /\ executed' \/ queue = Gone
        /\ executed => executed'
        /\ UNCHANGED <<queue, result, compared>>
    <3>1. CASE executed' = TRUE
      BY <1>15, <3>1, Zenon DEF Execute
    <3>2. CASE executed' = executed
      BY <1>15, <3>2, Zenon DEF Execute
    <3>3. QED
      BY <1>15, <3>1, <3>2, Zenon DEF Execute
  <2>2. compared /\ result \notin {"absent", "creating", "rejected"}
    BY <2>1, Zenon DEF CallbackInv, HistoryInv, ClaimingSteps
  <2>3. QED
    BY <2>1, <2>2, Zenon DEF TypeOK, HistoryInv, ApprovedWasExecuted
<1>16. ASSUME NEW c \in Callback, RetryLater(c)
     PROVE  HistoryInv'
  BY <1>16, Zenon
  DEF TypeOK, RequestInv, CallbackInv, HistoryInv, ApprovedWasExecuted,
      ClaimingSteps, HoldingSteps, RetryLater
<1>17. ASSUME NEW c \in Callback, Complete(c)
     PROVE  HistoryInv'
  BY <1>17, Zenon
  DEF TypeOK, RequestInv, CallbackInv, HistoryInv, ApprovedWasExecuted,
      ClaimingSteps, HoldingSteps, Complete
<1>18. ASSUME NEW c \in Callback, Abort(c)
     PROVE  HistoryInv'
  BY <1>18, Zenon
  DEF TypeOK, RequestInv, CallbackInv, HistoryInv, ApprovedWasExecuted,
      ClaimingSteps, HoldingSteps, Abort
<1>19. ASSUME Tick
     PROVE  HistoryInv'
  BY <1>19, Zenon
  DEF TypeOK, RequestInv, CallbackInv, HistoryInv, ApprovedWasExecuted,
      ClaimingSteps, HoldingSteps, Tick
<1>20. ASSUME QueueChanges
     PROVE  HistoryInv'
  BY <1>20, Zenon
  DEF TypeOK, RequestInv, CallbackInv, HistoryInv, ApprovedWasExecuted,
      ClaimingSteps, HoldingSteps, QueueChanges
<1>21. ASSUME NEW x \in Account, NEW a \in Actor \cup {NoActor},
            MappingChanges(x, a)
     PROVE  HistoryInv'
  BY <1>21, Zenon
  DEF TypeOK, RequestInv, CallbackInv, HistoryInv, ApprovedWasExecuted,
      ClaimingSteps, HoldingSteps, MappingChanges
<1>22. QED
  BY <1>1, <1>2, <1>3, <1>4, <1>5, <1>6, <1>7, <1>8, <1>9, <1>10, <1>11,
     <1>12, <1>13, <1>14, <1>15, <1>16, <1>17, <1>18, <1>19, <1>20, <1>21,
     Zenon
  DEF Next, Requesting, Confirming

\* A claim that runs is not taken over (approval.go:296).
LEMMA LeaseStep ==
    ASSUME TypeOK, RequestInv, CallbackInv, LeaseInv, Next
    PROVE  LeaseInv'
<1>1. ASSUME NEW x \in Account, Request(x)
     PROVE  LeaseInv'
  BY <1>1, ApprovalAssumption, Zenon
  DEF TypeOK, RequestInv, CallbackInv, LeaseInv, ExclusiveExecution,
      ClaimingSteps, HoldingSteps, Request
<1>2. ASSUME Create
     PROVE  LeaseInv'
  BY <1>2, ApprovalAssumption, Zenon
  DEF TypeOK, RequestInv, CallbackInv, LeaseInv, ExclusiveExecution,
      ClaimingSteps, HoldingSteps, Create
<1>3. ASSUME SendPrompt
     PROVE  LeaseInv'
  BY <1>3, ApprovalAssumption, Zenon
  DEF TypeOK, RequestInv, CallbackInv, LeaseInv, ExclusiveExecution,
      ClaimingSteps, HoldingSteps, SendPrompt
<1>4. ASSUME Activate
     PROVE  LeaseInv'
  BY <1>4, ApprovalAssumption, Zenon
  DEF TypeOK, RequestInv, CallbackInv, LeaseInv, ExclusiveExecution,
      ClaimingSteps, HoldingSteps, Activate
<1>5. ASSUME Invalidate
     PROVE  LeaseInv'
  BY <1>5, ApprovalAssumption, Zenon
  DEF TypeOK, RequestInv, CallbackInv, LeaseInv, ExclusiveExecution,
      ClaimingSteps, HoldingSteps, Invalidate
<1>6. ASSUME RequestAborts
     PROVE  LeaseInv'
  BY <1>6, ApprovalAssumption, Zenon
  DEF TypeOK, RequestInv, CallbackInv, LeaseInv, ExclusiveExecution,
      ClaimingSteps, HoldingSteps, RequestAborts
<1>7. ASSUME NEW c \in Callback, NEW x \in Account, NEW token \in BOOLEAN, Press(c, x, token)
     PROVE  LeaseInv'
  BY <1>7, ApprovalAssumption, Zenon
  DEF TypeOK, RequestInv, CallbackInv, LeaseInv, ExclusiveExecution,
      ClaimingSteps, HoldingSteps, Press
<1>8. ASSUME NEW c \in Callback, Map(c)
     PROVE  LeaseInv'
  BY <1>8, ApprovalAssumption, Zenon
  DEF TypeOK, RequestInv, CallbackInv, LeaseInv, ExclusiveExecution,
      ClaimingSteps, HoldingSteps, Map
<1>9. ASSUME NEW c \in Callback, Get(c)
     PROVE  LeaseInv'
  BY <1>9, ApprovalAssumption
  DEF TypeOK, RequestInv, CallbackInv, LeaseInv, ExclusiveExecution,
      ClaimingSteps, HoldingSteps, Get, Open, TakeNow
<1>10. ASSUME NEW c \in Callback, Preflight(c)
     PROVE  LeaseInv'
  BY <1>10, ApprovalAssumption
  DEF TypeOK, RequestInv, CallbackInv, LeaseInv, ExclusiveExecution,
      ClaimingSteps, HoldingSteps, Preflight, TakeNow
<1>11. ASSUME NEW c \in Callback, Claim(c)
     PROVE  LeaseInv'
  BY <1>11, ApprovalAssumption
  DEF TypeOK, RequestInv, CallbackInv, LeaseInv, ExclusiveExecution,
      ClaimingSteps, HoldingSteps, Claim, Claimable, Expired, Confirms,
      Open, Reserved
<1>12. ASSUME NEW c \in Callback, Expire(c)
     PROVE  LeaseInv'
  BY <1>12, ApprovalAssumption, Zenon
  DEF TypeOK, RequestInv, CallbackInv, LeaseInv, ExclusiveExecution,
      ClaimingSteps, HoldingSteps, Expire, Open
<1>13. ASSUME NEW c \in Callback, Take(c)
     PROVE  LeaseInv'
  BY <1>13, ApprovalAssumption
  DEF TypeOK, RequestInv, CallbackInv, LeaseInv, ExclusiveExecution,
      ClaimingSteps, HoldingSteps, Take, Takable
<1>14. ASSUME NEW c \in Callback, Deny(c)
     PROVE  LeaseInv'
  BY <1>14, ApprovalAssumption
  DEF TypeOK, RequestInv, CallbackInv, LeaseInv, ExclusiveExecution,
      ClaimingSteps, HoldingSteps, Deny
<1>15. ASSUME NEW c \in Callback, Execute(c)
     PROVE  LeaseInv'
  <2>1. /\ pc[c] = "execute"
        /\ pc' = [pc EXCEPT ![c] = "complete"] \/ pc' = [pc EXCEPT ![c] = "retry"]
        /\ UNCHANGED <<clock, overdue, result, startedAt, now>>
    BY <1>15, Zenon DEF Execute
  <2>2. {"execute", "retry", "complete"} \subseteq ClaimingSteps \cap HoldingSteps
    BY Zenon DEF ClaimingSteps, HoldingSteps
  <2>3. QED
    BY <2>1, <2>2, Zenon DEF TypeOK, LeaseInv, ExclusiveExecution
<1>16. ASSUME NEW c \in Callback, RetryLater(c)
     PROVE  LeaseInv'
  BY <1>16, ApprovalAssumption, Zenon
  DEF TypeOK, RequestInv, CallbackInv, LeaseInv, ExclusiveExecution,
      ClaimingSteps, HoldingSteps, RetryLater
<1>17. ASSUME NEW c \in Callback, Complete(c)
     PROVE  LeaseInv'
  BY <1>17, ApprovalAssumption, Zenon
  DEF TypeOK, RequestInv, CallbackInv, LeaseInv, ExclusiveExecution,
      ClaimingSteps, HoldingSteps, Complete
<1>18. ASSUME NEW c \in Callback, Abort(c)
     PROVE  LeaseInv'
  BY <1>18, ApprovalAssumption
  DEF TypeOK, RequestInv, CallbackInv, LeaseInv, ExclusiveExecution,
      ClaimingSteps, HoldingSteps, Abort
<1>19. ASSUME Tick
     PROVE  LeaseInv'
  <2>1. /\ clock' = clock + 1 /\ clock \in Nat /\ now \in [Callback -> Nat]
        /\ UNCHANGED <<pc, result, startedAt, now>>
    BY <1>19, Zenon DEF Tick, TypeOK
  <2>2. ASSUME ~overdue'
        PROVE  /\ ~overdue
               /\ \A c \in Callback : pc[c] \in ClaimingSteps => ~(clock >= now[c] + Lease)
    BY <1>19, <2>2, Zenon DEF Tick
  <2>3. ASSUME ~overdue', NEW c \in Callback, pc[c] \in ClaimingSteps
        PROVE  now[c] <= clock + 1 /\ clock + 1 <= now[c] + Lease
    <3>1. ~(clock >= now[c] + Lease) /\ now[c] <= clock
      BY <2>2, <2>3, Zenon DEF LeaseInv
    <3>2. QED
      BY <2>1, <3>1, ApprovalAssumption
  <2>4. QED
    BY <2>1, <2>2, <2>3, Zenon DEF LeaseInv, ExclusiveExecution
<1>20. ASSUME QueueChanges
     PROVE  LeaseInv'
  BY <1>20, ApprovalAssumption, Zenon
  DEF TypeOK, RequestInv, CallbackInv, LeaseInv, ExclusiveExecution,
      ClaimingSteps, HoldingSteps, QueueChanges
<1>21. ASSUME NEW x \in Account, NEW a \in Actor \cup {NoActor},
            MappingChanges(x, a)
     PROVE  LeaseInv'
  BY <1>21, ApprovalAssumption, Zenon
  DEF TypeOK, RequestInv, CallbackInv, LeaseInv, ExclusiveExecution,
      ClaimingSteps, HoldingSteps, MappingChanges
<1>22. QED
  BY <1>1, <1>2, <1>3, <1>4, <1>5, <1>6, <1>7, <1>8, <1>9, <1>10, <1>11,
     <1>12, <1>13, <1>14, <1>15, <1>16, <1>17, <1>18, <1>19, <1>20, <1>21,
     Zenon
  DEF Next, Requesting, Confirming

-----------------------------------------------------------------------------
\* A request that has just been made satisfies the invariant.
LEMMA InitInv == Init => Inv
<1>1. SUFFICES ASSUME Init PROVE Inv
  BY Zenon
<1>2. TypeOK
  BY <1>1, ApprovalAssumption, Zenon DEF Init, TypeOK, Result
<1>3. RequestInv /\ CallbackInv /\ HistoryInv
  BY <1>1, Zenon
  DEF Init, RequestInv, CallbackInv, HistoryInv, ApprovedWasExecuted,
      ClaimingSteps, HoldingSteps
<1>4. LeaseInv
  BY <1>1, Zenon
  DEF Init, LeaseInv, ExclusiveExecution, ClaimingSteps, HoldingSteps
<1>5. QED
  BY <1>2, <1>3, <1>4, Zenon DEF Inv

\* Every step of the requester, of a callback or of the clock keeps it.
LEMMA InvStep == Inv /\ [Next]_vars => Inv'
<1>1. ASSUME Inv, Next PROVE Inv'
  BY <1>1, TypeStep, RequestStep, CallbackStep, HistoryStep, LeaseStep, Zenon
  DEF Inv
<1>2. ASSUME Inv, UNCHANGED vars PROVE Inv'
  <2>1. TypeOK' /\ RequestInv' /\ CallbackInv'
    BY <1>2 DEF Inv, vars, TypeOK, RequestInv, CallbackInv
  <2>2. HistoryInv' /\ LeaseInv'
    BY <1>2, Zenon DEF Inv, vars, HistoryInv, LeaseInv, ApprovedWasExecuted, ExclusiveExecution
  <2>3. QED
    BY <2>1, <2>2, Zenon DEF Inv
<1>3. QED
  BY <1>1, <1>2, Zenon

\* The invariant holds in every reachable state of every instance.
THEOREM Invariance == Spec => []Inv
BY InitInv, InvStep, PTL DEF Spec

\* A queue command runs only for the account, the actor and the token the
\* prompt was made for, before it expires, and after the queue was compared
\* with it (executor.go:87-105, approval.go:275-296).
THEOREM Confirmed == Spec => []RunsOnlyConfirmed
<1>1. Inv => RunsOnlyConfirmed
  BY Zenon
  DEF Inv, CallbackInv, HistoryInv, RunsOnlyConfirmed, ClaimingSteps, HoldingSteps
<1>2. QED
  BY <1>1, Invariance, PTL

\* A row says approved only when the command took effect or its message was
\* gone (executor.go:105-117), and rejected only when it never ran
\* (approval_service.go:85-93).
THEOREM RowTold == Spec => []RowTellsWhatRan
<1>1. Inv => RowTellsWhatRan
  BY Zenon DEF Inv, HistoryInv, RowTellsWhatRan, RejectedNeverRuns
<1>2. QED
  BY <1>1, Invariance, PTL

\* With no callback outliving its lease, no two execute the command at once
\* (approval.go:278, 296).
THEOREM Exclusive == Spec => []ExclusiveExecution
<1>1. Inv => ExclusiveExecution
  BY Zenon DEF Inv, LeaseInv, ExclusiveExecution
<1>2. QED
  BY <1>1, Invariance, PTL

\* Whatever is approved, rejected or expired stays so: no callback and no
\* requester that comes later can undo it (the WHERE clauses of approval.go).
LEMMA TerminalStep ==
    ASSUME Inv, Next, result \in {"approved", "rejected", "expired"}
    PROVE  result' = result
<1>1. CASE Requesting \/ RequestAborts
  BY <1>1, Zenon
  DEF Inv, RequestInv, Requesting, Request, Create, SendPrompt, Activate,
      Invalidate, RequestAborts
<1>2. ASSUME NEW c \in Callback, Confirming(c) PROVE result' = result
  BY <1>2, Zenon
  DEF Confirming, Map, Get, Preflight, Claim, Expire, Open, Take, Takable,
      Deny, Execute, RetryLater, Complete
<1>3. ASSUME NEW c \in Callback, NEW x \in Account, NEW token \in BOOLEAN,
             Press(c, x, token) \/ Abort(c)
      PROVE  result' = result
  BY <1>3, Zenon DEF Press, Abort
<1>4. CASE Tick \/ QueueChanges
  BY <1>4, Zenon DEF Tick, QueueChanges
<1>5. ASSUME NEW x \in Account, NEW a \in Actor \cup {NoActor}, MappingChanges(x, a)
      PROVE  result' = result
  BY <1>5, Zenon DEF MappingChanges
<1>6. ASSUME NEW c \in Callback, Abort(c) PROVE result' = result
  BY <1>6, Zenon DEF Abort
<1>7. QED
  BY <1>1, <1>2, <1>3, <1>4, <1>5, <1>6, Zenon DEF Next

\* A row that Finish or Expire has given its result keeps it: no later
\* callback, retry or expiry changes what was decided.
THEOREM Final == Spec => TerminalIsFinal
<1>1. Inv /\ [Next]_vars =>
        [(result \in {"approved", "rejected", "expired"}) => (result' = result)]_vars
  BY TerminalStep, Zenon
<1>2. QED
  BY <1>1, Invariance, PTL DEF Spec, TerminalIsFinal

-----------------------------------------------------------------------------
(* Container *)

ContainerInv ==
    /\ child \in [Children -> {"absent", "running", "ended"}]
    /\ NoChildIsLeft
    /\ stage = "begin" => \A c \in Children : child[c] = "absent"
    /\ stage = "helper" => child["postfix"] = "absent"
    /\ front \in {"exec", "running"} => rendered = "whole"

\* The invariant of the entrypoint holds over any number of restarts.
LEMMA ContainerInvariance == ContainerSpec => []ContainerInv
<1> USE DEF ContainerInv, NoChildIsLeft, Children
<1>1. ContainerInit => ContainerInv
  BY Zenon DEF ContainerInit
<1>2. ContainerInv /\ [ContainerNext]_containerVars => ContainerInv'
  <2> SUFFICES ASSUME ContainerInv, [ContainerNext]_containerVars
               PROVE  ContainerInv'
    BY Zenon
  <2> USE DEF frontVars, postfixVars
  <2>1. CASE StartHelper \/ StartPostfix
    BY <2>1, Zenon DEF StartHelper, StartPostfix
  <2>2. CASE Terminate \/ Signal \/ \E c \in Children : Wait(c)
    BY <2>2, Zenon DEF Terminate, Signal, Wait
  <2>3. CASE Kill
    BY <2>3, Zenon DEF Kill
  <2>4. ASSUME NEW c \in Children, Exits(c)
       PROVE  ContainerInv'
    BY <2>4, Zenon DEF Exits
  <2>5. CASE CreateConfig \/ WriteConfig \/ Exec
    BY <2>5, Zenon DEF CreateConfig, WriteConfig, Exec
  <2>6. CASE RestartPostfix \/ RestartFront
    BY <2>6, Zenon DEF RestartPostfix, RestartFront
  <2>7. CASE UNCHANGED containerVars
    BY <2>7, Zenon DEF containerVars
  <2>8. QED
    BY <2>1, <2>2, <2>3, <2>4, <2>5, <2>6, <2>7, Zenon DEF ContainerNext, Supervise
<1>3. QED
  BY <1>1, <1>2, PTL DEF ContainerSpec

\* runPostfix returns only when both of its children have ended.
THEOREM ChildrenEnd == ContainerSpec => []NoChildIsLeft
<1>1. ContainerInv => NoChildIsLeft
  BY Zenon DEF ContainerInv
<1>2. QED
  BY <1>1, ContainerInvariance, PTL

\* nginx and rspamd run only with a configuration that was written to its end.
THEOREM RunsWithWholeConfig == ContainerSpec => []ConfigIsWhole
<1>1. ContainerInv => ConfigIsWhole
  BY Zenon DEF ContainerInv, ConfigIsWhole
<1>2. QED
  BY <1>1, ContainerInvariance, PTL

-----------------------------------------------------------------------------
(* PostfixHelper *)

HelpRecord ==
    [pc : {"idle", "sent", "check", "answered", "done"}, op : Operation,
     id : QueueID \union {NoID}, nested : BOOLEAN, status : Nat,
     outcome : {"none", "ok", "not_found", "error"}, asked : BOOLEAN, absent : BOOLEAN]

\* The command was run, or the message of a retry had left the queue.
DoneBy(h) ==
    \/ h.op \in {"summary", "inspect"}
    \/ h.asked
    \/ h.op = "retry" /\ h.absent

\* What is known of a call at each of its steps, if the queue holds fs.
Honest(h, fs) ==
    /\ h.pc = "done" /\ h.outcome = "ok" => DoneBy(h)
    /\ h.nested => h.op = "retry"
    /\ h.op = "retry" => h.id \in QueueID
    /\ h.pc = "check" => h.op = "retry" /\ ~h.nested
    /\ h.pc \in {"sent", "check", "answered"} /\ h.id \in QueueID /\ fs[h.id] = NoFile => h.absent
    /\ h.pc = "answered" /\ ~h.nested /\ h.status \in {200, 204} => DoneBy(h)
    /\ h.pc = "answered" /\ h.nested /\ h.status = 404 => h.absent

HelperInv ==
    /\ helps \in [Client -> HelpRecord]
    /\ \A c \in Client : Honest(helps[c], files)

\* A command takes no message out of the queue.
LEMMA EffectKeeps ==
    ASSUME NEW o, NEW id, NEW i \in QueueID, Effect(o, id)[i] = NoFile
    PROVE  files[i] = NoFile
BY HelperAssumption, Zenon DEF Effect, Moved

\* One call goes on, and the queue loses nothing.
LEMMA CallGoes ==
    ASSUME HelperInv, NEW c \in Client, NEW h \in HelpRecord,
           helps' = [helps EXCEPT ![c] = h], Honest(h, files'),
           \A i \in QueueID : files'[i] = NoFile => files[i] = NoFile
    PROVE  HelperInv'
<1>1. /\ helps' \in [Client -> HelpRecord] /\ helps'[c] = h
      /\ \A d \in Client \ {c} : helps'[d] = helps[d]
  BY Zenon DEF HelperInv
<1>2. ASSUME NEW d \in Client \ {c}
     PROVE  Honest(helps[d], files')
  BY Zenon DEF HelperInv, Honest
<1>3. QED
  BY <1>1, <1>2, Zenon DEF HelperInv

\* The client has its answer, or gives up waiting for it.
LEMMA ReceivesStep ==
    ASSUME HelperInv, NEW c \in Client, NEW ran \in BOOLEAN,
           NEW outcome \in {"ok", "not_found", "error"},
           Receives(c, outcome, ran), helps[c].asked => ran,
           helps[c].pc \in {"sent", "check", "answered"},
           outcome = "ok" /\ ~helps[c].nested => DoneBy(helps[c]),
           outcome = "not_found" /\ helps[c].nested => helps[c].absent,
           \A i \in QueueID : files'[i] = NoFile => files[i] = NoFile
    PROVE  HelperInv'
<1> DEFINE h == helps[c]
           step == IF h.op = "retry" /\ ~h.nested /\ outcome # "ok" THEN "sent" ELSE "done"
           nested == h.op = "retry" /\ outcome # "ok"
           told == IF ~h.nested THEN outcome ELSE IF Retried(outcome) THEN "ok" ELSE "error"
           g == Goes(h, step, nested, 0, told, ran)
<1>1. h \in HelpRecord /\ Honest(h, files)
  BY Zenon DEF HelperInv
<1>2. helps' = [helps EXCEPT ![c] = g]
  BY Zenon DEF Receives
<1>3. step \in {"sent", "done"} /\ told \in {"ok", "not_found", "error"} /\ nested \in BOOLEAN
  BY Zenon
<1> HIDE DEF step, told, nested
<1>4. /\ g \in HelpRecord
      /\ g.pc = step /\ g.op = h.op /\ g.id = h.id /\ g.nested = nested
      /\ g.status = 0 /\ g.outcome = told /\ g.asked = ran /\ g.absent = h.absent
  BY <1>1, <1>3, Zenon DEF Goes, HelpRecord
<1> HIDE DEF g
<1>5. DoneBy(h) => DoneBy(g)
  BY <1>4, Zenon DEF DoneBy
<1>6. told = "ok" /\ step = "done" => DoneBy(g)
  <2>1. CASE h.nested
    BY <1>1, <1>4, <2>1, Zenon DEF Honest, DoneBy, Retried, told
  <2>2. CASE ~h.nested
    BY <1>5, <2>2, Zenon DEF told
  <2>3. QED
    BY <1>1, <2>1, <2>2, Zenon
<1>7. Honest(g, files')
  BY <1>1, <1>3, <1>4, <1>6, Zenon DEF Honest, nested, step
<1>8. QED
  BY <1>2, <1>4, <1>7, CallGoes, Zenon

\* An answer of the helper, for a command that was run or one that a retry did
\* not need any more, leaves the client with the truth.
LEMMA AnswerStep ==
    ASSUME HelperInv, NEW c \in Client, NEW ran \in BOOLEAN, NEW status \in Nat,
           Answer(c, status, ran), helps[c].asked => ran,
           helps[c].pc \in {"sent", "check"},
           ~helps[c].nested /\ status \in {200, 204} =>
              ran \/ helps[c].op \in {"summary", "inspect"} \/ (helps[c].op = "retry" /\ helps[c].absent),
           status = 404 /\ helps[c].nested => helps[c].absent,
           \A i \in QueueID : files'[i] = NoFile => files[i] = NoFile
    PROVE  HelperInv'
<1> DEFINE h == helps[c]
           g == Goes(h, "answered", h.nested, status, h.outcome, ran)
<1>1. h \in HelpRecord /\ Honest(h, files)
  BY Zenon DEF HelperInv
<1>2. helps' = [helps EXCEPT ![c] = g]
  BY Zenon DEF Answer
<1>3. h.nested \in BOOLEAN /\ h.outcome \in {"none", "ok", "not_found", "error"}
  BY <1>1, Zenon DEF HelpRecord
<1>4. /\ g \in HelpRecord
      /\ g.pc = "answered" /\ g.op = h.op /\ g.id = h.id /\ g.nested = h.nested
      /\ g.status = status /\ g.asked = ran /\ g.absent = h.absent
  <2>1. /\ h.op \in Operation /\ h.id \in QueueID \union {NoID} /\ h.absent \in BOOLEAN
    BY <1>1, Zenon DEF HelpRecord
  <2>2. g = [pc |-> "answered", op |-> h.op, id |-> h.id, nested |-> h.nested, status |-> status,
             outcome |-> h.outcome, asked |-> ran, absent |-> h.absent]
    BY Zenon DEF Goes
  <2> HIDE DEF g, h
  <2>3. g \in HelpRecord
    BY <1>3, <2>1, <2>2, Zenon DEF HelpRecord
  <2>4. QED
    BY <2>2, <2>3, Zenon
<1> HIDE DEF g
<1>5. Honest(g, files')
  BY <1>1, <1>4, ZenonT(30) DEF Honest, DoneBy
<1>6. QED
  BY <1>2, <1>4, <1>5, CallGoes, Zenon

\* Every step keeps the calls honest.
LEMMA HelperStep ==
    ASSUME HelperInv, [HelperNext]_helperVars
    PROVE  HelperInv'
<1>1. \A c \in Client : helps[c] \in HelpRecord /\ Honest(helps[c], files)
  BY Zenon DEF HelperInv
<1>2. ASSUME NEW i \in QueueID, Deliver(i)
     PROVE  HelperInv'
  <2>1. CASE files' = [files EXCEPT ![i] = NoFile] /\ Vanishes(i)
    <3> DEFINE New(c) == IF helps[c].id = i /\ helps[c].pc \notin {"idle", "done"}
                         THEN [helps[c] EXCEPT !.absent = TRUE] ELSE helps[c]
    <3>1. helps' = [c \in Client |-> New(c)]
      BY <2>1, Zenon DEF Vanishes
    <3>2. ASSUME NEW c \in Client
         PROVE  New(c) \in HelpRecord /\ Honest(New(c), files')
      <4>1. CASE helps[c].id = i /\ helps[c].pc \notin {"idle", "done"}
        <5> DEFINE h == helps[c]
                   g == [h EXCEPT !.absent = TRUE]
        <5>1. h \in HelpRecord /\ Honest(h, files)
          BY <1>1, Zenon
        <5>2. /\ g \in HelpRecord
              /\ g.pc = h.pc /\ g.op = h.op /\ g.id = h.id /\ g.nested = h.nested
              /\ g.status = h.status /\ g.asked = h.asked /\ g.absent /\ g.outcome = h.outcome
          BY <5>1, Zenon DEF HelpRecord
        <5>3. New(c) = g
          BY <4>1, Zenon
        <5> HIDE DEF g
        <5>4. Honest(g, files')
          BY <5>1, <5>2 DEF Honest, DoneBy
        <5>5. QED
          BY <5>2, <5>3, <5>4, Zenon
      <4>2. CASE ~(helps[c].id = i /\ helps[c].pc \notin {"idle", "done"})
        <5>1. New(c) = helps[c]
          BY <4>2, Zenon
        <5>2. \A j \in QueueID \ {i} : files'[j] = NoFile => files[j] = NoFile
          BY <2>1
        <5>3. QED
          BY <1>1, <4>2, <5>1, <5>2, Zenon DEF Honest
      <4>3. QED
        BY <4>1, <4>2, Zenon
    <3> HIDE DEF New
    <3>3. QED
      BY <3>1, <3>2, Zenon DEF HelperInv
  <2>2. CASE files' = [files EXCEPT ![i] = "deferred"] /\ UNCHANGED helps
    <3>1. \A j \in QueueID : files'[j] = NoFile => files[j] = NoFile
      BY <2>2, HelperAssumption
    <3>2. QED
      BY <2>2, <3>1, Zenon DEF HelperInv, Honest
  <2>3. QED
    BY <1>2, <2>1, <2>2, Zenon DEF Deliver
<1>3. ASSUME NEW i \in QueueID, Arrive(i)
     PROVE  HelperInv'
  <2>1. \A j \in QueueID : files'[j] = NoFile => files[j] = NoFile
    BY <1>3, HelperAssumption DEF Arrive
  <2>2. helps' = helps
    BY <1>3, Zenon DEF Arrive
  <2>3. QED
    BY <2>1, <2>2, Zenon DEF HelperInv, Honest
<1>4. ASSUME NEW c \in Client, Call(c)
     PROVE  HelperInv'
  <2>1. PICK o \in Operation, id \in QueueID \union {NoID} :
           LET refused == o \in Releasing /\ c \notin ReleaseHolder
           IN  /\ o = "retry" => id # NoID
               /\ helps' = [helps EXCEPT ![c] =
                    [pc |-> IF refused THEN "done" ELSE "sent", op |-> o, id |-> id,
                     nested |-> FALSE, status |-> 0,
                     outcome |-> IF refused THEN "error" ELSE "none",
                     asked |-> FALSE, absent |-> id # NoID /\ files[id] = NoFile]]
    BY <1>4, Zenon DEF Call
  <2> DEFINE refused == o \in Releasing /\ c \notin ReleaseHolder
             step == IF refused THEN "done" ELSE "sent"
             outcome == IF refused THEN "error" ELSE "none"
             absent == id # NoID /\ files[id] = NoFile
             g == [pc |-> step, op |-> o, id |-> id, nested |-> FALSE, status |-> 0,
                   outcome |-> outcome, asked |-> FALSE, absent |-> absent]
  <2>2. helps' = [helps EXCEPT ![c] = g] /\ (o = "retry" => id # NoID)
    BY <2>1, Zenon
  <2>3. /\ step \in {"done", "sent"} /\ outcome \in {"error", "none"} /\ absent \in BOOLEAN
        /\ id \in QueueID /\ files[id] = NoFile => absent
    BY HelperAssumption, Zenon
  <2> HIDE DEF step, outcome, absent
  <2>4. /\ g \in HelpRecord /\ g.pc = step /\ g.op = o /\ g.id = id /\ ~g.nested
        /\ g.outcome = outcome /\ g.absent = absent
    BY <2>3, Zenon DEF HelpRecord
  <2> HIDE DEF g
  <2>5. files' = files
    BY <1>4, Zenon DEF Call
  <2>6. Honest(g, files')
    BY <2>2, <2>3, <2>4, <2>5, Zenon DEF Honest
  <2>7. QED
    BY <2>2, <2>4, <2>5, <2>6, CallGoes, Zenon
<1>5. ASSUME NEW c \in Client, Receive(c)
     PROVE  HelperInv'
  <2> DEFINE outcome == callOptional(Current(c), helps[c].status)
  <2>1. helps[c].pc = "answered" /\ Receives(c, outcome, helps[c].asked) /\ files' = files
    BY <1>5, Zenon DEF Receive
  <2>2. helps[c].asked \in BOOLEAN
    BY <1>1, Zenon DEF HelpRecord
  <2>3. /\ outcome \in {"ok", "not_found", "error"}
        /\ outcome = "ok" => helps[c].status \in {200, 204}
        /\ outcome = "not_found" => helps[c].status = 404
    BY DEF callOptional
  <2> HIDE DEF outcome
  <2>4. outcome = "ok" /\ ~helps[c].nested => DoneBy(helps[c])
    BY <1>1, <2>1, <2>3, Zenon DEF Honest
  <2>5. outcome = "not_found" /\ helps[c].nested => helps[c].absent
    BY <1>1, <2>1, <2>3, Zenon DEF Honest
  <2>6. \A i \in QueueID : files'[i] = NoFile => files[i] = NoFile
    BY <2>1, Zenon
  <2>7. helps[c].pc \in {"sent", "check", "answered"}
    BY <2>1, Zenon
  <2>8. QED
    BY <2>1, <2>2, <2>3, <2>4, <2>5, <2>6, <2>7, ReceivesStep
<1>6. ASSUME NEW c \in Client, Lose(c)
     PROVE  HelperInv'
  <2>1. PICK runs \in BOOLEAN :
          /\ files' = IF runs THEN Effect(Current(c), helps[c].id) ELSE files
          /\ Receives(c, "error", helps[c].asked \/ runs)
    BY <1>6, Zenon DEF Lose
  <2>2. \A i \in QueueID : files'[i] = NoFile => files[i] = NoFile
    BY <2>1, EffectKeeps
  <2>3. QED
    BY <1>6, <2>1, <2>2, ReceivesStep, Zenon DEF Lose
<1>7. ASSUME NEW c \in Client, Unauthorized(c)
     PROVE  HelperInv'
  <2>1. helps[c].asked \in BOOLEAN
    BY <1>1 DEF HelpRecord
  <2>2. QED
    BY <1>7, <2>1, AnswerStep DEF Unauthorized
<1>8. ASSUME NEW c \in Client, Look(c)
     PROVE  HelperInv'
  <2> DEFINE h == helps[c]
             status == IF Current(c) = "summary" THEN SummaryStatus(h.id)
                       ELSE IF files[h.id] = NoFile THEN 409 ELSE 200
  <2>1. /\ h.pc = "sent" /\ Answer(c, status, h.asked) /\ files' = files
        /\ Current(c) \in {"summary", "inspect"}
    BY <1>8, Zenon DEF Look
  <2>2. status \in {200, 404, 409} /\ (status = 404 => h.id # NoID /\ files[h.id] = NoFile)
    BY DEF SummaryStatus
  <2> HIDE DEF status
  <2>3. h.asked \in BOOLEAN /\ h.id \in QueueID \union {NoID}
    BY <1>1, Zenon DEF HelpRecord
  <2>4. status = 404 => h.absent
    BY <1>1, <2>1, <2>2, <2>3, Zenon DEF Honest
  <2>5. ~h.nested => h.op \in {"summary", "inspect"}
    BY <2>1, Zenon DEF Current
  <2>6. status \in Nat
    BY <2>2
  <2>7. QED
    BY <2>1, <2>3, <2>4, <2>5, <2>6, AnswerStep, Zenon
<1>9. ASSUME NEW c \in Client, Run(c)
     PROVE  HelperInv'
  <2>1. /\ helps[c].pc = "sent" /\ Answer(c, 204, TRUE)
        /\ files' = Effect(Current(c), helps[c].id)
    BY <1>9, Zenon DEF Run
  <2>2. \A i \in QueueID : files'[i] = NoFile => files[i] = NoFile
    BY <2>1, EffectKeeps, Zenon
  <2> DEFINE status == 204
             ran == TRUE
  <2>3. Answer(c, status, ran) /\ ran \in BOOLEAN /\ ran
    BY <2>1, Zenon
  <2>4. status \in Nat /\ status # 404
    OBVIOUS
  <2> HIDE DEF status, ran
  <2>5. QED
    BY <2>1, <2>2, <2>3, <2>4, AnswerStep, Zenon
<1>10. ASSUME NEW c \in Client, RunFails(c)
     PROVE  HelperInv'
  <2>1. PICK runs \in BOOLEAN :
          /\ files' = IF runs THEN Effect(Current(c), helps[c].id) ELSE files
          /\ IF Current(c) = "retry"
             THEN helps' = [helps EXCEPT ![c] =
                              Goes(@, "check", @.nested, @.status, @.outcome, @.asked \/ runs)]
             ELSE Answer(c, 409, helps[c].asked \/ runs)
    BY <1>10 DEF RunFails
  <2>2. \A i \in QueueID : files'[i] = NoFile => files[i] = NoFile
    BY <2>1, EffectKeeps
  <2>3. helps[c].pc = "sent"
    BY <1>10, Zenon DEF RunFails
  <2>4. CASE Current(c) = "retry"
    <3> DEFINE h == helps[c]
               ran == h.asked \/ runs
               g == Goes(h, "check", h.nested, h.status, h.outcome, ran)
    <3>1. h.op = "retry" /\ ~h.nested
      BY <2>4, Zenon DEF Current
    <3>2. ran \in BOOLEAN
      BY Zenon
    <3> HIDE DEF ran
    <3>3. h \in HelpRecord /\ Honest(h, files)
      BY <1>1, Zenon
    <3>4. /\ g \in HelpRecord /\ g.pc = "check" /\ g.op = h.op /\ g.id = h.id
          /\ g.nested = h.nested /\ g.absent = h.absent
      BY <3>2, <3>3, Zenon DEF Goes, HelpRecord
    <3>5. helps' = [helps EXCEPT ![c] = g]
      BY <2>1, <2>4, Zenon DEF ran
    <3> HIDE DEF g
    <3>6. Honest(g, files')
      BY <2>2, <2>3, <3>1, <3>3, <3>4, Zenon DEF Honest
    <3>7. QED
      BY <2>2, <3>4, <3>5, <3>6, CallGoes, Zenon
  <2>5. CASE Current(c) # "retry"
    <3> DEFINE status == 409
               ran == helps[c].asked \/ runs
    <3>1. /\ Answer(c, status, ran)
          /\ status \in Nat /\ status \notin {200, 204, 404}
          /\ ran \in BOOLEAN /\ (helps[c].asked => ran)
      BY <2>1, <2>5
    <3> HIDE DEF status, ran
    <3>2. QED
      BY <2>2, <2>3, <3>1, AnswerStep, Zenon
  <2>6. QED
    BY <2>4, <2>5, Zenon
<1>11. ASSUME NEW c \in Client, Check(c)
     PROVE  HelperInv'
  <2> DEFINE h == helps[c]
             status == IF files[h.id] = NoFile THEN 204 ELSE 409
  <2>1. h.pc = "check" /\ Answer(c, status, h.asked) /\ files' = files
    BY <1>11, Zenon DEF Check
  <2>2. status \in {204, 409} /\ (status = 204 => files[h.id] = NoFile)
    OBVIOUS
  <2> HIDE DEF status
  <2>3. h.asked \in BOOLEAN
    BY <1>1, Zenon DEF HelpRecord
  <2>4. status = 204 => h.op = "retry" /\ h.absent
    BY <1>1, <2>1, <2>2, Zenon DEF Honest
  <2>5. status \in Nat /\ status # 404 /\ status # 200
    BY <2>2
  <2>6. QED
    BY <2>1, <2>3, <2>4, <2>5, AnswerStep, Zenon
<1>12. ASSUME NEW c \in Client, CheckFails(c)
     PROVE  HelperInv'
  <2>1. helps[c].asked \in BOOLEAN
    BY <1>1 DEF HelpRecord
  <2>2. QED
    BY <1>12, <2>1, AnswerStep DEF CheckFails
<1>13. CASE UNCHANGED helperVars
  BY <1>13, Zenon DEF helperVars, HelperInv
<1>14. QED
  BY <1>2, <1>3, <1>4, <1>5, <1>6, <1>7, <1>8, <1>9, <1>10, <1>11, <1>12, <1>13, Zenon DEF HelperNext

\* Success is only told of what was done, for any number of clients, messages
\* and faults.
THEOREM HelperTellsTheTruth == HelperSpec => []OkWasDone
<1>1. HelperInit => HelperInv
  <2>1. Idle \in HelpRecord /\ \A fs : Honest(Idle, fs)
    BY Zenon DEF Idle, HelpRecord, Honest, Operation
  <2>2. QED
    BY <2>1, Zenon DEF HelperInit, HelperInv
<1>2. HelperInv => OkWasDone
  BY Zenon DEF HelperInv, Honest, DoneBy, OkWasDone
<1>3. QED
  BY <1>1, <1>2, HelperStep, PTL DEF HelperSpec
=============================================================================
