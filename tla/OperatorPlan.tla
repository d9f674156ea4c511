---------------------------- MODULE OperatorPlan ----------------------------
(***************************************************************************)
(* Changes an operator makes from the command line in two calls: role      *)
(* bindings (rolebinding) and the bearer token of a SCIM client            *)
(* (scimtoken).  The first call shows a plan and its digest; the second    *)
(* loads the state again, under lock in one serializable transaction,      *)
(* computes the plan anew and goes on only if the digest is the one the    *)
(* operator confirms.                                                      *)
(***************************************************************************)
EXTENDS Naturals, FiniteSets

CONSTANTS Operator, Role, Secret, MaxIssued, NoPlan

VARIABLES account,   \* the mailbox of the identity: its address and if it is enabled
          bindings,  \* the binding of each role, 0 if there is none
          token,     \* the SCIM client's row: secret, verifier (0: no row), revoked
          issued,    \* identifiers of bindings and salts of verifiers, never reused
          plans,     \* the plan each operator has seen
          applied    \* history: what the last change replaced, and what was shown

planVars == <<account, bindings, token, issued, plans, applied>>

-----------------------------------------------------------------------------
(* Role bindings                                                           *)

RoleOperation(op, role) ==
    IF (op = "grant") = (bindings[role] = 0) THEN op ELSE "unchanged"

\* Wrong: the digest does not bind the binding that is there.
RoleDigestOfRequest(op, role, address) ==
    [request |-> op, role |-> role, address |-> address]

\* What the digest binds: the request, the identity with its mailbox, and the
\* binding that is there.
RoleDigest(op, role, address) ==
    [request |-> op, role |-> role, address |-> address, binding |-> bindings[role]]

\* The exact mailbox of the identity, enabled if a role is to be granted.
Loads(op, address) ==
    /\ account.address = address
    /\ op = "grant" => account.enabled

PreviewRole(p, op, role) ==
    /\ Loads(op, account.address)
    /\ plans' = [plans EXCEPT ![p] =
          [kind |-> "role", op |-> op, of |-> role, address |-> account.address,
           digest |-> RoleDigest(op, role, account.address), seen |-> bindings[role]]]
    /\ UNCHANGED <<account, bindings, token, issued, applied>>

Shown(p, kind) == plans[p] # NoPlan /\ plans[p].kind = kind

Noted(p, replaced) == applied' = [seen |-> plans[p].seen, replaced |-> replaced]

ApplyRole(p) ==
    /\ Shown(p, "role")
    /\ LET plan == plans[p]
           op == RoleOperation(plan.op, plan.of)
       IN  /\ Loads(plan.op, plan.address)
           /\ RoleDigest(plan.op, plan.of, plan.address) = plan.digest
           /\ op # "unchanged"
           /\ op = "grant" => issued < MaxIssued
           /\ issued' = IF op = "grant" THEN issued + 1 ELSE issued
           /\ bindings' = [bindings EXCEPT ![plan.of] = IF op = "grant" THEN issued' ELSE 0]
           /\ Noted(p, bindings[plan.of])
    /\ UNCHANGED <<account, token, plans>>

-----------------------------------------------------------------------------
(* The token of a SCIM client                                              *)

TokenOperation(secret) ==
    CASE token.verifier = 0 -> "create"
      [] token.verifier # 0 /\ token.secret # secret -> "rotate"
      [] token.verifier # 0 /\ token.secret = secret /\ token.revoked -> "reactivate"
      [] OTHER -> "unchanged"

TokenDigest(secret) ==
    [operation |-> TokenOperation(secret), secret |-> secret, verifier |-> token.verifier,
     revoked |-> token.revoked]

PreviewToken(p, secret) ==
    /\ plans' = [plans EXCEPT ![p] =
          [kind |-> "token", of |-> secret, digest |-> TokenDigest(secret),
           seen |-> token.verifier]]
    /\ UNCHANGED <<account, bindings, token, issued, applied>>

\* A verifier is salted: the same secret written again is another one.
ApplyToken(p) ==
    /\ Shown(p, "token")
    /\ TokenDigest(plans[p].of) = plans[p].digest
    /\ TokenOperation(plans[p].of) # "unchanged"
    /\ issued < MaxIssued
    /\ issued' = issued + 1
    /\ token' = [secret |-> plans[p].of, verifier |-> issued', revoked |-> FALSE]
    /\ Noted(p, token.verifier)
    /\ UNCHANGED <<account, bindings, plans>>

-----------------------------------------------------------------------------
(* Around them: the mailbox is renamed, disabled or enabled by provisioning, *)
(* the token revoked in the database.                                        *)

Provision ==
    /\ account' \in [address : {"old", "new"}, enabled : BOOLEAN]
    /\ UNCHANGED <<bindings, token, issued, plans, applied>>

RevokeToken ==
    /\ token.verifier # 0
    /\ token' = [token EXCEPT !.revoked = TRUE]
    /\ UNCHANGED <<account, bindings, issued, plans, applied>>

PlanInit ==
    /\ account = [address |-> "old", enabled |-> TRUE]
    /\ bindings = [r \in Role |-> 0]
    /\ token \in {[secret |-> s, verifier |-> 0, revoked |-> FALSE] : s \in Secret}
    /\ issued = 0
    /\ plans = [p \in Operator |-> NoPlan]
    /\ applied = [seen |-> 0, replaced |-> 0]

PlanNext ==
    \/ \E p \in Operator :
          \/ \E op \in {"grant", "revoke"}, r \in Role : PreviewRole(p, op, r)
          \/ ApplyRole(p)
          \/ \E s \in Secret : PreviewToken(p, s)
          \/ ApplyToken(p)
    \/ Provision
    \/ RevokeToken

PlanSpec == PlanInit /\ [][PlanNext]_planVars

-----------------------------------------------------------------------------
(* Properties                                                              *)

\* A confirmed change replaces exactly the row its operator was shown: not a
\* binding granted anew since, and not a token another operator has rotated.
ReplacesWhatWasShown == applied.seen = applied.replaced
=============================================================================
