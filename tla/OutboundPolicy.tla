--------------------------- MODULE OutboundPolicy ---------------------------
(***************************************************************************)
(* The pure decision procedure of the per-domain outbound policy           *)
(* (internal/outboundpolicy/policy.go).  A request names the enforcement   *)
(* stage, the envelope recipient and the governing domains resolved from   *)
(* the database; Evaluate answers ok, reject or defer.                     *)
(*                                                                         *)
(* Domains are already in the canonical A-label form that NormalizeDomain  *)
(* produces: only equality matters to the policy.  An address or domain    *)
(* that does not normalise is the value Malformed.                         *)
(***************************************************************************)
EXTENDS Integers, Sequences

CONSTANTS
    Domain,       \* canonical DNS names, hosted here or not
    Malformed,    \* any address or domain NormalizeDomain refuses
    MaxGoverning  \* maxGoverningDomains, 64 in the code

ASSUME PolicyAssumption ==
    /\ Malformed \notin Domain
    /\ MaxGoverning \in Nat \ {0}

Scope == {"unrestricted", "same_domain_only"}

Stage == {"submission", "transport"}

Action == {"ok", "reject", "defer"}

Reason == {"outbound_scope_unrestricted", "same_domain",
           "recipient_domain_forbidden", "cross_domain_policy_conflict",
           "recipient_domain_policy_hold", "outbound_policy_unavailable"}

\* The revisions of a decision: a map from restricted domains to revisions,
\* kept as its set of pairs.
Decision == [action: Action, reason: Reason, revisions: SUBSET (Domain \X Nat)]

GoverningDomain == [domain: Domain, scope: Scope, revision: Nat \ {0}]

Verdict(action, reason, revisions) ==
    [action |-> action, reason |-> reason, revisions |-> revisions]

Unavailable == Verdict("defer", "outbound_policy_unavailable", {})

\* Two entries for one domain that disagree on its scope or its revision.
Contradictory(governing) ==
    \E x, y \in governing : x.domain = y.domain /\ x # y

Restricted(governing) ==
    {<<x.domain, x.revision>> :
        x \in {y \in governing : y.scope = "same_domain_only"}}

RestrictedDomains(governing) ==
    {x.domain : x \in {y \in governing : y.scope = "same_domain_only"}}

ValidGoverning(governing) ==
    /\ governing \subseteq GoverningDomain
    /\ ~Contradictory(governing)

(***************************************************************************)
(* The verdict on a set of governing entries.  The loop of Evaluate visits *)
(* a list, but every early return of the loop gives the same answer, so    *)
(* only the set of entries matters.  Every restricted governing domain     *)
(* must equal the recipient's, hence two of them satisfy no recipient.     *)
(***************************************************************************)
Permits(recipient, governing) ==
    /\ ValidGoverning(governing)
    /\ RestrictedDomains(governing) \subseteq {recipient}

PermittedReason(governing) ==
    IF RestrictedDomains(governing) = {}
    THEN "outbound_scope_unrestricted"
    ELSE "same_domain"

RejectedReason(governing) ==
    IF \E d, e \in RestrictedDomains(governing) : d # e
    THEN "cross_domain_policy_conflict"
    ELSE "recipient_domain_forbidden"

Judge(stage, recipient, governing) ==
    IF ~ValidGoverning(governing) THEN
        Unavailable
    ELSE IF Permits(recipient, governing) THEN
        Verdict("ok", PermittedReason(governing), Restricted(governing))
    ELSE IF stage = "transport" THEN
        Verdict("defer", "recipient_domain_policy_hold", Restricted(governing))
    ELSE
        Verdict("reject", RejectedReason(governing), Restricted(governing))

(***************************************************************************)
(* Evaluate of policy.go.  A request carries the governing domains as a    *)
(* list, the recipient as the domain recipientDomain extracts from it, and *)
(* whether its queue ID has the Postfix long form.                         *)
(***************************************************************************)
Evaluate(request) ==
    LET entries == {request.governing[i] : i \in DOMAIN request.governing}
    IN  IF \/ request.stage \notin Stage
           \/ request.stage = "transport" /\ ~request.validQueueID
           \/ Len(request.governing) = 0
           \/ Len(request.governing) > MaxGoverning
           \/ request.recipient = Malformed
        THEN Unavailable
        ELSE Judge(request.stage, request.recipient, entries)
=============================================================================
