------------------------- MODULE OutboundPolicyLoop -------------------------
(***************************************************************************)
(* The body of Evaluate (internal/outboundpolicy/policy.go) as the code    *)
(* runs it: the early returns, the loop over the governing list with its   *)
(* two maps, and the conclusion drawn from them.  It is checked against    *)
(* the set-based Evaluate of OutboundPolicy, which every other module      *)
(* uses.                                                                   *)
(***************************************************************************)
EXTENDS OutboundPolicy

CONSTANTS
    Request,  \* the requests to evaluate
    Undecided \* no decision has been returned yet

\* Requests are any the callers can form, valid or not.
ASSUME RequestAssumption ==
    /\ Request \subseteq
        [stage: STRING, validQueueID: BOOLEAN, recipient: Domain \cup {Malformed},
         governing: Seq([domain: Domain \cup {Malformed}, scope: STRING,
                         revision: Nat])]
    /\ Undecided \notin Decision

VARIABLES
    request,        \* the argument of this call
    visited,        \* governing entries visited so far
    authoritative,  \* the map from domains to their first entry
    restricted,     \* the map from restricted domains to revisions, as pairs
    decision        \* the result

loopVars == <<request, visited, authoritative, restricted, decision>>

LoopInit ==
    /\ request \in Request
    /\ visited = 0
    /\ authoritative = {}
    /\ restricted = {}
    /\ decision = Undecided

Refused ==
    \/ request.stage \notin Stage
    \/ request.stage = "transport" /\ ~request.validQueueID
    \/ Len(request.governing) \notin 1..MaxGoverning
    \/ request.recipient = Malformed

Refuse ==
    /\ decision = Undecided
    /\ Refused
    /\ decision' = Unavailable
    /\ UNCHANGED <<request, visited, authoritative, restricted>>

Entry == request.governing[visited + 1]

Visiting ==
    /\ decision = Undecided
    /\ ~Refused
    /\ visited < Len(request.governing)

\* An entry that is invalid, or that contradicts an earlier one.
VisitBad ==
    /\ Visiting
    /\ \/ Entry \notin GoverningDomain
       \/ \E x \in authoritative : x.domain = Entry.domain /\ x # Entry
    /\ decision' = Unavailable
    /\ UNCHANGED <<request, visited, authoritative, restricted>>

VisitRepeated ==
    /\ Visiting
    /\ Entry \in GoverningDomain
    /\ Entry \in authoritative
    /\ visited' = visited + 1
    /\ UNCHANGED <<request, authoritative, restricted, decision>>

VisitNew ==
    /\ Visiting
    /\ Entry \in GoverningDomain
    /\ \A x \in authoritative : x.domain # Entry.domain
    /\ visited' = visited + 1
    /\ authoritative' = authoritative \cup {Entry}
    /\ restricted' = IF Entry.scope = "same_domain_only"
                     THEN restricted \cup {<<Entry.domain, Entry.revision>>}
                     ELSE restricted
    /\ UNCHANGED <<request, decision>>

\* Wrong: the conflict of two restricted domains is not looked for.
ConclusionAnyMatch ==
    IF restricted = {} THEN
        Verdict("ok", "outbound_scope_unrestricted", {})
    ELSE IF \E x \in restricted : x[1] = request.recipient THEN
        Verdict("ok", "same_domain", restricted)
    ELSE IF request.stage = "transport" THEN
        Verdict("defer", "recipient_domain_policy_hold", restricted)
    ELSE
        Verdict("reject", "recipient_domain_forbidden", restricted)

Conclusion ==
    IF restricted = {} THEN
        Verdict("ok", "outbound_scope_unrestricted", {})
    ELSE IF \E x, y \in restricted : x # y THEN
        IF request.stage = "transport"
        THEN Verdict("defer", "recipient_domain_policy_hold", restricted)
        ELSE Verdict("reject", "cross_domain_policy_conflict", restricted)
    ELSE IF \E x \in restricted : x[1] = request.recipient THEN
        Verdict("ok", "same_domain", restricted)
    ELSE IF request.stage = "transport" THEN
        Verdict("defer", "recipient_domain_policy_hold", restricted)
    ELSE
        Verdict("reject", "recipient_domain_forbidden", restricted)

Conclude ==
    /\ decision = Undecided
    /\ ~Refused
    /\ visited = Len(request.governing)
    /\ decision' = Conclusion
    /\ UNCHANGED <<request, visited, authoritative, restricted>>

LoopNext == Refuse \/ VisitBad \/ VisitRepeated \/ VisitNew \/ Conclude

LoopSpec == LoopInit /\ [][LoopNext]_loopVars

-----------------------------------------------------------------------------
\* Evaluate (policy.go:156) computes what the set-based definition says: the
\* order of the governing list and its repetitions never change a decision,
\* and no early return of the loop hides a restriction seen later.
EvaluateAgrees ==
    decision # Undecided => decision = Evaluate(request)

Tighten(governing, d) ==
    [i \in DOMAIN governing |->
        IF governing[i].domain = d
        THEN [governing[i] EXCEPT !.scope = "same_domain_only"]
        ELSE governing[i]]

\* Turning a governing domain from unrestricted to same_domain_only never
\* turns a refusal into a permission, whatever the stage and the other
\* governing domains (policy.go:194-211): activating a policy only tightens.
RestrictionNeverPermits ==
    LET entries == {request.governing[i] : i \in DOMAIN request.governing}
    IN  decision # Undecided /\ ValidGoverning(entries) =>
            \A d \in Domain :
                Evaluate([request EXCEPT !.governing = Tighten(@, d)]).action
                    = "ok"
                => decision.action = "ok"
=============================================================================
