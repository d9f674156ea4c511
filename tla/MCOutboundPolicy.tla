-------------------------- MODULE MCOutboundPolicy --------------------------
(***************************************************************************)
(* The policy decision, the submission of one message and the activation   *)
(* of a policy with several queued messages.  They are checked side by     *)
(* side and not in product: the initial state says which one a behaviour   *)
(* is about.                                                               *)
(***************************************************************************)
EXTENDS OutboundPolicyLoop, OutboundQueue, Submission, TLC

CONSTANTS
    a, b, x,                   \* two hosted domains and an external one
    m1, m2, s1, s2, p1, q1, q2,
    owner, list, sales, other, stranger,   \* addresses
    listRow, salesRow, catchAll, twin, robot

VARIABLE side

S == INSTANCE SequencesExt

-----------------------------------------------------------------------------
(* Requests of up to MaxGoverning + 1 governing entries, some of them      *)
(* invalid, repeated or contradictory, at every stage.                     *)

MCEntry ==
    [domain: {a, b}, scope: Scope, revision: {1}]
      \cup {[domain |-> a, scope |-> "same_domain_only", revision |-> 2],
            [domain |-> a, scope |-> "unrestricted", revision |-> 0],
            [domain |-> Malformed, scope |-> "unrestricted", revision |-> 1]}

MCRequest ==
    [stage: Stage \cup {"unknown"}, validQueueID: BOOLEAN,
     recipient: {a, b, Malformed},
     governing: S!BoundedSeq(MCEntry, MaxGoverning + 1)]

-----------------------------------------------------------------------------
(* Two queued messages, from two sources of a; the second leaves a.        *)

MCSourceDomain == [s \in Source |-> a]
MCRecipients == [m \in Message |-> IF m = m1 THEN {a, x} ELSE {x}]
MCSources == [m \in Message |-> IF m = m1 THEN {s1} ELSE {s2}]

-----------------------------------------------------------------------------
(* owner@a is a mailbox, list@a and sales@b are aliases, b has a catch-all *)
(* for other@b, and stranger@x is elsewhere.  twin is a second row for     *)
(* list@a whose local part differs in case.                                *)

MCAliasName ==
    listRow :> list @@ twin :> list @@ salesRow :> sales @@ catchAll :> "*"

MCHomeDomain ==
    [r \in {owner, list, listRow, twin, robot} |-> a]
      @@ [r \in {sales, other, salesRow, catchAll} |-> b] @@ stranger :> x

MCTables ==
    {listRow :> l @@ salesRow :> s @@ catchAll :> c @@ twin :> {owner} :
        l \in {{owner}, {sales}, {stranger}, {owner, stranger}, {list, owner}, {owner, sales}},
        s \in {{other}, {stranger}, {list, stranger}},
        c \in {{stranger}, {sales}}}

-----------------------------------------------------------------------------
Symmetry == Permutations(Queue)

MCInit ==
    /\ side \in {"decision", "submission", "activation"}
    /\ Init
    /\ IF side = "decision" THEN LoopInit
       ELSE /\ request = [stage |-> "unknown", validQueueID |-> FALSE,
                          recipient |-> Malformed, governing |-> <<>>]
            /\ visited = 0 /\ authoritative = {} /\ restricted = {}
            /\ decision = Undecided
    /\ IF side = "submission" THEN SubmissionInit
       ELSE /\ targets = <<>> /\ live = {} /\ confined = {}
            /\ letter = NoLetter /\ lookup = NoLookup /\ edits = 0

MCNext ==
    /\ \/ side = "decision" /\ LoopNext /\ UNCHANGED <<vars, submissionVars>>
       \/ side = "submission" /\ SubmissionNext /\ UNCHANGED <<vars, loopVars>>
       \/ side = "activation" /\ Next /\ UNCHANGED <<loopVars, submissionVars>>
    /\ UNCHANGED side

MCSpec == MCInit /\ [][MCNext]_<<side, vars, loopVars, submissionVars>>
=============================================================================
