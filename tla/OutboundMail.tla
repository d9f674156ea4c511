---------------------------- MODULE OutboundMail ----------------------------
(***************************************************************************)
(* Queued messages and the policy that governs them: which hosted objects  *)
(* a message comes from, which domains it goes to, and which of its        *)
(* recipients a state of the policy tables permits at final transport      *)
(* (internal/outboundpolicy/queue.go, decision.go).                        *)
(*                                                                         *)
(* A message is an arrival identity: the fingerprint, the sender, the      *)
(* recipient set and the source set that QueueStore binds to a queue ID.   *)
(* Two arrivals under one queue ID are two messages.  A recipient is       *)
(* represented by its domain, all that Evaluate looks at.                  *)
(***************************************************************************)
EXTENDS OutboundPolicy

CONSTANTS
    Queue,         \* Postfix long queue IDs
    Message,       \* arrival identities
    Hosted,        \* the rows of the domains table
    Source,        \* mailboxes, aliases and system senders
    SourceDomain,  \* the hosted domain of a source
    Recipients,    \* the recipient domains of a message
    Sources,       \* the source objects of a message
    NoMessage

ASSUME MailAssumption ==
    /\ Hosted \subseteq Domain
    /\ SourceDomain \in [Source -> Hosted]
    /\ Recipients \in [Message -> (SUBSET Domain) \ {{}}]
    /\ Sources \in [Message -> (SUBSET Source) \ {{}}]
    /\ NoMessage \notin Message

\* resolvePolicySources: the governing entries of a message under a policy.
\* A deleted source resolves like a disabled one; hosted domains stay enabled.
Governing(m, sc, rv) ==
    {[domain   |-> SourceDomain[s],
      scope    |-> sc[SourceDomain[s]],
      revision |-> rv[SourceDomain[s]]] : s \in Sources[m]}

\* The recipients of a message that a policy permits at final transport; none
\* when a source is disabled, for resolvePolicySources then fails.
Permitted(m, sc, rv, on) ==
    {r \in Recipients[m] :
        Sources[m] \subseteq on /\ Permits(r, Governing(m, sc, rv))}
=============================================================================
