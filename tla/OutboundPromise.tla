--------------------------- MODULE OutboundPromise ---------------------------
(***************************************************************************)
(* What the outbound policy promises about queued mail, without records,   *)
(* locks, reconcilers or activations: a message is handed over only by a   *)
(* delivery attempt during which the policy permitted every recipient, and *)
(* leaves the hold queue only while the policy permits every recipient.    *)
(***************************************************************************)
EXTENDS OutboundMail

CONSTANT Attempt    \* concurrent delivery attempts

VARIABLES
    scope, revision, enabled,   \* the policy tables
    place, message,             \* the Postfix queue
    relayed,                    \* messages the relay accepted
    trying,                     \* the message of each running attempt
    seen                        \* recipients each attempt saw permitted

vars == <<scope, revision, enabled, place, message, relayed, trying, seen>>

policy  == <<scope, revision, enabled>>
postfix == <<place, message>>
attempts == <<trying, seen>>

AllPermitted(m) == Permitted(m, scope, revision, enabled) = Recipients[m]

Init ==
    /\ scope \in [Hosted -> Scope]
    /\ revision = [d \in Hosted |-> 1]
    /\ enabled = Source
    /\ place = [q \in Queue |-> "none"]
    /\ message = [q \in Queue |-> NoMessage]
    /\ relayed = {}
    /\ trying = [t \in Attempt |-> NoMessage]
    /\ seen = [t \in Attempt |-> {}]

\* A policy change is seen by the attempts that are running.
Change ==
    /\ seen' = [t \in Attempt |->
            IF trying[t] \in Message
            THEN seen[t] \cup Permitted(trying[t], scope', revision', enabled')
            ELSE seen[t]]
    /\ UNCHANGED <<postfix, relayed, trying>>

SetScope(d, sc) ==
    /\ scope' = [scope EXCEPT ![d] = sc]
    /\ revision' = [revision EXCEPT ![d] = @ + 1]
    /\ enabled' = enabled
    /\ Change

SetEnabled(on) ==
    /\ enabled' = on
    /\ UNCHANGED <<scope, revision>>
    /\ Change

Begin(t, q) ==
    /\ trying[t] = NoMessage
    /\ place[q] = "queue"
    /\ trying' = [trying EXCEPT ![t] = message[q]]
    /\ seen' = [seen EXCEPT ![t] =
                    Permitted(message[q], scope, revision, enabled)]
    /\ UNCHANGED <<policy, postfix, relayed>>

Stop(t) ==
    /\ trying' = [trying EXCEPT ![t] = NoMessage]
    /\ seen' = [seen EXCEPT ![t] = {}]

GiveUp(t) == Stop(t) /\ UNCHANGED <<policy, postfix, relayed>>

Vanish(q) ==
    /\ place' = [place EXCEPT ![q] = "none"]
    /\ message' = [message EXCEPT ![q] = NoMessage]

HandOver(t) ==
    /\ trying[t] \in Message
    /\ Recipients[trying[t]] \subseteq seen[t]
    /\ relayed' = relayed \cup {trying[t]}
    /\ UNCHANGED postfix \/ \E q \in Queue : message[q] = trying[t] /\ Vanish(q)
    /\ Stop(t)
    /\ UNCHANGED policy

Hold(q) ==
    /\ place[q] = "queue"
    /\ place' = [place EXCEPT ![q] = "hold"]
    /\ UNCHANGED <<policy, message, relayed, attempts>>

Unhold(q) ==
    /\ place[q] = "hold"
    /\ AllPermitted(message[q])
    /\ place' = [place EXCEPT ![q] = "queue"]
    /\ UNCHANGED <<policy, message, relayed, attempts>>

Arrive(q, m) ==
    /\ place[q] = "none"
    /\ place' = [place EXCEPT ![q] = "queue"]
    /\ message' = [message EXCEPT ![q] = m]
    /\ UNCHANGED <<policy, relayed, attempts>>

Remove(q) == Vanish(q) /\ UNCHANGED <<policy, relayed, attempts>>

Next ==
    \/ \E d \in Hosted, sc \in Scope : SetScope(d, sc)
    \/ \E on \in SUBSET Source : SetEnabled(on)
    \/ \E t \in Attempt : GiveUp(t) \/ HandOver(t)
    \/ \E t \in Attempt, q \in Queue : Begin(t, q)
    \/ \E q \in Queue : Hold(q) \/ Unhold(q) \/ Remove(q)
    \/ \E q \in Queue, m \in Message : Arrive(q, m)

Spec == Init /\ [][Next]_vars
=============================================================================
