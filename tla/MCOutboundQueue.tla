--------------------------- MODULE MCOutboundQueue ---------------------------
(***************************************************************************)
(* Values for model checking OutboundQueue: one hosted domain a whose mail *)
(* the policy may restrict, one external domain x, one queue ID.  Message  *)
(* m1 is from a mailbox of a to both domains; m2 is a later arrival of the *)
(* same queue ID, from another source of a to x alone.                     *)
(***************************************************************************)
EXTENDS OutboundQueue, TLC

CONSTANTS a, x, m1, m2, s1, s2, p1, p2, q1, q2

MCSourceDomain == [s \in Source |-> a]
MCRecipients == [m \in Message |-> IF m = m1 THEN {a, x} ELSE {x}]
MCSources == [m \in Message |-> IF m = m1 THEN {s1} ELSE {s2}]

Symmetry == Permutations(Proc) \cup Permutations(Queue)
=============================================================================
