--------------------------- MODULE AuditRetention ---------------------------
(***************************************************************************)
(* The retention of audit events (ops, SQLAuditStore).  A preview counts   *)
(* what a policy "older-than-Nd" would delete and is remembered; applying  *)
(* it later computes the cutoff again, from the time of the application,   *)
(* and writes its own event in the transaction that deletes.               *)
(***************************************************************************)
EXTENDS Naturals, FiniteSets

CONSTANTS Days, LastDay, MaxEvents, MaxRetentions

ASSUME DaysAssumption == Days \subseteq Nat

VARIABLES today, log, written, offers, retentions

retentionVars == <<today, log, written, offers, retentions>>

\* A policy is a positive number of days.
ValidPolicy(days) == days >= 1

\* The day before which events go; days before the first have no events.
retentionCutoff(days, now) == IF now > days THEN now - days ELSE 0

Older(events, cutoff) == {e \in events : e.day < cutoff}

WriteEvent ==
    /\ written < MaxEvents
    /\ written' = written + 1
    /\ log' = log \union {[id |-> written', day |-> today, by |-> 0]}
    /\ UNCHANGED <<today, offers, retentions>>

PreviewRetention(days) ==
    /\ ValidPolicy(days)
    /\ offers' = offers \union {days}
    /\ UNCHANGED <<today, log, written, retentions>>

\* Wrong: the events go first, in a transaction of their own, and the record
\* of it may be lost.
ApplyRetentionUnrecorded(days) ==
    /\ Cardinality(retentions) < MaxRetentions
    /\ LET cutoff == retentionCutoff(days, today)
       IN  /\ log' = log \ Older(log, cutoff)
           /\ retentions' = retentions \union
                 {[n |-> Cardinality(retentions) + 1, day |-> today, days |-> days,
                   deleted |-> Older(log, cutoff), cutoff |-> cutoff]}
    /\ UNCHANGED <<today, written, offers>>

\* The confirmation is the ID of a preview, which is not consumed; the count it
\* showed is not looked at again.
ApplyRetention(days) ==
    /\ Cardinality(retentions) < MaxRetentions
    /\ LET cutoff == retentionCutoff(days, today)
           n == Cardinality(retentions) + 1
           record == [id |-> MaxEvents + n, day |-> today, by |-> n]
           all == log \union {record}
       IN  /\ log' = all \ Older(all, cutoff)
           /\ retentions' = retentions \union
                 {[n |-> n, day |-> today, days |-> days, deleted |-> Older(all, cutoff),
                   cutoff |-> cutoff]}
    /\ UNCHANGED <<today, written, offers>>

Sunrise ==
    /\ today < LastDay
    /\ today' = today + 1
    /\ UNCHANGED <<log, written, offers, retentions>>

RetentionInit ==
    today = 1 /\ log = {} /\ written = 0 /\ offers = {} /\ retentions = {}

RetentionNext ==
    \/ WriteEvent
    \/ \E days \in Days : PreviewRetention(days)
    \/ \E days \in offers : ApplyRetention(days)
    \/ Sunrise

RetentionSpec == RetentionInit /\ [][RetentionNext]_retentionVars

\* Every deletion can be accounted for: the event of a retention is there
\* until a later retention, whose own event is there, was allowed to take it.
DeletionsAreOnRecord ==
    \A r \in retentions :
        \/ \E e \in log : e.by = r.n
        \/ \E s \in retentions : s.n > r.n /\ r.day < s.cutoff

\* A confirmed preview deletes no event that is younger than its policy says
\* on the day it is applied, however old the preview is.
YoungEventsStay ==
    \A r \in retentions : \A e \in r.deleted : e.day + r.days < r.day

\* Whatever a retention has deleted it was allowed to delete, and it says so.
DeletionsAreJustified == DeletionsAreOnRecord /\ YoungEventsStay
=============================================================================
