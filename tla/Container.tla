------------------------------ MODULE Container ------------------------------
(***************************************************************************)
(* gotth-mail-entrypoint, the first process of each container.  In the     *)
(* Postfix container it runs the helper and Postfix side by side           *)
(* (runPostfix); in the containers of nginx and rspamd it writes a         *)
(* configuration file with a secret in it and becomes that program         *)
(* (renderSecretConfig).  Containers are killed and started again.         *)
(***************************************************************************)
EXTENDS Naturals

CONSTANT MaxRestarts

VARIABLES
    stage,      \* of runPostfix
    child,      \* [Children -> the state of the process]
    waited,     \* the children whose Wait has returned
    signalled,  \* SIGTERM or SIGINT waits in the channel
    rendered,   \* the configuration file in /tmp
    front,      \* the step of renderSecretConfig
    restarts

containerVars == <<stage, child, waited, signalled, rendered, front, restarts>>

Children == {"helper", "postfix"}

ContainerInit ==
    /\ stage = "begin"
    /\ child = [c \in Children |-> "absent"]
    /\ waited = {} /\ signalled = FALSE
    /\ rendered = "absent" /\ front = "create"
    /\ restarts = 0

frontVars == <<rendered, front, restarts>>

-----------------------------------------------------------------------------
(* runPostfix *)

\* Start fails without a process.
StartHelper ==
    /\ stage = "begin"
    /\ \/ stage' = "helper" /\ child' = [child EXCEPT !["helper"] = "running"]
       \/ stage' = "failed" /\ UNCHANGED child
    /\ UNCHANGED <<waited, signalled, frontVars>>

\* The helper is killed when Postfix does not start.
StartPostfix ==
    /\ stage = "helper"
    /\ \/ stage' = "select" /\ child' = [child EXCEPT !["postfix"] = "running"]
       \/ stage' = "failed" /\ child' = [child EXCEPT !["helper"] = "ended"]
    /\ UNCHANGED <<waited, signalled, frontVars>>

Exits(c) ==
    /\ child[c] = "running"
    /\ child' = [child EXCEPT ![c] = "ended"]
    /\ UNCHANGED <<stage, waited, signalled, frontVars>>

\* Wrong: only Postfix is waited for.
WaitPostfix(c) ==
    /\ c = "postfix"
    /\ stage = "select" /\ child[c] = "ended" /\ c \notin waited
    /\ waited' = waited \union {c}
    /\ UNCHANGED <<stage, child, signalled, frontVars>>

\* One goroutine for each.
Wait(c) ==
    /\ stage = "select" /\ child[c] = "ended" /\ c \notin waited
    /\ waited' = waited \union {c}
    /\ UNCHANGED <<stage, child, signalled, frontVars>>

Signal ==
    /\ stage = "select" /\ ~signalled
    /\ signalled' = TRUE
    /\ UNCHANGED <<stage, child, waited, frontVars>>

\* Both children get SIGTERM, which they may ignore, and five seconds.
Terminate ==
    /\ stage = "select"
    /\ \/ signalled /\ stage' = "terminating"
       \/ waited # {} /\ stage' = "terminatingFailed"
    /\ UNCHANGED <<child, waited, signalled, frontVars>>

Kill ==
    /\ stage \in {"terminating", "terminatingFailed"}
    /\ child' = [c \in Children |-> "ended"]
    /\ stage' = IF stage = "terminating" THEN "stopped" ELSE "failed"
    /\ UNCHANGED <<waited, signalled, frontVars>>

-----------------------------------------------------------------------------
(* renderSecretConfig *)

postfixVars == <<stage, child, waited, signalled>>

\* O_EXCL: a file that is there is an error.
CreateConfig ==
    /\ front = "create"
    /\ IF rendered = "absent" THEN rendered' = "empty" /\ front' = "write"
       ELSE front' = "failed" /\ UNCHANGED rendered
    /\ UNCHANGED <<postfixVars, restarts>>

WriteConfig ==
    /\ front = "write"
    /\ \/ rendered' = "whole" /\ front' = "exec"
       \/ front' = "failed" /\ UNCHANGED rendered
    /\ UNCHANGED <<postfixVars, restarts>>

Exec ==
    /\ front = "exec"
    /\ front' = "running"
    /\ UNCHANGED <<postfixVars, rendered, restarts>>

-----------------------------------------------------------------------------

\* A container is killed, or ended, and starts anew; what is in /tmp is kept
\* unless it is a file system in memory.
RestartPostfix ==
    /\ restarts < MaxRestarts
    /\ restarts' = restarts + 1
    /\ stage' = "begin" /\ child' = [c \in Children |-> "absent"]
    /\ waited' = {} /\ signalled' = FALSE
    /\ UNCHANGED <<rendered, front>>

RestartFront ==
    /\ restarts < MaxRestarts
    /\ restarts' = restarts + 1
    /\ front' = "create"
    /\ rendered' \in {rendered, "absent"}
    /\ UNCHANGED postfixVars

Supervise ==
    StartHelper \/ StartPostfix \/ (\E c \in Children : Wait(c)) \/ Terminate \/ Kill

ContainerNext ==
    \/ Supervise
    \/ \E c \in Children : Exits(c)
    \/ Signal
    \/ CreateConfig \/ WriteConfig \/ Exec
    \/ RestartPostfix \/ RestartFront

ContainerSpec == ContainerInit /\ [][ContainerNext]_containerVars

-----------------------------------------------------------------------------

\* runPostfix returns only when both of its children have ended, the one that
\* ignored SIGTERM included.
NoChildIsLeft == stage \in {"stopped", "failed"} => \A c \in Children : child[c] # "running"

\* nginx and rspamd run with a configuration that was written to its end.
ConfigIsWhole == front = "running" => rendered = "whole"

\* Postfix does not go on without its helper, nor the helper without Postfix:
\* once one of them has ended, the entrypoint ends (or is started anew).
StopTogether ==
    (\E c \in Children : child[c] = "ended") ~> (stage \in {"stopped", "failed", "begin"})
=============================================================================
