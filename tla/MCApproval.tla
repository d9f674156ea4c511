----------------------------- MODULE MCApproval -----------------------------
(* The approvals, the queue commands they end in, and the container that   *)
(* runs those: components that share no state, of which a behaviour is one *)
(* (side).                                                                 *)
EXTENDS Approval, PostfixHelper, Container

VARIABLE side

MCVars == <<vars, helperVars, containerVars, side>>

MCInit ==
    /\ side \in {"approval", "helper", "container"}
    /\ Init /\ HelperInit /\ ContainerInit
    /\ side # "helper" => files = [i \in QueueID |-> NoFile]

\* The container of nginx or rspamd may run for ever.
Rest == side = "container" /\ front \in {"running", "failed"} /\ stage \in {"stopped", "failed"}

MCNext ==
    \/ side = "approval" /\ Next /\ UNCHANGED <<helperVars, containerVars, side>>
    \/ side = "helper" /\ HelperNext /\ UNCHANGED <<vars, containerVars, side>>
    \/ side = "container" /\ ContainerNext /\ UNCHANGED <<vars, helperVars, side>>
    \/ Rest /\ UNCHANGED MCVars

\* FairCallbacks, for the behaviours of the approvals; the entrypoint goes on.
MCFairness ==
    /\ \A c \in Callback : WF_vars(side = "approval" /\ Confirming(c))
    /\ SF_vars(side = "approval" /\ \E c \in Callback : Press(c, bound.account, TRUE))
    /\ WF_vars(side = "approval" /\ Tick)
    /\ <>[][\A c \in Callback : Abort(c) => Confirming(c)]_vars
    /\ WF_containerVars(side = "container" /\ Supervise)

MCSpec == MCInit /\ [][MCNext]_MCVars /\ MCFairness
=============================================================================
