---------------------------- MODULE PluginControl ----------------------------
(***************************************************************************)
(* Whether the notification plugin is healthy (internal/plugin, and the    *)
(* process gotth-mail-plugin).  The control plane asks in two calls,       *)
(* Handshake and Health, over a connection that gRPC makes anew when the   *)
(* process at its other end is gone.  Meanwhile processes of other         *)
(* releases, or with other credentials, take over the socket.              *)
(*                                                                         *)
(* A session stands for the fingerprint of a registration's manifest and   *)
(* grant.  Bindings are ready from the start and stay so: nothing moves    *)
(* them on.                                                                *)
(***************************************************************************)
EXTENDS Naturals

CONSTANTS
    Plugin,                    \* the plugin processes
    HealthCaller,              \* requests for the plugin's health
    Session, PluginToken,
    OwnSession, OwnToken,      \* those of the control plane
    MaxStarts,
    NoPlugin

VARIABLES
    plugins,     \* [Plugin -> its state, session and token]
    socket,      \* the process that made the socket at the path
    peer,        \* the process at the other end of the connection
    healthCalls, \* [HealthCaller -> the step, and what the last answer came from]
    pluginStarts

pluginVars == <<plugins, socket, peer, healthCalls, pluginStarts>>

PluginDown == [state |-> "down", session |-> OwnSession, token |-> OwnToken]

NoCall == [pc |-> "idle", session |-> OwnSession, token |-> OwnToken]

PluginInit ==
    /\ plugins = [p \in Plugin |-> PluginDown]
    /\ socket = NoPlugin
    /\ peer = NoPlugin
    /\ healthCalls = [c \in HealthCaller |-> NoCall]
    /\ pluginStarts = 0

-----------------------------------------------------------------------------
(* gotth-mail-plugin *)

\* The registration of a release: its name, seam, capabilities and secrets
\* make the session.
NewFoundationBinding(s, token) == [state |-> "listening", session |-> s, token |-> token]

\* pluginListener removes the socket that is there, ...
RunPlugin(p, s, token) ==
    /\ plugins[p].state = "down"
    /\ pluginStarts < MaxStarts
    /\ pluginStarts' = pluginStarts + 1
    /\ plugins' = [plugins EXCEPT ![p] = NewFoundationBinding(s, token)]
    /\ socket' = NoPlugin
    /\ UNCHANGED <<peer, healthCalls>>

\* ... and binds its own, unless another process was faster.
Listen(p) ==
    /\ plugins[p].state = "listening"
    /\ IF socket = NoPlugin
       THEN socket' = p /\ plugins' = [plugins EXCEPT ![p].state = "serving"]
       ELSE plugins' = [plugins EXCEPT ![p] = PluginDown] /\ UNCHANGED socket
    /\ UNCHANGED <<peer, healthCalls, pluginStarts>>

\* What was at the other end of the connection when p ends.
PeerWithout(p) == IF peer = p THEN NoPlugin ELSE peer

\* The process is killed; the file of its socket stays.
PluginDies(p) ==
    /\ plugins[p].state # "down"
    /\ plugins' = [plugins EXCEPT ![p] = PluginDown]
    /\ peer' = PeerWithout(p)
    /\ UNCHANGED <<socket, healthCalls, pluginStarts>>

\* Serve returns: what is at the path is removed, also when it is another's.
ServeFails(p) ==
    /\ plugins[p].state = "serving"
    /\ plugins' = [plugins EXCEPT ![p] = PluginDown]
    /\ socket' = NoPlugin
    /\ peer' = PeerWithout(p)
    /\ UNCHANGED <<healthCalls, pluginStarts>>

-----------------------------------------------------------------------------
(* The two calls *)

Serving(p) == p \in Plugin /\ plugins[p].state = "serving"

\* The process that the next call reaches.
Reached == IF Serving(peer) THEN peer ELSE socket

Authentic(p) == Serving(p) /\ plugins[p].token = OwnToken

validatedFoundation(p) == Authentic(p) /\ plugins[p].session = OwnSession

StartHealth(c) ==
    /\ healthCalls[c].pc \in {"idle", "healthy", "failed"}
    /\ healthCalls' = [healthCalls EXCEPT ![c] = [NoCall EXCEPT !.pc = "handshake"]]
    /\ UNCHANGED <<plugins, socket, peer, pluginStarts>>

Answer(c, ok, next) ==
    /\ peer' = Reached
    /\ healthCalls' = [healthCalls EXCEPT ![c] =
                   IF ok THEN [pc |-> next, session |-> plugins[Reached].session,
                               token |-> plugins[Reached].token]
                   ELSE [NoCall EXCEPT !.pc = "failed"]]
    /\ UNCHANGED <<plugins, socket, pluginStarts>>

Handshake(c) ==
    /\ healthCalls[c].pc = "handshake"
    /\ Answer(c, validatedFoundation(Reached), "health")

\* Wrong: whoever knows the token is asked.
HealthAnySession(c) ==
    /\ healthCalls[c].pc = "health"
    /\ Answer(c, Authentic(Reached), "healthy")

\* The request names the session, and the server compares it once more.
Health(c) ==
    /\ healthCalls[c].pc = "health"
    /\ Answer(c, validatedFoundation(Reached), "healthy")

\* The deadline passes.
HealthTimesOut(c) ==
    /\ healthCalls[c].pc \in {"handshake", "health"}
    /\ healthCalls' = [healthCalls EXCEPT ![c] = [NoCall EXCEPT !.pc = "failed"]]
    /\ UNCHANGED <<plugins, socket, peer, pluginStarts>>

PluginNext ==
    \/ \E p \in Plugin :
           \/ \E s \in Session, token \in PluginToken : RunPlugin(p, s, token)
           \/ Listen(p) \/ PluginDies(p) \/ ServeFails(p)
    \/ \E c \in HealthCaller :
           StartHealth(c) \/ Handshake(c) \/ Health(c) \/ HealthTimesOut(c)

PluginSpec == PluginInit /\ [][PluginNext]_pluginVars

-----------------------------------------------------------------------------

\* The plugin is reported healthy only when the process that said so runs with
\* the session and the credentials of the control plane, also when it took over
\* the socket between the handshake and the question.
HealthyIsOwn ==
    \A c \in HealthCaller :
        healthCalls[c].pc = "healthy" => healthCalls[c].session = OwnSession /\ healthCalls[c].token = OwnToken
=============================================================================
