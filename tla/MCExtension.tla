----------------------------- MODULE MCExtension -----------------------------
(* Extensions, the health of plugins, configuration files and release      *)
(* files: components that share no state, of which a behaviour is one      *)
(* (side).                                                                  *)
EXTENDS Extension, PluginControl, ConfigFiles, ReleaseBuild, TLC

CONSTANTS v1, v2, none, c1

VARIABLE side

MCFit == {<<v1, c1>>, <<v2, c1>>}

Symmetry == Permutations(Call) \cup Permutations(Process) \cup Permutations(Version)

MCInit ==
    /\ side \in {"extension", "plugin", "files", "release"}
    /\ Init /\ PluginInit /\ FilesInit /\ ReleaseInit

\* The bounds on the commands and the builds are used up.
Done ==
    \/ side = "files" /\ commands = MaxCommands /\ \A t \in Tool : tools[t] = Ended
    \/ side = "release" /\ builds = MaxBuilds /\ \A b \in Builder : building[b] = NoBuild

MCNext ==
    \/ side = "extension" /\ Next /\ UNCHANGED <<pluginVars, fileVars, releaseVars, side>>
    \/ side = "plugin" /\ PluginNext /\ UNCHANGED <<vars, fileVars, releaseVars, side>>
    \/ side = "files" /\ FilesNext /\ UNCHANGED <<vars, pluginVars, releaseVars, side>>
    \/ side = "release" /\ ReleaseNext /\ UNCHANGED <<vars, pluginVars, fileVars, side>>
    \/ Done /\ UNCHANGED <<vars, pluginVars, fileVars, releaseVars, side>>

MCSpec == MCInit /\ [][MCNext]_<<vars, pluginVars, fileVars, releaseVars, side>>
=============================================================================
