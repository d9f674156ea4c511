---------------------------- MODULE ReleaseBuild ----------------------------
(***************************************************************************)
(* gotth-mail-release: a build reads its specification and configuration,  *)
(* and publishes the archive and then the manifest that names the          *)
(* archive's digest.  A file is written under a temporary name and linked  *)
(* to its own, which fails when there is one already.  Builds run at the   *)
(* same time, on inputs that differ, and are interrupted.                  *)
(***************************************************************************)
EXTENDS Naturals

CONSTANTS
    Builder, BuildInput,
    MaxBuilds,
    NoInput

ASSUME ReleaseAssumption == NoInput \notin BuildInput

VARIABLES
    archive, manifest,   \* the input that the published file was made from
    building,            \* [Builder -> the step and the input of its build]
    builds

releaseVars == <<archive, manifest, building, builds>>

NoBuild == [pc |-> "idle", input |-> NoInput]

ReleaseInit ==
    /\ archive = NoInput /\ manifest = NoInput
    /\ building = [b \in Builder |-> NoBuild]
    /\ builds = 0

\* The specification and the configuration are read, the archive is encoded.
BuildRelease(b, input) ==
    /\ building[b].pc = "idle"
    /\ builds < MaxBuilds
    /\ builds' = builds + 1
    /\ building' = [building EXCEPT ![b] = [pc |-> "archive", input |-> input]]
    /\ UNCHANGED <<archive, manifest>>

\* The archive is linked, and the directory synced, which may fail.
WriteArchive(b) ==
    /\ building[b].pc = "archive"
    /\ \/ /\ archive = NoInput
          /\ archive' = building[b].input
          /\ \/ building' = [building EXCEPT ![b].pc = "manifest"]
             \/ building' = [building EXCEPT ![b] = NoBuild]
       \/ /\ archive # NoInput
          /\ building' = [building EXCEPT ![b] = NoBuild]
          /\ UNCHANGED archive
    /\ UNCHANGED <<manifest, builds>>

WriteManifest(b) ==
    /\ building[b].pc = "manifest"
    /\ manifest' = IF manifest = NoInput THEN building[b].input ELSE manifest
    /\ building' = [building EXCEPT ![b] = NoBuild]
    /\ UNCHANGED <<archive, builds>>

\* The build is killed, or cannot write its temporary file.
BuildInterrupted(b) ==
    /\ building[b].pc # "idle"
    /\ building' = [building EXCEPT ![b] = NoBuild]
    /\ UNCHANGED <<archive, manifest, builds>>

ReleaseNext ==
    \E b \in Builder :
        \/ \E input \in BuildInput : BuildRelease(b, input)
        \/ WriteArchive(b) \/ WriteManifest(b) \/ BuildInterrupted(b)

ReleaseSpec == ReleaseInit /\ [][ReleaseNext]_releaseVars

-----------------------------------------------------------------------------

\* A manifest that is published gives the digest of the archive beside it,
\* whichever builds ran into each other or were interrupted: only the build
\* that linked the archive goes on to writeAtomic of the manifest.
ManifestDescribesArchive == manifest # NoInput => archive = manifest
=============================================================================
