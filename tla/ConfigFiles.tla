----------------------------- MODULE ConfigFiles -----------------------------
(***************************************************************************)
(* Generated configuration on disk: the commands render, diff and apply of *)
(* gotth-mailctl (internal/render, internal/apply).  A set of files is     *)
(* written to a directory named after its content; the file "current" of   *)
(* the applied directory names the set in use.  Commands run at the same   *)
(* time and are interrupted.                                               *)
(*                                                                         *)
(* os.WriteFile truncates a file and then writes it.  A set is read in one *)
(* step; what another command is writing is found half written.  The       *)
(* staging and the applied directory are there from the start.             *)
(***************************************************************************)
EXTENDS Naturals, FiniteSets

CONSTANTS
    Tool,         \* the commands under way
    SetID,        \* the sets of files that configurations render to
    Parts,        \* the number of files in a set
    MaxCommands, MaxInterrupts,
    NoSet

ASSUME FilesAssumption ==
    /\ Parts \in Nat \ {0}
    /\ SetID \intersect {"absent", "empty"} = {}

VARIABLES
    stagedFiles,   \* [SetID -> [0..Parts -> what the file holds]]; 0 is the directory
    appliedFiles,
    current,       \* what the file "current" holds
    tmp,           \* what "current.tmp" holds
    tools,
    commands, interrupts,
    torn,          \* history: sets that were applied from half a staged set
    again,         \* history: sets that were applied while in use or being applied
    overlapped     \* history: two commands had current.tmp open at a time

fileVars == <<stagedFiles, appliedFiles, current, tmp, tools, commands, interrupts, torn, again,
              overlapped>>

NoFiles == [i \in 0..Parts |-> "absent"]

\* handle: the name under which the file that the command has open can be found.
Ended == [cmd |-> "none", id |-> NoSet, pc |-> "ended", next |-> 1, opened |-> FALSE,
          copy |-> NoFiles, handle |-> "none"]

FilesInit ==
    /\ stagedFiles = [s \in SetID |-> NoFiles]
    /\ appliedFiles = [s \in SetID |-> NoFiles]
    /\ current = "absent" /\ tmp = "absent"
    /\ tools = [t \in Tool |-> Ended]
    /\ commands = 0 /\ interrupts = 0
    /\ torn = {} /\ again = {} /\ overlapped = FALSE

Whole == [i \in 0..Parts |-> "whole"]

Exists(files) == files[0] # "absent"

EndTool(t) == tools' = [tools EXCEPT ![t] = Ended]

\* The command k, further on.
Advanced(k, pc, next, opened, handle) ==
    [cmd |-> k.cmd, id |-> k.id, pc |-> pc, next |-> next, opened |-> opened, copy |-> k.copy,
     handle |-> handle]

histories == <<torn, again, overlapped>>

-----------------------------------------------------------------------------
(* gotth-mailctl *)

BeginTool(t, cmd, s, pc, copy) ==
    /\ tools[t].pc = "ended"
    /\ commands < MaxCommands
    /\ commands' = commands + 1
    /\ tools' = [tools EXCEPT ![t] = [cmd |-> cmd, id |-> s, pc |-> pc, next |-> 1, opened |-> FALSE,
                                      copy |-> copy, handle |-> "none"]]
    /\ UNCHANGED <<stagedFiles, appliedFiles, current, tmp, interrupts>>

Render(t, s) == BeginTool(t, "render", s, "write", Whole) /\ UNCHANGED histories

\* A directory that is there is taken for the set.
Diff(t, s) ==
    /\ BeginTool(t, "diff", s, IF Exists(stagedFiles[s]) THEN "current" ELSE "write", Whole)
    /\ UNCHANGED histories

\* The confirmed set is read as it is found.
Apply(t, s) ==
    /\ Exists(stagedFiles[s])
    /\ BeginTool(t, "apply", s, "current", stagedFiles[s])
    /\ torn' = IF stagedFiles[s] = Whole THEN torn ELSE torn \union {s}
    /\ UNCHANGED <<again, overlapped>>

\* The set is the current one or about to be, or another command is applying it.
InUse(t) ==
    \/ tools[t].id \in {current, tmp}
    \/ \E u \in Tool \ {t} : tools[u].cmd = "apply" /\ tools[u].id = tools[t].id

\* There is no set in use yet, or there is one and its directory is there.
Readable == current = "absent" \/ (current \in SetID /\ Exists(appliedFiles[current]))

\* Wrong: an applied directory that is there is taken for the set.
ReadCurrentTrusting(t) ==
    /\ tools[t].pc = "current"
    /\ IF Readable /\ tools[t].cmd = "apply"
       THEN /\ tools' = [tools EXCEPT ![t].pc = IF Exists(appliedFiles[tools[t].id]) THEN "open" ELSE "write"]
            /\ again' = IF InUse(t) THEN again \union {tools[t].id} ELSE again
       ELSE EndTool(t) /\ UNCHANGED again
    /\ UNCHANGED <<stagedFiles, appliedFiles, current, tmp, commands, interrupts, torn, overlapped>>

ReadCurrent(t) ==
    /\ tools[t].pc = "current"
    /\ IF Readable /\ tools[t].cmd = "apply"
       THEN /\ tools' = [tools EXCEPT ![t] = Advanced(@, "write", 1, FALSE, "none")]
            /\ again' = IF InUse(t) THEN again \union {tools[t].id} ELSE again
       ELSE EndTool(t) /\ UNCHANGED again
    /\ UNCHANGED <<stagedFiles, appliedFiles, current, tmp, commands, interrupts, torn, overlapped>>

Put(t, i, holds) ==
    LET s == tools[t].id
    IN  IF tools[t].cmd = "apply"
        THEN appliedFiles' = [appliedFiles EXCEPT ![s] = [@ EXCEPT ![i] = holds]] /\ UNCHANGED stagedFiles
        ELSE stagedFiles' = [stagedFiles EXCEPT ![s] = [@ EXCEPT ![i] = holds]] /\ UNCHANGED appliedFiles

\* A file of the set: its directory is made, the file is truncated or created,
\* and written.  Files that the staged set lacked are left alone.
Write(t) ==
    LET i == tools[t].next
        files == IF tools[t].cmd = "apply" THEN appliedFiles ELSE stagedFiles
    IN  /\ tools[t].pc = "write"
        /\ i <= Parts
        /\ \/ /\ tools[t].copy[i] = "absent"
              /\ tools' = [tools EXCEPT ![t] = Advanced(@, "write", i + 1, @.opened, "none")]
              /\ UNCHANGED <<stagedFiles, appliedFiles>>
           \/ /\ tools[t].copy[i] # "absent"
              /\ ~Exists(files[tools[t].id])
              /\ Put(t, 0, "whole")
              /\ UNCHANGED tools
           \/ /\ tools[t].copy[i] # "absent"
              /\ Exists(files[tools[t].id])
              /\ ~tools[t].opened
              /\ Put(t, i, "empty")
              /\ tools' = [tools EXCEPT ![t] = Advanced(@, "write", i, TRUE, "none")]
           \/ /\ tools[t].opened
              /\ Put(t, i, tools[t].copy[i])
              /\ tools' = [tools EXCEPT ![t] = Advanced(@, "write", i + 1, FALSE, "none")]
        /\ UNCHANGED <<current, tmp, commands, interrupts, histories>>

Written(t) ==
    /\ tools[t].pc = "write"
    /\ tools[t].next > Parts
    /\ LET then == IF tools[t].cmd = "diff" THEN "current" ELSE "open"
       IN  IF tools[t].cmd = "render" THEN EndTool(t)
           ELSE tools' = [tools EXCEPT ![t] = Advanced(@, then, @.next, FALSE, "none")]
    /\ UNCHANGED <<stagedFiles, appliedFiles, current, tmp, commands, interrupts, histories>>

\* MarkApplied: current.tmp is truncated or created, ...
OpenTmp(t) ==
    /\ tools[t].pc = "open"
    /\ tmp' = "empty"
    /\ tools' = [tools EXCEPT ![t] = Advanced(@, "name", @.next, FALSE, "tmp")]
    /\ overlapped' = (overlapped \/ \E u \in Tool \ {t} : tools[u].handle = "tmp")
    /\ UNCHANGED <<stagedFiles, appliedFiles, current, commands, interrupts, torn, again>>

\* ... written, wherever it is by now, ...
WriteTmp(t) ==
    /\ tools[t].pc = "name"
    /\ tmp' = IF tools[t].handle = "tmp" THEN tools[t].id ELSE tmp
    /\ current' = IF tools[t].handle = "current" THEN tools[t].id ELSE current
    /\ tools' = [tools EXCEPT ![t] = Advanced(@, "rename", @.next, FALSE, @.handle)]
    /\ UNCHANGED <<stagedFiles, appliedFiles, commands, interrupts, histories>>

\* Where a file that is open is found once current.tmp has been renamed.
Renamed(handle) ==
    IF handle = "tmp" THEN "current" ELSE IF handle = "current" THEN "gone" ELSE handle

\* ... and renamed; another command may have done so.
Rename(t) ==
    /\ tools[t].pc = "rename"
    /\ current' = IF tmp = "absent" THEN current ELSE tmp
    /\ tmp' = "absent"
    /\ tools' = [u \in Tool |->
                   IF u = t THEN Ended
                   ELSE IF tmp = "absent" THEN tools[u]
                   ELSE Advanced(tools[u], tools[u].pc, tools[u].next, tools[u].opened,
                                 Renamed(tools[u].handle))]
    /\ UNCHANGED <<stagedFiles, appliedFiles, commands, interrupts, histories>>

\* The process is killed, or the disk refuses.
Interrupt(t) ==
    /\ tools[t].pc # "ended"
    /\ interrupts < MaxInterrupts
    /\ interrupts' = interrupts + 1
    /\ EndTool(t)
    /\ UNCHANGED <<stagedFiles, appliedFiles, current, tmp, commands, histories>>

FilesNext ==
    \E t \in Tool :
        \/ \E s \in SetID : Render(t, s) \/ Diff(t, s) \/ Apply(t, s)
        \/ ReadCurrent(t) \/ Write(t) \/ Written(t) \/ OpenTmp(t) \/ WriteTmp(t) \/ Rename(t)
        \/ Interrupt(t)

FilesSpec == FilesInit /\ [][FilesNext]_fileVars

-----------------------------------------------------------------------------
(* Properties *)

\* The set in use has all of its files, whichever commands were interrupted,
\* unless its staged directory was incomplete when it was applied or it was
\* applied again while in use or being applied, which rewrites it in place.
CurrentIsWhole ==
    current \in SetID => appliedFiles[current] = Whole \/ current \in torn \union again

\* The set in use can be read at every moment, and with it the next one
\* applied, unless two commands applied a set at the same time or the staged
\* directory of the set was incomplete.
CurrentIsReadable == Readable \/ overlapped \/ current \in torn

\* The set in use is sound at every moment.
CurrentIsSound == CurrentIsWhole /\ CurrentIsReadable
=============================================================================
