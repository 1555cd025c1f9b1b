---------------------------- MODULE NodeInstall ----------------------------
(***************************************************************************)
(* `node install` on a server: the pack is staged beside the installed     *)
(* one, checked, given the node-local state of the installed one, and      *)
(* renamed into place; then the unit is written and restarted, and other   *)
(* units that still run a replaced engine binary are found.  The unit runs *)
(* all the while and writes to the state directory.  The command may be    *)
(* cut off at any step and be run again.                                   *)
(***************************************************************************)
EXTENDS Integers

CONSTANTS
    MaxPack,      \* pack generations are 1 .. MaxPack
    MaxLineage,   \* bound: writes of the node's serving lineage
    MaxInstall,   \* bound: runs of the command
    MaxBinary,    \* bound: replacements of the engine binary
    MaxCut        \* bound: runs cut off, and units that do not come up

VARIABLE ni

NoTree == [gen |-> 0, lin |-> 0, owned |-> FALSE]

PackDir == [gen : 0 .. MaxPack, lin : 0 .. MaxLineage, owned : BOOLEAN]

\* Program points of the command, in the order of the code.
InstallPoint == {"off", "stage", "engine", "downgrade", "carry", "backup", "rotate", "swap", "chown",
                 "unit", "restart", "scan", "others"}

InstallState ==
    [target   : PackDir,                 \* <root>/packs/<kind>-<node>; no pack has generation 0
     previous : PackDir,
     staged   : PackDir,
     pc       : InstallPoint,
     source   : 0 .. MaxPack,
     upgraded : BOOLEAN,
     force    : BOOLEAN,                 \* --allow-downgrade
     unit     : BOOLEAN,                 \* the unit file is there
     active   : BOOLEAN,
     loaded   : PackDir,                 \* the pack the unit's process read when it started
     bin      : 0 .. MaxBinary,          \* the binary on disk
     runs     : 0 .. MaxBinary,          \* the binary the unit runs
     other    : 0 .. MaxBinary,          \* the binary another unit runs
     found    : SUBSET {"own", "other"}, \* findings of the scan
     answer   : {"none", "ok", "refused", "failed"},
     written  : 0 .. MaxLineage,         \* the newest lineage the node wrote down
     gap      : BOOLEAN,                 \* a run was cut off while there was no target
     during   : BOOLEAN,                 \* the node wrote between the copy and the rename
     forced   : BOOLEAN,                 \* some run was allowed to go back
     n        : 0 .. MaxInstall,
     cut      : 0 .. MaxCut]

InstallStart ==
    [target |-> NoTree, previous |-> NoTree, staged |-> NoTree, pc |-> "off", source |-> 0,
     upgraded |-> FALSE, force |-> FALSE, unit |-> FALSE, active |-> FALSE, loaded |-> NoTree,
     bin |-> 0, runs |-> 0, other |-> 0, found |-> {}, answer |-> "none", written |-> 0,
     gap |-> FALSE, during |-> FALSE, forced |-> FALSE, n |-> 0, cut |-> 0]

InstallInit == ni = InstallStart

Present(p) == p.gen # 0

---------------------------------------------------------------------------
\* The node and the machine.

\* The running node writes its lineage under the path of its pack directory.
NodeWrites ==
    /\ ni.active /\ Present(ni.target) /\ ni.target.owned /\ ni.written < MaxLineage
    /\ ni' = [ni EXCEPT !.target.lin = ni.written + 1, !.written = @ + 1,
                     !.during = @ \/ ni.pc \in {"backup", "rotate"}]

BinaryReplaced ==
    /\ ni.bin < MaxBinary
    /\ ni' = [ni EXCEPT !.bin = @ + 1]

---------------------------------------------------------------------------
\* The command.

InstallBegins ==
    /\ ni.pc = "off" /\ ni.n < MaxInstall
    /\ \E g \in 1 .. MaxPack, f \in BOOLEAN :
          ni' = [ni EXCEPT !.pc = "stage", !.source = g, !.force = f, !.forced = @ \/ f, !.n = @ + 1,
                           !.answer = "none", !.found = {}]

Answered(d, a) == [d EXCEPT !.pc = "off", !.staged = NoTree, !.source = 0, !.force = FALSE,
                            !.upgraded = FALSE, !.answer = a]

\* The copy or the decryption, and the validation of the staged pack; a sealed pack has no state.
stage_pack ==
    /\ ni.pc = "stage"
    /\ \/ ni' = [ni EXCEPT !.staged = [NoTree EXCEPT !.gen = ni.source], !.pc = "engine"]
       \/ ni' = Answered(ni, "failed")

\* User and engine binary are there before anything is swapped in.
ensure_engine_binary_in ==
    /\ ni.pc = "engine"
    /\ ni' = [ni EXCEPT !.pc = "downgrade"]

DowngradeRefused == Present(ni.target) /\ ~ ni.force /\ ni.source < ni.target.gen

CheckDowngrade ==
    /\ ni.pc = "downgrade"
    /\ ni' = IF DowngradeRefused THEN Answered(ni, "refused")
             ELSE [ni EXCEPT !.upgraded = Present(ni.target), !.pc = "carry"]

\* commit_staged, one step per call to the file system.
CarryState ==
    /\ ni.pc = "carry"
    /\ ni' = [ni EXCEPT !.pc = "backup", !.staged.lin = IF ni.upgraded THEN ni.target.lin ELSE @]

DropBackup ==
    /\ ni.pc = "backup"
    /\ ni' = IF Present(ni.target) THEN [ni EXCEPT !.previous = NoTree, !.pc = "rotate"]
             ELSE [ni EXCEPT !.pc = "swap"]

RotateTarget ==
    /\ ni.pc = "rotate"
    /\ ni' = [ni EXCEPT !.previous = ni.target, !.target = NoTree, !.pc = "swap"]

SwapIn ==
    /\ ni.pc = "swap"
    /\ ni' = [ni EXCEPT !.target = ni.staged, !.staged = NoTree, !.pc = "chown"]

chown_tree ==
    /\ ni.pc = "chown"
    /\ ni' = [ni EXCEPT !.target.owned = TRUE, !.pc = "unit"]

WriteUnit ==
    /\ ni.pc = "unit"
    /\ ni' = [ni EXCEPT !.unit = TRUE, !.pc = "restart"]

Start(d) == [d EXCEPT !.active = TRUE, !.loaded = d.target, !.runs = d.bin]

\* Mutant: an active unit is only started.
UnitRestartedNot(d) == IF d.active THEN d ELSE Start(d)

\* An active unit is restarted, another is enabled and started.
UnitRestarted(d) == Start(d)

\* The unit signals that it is ready or systemctl reports the failure.
RestartUnit ==
    /\ ni.pc = "restart"
    /\ \/ ni' = [UnitRestarted(ni) EXCEPT !.pc = "scan"]
       \/ /\ ni.cut < MaxCut
          /\ ni' = Answered([ni EXCEPT !.active = FALSE, !.cut = @ + 1], "failed")

\* An executable that is not the one on disk; there is no unit without a process.
StaleUnits == {u \in {"own", "other"} : IF u = "own" THEN ni.active /\ ni.runs # ni.bin
                                        ELSE ni.other # ni.bin}

ScanStale ==
    /\ ni.pc = "scan"
    /\ ni' = [ni EXCEPT !.found = StaleUnits, !.pc = "others"]

\* With --restart-units the units found are restarted; without it they are reported.
RestartStale ==
    /\ ni.pc = "others"
    /\ \E asked \in BOOLEAN :
          ni' = Answered([ni EXCEPT !.other = IF asked /\ "other" \in ni.found THEN ni.bin ELSE @], "ok")

\* The command is killed or the machine stops.  The staging directory is named after the process.
CutOff ==
    /\ ni.pc # "off" /\ ni.cut < MaxCut
    /\ ni' = [Answered(ni, "none") EXCEPT !.cut = @ + 1, !.gap = @ \/ ni.pc = "swap"]

---------------------------------------------------------------------------
InstallStep ==
    stage_pack \/ ensure_engine_binary_in \/ CheckDowngrade \/ CarryState \/ DropBackup \/ RotateTarget
    \/ SwapIn \/ chown_tree \/ WriteUnit \/ RestartUnit \/ ScanStale \/ RestartStale

InstallNext == NodeWrites \/ BinaryReplaced \/ InstallBegins \/ InstallStep \/ CutOff

InstallFairness == WF_ni(InstallStep)

InstallSpec == InstallInit /\ [][InstallNext]_ni /\ InstallFairness

---------------------------------------------------------------------------
\* Types.
InstallTypeOK == ni \in InstallState

\* Installing moves forward only: what lies in `.previous` is never newer than
\* what is installed, unless the operator asked to go back or a run was cut off
\* between the two renames.
MovesForward ==
    Present(ni.target) /\ ~ ni.forced /\ ~ ni.gap => ni.previous.gen <= ni.target.gen

\* When the command answers, the unit runs the pack that is installed.
AnsweredIsRunning ==
    [][ni.pc = "others" => ni.active /\ ni.loaded.gen = ni.target.gen]_ni

\* The node's lineage survives upgrades: when it wrote nothing between the copy
\* of its state and the rename, the installed pack has the newest lineage.
LineageSurvives == Present(ni.target) /\ ~ ni.gap /\ ~ ni.during => ni.target.lin = ni.written

=============================================================================
