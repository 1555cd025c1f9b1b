---------------------------- MODULE DesktopNode ----------------------------
(***************************************************************************)
(* One node of the desktop application's NodeManager.  The entry of a node *)
(* is behind one lock that is never held across an await, so a start, a    *)
(* stop, a pack update, the restart after a death and the restart onto new *)
(* credentials are sequences of critical sections that interleave.  A task *)
(* carries the generation it was spawned for and compares it to the        *)
(* entry's.                                                                *)
(*                                                                         *)
(* An engine, its listener, its restart task and its renewal task have the *)
(* same number: start_locked makes the first, the second and the last.     *)
(***************************************************************************)
EXTENDS Integers

CONSTANTS
    UserOp,        \* operations of the user, each is begun once
    Kind,          \* kinds of engine: subset of {"agent", "hub"}; an ingress is like a hub
    Pref,          \* values of the dial preference
    MaxAttempts,   \* SupervisorRestartPolicy::max_attempts
    MaxEngine,     \* bound: engines made
    MaxTrouble     \* bound: engine deaths, failed builds, unreadable packs, ended renewals

VARIABLE dn

EngineNo == 1 .. MaxEngine
AllOp == UserOp \cup {"launch"}

Ended == {"stopped", "failed", "died"}

EngineRecord ==
    [st    : {"none", "boot", "up", "retry", "closing"} \cup Ended,
     gen   : 0 .. 2 * MaxEngine + 4,
     pref  : Pref,
     lis   : {"off", "watch", "judge"},           \* its listener
     news  : BOOLEAN,                             \* the watch changed since the listener read it
     since : {"none", "short", "long"},           \* connected_since against the healthy window
     go    : BOOLEAN,                             \* the listener saw a death
     rs    : {"off", "decide", "sleep", "prepare", "build"},
     ren   : {"off", "run", "take", "shut", "prepare", "build", "failing"},
     held  : 0 .. MaxEngine]                      \* engine that the renewal shuts down

OpRecord ==
    [name : {"idle", "start", "stop", "stopAll", "quit", "update", "launch", "done"},
     pc   : {"begin", "prepare", "build", "shut", "swapOut", "swapIn"},
     held : 0 .. MaxEngine,
     want : BOOLEAN,
     pref : Pref]

NodeStateSet ==
    [kind     : Kind,
     here     : BOOLEAN,
     proc     : {"up", "quitting", "down"},
     want     : BOOLEAN,                           \* desired_running
     queued   : {"nothing", "on", "off", "removed"},   \* latest Persist event in the queue
     disk     : {"on", "off", "removed"},
     asked    : {"on", "off", "removed"},          \* what the user last brought about
     expect   : BOOLEAN,                           \* expected_stop
     gen      : 0 .. 2 * MaxEngine + 4,
     shown    : {"starting", "up", "retry", "stopped", "failed"},
     eng      : 0 .. MaxEngine,                    \* the entry's engine
     renh     : 0 .. MaxEngine,                    \* the entry's renewal handle
     attempts : 0 .. MaxAttempts,
     pref     : Pref,
     pack     : {"whole", "away"},
     made     : 0 .. MaxEngine,
     trouble  : 0 .. MaxTrouble,
     e        : [EngineNo -> EngineRecord],
     op       : [AllOp -> OpRecord]]

AnyPref == CHOOSE p \in Pref : TRUE

NoEngine == [st |-> "none", gen |-> 0, pref |-> AnyPref, lis |-> "off", news |-> FALSE, since |-> "none",
             go |-> FALSE, rs |-> "off", ren |-> "off", held |-> 0]

OpAs(n) == [name |-> n, pc |-> "begin", held |-> 0, want |-> FALSE, pref |-> AnyPref]

NodeStart(k) ==
    [kind |-> k, here |-> TRUE, proc |-> "up", want |-> FALSE, queued |-> "nothing", disk |-> "off",
     asked |-> "off", expect |-> FALSE, gen |-> 0, shown |-> "stopped", eng |-> 0, renh |-> 0,
     attempts |-> 0, pref |-> AnyPref, pack |-> "whole", made |-> 0, trouble |-> 0,
     e |-> [n \in EngineNo |-> NoEngine], op |-> [o \in AllOp |-> OpAs("idle")]]

NodeInit == dn \in {NodeStart(k) : k \in Kind}

Trouble(d) == [d EXCEPT !.trouble = @ + 1]
MayFail == dn.trouble < MaxTrouble

---------------------------------------------------------------------------
\* Parts of the critical sections.

EngineAlive(d, n) == n \in EngineNo /\ d.e[n].st \in {"boot", "up", "retry"}

\* The queue of events is consumed in order, and a Persist event is the whole list.
record_persist(d) == [d EXCEPT !.queued = IF ~ d.here THEN "removed" ELSE IF d.want THEN "on" ELSE "off"]

\* Queues the state for the sinks; the entry's state is what queries and sinks show.
record_state(d, s) == [d EXCEPT !.shown = s]

\* Listeners and tasks write the state only for their own generation.
observe(d, g, s) == IF d.here /\ d.gen = g THEN record_state(d, s) ELSE d

\* Spawns the engine with its listener and its renewal.
start_locked(d, p) ==
    LET n == d.made + 1 IN
    [record_state(d, "starting") EXCEPT
        !.made = n, !.eng = n, !.renh = n,
        !.e[n] = [NoEngine EXCEPT !.st = "boot", !.gen = d.gen, !.pref = p, !.lis = "watch",
                                  !.news = TRUE, !.ren = "run"]]

\* Abort of the renewal whose handle the entry holds; it ends if it is still waiting.
AbortRenewal(d) ==
    IF d.renh = 0 THEN d
    ELSE [d EXCEPT !.renh = 0, !.e[d.renh].ren = IF @ = "run" THEN "off" ELSE @]

\* engine.take() followed by shutdown_graceful: the entry has no engine any more.
TakeEngine(d) ==
    IF EngineAlive(d, d.eng) THEN [d EXCEPT !.eng = 0, !.e[d.eng].st = "closing", !.e[d.eng].news = TRUE]
    ELSE [d EXCEPT !.eng = 0]

ShutDown(n) == n # 0 => dn.e[n].st # "closing"

---------------------------------------------------------------------------
\* Engines.

EngineMoves(n) ==
    /\ dn.e[n].st \in {"boot", "up", "retry"}
    /\ \E s \in (IF dn.kind = "agent" THEN {"up", "retry"} ELSE {"up"}) \ {dn.e[n].st} :
          dn' = [dn EXCEPT !.e[n].st = s, !.e[n].news = TRUE]

\* An agent's supervisor dies without a word, or gives up for good; a hub's run fails.
EngineEnds(n) ==
    /\ MayFail /\ dn.e[n].st \in {"boot", "up", "retry"}
    /\ \E s \in (IF dn.kind = "agent" THEN {"died", "failed"} ELSE {"failed"}) :
          dn' = Trouble([dn EXCEPT !.e[n].st = s, !.e[n].news = TRUE])

EngineCloses(n) ==
    /\ dn.e[n].st = "closing"
    /\ dn' = [dn EXCEPT !.e[n].st = "stopped", !.e[n].news = TRUE]

\* The agent has been connected for the healthy window.
WindowPasses(n) ==
    /\ dn.e[n].lis = "watch" /\ dn.e[n].since = "short" /\ dn.e[n].st = "up" /\ ~ dn.e[n].news
    /\ dn' = [dn EXCEPT !.e[n].since = "long"]

---------------------------------------------------------------------------
\* Listeners.

Face(s) == CASE s = "boot" -> "starting" [] s = "up" -> "up" [] s = "retry" -> "retry"
             [] s = "closing" -> "stopped" [] s = "stopped" -> "stopped" [] OTHER -> "failed"

\* The engine's state changed.  The streak is judged only when a change is read.
ListenerObserves(n) ==
    LET x == dn.e[n]
        d == observe(dn, x.gen, Face(x.st)) IN
    /\ x.lis = "watch" /\ x.news /\ x.st \notin Ended
    /\ dn' = [d EXCEPT !.e[n].news = FALSE,
                       !.e[n].since = IF x.st # "up" THEN "none" ELSE IF @ = "none" THEN "short" ELSE @,
                       !.attempts = IF dn.kind = "agent" /\ x.st = "up" /\ x.since = "long"
                                       /\ d.here /\ d.gen = x.gen THEN 0 ELSE @]

\* What makes an end a death: the agent's watch closed without a verdict, the hub failed.
IsDeath(x) == IF dn.kind = "agent" THEN x.st = "died" ELSE x.st = "failed"

\* The engine ended.  The hub's listener shows the end before it judges it, the agent's after.
ListenerJudges(n) ==
    LET x == dn.e[n] IN
    /\ x.lis = "watch" /\ x.st \in Ended
    /\ dn' = [(IF dn.kind = "agent" THEN dn ELSE observe(dn, x.gen, Face(x.st))) EXCEPT
                 !.e[n].lis = "judge", !.e[n].news = FALSE,
                 !.e[n].go = dn.here /\ dn.gen = x.gen /\ ~ dn.expect /\ IsDeath(x)]

ListenerLeaves(n) ==
    LET x == dn.e[n]
        go == IF dn.kind = "agent" THEN x.go
              ELSE dn.here /\ dn.gen = x.gen /\ ~ dn.expect /\ IsDeath(x)
        d == IF dn.kind = "agent" /\ x.st # "died" THEN observe(dn, x.gen, Face(x.st)) ELSE dn IN
    /\ x.lis = "judge"
    /\ dn' = [d EXCEPT !.e[n].lis = "off", !.e[n].go = FALSE, !.e[n].rs = IF go THEN "decide" ELSE "off"]

---------------------------------------------------------------------------
\* restart_after_death.

MayRestart(g) == dn.here /\ dn.gen = g /\ ~ dn.expect

RestartDecides(n) ==
    LET x == dn.e[n] IN
    /\ x.rs = "decide"
    /\ dn' = IF ~ (dn.here /\ dn.gen = x.gen) THEN [dn EXCEPT !.e[n].rs = "off"]
             ELSE IF dn.attempts >= MaxAttempts
             THEN [record_state(dn, "failed") EXCEPT !.eng = 0, !.e[n].rs = "off"]
             ELSE [record_state(dn, "retry") EXCEPT !.attempts = @ + 1, !.e[n].rs = "sleep"]

RestartWakes(n) ==
    /\ dn.e[n].rs = "sleep"
    /\ dn' = [dn EXCEPT !.e[n].rs = IF MayRestart(dn.e[n].gen) THEN "prepare" ELSE "off",
                        !.e[n].pref = dn.pref]

\* A pack that cannot be read costs an attempt.
RestartPrepares(n) ==
    /\ dn.e[n].rs = "prepare"
    /\ dn' = [dn EXCEPT !.e[n].rs = IF dn.pack = "whole" THEN "build" ELSE "decide"]

RestartBuilds(n) ==
    LET x == dn.e[n] IN
    /\ x.rs = "build" /\ dn.made < MaxEngine
    /\ \/ /\ ~ MayRestart(x.gen)
          /\ dn' = [dn EXCEPT !.e[n].rs = "off"]
       \/ /\ MayRestart(x.gen)
          /\ dn' = start_locked([dn EXCEPT !.eng = 0, !.e[n].rs = "off"], x.pref)
       \/ /\ MayRestart(x.gen) /\ MayFail
          /\ dn' = Trouble([dn EXCEPT !.eng = 0, !.e[n].rs = "decide"])

---------------------------------------------------------------------------
\* The renewal beside the engine.

RenewalCompletes(n) ==
    LET x == dn.e[n] IN
    /\ x.ren = "run" /\ MayFail
    /\ dn' = Trouble(IF dn.here /\ dn.gen = x.gen
                     THEN [record_state(dn, "retry") EXCEPT !.renh = 0, !.expect = TRUE, !.e[n].ren = "take"]
                     ELSE [dn EXCEPT !.e[n].ren = "off"])

RenewalTakes(n) ==
    /\ dn.e[n].ren = "take"
    /\ dn' = [(IF dn.here THEN TakeEngine(dn) ELSE dn) EXCEPT
                 !.e[n].ren = "shut", !.e[n].held = IF dn.here THEN dn.eng ELSE 0]

RenewalShuts(n) ==
    LET x == dn.e[n] IN
    /\ x.ren = "shut" /\ ShutDown(x.held)
    /\ dn' = [dn EXCEPT !.e[n].held = 0, !.e[n].pref = dn.pref,
                        !.e[n].ren = IF dn.here /\ dn.gen = x.gen THEN "prepare" ELSE "off"]

RenewalPrepares(n) ==
    LET x == dn.e[n] IN
    /\ x.ren = "prepare"
    /\ dn' = IF dn.pack = "whole" THEN [dn EXCEPT !.e[n].ren = "build"]
             ELSE [observe(dn, x.gen, "failed") EXCEPT !.e[n].ren = "off"]

RenewalBuilds(n) ==
    LET x == dn.e[n]
        d == [dn EXCEPT !.expect = FALSE, !.attempts = 0, !.gen = @ + 1, !.eng = 0, !.e[n].ren = "off"] IN
    /\ x.ren = "build" /\ dn.made < MaxEngine
    /\ \/ /\ ~ (dn.here /\ dn.gen = x.gen)
          /\ dn' = [dn EXCEPT !.e[n].ren = "off"]
       \/ /\ dn.here /\ dn.gen = x.gen
          /\ dn' = start_locked(d, x.pref)
       \/ /\ dn.here /\ dn.gen = x.gen /\ MayFail
          /\ dn' = Trouble(record_state(d, "failed"))

RenewalFails(n) ==
    LET x == dn.e[n] IN
    /\ x.ren = "run" /\ MayFail
    /\ dn' = Trouble(IF dn.here /\ dn.gen = x.gen
                     THEN [TakeEngine(record_state(dn, "failed")) EXCEPT
                              !.renh = 0, !.expect = TRUE, !.e[n].ren = "failing", !.e[n].held = dn.eng]
                     ELSE [dn EXCEPT !.e[n].ren = "off"])

RenewalConfirms(n) ==
    LET x == dn.e[n] IN
    /\ x.ren = "failing" /\ ShutDown(x.held)
    /\ dn' = [observe(dn, x.gen, "failed") EXCEPT !.e[n].ren = "off", !.e[n].held = 0]

---------------------------------------------------------------------------
\* Operations of the user.

Finish(d, o) == [d EXCEPT !.op[o] = OpAs("done")]

Begin(o, name) == dn.op[o].name = "idle" /\ dn.proc = "up" /\ dn.here /\ o \in UserOp /\ name # "idle"

StartBegins(o) ==
    /\ Begin(o, "start")
    /\ dn' = [dn EXCEPT !.op[o] = [OpAs("start") EXCEPT !.pc = "prepare", !.pref = dn.pref]]

\* A start that fails while the application comes up is shown; another is an answer.
StartFails(d, o) == Finish(IF d.op[o].name = "launch" THEN record_state(d, "failed") ELSE d, o)

StartPrepares(o) ==
    /\ dn.op[o].name \in {"start", "update", "launch"} /\ dn.op[o].pc = "prepare"
    /\ dn' = IF dn.pack = "whole" /\ dn.here THEN [dn EXCEPT !.op[o].pc = "build"] ELSE StartFails(dn, o)

StartAllowed == dn.here /\ ~ EngineAlive(dn, dn.eng)

StartBuilds(o) ==
    LET d == [dn EXCEPT !.eng = 0, !.expect = FALSE, !.want = TRUE, !.attempts = 0, !.gen = @ + 1] IN
    /\ dn.op[o].name \in {"start", "update", "launch"} /\ dn.op[o].pc = "build" /\ dn.made < MaxEngine
    /\ \/ /\ ~ StartAllowed
          /\ dn' = StartFails(dn, o)
       \/ /\ StartAllowed
          /\ dn' = Finish(record_persist([start_locked(d, dn.op[o].pref) EXCEPT !.asked = "on"]), o)
       \/ /\ StartAllowed /\ MayFail
          /\ dn' = Trouble(StartFails(d, o))

\* The critical section of stop, of update_pack's stop as well.
Stopping(d, o, name, w) ==
    [TakeEngine(AbortRenewal(record_persist([d EXCEPT !.expect = TRUE, !.want = FALSE, !.asked = "off",
                                                      !.gen = @ + 1])))
     EXCEPT !.op[o] = [OpAs(name) EXCEPT !.pc = "shut", !.held = d.eng, !.want = w]]

StopBegins(o) ==
    /\ Begin(o, "stop")
    /\ dn' = Stopping(dn, o, "stop", FALSE)

\* The terminal state is written whatever happened since; not when the shutdown reports an error.
StopSettles(o) ==
    LET x == dn.op[o]
        failed == x.held # 0 /\ dn.e[x.held].st \in {"died", "failed"}
        d == IF dn.here /\ ~ failed THEN record_state(dn, "stopped") ELSE dn IN
    /\ x.name \in {"stop", "update"} /\ x.pc = "shut" /\ ShutDown(x.held)
    /\ dn' = IF x.name = "stop" \/ failed THEN Finish(d, o)
             ELSE [d EXCEPT !.op[o].pc = "swapOut", !.op[o].held = 0]

\* Every node is stopped; here the one.  The generation stays.
StopAllBegins(o) ==
    /\ Begin(o, "stopAll")
    /\ dn' = [TakeEngine(AbortRenewal(record_persist([dn EXCEPT !.expect = TRUE, !.want = FALSE,
                                                                !.asked = "off"])))
              EXCEPT !.op[o] = [OpAs("stopAll") EXCEPT
                                   !.pc = "shut", !.held = IF EngineAlive(dn, dn.eng) THEN dn.eng ELSE 0]]

AllStopped(o) ==
    LET x == dn.op[o] IN
    /\ x.name = "stopAll" /\ x.pc = "shut" /\ ShutDown(x.held)
    /\ dn' = Finish(IF x.held # 0 /\ dn.here THEN record_state(dn, "stopped") ELSE dn, o)

\* Quitting is not a stop: the intent keeps its value and nothing is persisted.
QuitEntry(d) == d

QuitBegins(o) ==
    /\ Begin(o, "quit")
    /\ dn' = [TakeEngine(AbortRenewal(QuitEntry([dn EXCEPT !.expect = TRUE, !.proc = "quitting"])))
              EXCEPT !.op[o] = [OpAs("quit") EXCEPT
                                   !.pc = "shut", !.held = IF EngineAlive(dn, dn.eng) THEN dn.eng ELSE 0]]

\* settle(): every event queued before is consumed.  The process ends and its tasks with it.
QuitEnds(o) ==
    LET x == dn.op[o] IN
    /\ x.name = "quit" /\ x.pc = "shut" /\ ShutDown(x.held) /\ dn.queued = "nothing"
    /\ dn' = [dn EXCEPT !.proc = "down", !.shown = "stopped", !.eng = 0, !.renh = 0, !.gen = 0,
                        !.want = FALSE, !.expect = FALSE, !.attempts = 0, !.pref = AnyPref,
                        !.e = [n \in EngineNo |-> NoEngine],
                        !.op = [q \in AllOp |-> IF dn.op[q].name = "idle" THEN dn.op[q] ELSE OpAs("done")]]

\* restore and start_desired of the next launch.
Launch ==
    /\ dn.proc = "down" /\ dn.op["launch"].name = "idle"
    /\ dn' = [dn EXCEPT !.proc = "up", !.here = dn.disk # "removed", !.want = dn.disk = "on",
                        !.op["launch"] = IF dn.disk = "on" THEN [OpAs("launch") EXCEPT !.pc = "prepare"]
                                         ELSE OpAs("done")]

Persisted ==
    /\ dn.queued # "nothing" /\ dn.proc # "down"
    /\ dn' = [dn EXCEPT !.disk = dn.queued, !.queued = "nothing"]

\* Refused while the node runs.
RemoveNode(o) ==
    /\ Begin(o, "remove") /\ ~ EngineAlive(dn, dn.eng)
    /\ dn' = Finish(record_persist([dn EXCEPT !.here = FALSE, !.asked = "removed", !.eng = 0,
                                              !.shown = "stopped"]), o)

\* The dial face is refused while the node runs.
SetPrefs(o) ==
    /\ Begin(o, "prefs") /\ ~ EngineAlive(dn, dn.eng)
    /\ \E p \in Pref \ {dn.pref} : dn' = Finish(record_persist([dn EXCEPT !.pref = p]), o)

\* update_pack reads the intent, checks the packs without the lock, then stops the node.
UpdateBegins(o) ==
    /\ Begin(o, "update")
    /\ dn' = [dn EXCEPT !.op[o] = [OpAs("update") EXCEPT !.want = dn.want]]

UpdateStops(o) ==
    /\ dn.op[o].name = "update" /\ dn.op[o].pc = "begin"
    /\ dn' = IF dn.here THEN Stopping(dn, o, "update", dn.op[o].want) ELSE Finish(dn, o)

UpdateSwapsOut(o) ==
    /\ dn.op[o].name = "update" /\ dn.op[o].pc = "swapOut"
    /\ dn' = [dn EXCEPT !.pack = "away", !.op[o].pc = "swapIn"]

\* The new pack is in place, or the swap failed between its two renames.
UpdateSwapsIn(o) ==
    LET x == dn.op[o] IN
    /\ x.name = "update" /\ x.pc = "swapIn"
    /\ \/ dn' = IF x.want /\ dn.here
                THEN [dn EXCEPT !.pack = "whole", !.op[o].pc = "prepare", !.op[o].pref = dn.pref]
                ELSE Finish([dn EXCEPT !.pack = "whole"], o)
       \/ MayFail /\ dn' = Trouble(Finish(dn, o))

---------------------------------------------------------------------------
EngineStep(n) ==
    EngineMoves(n) \/ EngineEnds(n) \/ EngineCloses(n) \/ WindowPasses(n)

ListenerStep(n) == ListenerObserves(n) \/ ListenerJudges(n) \/ ListenerLeaves(n)

RestartStep(n) == RestartDecides(n) \/ RestartWakes(n) \/ RestartPrepares(n) \/ RestartBuilds(n)

RenewalStep(n) ==
    RenewalTakes(n) \/ RenewalShuts(n) \/ RenewalPrepares(n) \/ RenewalBuilds(n) \/ RenewalConfirms(n)

OpBegins(o) ==
    StartBegins(o) \/ StopBegins(o) \/ StopAllBegins(o) \/ QuitBegins(o) \/ RemoveNode(o)
    \/ SetPrefs(o) \/ UpdateBegins(o)

OpStep(o) ==
    StartPrepares(o) \/ StartBuilds(o) \/ StopSettles(o) \/ AllStopped(o) \/ QuitEnds(o)
    \/ UpdateStops(o) \/ UpdateSwapsOut(o) \/ UpdateSwapsIn(o)

NodeNext ==
    \/ \E n \in EngineNo : \/ EngineStep(n) \/ ListenerStep(n) \/ RestartStep(n) \/ RenewalStep(n)
                           \/ RenewalCompletes(n) \/ RenewalFails(n)
    \/ \E o \in UserOp : OpBegins(o)
    \/ \E o \in AllOp : OpStep(o)
    \/ Launch \/ Persisted

\* Tasks run, engines close when told to, timers fire.
NodeFairness ==
    /\ \A n \in EngineNo : /\ WF_dn(EngineCloses(n)) /\ WF_dn(ListenerStep(n))
                           /\ WF_dn(RestartStep(n)) /\ WF_dn(RenewalStep(n))
    /\ \A o \in AllOp : WF_dn(OpStep(o))
    /\ WF_dn(Persisted)

NodeSpec == NodeInit /\ [][NodeNext]_dn /\ NodeFairness

---------------------------------------------------------------------------
\* Types.
NodeTypeOK == dn \in NodeStateSet

\* No engine runs beside the entry's: the check that the node is not running
\* and the store of the new engine are one critical section.
NoOrphanEngine == \A n \in EngineNo : EngineAlive(dn, n) => dn.eng = n

\* A restart after a death never overrules a stop: when its task builds an
\* engine the node is still meant to run.
RestartRespectsIntent ==
    [][\A n \in EngineNo : (RestartBuilds(n) /\ dn'.made > dn.made) => dn.want]_dn

\* Once the queue is drained at the end of a quit the disk has what the user last brought about.
IntentSurvivesQuit == dn.proc = "down" => dn.disk = dn.asked

\* An engine that died while it was meant to run is replaced, given up visibly,
\* or left to whoever took the node over.
DeathIsHandled ==
    \A n \in EngineNo :
       (dn.e[n].rs # "off") ~> \/ dn.made = MaxEngine
                              \/ /\ dn.e[n].rs = "off"
                                 /\ \/ EngineAlive(dn, dn.eng) \/ dn.shown = "failed"
                                    \/ dn.gen # dn.e[n].gen \/ dn.expect \/ ~ dn.here \/ dn.proc # "up"

=============================================================================
