--------------------------- MODULE AgentSupervisor ---------------------------
(***************************************************************************)
(* The agent's supervisor: a loop that runs one session at a time          *)
(* (mesh/src/agent/client.rs), the contract its critical tasks live under  *)
(* (core/src/tunnel/session_tasks.rs), the slot through which embedders    *)
(* reach the current session (core/src/tunnel/agent.rs) and the probe that *)
(* watches the session from outside its task tree.                         *)
(*                                                                         *)
(* The supervisor and run_session are two programs, with program counters  *)
(* sup and run.  Timers are nondeterministic: a monitor may fire whenever  *)
(* the condition it watches holds.                                         *)
(***************************************************************************)
EXTENDS Naturals

CONSTANTS Task,        \* the session's critical tasks
          MaxAttempt,  \* consecutive failures are counted up to this
          Strikes      \* unanswered demands before the probe's verdict

ASSUME SupervisorAssumption ==
    /\ MaxAttempt \in Nat /\ MaxAttempt >= 1
    /\ Strikes \in Nat /\ Strikes >= 1

VARIABLE sv            \* the state of one agent, a SupervisorState

SupervisorState ==
    [carrier : {"h2", "quic"},       \* the configured transport
     heartbeat : BOOLEAN,            \* the hub advertises a cadence
     stop : BOOLEAN,                 \* user_token is cancelled
     sup : {"top", "waiting", "backoff", "closing", "failed", "done"},
     run : {"idle", "dial", "register", "spawn", "install", "publish", "running",
            "withdraw", "shutdown", "drain"},
     attemptTok : BOOLEAN,           \* attempt_token is cancelled
     sessTok : BOOLEAN,              \* session_token is cancelled
     note : {"none", "silence", "unanswered"},      \* AttemptDeathNote
     exits : BOOLEAN,                \* an exit report waits in the channel
     task : [Task -> {"unborn", "alive", "wedged", "gone"}],
     blind : BOOLEAN,                \* no task of the session's tree runs
     handler : {"unborn", "alive", "ok", "err", "panicked"},
     conn : {"none", "up", "down"},
     path : {"ok", "oneway", "dead"},    \* what the network does to packets
     fresh : BOOLEAN,                \* last_rx is within the silence budget
     strikes : 0..Strikes,
     probe : {"watch", "over"},
     slot : {"empty", "current", "residue"},        \* SessionSlot
     torn : BOOLEAN,                 \* the termination contract has run
     was : BOOLEAN,                  \* this attempt reached Connected
     state : {"Connecting", "Connected", "Reconnecting", "Stopped", "Failed"},
     ended : {"none", "Shutdown", "Disconnected", "Watchdog", "Silence",
              "Unanswered", "CriticalTask", "Handler"},
     outcome : {"none", "shutdown", "ended", "error", "fatal"},
     attempt : 0..MaxAttempt]

(* An agent with carrier c that is about to connect for the first time. *)
SupervisorStart(c, hb) ==
    [carrier |-> c, heartbeat |-> hb, stop |-> FALSE, sup |-> "top",
     run |-> "idle", attemptTok |-> FALSE, sessTok |-> FALSE, note |-> "none",
     exits |-> FALSE, task |-> [t \in Task |-> "unborn"], blind |-> FALSE,
     handler |-> "unborn", conn |-> "none", path |-> "ok", fresh |-> TRUE,
     strikes |-> 0, probe |-> "over", slot |-> "empty", torn |-> FALSE,
     was |-> FALSE, state |-> "Connecting", ended |-> "none",
     outcome |-> "none", attempt |-> 0]

SupervisorInit == \E c \in {"h2", "quic"}, hb \in BOOLEAN : sv = SupervisorStart(c, hb)

-----------------------------------------------------------------------------
(* The user, and the supervisor's loop. *)

(* shutdown_graceful: the user's token, and with it all its children. *)
Stop ==
    /\ ~sv.stop
    /\ sv' = [sv EXCEPT !.stop = TRUE, !.attemptTok = TRUE, !.sessTok = TRUE]

(* A fresh attempt: its tokens are children of the user's, its note is      *)
(* empty, and what the slot still holds belongs to an earlier session.     *)
StartAttempt ==
    /\ sv.sup = "top"
    /\ sv' = [sv EXCEPT !.sup = "waiting", !.run = "dial",
                        !.state = "Connecting", !.attemptTok = sv.stop,
                        !.sessTok = sv.stop, !.note = "none", !.exits = FALSE,
                        !.task = [t \in Task |-> "unborn"], !.blind = FALSE,
                        !.handler = "unborn", !.conn = "none", !.path = "ok",
                        !.strikes = 0, !.probe = "watch",
                        !.slot = IF @ = "current" THEN "residue" ELSE @,
                        !.torn = FALSE, !.was = FALSE, !.ended = "none",
                        !.outcome = "none"]

Counted(n) == IF n > MaxAttempt THEN MaxAttempt ELSE n

(* What the supervisor makes of the outcome of an attempt. *)
Judge ==
    /\ sv.sup = "waiting"
    /\ sv.run = "idle"
    /\ \/ /\ sv.outcome = "shutdown"
          /\ sv' = [sv EXCEPT !.sup = "closing", !.probe = "over"]
       \/ /\ sv.outcome = "fatal"
          /\ sv' = [sv EXCEPT !.sup = "failed", !.probe = "over", !.state = "Failed"]
       \/ /\ sv.outcome \in {"ended", "error"}
          /\ sv' = [sv EXCEPT !.sup = "backoff", !.probe = "over",
                              !.state = "Reconnecting",
                              !.attempt = IF sv.outcome = "ended" THEN 1
                                          ELSE Counted(@ + 1)]

(* The back-off: it elapses, or the user stops during it. *)
BackedOff ==
    /\ sv.sup = "backoff"
    /\ sv' = [sv EXCEPT !.sup = IF sv.stop THEN "closing" ELSE "top"]

(* The tracker is drained and the last state broadcast. *)
Finish ==
    /\ sv.sup \in {"closing", "failed"}
    /\ sv' = [sv EXCEPT !.sup = "done",
                        !.state = IF sv.sup = "failed" THEN @ ELSE "Stopped"]

-----------------------------------------------------------------------------
(* Establishing a session. *)

EstablishStep(from, to) ==
    /\ sv.run = from
    /\ sv' = [sv EXCEPT !.run = to]

(* Name resolution, TCP and TLS, the h2 handshake. *)
DialH2 == sv.carrier = "h2" /\ EstablishStep("dial", "register")

(* The QUIC handshake. *)
DialQuic == sv.carrier = "quic" /\ EstablishStep("dial", "register")

(* POST /register: answered 200 with a declaration that parses. *)
RegisterH2 == sv.carrier = "h2" /\ EstablishStep("register", "spawn")

(* Hello on the control stream, answered by HelloAck. *)
RegisterQuic == sv.carrier = "quic" /\ EstablishStep("register", "spawn")

(* The transport's critical tasks run before establish_tunnel returns. *)
SpawnTasks ==
    /\ sv.run = "spawn"
    /\ sv' = [sv EXCEPT !.run = "install", !.conn = "up",
                        !.task = [t \in Task |-> "alive"]]

(* A refusal or an error on the way; a configuration error is fatal.  The  *)
(* exit guard cancels the session's token.                                 *)
EstablishFails ==
    /\ sv.run \in {"dial", "register"}
    /\ \E o \in {"error", "fatal"} :
          sv' = [sv EXCEPT !.run = "idle", !.sessTok = TRUE, !.outcome = o]

(* connect_timeout_secs around all of it. *)
ConnectTimeout ==
    /\ sv.run \in {"dial", "register"}
    /\ sv' = [sv EXCEPT !.run = "idle", !.sessTok = TRUE, !.outcome = "error"]

(* The stop arm watches the user's token only. *)
EstablishStopped ==
    /\ sv.run \in {"dial", "register", "spawn"}
    /\ sv.stop
    /\ sv' = [sv EXCEPT !.run = "idle", !.sessTok = TRUE, !.outcome = "shutdown"]

(* slot.install: a residue is replaced and shut down.  Registration has    *)
(* just been answered, so the ledger starts fresh.                         *)
Install ==
    /\ sv.run = "install"
    /\ sv' = [sv EXCEPT !.run = "publish", !.slot = "current", !.fresh = TRUE]

(* Connected is broadcast, then the handlers start. *)
Publish ==
    /\ sv.run = "publish"
    /\ sv' = [sv EXCEPT !.run = "running", !.state = "Connected", !.was = TRUE,
                        !.handler = "alive"]

-----------------------------------------------------------------------------
(* What may befall a session. *)

InSession == sv.run \in {"install", "publish", "running"}

(* A critical task returns or panics, or waits for ever. *)
TaskFails(t) ==
    /\ InSession
    /\ sv.task[t] = "alive"
    /\ \E s \in {"gone", "wedged"} : sv' = [sv EXCEPT !.task[t] = s]

(* The whole tree stops being polled: no monitor in it runs any more. *)
TreeWedges ==
    /\ InSession
    /\ ~sv.blind
    /\ sv' = [sv EXCEPT !.blind = TRUE]

PathBreaks ==
    /\ InSession
    /\ sv.path = "ok"
    /\ \E p \in {"oneway", "dead"} : sv' = [sv EXCEPT !.path = p]

HandlerEnds ==
    /\ sv.run = "running"
    /\ ~sv.blind
    /\ sv.handler = "alive"
    /\ \E h \in {"ok", "err", "panicked"} : sv' = [sv EXCEPT !.handler = h]

(* run_session itself panics: the exit guard cancels the session's token,  *)
(* nothing else of the wind-down runs.                                     *)
SessionPanics ==
    /\ InSession
    /\ sv' = [sv EXCEPT !.run = "idle", !.sessTok = TRUE, !.outcome = "error"]

-----------------------------------------------------------------------------
(* The sensors inside the session's tree. *)

(* Mutant: the wrapper reports only tasks that panicked, so a task that     *)
(* returned goes unnoticed.                                                *)
ReportExitOfPanics(t) == FALSE

(* The wrapper of a critical task: an exit before the token is cancelled is *)
(* reported and cancels it.                                                *)
ReportExit(t) ==
    /\ sv.task[t] = "gone"
    /\ ~sv.sessTok
    /\ ~sv.blind
    /\ sv' = [sv EXCEPT !.sessTok = TRUE, !.exits = TRUE]

(* The stall monitor: no beat for the timeout. *)
StallFires(t) ==
    /\ sv.task[t] = "wedged"
    /\ ~sv.sessTok
    /\ ~sv.blind
    /\ sv' = [sv EXCEPT !.sessTok = TRUE]

(* The transport notices a dead path: h2 by its keep-alive pings, QUIC by   *)
(* its idle timer, which only received packets reset.                      *)
TransportNotices ==
    /\ sv.conn = "up"
    /\ sv.path = "dead" \/ (sv.path = "oneway" /\ sv.carrier = "h2")
    /\ sv' = [sv EXCEPT !.conn = "down"]

(* The closed-watcher of a QUIC connection is a critical task. *)
ClosedWatcher ==
    /\ sv.carrier = "quic"
    /\ sv.conn = "down"
    /\ ~sv.sessTok
    /\ ~sv.blind
    /\ sv' = [sv EXCEPT !.sessTok = TRUE, !.exits = TRUE]

(* Without inbound bytes, or without a task that reads them, last_rx ages. *)
LedgerAges ==
    /\ sv.slot # "empty"
    /\ sv.fresh
    /\ \/ sv.slot = "residue"
       \/ sv.path = "dead"
       \/ sv.blind
    /\ sv' = [sv EXCEPT !.fresh = FALSE]

(* The watchdog of the h2 poll stream, when there is a heartbeat to miss. *)
PollWatchdog ==
    /\ sv.run = "running"
    /\ sv.carrier = "h2"
    /\ sv.heartbeat
    /\ sv.path = "dead"
    /\ ~sv.blind
    /\ ~sv.sessTok
    /\ sv' = [sv EXCEPT !.sessTok = TRUE]

-----------------------------------------------------------------------------
(* The probe outside the tree. *)

(* steady_state_liveness: QUIC always has a ledger, h2 with a heartbeat. *)
Readable == sv.slot # "empty" /\ (sv.carrier = "quic" \/ sv.heartbeat)

ProbeRuns == sv.sup = "waiting" /\ sv.run # "idle" /\ sv.probe = "watch" /\ Readable

(* The passive tier: the note first, then the token. *)
ProbeSilence ==
    /\ ProbeRuns
    /\ ~sv.fresh
    /\ sv' = [sv EXCEPT !.note = "silence", !.attemptTok = TRUE, !.sessTok = TRUE,
                        !.probe = "over"]

(* The demanding tier: a question that must be answered. *)
ProbeDemand ==
    /\ ProbeRuns
    /\ sv.fresh
    /\ IF sv.slot = "current" /\ sv.path = "ok" /\ sv.conn = "up"
       THEN sv' = [sv EXCEPT !.strikes = 0]
       ELSE IF sv.strikes + 1 >= Strikes
       THEN sv' = [sv EXCEPT !.strikes = Strikes, !.note = "unanswered",
                             !.attemptTok = TRUE, !.sessTok = TRUE, !.probe = "over"]
       ELSE sv' = [sv EXCEPT !.strikes = @ + 1]

-----------------------------------------------------------------------------
(* The end of a session. *)

(* cancellation_attribution *)
Attribution ==
    CASE sv.note = "silence" -> "Silence"
      [] sv.note = "unanswered" -> "Unanswered"
      [] sv.note = "none" /\ sv.stop -> "Shutdown"
      [] OTHER -> "Watchdog"

(* The biased select over exit reports, the session's token, the           *)
(* connection and the handler.                                             *)
SessionEnds ==
    /\ sv.run = "running"
    /\ \E why \in {"CriticalTask", Attribution, "Disconnected", "Handler"} :
          /\ CASE why = "CriticalTask" -> sv.exits
               [] why = Attribution -> ~sv.exits /\ sv.sessTok
               [] why = "Disconnected" -> /\ ~sv.exits /\ ~sv.sessTok /\ ~sv.blind
                                          /\ sv.carrier = "h2" /\ sv.conn = "down"
               [] why = "Handler" -> /\ ~sv.exits /\ ~sv.sessTok
                                     /\ ~(sv.carrier = "h2" /\ sv.conn = "down")
                                     /\ sv.handler \notin {"unborn", "alive"}
          /\ sv' = [sv EXCEPT !.run = "withdraw", !.sessTok = TRUE, !.ended = why,
                              !.note = IF why = Attribution THEN "none" ELSE @]

(* The facade goes first, then the termination contract of the tunnel. *)
Withdraw ==
    /\ sv.run = "withdraw"
    /\ sv' = [sv EXCEPT !.run = "shutdown", !.slot = "empty"]

Shutdown ==
    /\ sv.run = "shutdown"
    /\ sv' = [sv EXCEPT !.run = "drain", !.torn = TRUE, !.conn = "down"]

(* Bounded close-out of all tasks, then the outcome. *)
Drain ==
    /\ sv.run = "drain"
    /\ \E o \in CASE sv.ended = "Shutdown" -> {"shutdown"}
                  [] sv.ended = "Handler" /\ sv.handler = "err" -> {"error", "fatal"}
                  [] sv.ended = "Handler" /\ sv.handler = "panicked" -> {"error"}
                  [] OTHER -> {"ended"} :
          sv' = [sv EXCEPT !.run = "idle", !.outcome = o,
                           !.task = [t \in Task |-> "gone"]]

-----------------------------------------------------------------------------
SupervisorNext ==
    \/ Stop \/ StartAttempt \/ Judge \/ BackedOff \/ Finish
    \/ DialH2 \/ DialQuic \/ RegisterH2 \/ RegisterQuic \/ SpawnTasks
    \/ EstablishFails \/ ConnectTimeout \/ EstablishStopped \/ Install \/ Publish
    \/ \E t \in Task : TaskFails(t) \/ ReportExit(t) \/ StallFires(t)
    \/ TreeWedges \/ PathBreaks \/ HandlerEnds \/ SessionPanics
    \/ TransportNotices \/ ClosedWatcher \/ LedgerAges \/ PollWatchdog
    \/ ProbeSilence \/ ProbeDemand
    \/ SessionEnds \/ Withdraw \/ Shutdown \/ Drain

(* The supervisor and run_session are polled; timers and monitors tick on. *)
SupervisorFairness ==
    /\ WF_sv(StartAttempt) /\ WF_sv(Judge) /\ WF_sv(BackedOff) /\ WF_sv(Finish)
    /\ WF_sv(ConnectTimeout) /\ WF_sv(SpawnTasks)
    /\ WF_sv(Install) /\ WF_sv(Publish) /\ WF_sv(SessionEnds)
    /\ WF_sv(Withdraw) /\ WF_sv(Shutdown) /\ WF_sv(Drain)
    /\ WF_sv(\E t \in Task : ReportExit(t) \/ StallFires(t))
    /\ WF_sv(TransportNotices) /\ WF_sv(ClosedWatcher) /\ WF_sv(LedgerAges)
    /\ WF_sv(ProbeSilence) /\ WF_sv(ProbeDemand)

SupervisorSpec == SupervisorInit /\ [][SupervisorNext]_sv /\ SupervisorFairness

-----------------------------------------------------------------------------
\* The supervisor, its session and its tasks have the states listed above.
SupervisorTypeOK == sv \in SupervisorState

(* Only a user's stop ends in Stopped.  Every internal death - a task, the  *)
(* watchdog, the probe, a panic - takes the reconnect path.                *)
StoppedOnlyOnRequest == sv.sup = "closing" => sv.stop

(* Embedders reach no tunnel through the slot whose termination contract    *)
(* has run: the slot is withdrawn before the shutdown.                      *)
FacadeNotTorn == sv.slot = "current" => ~sv.torn

(* What is wrong with a session, as its sensors could tell. *)
Broken == \/ sv.conn = "down"
          \/ sv.path # "ok"
          \/ \E t \in Task : sv.task[t] \in {"gone", "wedged"}

(* Every death of a session is noticed, by the tree's own sensors or, when *)
(* the tree is wedged as a whole, by the probe.  The one exception is h2    *)
(* without a heartbeat, where the probe has no ledger to read.             *)
DeathIsNoticed ==
    (sv.run = "running" /\ Broken) ~> (sv.run # "running" \/ (sv.blind /\ ~Readable))

(* A stop is honoured from every point of the supervisor and of a session. *)
StopIsHonoured == sv.stop ~> (sv.sup = "done" /\ sv.state \in {"Stopped", "Failed"})
=============================================================================
