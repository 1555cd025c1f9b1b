--------------------------- MODULE IngressEngine ---------------------------
(***************************************************************************)
(* FutureEngine of the desktop application: the edge's run future wrapped  *)
(* into the lifecycle that the node manager watches.  A readiness task and *)
(* a monitor task write the same watch channel; the channel keeps the      *)
(* latest value only, and the manager's listener reads it when it is run.  *)
(***************************************************************************)
EXTENDS Naturals

VARIABLE fe

EngineFace == {"Starting", "Running", "Failed", "Stopping", "Stopped"}

IngressEngineState ==
    [face    : EngineFace,                                  \* the watch channel
     run     : {"starting", "serving", "ok", "err"},        \* the edge's run future
     ready   : {"open", "sent", "dropped"},                 \* its readiness channel
     token   : BOOLEAN,
     asked   : BOOLEAN,                                     \* the manager shut the engine down
     probe   : {"wait", "readied", "late", "cancel", "end"},\* the readiness task
     monitor : {"select", "stopping", "join", "end"},
     result  : {"none", "ok", "err"},
     verdict : BOOLEAN]                                     \* the probe declared the engine failed

IngressEngineStart ==
    [face |-> "Starting", run |-> "starting", ready |-> "open", token |-> FALSE, asked |-> FALSE,
     probe |-> "wait", monitor |-> "select", result |-> "none", verdict |-> FALSE]

IngressEngineInit == fe = IngressEngineStart

\* The edge.

EdgeReady ==
    /\ fe.run = "starting"
    /\ fe' = [fe EXCEPT !.run = "serving", !.ready = IF fe.ready = "open" /\ fe.probe = "wait" THEN "sent" ELSE @]

EdgeReturns ==
    /\ fe.run \in {"starting", "serving"}
    /\ \/ fe' = [fe EXCEPT !.run = "err", !.ready = IF @ = "open" THEN "dropped" ELSE @]
       \/ fe.token /\ fe' = [fe EXCEPT !.run = "ok", !.ready = IF @ = "open" THEN "dropped" ELSE @]

\* The readiness task: the edge's signal or the start-up budget.
ProbeHears ==
    /\ fe.probe = "wait" /\ fe.ready # "open"
    /\ fe' = [fe EXCEPT !.probe = IF fe.ready = "sent" THEN "readied" ELSE "end"]

ProbeTimesOut ==
    /\ fe.probe = "wait" /\ fe.ready = "open"
    /\ fe' = [fe EXCEPT !.probe = "late"]

ProbeJudges ==
    /\ fe.probe \in {"readied", "late"}
    /\ fe' = IF fe.token THEN [fe EXCEPT !.probe = "end"]
             ELSE IF fe.probe = "readied" THEN [fe EXCEPT !.face = "Running", !.probe = "end"]
             ELSE [fe EXCEPT !.face = "Failed", !.verdict = TRUE, !.probe = "cancel"]

ProbeCancels ==
    /\ fe.probe = "cancel"
    /\ fe' = [fe EXCEPT !.token = TRUE, !.probe = "end"]

\* The monitor: the token first or the end of the run first.
MonitorHearsToken ==
    /\ fe.monitor = "select" /\ fe.token
    /\ fe' = [fe EXCEPT !.face = "Stopping", !.monitor = "join"]

MonitorHearsEnd ==
    /\ fe.monitor = "select" /\ fe.run \in {"ok", "err"}
    /\ fe' = [fe EXCEPT !.monitor = "join"]

\* A verdict that is still in the channel is kept.
MonitorJoins ==
    /\ fe.monitor = "join" /\ fe.run \in {"ok", "err"}
    /\ fe' = [fe EXCEPT !.monitor = "end", !.result = fe.run,
                        !.face = IF fe.run = "err" THEN "Failed"
                                 ELSE IF @ = "Failed" THEN @ ELSE "Stopped"]

\* shutdown_graceful of the manager.
EngineAsked ==
    /\ ~ fe.asked
    /\ fe' = [fe EXCEPT !.asked = TRUE, !.token = TRUE]

ProbeStep == ProbeHears \/ ProbeTimesOut \/ ProbeJudges \/ ProbeCancels
MonitorStep == MonitorHearsToken \/ MonitorHearsEnd \/ MonitorJoins

IngressEngineNext == EdgeReady \/ EdgeReturns \/ ProbeStep \/ MonitorStep \/ EngineAsked

\* Tasks are polled; the edge's run ends once its token is cancelled.
IngressEngineFairness ==
    /\ WF_fe(ProbeStep) /\ WF_fe(MonitorStep)
    /\ WF_fe(fe.token /\ EdgeReturns)

IngressEngineSpec == IngressEngineInit /\ [][IngressEngineNext]_fe /\ IngressEngineFairness

---------------------------------------------------------------------------
\* Types.
IngressEngineTypeOK == fe \in IngressEngineState

\* A shutdown that was asked for gets its result.
ShutdownReturns == fe.asked ~> fe.result # "none"

=============================================================================
