-------------------------------- MODULE EdgeRun --------------------------------
(***************************************************************************)
(* The life of an ingress edge (expose/src/edge/mod.rs, acme.rs): the      *)
(* embedded hub, one supervised agent per workspace, the public listener,  *)
(* the ACME face on :80, readiness, health watch and teardown.             *)
(***************************************************************************)
EXTENDS Integers, Sequences

CONSTANTS Principals,   \* the workspaces with a principal, in order
          Acme          \* does the edge end TLS itself

ASSUME EdgeRunAssumption == Acme \in BOOLEAN

VARIABLE er

Workspaces == {Principals[i] : i \in DOMAIN Principals}

RunPhase ==
  {"validate", "hub", "agents", "faces", "barrier", "steady",
   "stop80", "drain", "stopAgents", "flush", "over"}

\* An agent is connecting until it registers, then connected or reconnecting; its
\* supervisor gives up on a configuration error, wedges, or dies.
AgentPhase ==
  {"none", "connecting", "connected", "reconnecting", "failed", "wedged", "dead", "stopped"}

EdgeRunState ==
  [phase     : RunPhase,
   next      : 1..(Len(Principals) + 1),       \* the principal to be started next
   hub       : {"none", "starting", "up", "exited", "joined"},
   hubToken  : BOOLEAN,
   agent     : [Workspaces -> AgentPhase],
   watch     : [Workspaces -> {"none", "watching", "tripped"}],
   health    : SUBSET Workspaces,              \* reports in the channel
   public    : {"none", "bound", "failed", "closed"},
   port80    : {"none", "binding", "bound", "unbound", "released"},
   ready     : BOOLEAN,
   cancelled : BOOLEAN,
   served    : BOOLEAN,                        \* the run got past its start
   flushed   : BOOLEAN,
   outcome   : {"none", "ok", "hub", "health", "listener", "start", "panic"}]

EdgeRunStart ==
  [phase |-> "validate", next |-> 1, hub |-> "none", hubToken |-> FALSE,
   agent |-> [w \in Workspaces |-> "none"], watch |-> [w \in Workspaces |-> "none"],
   health |-> {}, public |-> "none", port80 |-> "none", ready |-> FALSE,
   cancelled |-> FALSE, served |-> FALSE, flushed |-> FALSE, outcome |-> "none"]

EdgeRunInit == er = EdgeRunStart

-----------------------------------------------------------------------------
(* Starting.                                                               *)

\* An error before the select returns at once: what runs already is left running.
EdgeStartFails == er' = [er EXCEPT !.phase = "over", !.outcome = "start"]

\* Identity, trust, routes and the audit sink, before anything is bound.
Validate ==
  /\ er.phase = "validate"
  /\ EdgeStartFails \/ er' = [er EXCEPT !.phase = "hub", !.hub = "starting"]

\* The readiness of the hub, or its exit, whichever comes first.
HubReady ==
  /\ er.phase = "hub" /\ er.hub = "starting"
  /\ er' = [er EXCEPT !.phase = "agents", !.hub = "up"]

HubBindFails ==
  /\ er.phase = "hub" /\ er.hub = "starting"
  /\ er' = [er EXCEPT !.phase = "over", !.outcome = "start", !.hub = "joined"]

\* The agent of the next principal is built and started.
StartAgent ==
  /\ er.phase = "agents" /\ er.next <= Len(Principals)
  /\ er.agent[Principals[er.next]] = "none"
  /\ EdgeStartFails \/ er' = [er EXCEPT !.agent[Principals[er.next]] = "connecting"]

\* The first registration is awaited, at most 30 s.  The wait does not look at the
\* shutdown token, and a dead supervisor keeps it from looking at its clock.
wait_initial_registration ==
  /\ er.phase = "agents" /\ er.next <= Len(Principals)
  /\ LET s == er.agent[Principals[er.next]]
     IN  \/ s = "connected" /\ er' = [er EXCEPT !.next = @ + 1]
         \/ s \in {"failed", "connecting", "reconnecting", "wedged"} /\ EdgeStartFails

AgentsStarted ==
  /\ er.phase = "agents" /\ er.next > Len(Principals)
  /\ er' = [er EXCEPT !.phase = "faces"]

\* ACME, proxy policies, listener, one health watcher per agent.
SpawnFaces ==
  /\ er.phase = "faces"
  /\ \/ EdgeStartFails
     \/ er' = [er EXCEPT !.phase = "barrier", !.served = TRUE,
                         !.port80 = IF Acme THEN "binding" ELSE @,
                         !.watch = [w \in Workspaces |-> "watching"]]

\* The :80 face binds in its own task; a failure is not fatal.
Bind80 ==
  /\ er.port80 = "binding"
  /\ er' \in {[er EXCEPT !.port80 = p] : p \in {"bound", "unbound"}}

BindPublic ==
  /\ er.phase \in {"barrier", "steady"} /\ er.public = "none"
  /\ er' \in {[er EXCEPT !.public = p] : p \in {"bound", "failed"}}

\* The barrier: the listener's signal, then up to a second for the :80 face.
SignalReady ==
  /\ er.phase = "barrier" /\ er.public = "bound"
  /\ er' = [er EXCEPT !.phase = "steady", !.ready = TRUE]

-----------------------------------------------------------------------------
(* Agents and their watch.                                                 *)

Alive == {"connecting", "connected", "reconnecting"}

\* The supervisor cycles through its states, gives up, wedges, or dies.
AgentMoves(w) ==
  /\ er.agent[w] \in Alive
  /\ \/ \E s \in Alive \ {er.agent[w]} :
          /\ s = "connected" => er.hub = "up"
          /\ s = "connecting" => er.agent[w] = "reconnecting"
          /\ er' = [er EXCEPT !.agent[w] = s]
     \/ /\ er.agent[w] # "connected"
        /\ er' \in {[er EXCEPT !.agent[w] = s] : s \in {"failed", "wedged", "dead"}}

\* Mutant: a supervisor that reconnects trips the watch.
HealthTripsEarly(w) == er.agent[w] \in {"failed", "wedged", "dead", "reconnecting"}

\* What the watch trips on: a final error, a silent or a dead supervisor.
HealthTrips(w) == er.agent[w] \in {"failed", "wedged", "dead"}

watch_agent_health(w) ==
  /\ er.watch[w] = "watching" /\ HealthTrips(w)
  /\ er' = [er EXCEPT !.watch[w] = "tripped", !.health = @ \cup {w}]

\* The control endpoint may stop at any time.
HubExits ==
  /\ er.hub = "up"
  /\ er' = [er EXCEPT !.hub = "exited"]

Cancel ==
  /\ ~er.cancelled /\ er.phase # "over"
  /\ er' = [er EXCEPT !.cancelled = TRUE]

-----------------------------------------------------------------------------
(* The select of the run, and the teardown.                                *)

\* The listener future ends with the select and closes its port.
Leave(outcome) ==
  [er EXCEPT !.phase = "stop80", !.outcome = outcome, !.public = "closed"]

\* The same four events end the barrier and the steady state.  Reading the hub's
\* exit consumes the result of its task.
SelectEnds ==
  /\ er.phase \in {"barrier", "steady"}
  /\ \/ er.public = "failed" /\ er' = Leave("listener")
     \/ er.cancelled /\ er' = Leave("ok")
     \/ er.hub = "exited" /\ er' = [Leave("hub") EXCEPT !.hub = "joined"]
     \/ er.health # {} /\ er' = Leave("health")

Release80 ==
  /\ er.phase = "stop80"
  /\ er' = [er EXCEPT !.phase = "drain", !.hubToken = TRUE,
                      !.port80 = IF @ = "none" THEN @ ELSE "released"]

\* The hub drains within its own deadline once its token is cancelled.
HubDrains ==
  /\ er.hubToken /\ er.hub = "up"
  /\ er' = [er EXCEPT !.hub = "exited"]

\* hub_task.await: joining a task whose result was taken already panics.
JoinHub ==
  /\ er.phase = "drain" /\ er.hub \in {"exited", "joined"}
  /\ er' = IF er.hub = "joined"
           THEN [er EXCEPT !.phase = "over", !.outcome = "panic"]
           ELSE [er EXCEPT !.phase = "stopAgents", !.hub = "joined"]

StopAgents ==
  /\ er.phase = "stopAgents"
  /\ er' = [er EXCEPT !.phase = "flush", !.agent = [w \in Workspaces |-> "stopped"]]

FlushAudit ==
  /\ er.phase = "flush"
  /\ er' = [er EXCEPT !.phase = "over", !.flushed = TRUE]

EdgeRunNext ==
  \/ Validate \/ HubReady \/ HubBindFails \/ StartAgent \/ wait_initial_registration
  \/ AgentsStarted \/ SpawnFaces \/ Bind80 \/ BindPublic \/ SignalReady
  \/ (\E w \in Workspaces : AgentMoves(w) \/ watch_agent_health(w))
  \/ HubExits \/ Cancel \/ SelectEnds \/ Release80 \/ HubDrains \/ JoinHub \/ StopAgents
  \/ FlushAudit

\* The runtime polls every task of the edge; the hub drains and the waits time out.
\* Agents, failures and the caller are not assumed to do anything.
EdgeRunFairness ==
  /\ WF_er(Validate) /\ WF_er(HubReady \/ HubBindFails) /\ WF_er(StartAgent)
  /\ WF_er(wait_initial_registration) /\ WF_er(AgentsStarted) /\ WF_er(SpawnFaces)
  /\ WF_er(BindPublic) /\ WF_er(SignalReady) /\ WF_er(SelectEnds) /\ WF_er(Release80)
  /\ WF_er(HubDrains) /\ WF_er(JoinHub) /\ WF_er(StopAgents) /\ WF_er(FlushAudit)
  /\ \A w \in Workspaces : WF_er(watch_agent_health(w))

EdgeRunSpec == EdgeRunInit /\ [][EdgeRunNext]_er /\ EdgeRunFairness

-----------------------------------------------------------------------------

\* The run is in a known phase, with its hub, agents and ports.
EdgeRunTypeOK == er \in EdgeRunState

Quiet ==
  /\ er.hub \notin {"starting", "up"} /\ er.public # "bound" /\ er.flushed
  /\ er.port80 \in {"none", "released"}
  /\ \A w \in Workspaces : er.agent[w] = "stopped"

\* A run that served and ends for another reason than the death of its hub leaves
\* nothing behind: no hub, no agent, no port, and a flushed ledger.
TeardownIsWhole ==
  er.phase = "over" /\ er.outcome \in {"ok", "health", "listener"} => Quiet

\* A run that fails leaves neither its hub nor an agent running, as the comment of
\* run_until has it of every failure exit.
FailureTornDown ==
  er.phase = "over" /\ er.outcome \in {"hub", "health", "listener", "start", "panic"}
    => /\ er.hub \notin {"starting", "up"}
       /\ \A w \in Workspaces : er.agent[w] \notin Alive

\* Readiness is announced only with the public port bound and the control endpoint
\* started, and not again once the run is over.
ReadyMeansBound ==
  [][er'.ready /\ ~er.ready => er.public = "bound" /\ er.hub # "none" /\ er.phase # "over"]_er

\* A supervisor that cycles through its states never makes the process restart.
FlappingIsTolerated ==
  [][er'.outcome = "health" /\ er.outcome # "health"
       => \E w \in Workspaces : er.agent[w] \in {"failed", "wedged", "dead"}]_er

\* Once the edge serves, a cancellation ends the run, and so does an agent whose
\* supervisor gave up, wedged or died.
EdgeEnds ==
  (er.phase \in {"barrier", "steady"}
     /\ (er.cancelled \/ \E w \in Workspaces : er.agent[w] \in {"failed", "wedged", "dead"}))
    ~> er.phase = "over"

\* The start ends: the edge serves or gives up, unless a supervisor dies before it
\* registered, for which wait_initial_registration waits without end.
StartSettles ==
  (er.phase = "validate")
    ~> \/ er.phase \in {"barrier", "over"}
       \/ \E w \in Workspaces : er.agent[w] = "dead"
=============================================================================
