--------------------------- MODULE MCNode ---------------------------
(***************************************************************************)
(* Instances of the components of a node for TLC: agent, tunnel and the    *)
(* engine of an ingress.  They are checked side by side: an initial state  *)
(* chooses one component, which moves while the others stay at their       *)
(* start.                                                                  *)
(***************************************************************************)
EXTENDS AgentSupervisor, AgentDispatch, StreamPump, IngressRules, EgressStreams,
        Breakers, UdpSessions, WireCodec, UdpFragments, InnerCarrier, Uplink,
        ControlCalls, RouteLeases, IngressEngine

CONSTANTS Parts, d1, d2   \* the components of the run, two connections

VARIABLE part

vars == <<part, sv, dp, pm, ig, eg, bk, us, wc, fr, ca, up, cc, rl, fe>>

On(p) == part = p

AStream == CHOOSE s \in Stream : TRUE
ATarget == CHOOSE t \in Target : TRUE

(* The agent dials d1, then d2. *)
MCDialOrder == <<d1, d2>>

(* One call is made; another only to be answered from what it left. *)
ACall == CHOOSE k \in Call : TRUE
CallBound ==
    \A k \in Call \ {ACall} :
       cc.call[k].at # "idle" => cc.call[k].result = "ok" /\ cc.call[ACall].result = "ok"

Init ==
    /\ part \in Parts
    /\ IF On("supervisor") THEN SupervisorInit ELSE sv = SupervisorStart("h2", FALSE)
    /\ IF On("dispatch") THEN DispatchInit ELSE dp = DispatchStart("h2", AStream)
    /\ IF On("pump") THEN PumpInit ELSE pm = PumpStart("plain")
    /\ IF On("rules") THEN IngressInit ELSE ig = IngressStart(Empty)
    /\ IF On("egress") THEN EgressInit ELSE eg = EgressStart
    /\ IF On("breakers") THEN BreakerInit ELSE bk = BreakerStart(ATarget)
    /\ IF On("udp") THEN UdpInit ELSE us = UdpStart
    /\ IF On("wire") THEN WireInit ELSE wc = BodyStart("agent")
    /\ IF On("fragments") THEN FragmentInit ELSE fr = FragmentStart
    /\ IF On("carrier") THEN CarrierInit ELSE ca = CarrierStart(FALSE)
    /\ IF On("uplink") THEN UplinkInit ELSE up = UplinkStart
    /\ IF On("calls") THEN ControlInit ELSE cc = ControlStart
    /\ IF On("leases") THEN LeaseInit ELSE rl = LeaseStart
    /\ IF On("engine") THEN IngressEngineInit ELSE fe = IngressEngineStart

SupervisorMoves ==
    /\ On("supervisor") /\ SupervisorNext
    /\ UNCHANGED <<part, dp, pm, ig, eg, bk, us, wc, fr, ca, up, cc, rl, fe>>

DispatchMoves ==
    /\ On("dispatch") /\ DispatchNext
    /\ UNCHANGED <<part, sv, pm, ig, eg, bk, us, wc, fr, ca, up, cc, rl, fe>>

PumpMoves ==
    /\ On("pump") /\ PumpNext
    /\ UNCHANGED <<part, sv, dp, ig, eg, bk, us, wc, fr, ca, up, cc, rl, fe>>

RulesMoves ==
    /\ On("rules") /\ IngressNext
    /\ UNCHANGED <<part, sv, dp, pm, eg, bk, us, wc, fr, ca, up, cc, rl, fe>>

EgressMoves ==
    /\ On("egress") /\ EgressNext
    /\ UNCHANGED <<part, sv, dp, pm, ig, bk, us, wc, fr, ca, up, cc, rl, fe>>

BreakersMoves ==
    /\ On("breakers") /\ BreakerNext
    /\ UNCHANGED <<part, sv, dp, pm, ig, eg, us, wc, fr, ca, up, cc, rl, fe>>

UdpMoves ==
    /\ On("udp") /\ UdpNext
    /\ UNCHANGED <<part, sv, dp, pm, ig, eg, bk, wc, fr, ca, up, cc, rl, fe>>

WireMoves ==
    /\ On("wire") /\ WireNext
    /\ UNCHANGED <<part, sv, dp, pm, ig, eg, bk, us, fr, ca, up, cc, rl, fe>>

FragmentsMoves ==
    /\ On("fragments") /\ FragmentNext
    /\ UNCHANGED <<part, sv, dp, pm, ig, eg, bk, us, wc, ca, up, cc, rl, fe>>

CarrierMoves ==
    /\ On("carrier") /\ CarrierNext
    /\ UNCHANGED <<part, sv, dp, pm, ig, eg, bk, us, wc, fr, up, cc, rl, fe>>

UplinkMoves ==
    /\ On("uplink") /\ UplinkNext
    /\ UNCHANGED <<part, sv, dp, pm, ig, eg, bk, us, wc, fr, ca, cc, rl, fe>>

CallsMoves ==
    /\ On("calls") /\ ControlNext /\ CallBound'
    /\ UNCHANGED <<part, sv, dp, pm, ig, eg, bk, us, wc, fr, ca, up, rl, fe>>

LeasesMoves ==
    /\ On("leases") /\ LeaseNext
    /\ UNCHANGED <<part, sv, dp, pm, ig, eg, bk, us, wc, fr, ca, up, cc, fe>>

EngineMoves ==
    /\ On("engine") /\ IngressEngineNext
    /\ UNCHANGED <<part, sv, dp, pm, ig, eg, bk, us, wc, fr, ca, up, cc, rl>>

Next ==
    \/ SupervisorMoves
    \/ DispatchMoves
    \/ PumpMoves
    \/ RulesMoves
    \/ EgressMoves
    \/ BreakersMoves
    \/ UdpMoves
    \/ WireMoves
    \/ FragmentsMoves
    \/ CarrierMoves
    \/ UplinkMoves
    \/ CallsMoves
    \/ LeasesMoves
    \/ EngineMoves

SafetySpec == Init /\ [][Next]_vars

(* The fairness of each component, while it is the one that moves. *)
FairSupervisor ==
    /\ WF_sv(On("supervisor") /\ StartAttempt)
    /\ WF_sv(On("supervisor") /\ Judge)
    /\ WF_sv(On("supervisor") /\ BackedOff)
    /\ WF_sv(On("supervisor") /\ Finish)
    /\ WF_sv(On("supervisor") /\ ConnectTimeout) /\ WF_sv(On("supervisor") /\ SpawnTasks)
    /\ WF_sv(On("supervisor") /\ Install)
    /\ WF_sv(On("supervisor") /\ Publish)
    /\ WF_sv(On("supervisor") /\ SessionEnds)
    /\ WF_sv(On("supervisor") /\ Withdraw)
    /\ WF_sv(On("supervisor") /\ Shutdown)
    /\ WF_sv(On("supervisor") /\ Drain)
    /\ WF_sv(On("supervisor") /\ (\E t \in Task : ReportExit(t) \/ StallFires(t)))
    /\ WF_sv(On("supervisor") /\ TransportNotices)
    /\ WF_sv(On("supervisor") /\ ClosedWatcher)
    /\ WF_sv(On("supervisor") /\ LedgerAges)
    /\ WF_sv(On("supervisor") /\ ProbeSilence) /\ WF_sv(On("supervisor") /\ ProbeDemand)

FairDispatch ==
  /\ \A r \in Reader : WF_dp(On("dispatch") /\ ReaderStep(r))
  /\ \A c \in Chan : /\ WF_dp(On("dispatch") /\ ConsumerStep(c))
                     /\ WF_dp(On("dispatch") /\ TaskDropped(c))
  /\ WF_dp(On("dispatch") /\ ShutdownStep)
  /\ WF_dp(On("dispatch") /\ PollExit)
  /\ WF_dp(On("dispatch") /\ EgressEnds)

FairPump ==
  /\ WF_pm(On("pump") /\ PumpTick)
  /\ WF_pm(On("pump") /\ LocalTimer)
  /\ WF_pm(On("pump") /\ TunnelTimer)
  /\ WF_pm(On("pump") /\ TunnelStalls)
  /\ WF_pm(On("pump") /\ DrainOver)
  /\ WF_pm(On("pump") /\ Cut)
  /\ WF_pm(On("pump") /\ (pm.shut /\ TunnelEof))

FairRules ==
    /\ WF_ig(On("rules") /\ SessionStarts)
    /\ WF_ig(On("rules") /\ Wake)
    /\ WF_ig(On("rules") /\ ReconcileStep)

FairEgress ==
  /\ WF_eg(On("egress") /\ AssociationStep) /\ WF_eg(On("egress") /\ CloseCommand)
  /\ WF_eg(On("egress") /\ (eg.cut /\ AssociationBreaks))
  /\ \A s \in TcpStream : /\ WF_eg(On("egress") /\ TcpStep(s))
                          /\ WF_eg(On("egress") /\ (eg.cut /\ PumpEnds(s)))
  /\ \A u \in UdpSession : /\ WF_eg(On("egress") /\ SessionStep(u))
                           /\ WF_eg(On("egress") /\ (Cancelled /\ ReaderEnds(u)))
                           /\ WF_eg(On("egress") /\ (Cancelled /\ BackendEnds(u)))

FairBreakers ==
  /\ WF_bk(On("breakers") /\ BreakerTick)
  /\ \A q \in Request : /\ SF_bk(On("breakers") /\ AgentChecks(q))
                        /\ WF_bk(On("breakers") /\ EdgeHears(q))
                        /\ SF_bk(On("breakers") /\ (Dial(q) /\ bk'.req[q].at \in {"served", "failed"}))
                        /\ \A t \in Target : SF_bk(On("breakers") /\ (EdgeChecks(q, t) /\ bk'.req[q].at = "edge"))

FairUdp ==
  /\ WF_us(On("udp") /\ ServeStep) /\ WF_us(On("udp") /\ UdpTick)
  /\ \A s \in SessionIds :
       /\ WF_us(On("udp") /\ ClientPumpStep(s))
       /\ WF_us(On("udp") /\ BackendIdle(s))
       /\ WF_us(On("udp") /\ BackendHearsClose(s))

FairWire ==
    /\ WF_wc(On("wire") /\ poll_next)
    /\ WF_wc(On("wire") /\ ReadChunk)
    /\ WF_wc(On("wire") /\ Decode)

FairCarrier ==
  /\ WF_ca(On("carrier") /\ OutputPump)
  /\ WF_ca(On("carrier") /\ OutputPumpEnds)
  /\ WF_ca(On("carrier") /\ InputPump)
  /\ WF_ca(On("carrier") /\ InputPumpEnds)
  /\ WF_ca(On("carrier") /\ TimerPumpEnds) /\ WF_ca(On("carrier") /\ Owner)

FairUplink ==
    /\ \A p \in Pump : /\ WF_up(On("uplink") /\ SendHeader(p))
                       /\ WF_up(On("uplink") /\ SendPayload(p))
                       /\ WF_up(On("uplink") /\ SendFails(p))
                       /\ WF_up(On("uplink") /\ CloseSent(p))
                       /\ WF_up(On("uplink") /\ EchoTimesOut(p))
                       /\ WF_up(On("uplink") /\ Released(p))
    /\ WF_up(On("uplink") /\ UploadSwaps)
    /\ WF_up(On("uplink") /\ UploadSeals)
    /\ WF_up(On("uplink") /\ UploadStops)
    /\ WF_up(On("uplink") /\ UploadRetries)
    /\ WF_up(On("uplink") /\ (UploadAnswered \/ UploadRejected \/ UploadGivesUp))
    /\ WF_up(On("uplink") /\ StallTrips)
    /\ WF_up(On("uplink") /\ HubDecodes)
    /\ WF_up(On("uplink") /\ PongSent)
    /\ WF_up(On("uplink") /\ PollStops)
    /\ WF_up(On("uplink") /\ ShutdownCalled)
    /\ WF_up(On("uplink") /\ (ShutdownSeals \/ ShutdownTimesOut))
    /\ WF_up(On("uplink") /\ ConnectionDropped)

FairCalls ==
  /\ \A k \in Call : WF_cc(On("calls") /\ CallStep(k))
  /\ \A b \in Session : /\ WF_cc(On("calls") /\ SilenceNoticed(b))
                        /\ WF_cc(On("calls") /\ shutdown(b))
  /\ WF_cc(On("calls") /\ FlowResumes)
  /\ WF_cc(On("calls") /\ send_open_with)
  /\ WF_cc(On("calls") /\ StreamEnds)
  /\ WF_cc(On("calls") /\ send_close)

FairEngine ==
    /\ WF_fe(On("engine") /\ ProbeStep) /\ WF_fe(On("engine") /\ MonitorStep)
    /\ WF_fe(On("engine") /\ (fe.token /\ EdgeReturns))

AgentFairSpec ==
    /\ SafetySpec
    /\ FairSupervisor /\ FairDispatch /\ FairRules /\ FairEgress
    /\ FairBreakers /\ FairEngine

TunnelFairSpec ==
    /\ SafetySpec
    /\ FairPump /\ FairUdp /\ FairWire /\ FairCarrier
    /\ FairUplink /\ FairCalls


-----------------------------------------------------------------------------
(* The state of every component is well typed. *)
NodeTypesOK ==
    /\ SupervisorTypeOK /\ DispatchTypeOK /\ PumpTypeOK /\ IngressTypeOK
    /\ EgressTypeOK /\ BreakerTypeOK /\ UdpTypeOK /\ WireTypeOK
    /\ FragmentTypeOK /\ CarrierTypeOK /\ UplinkTypeOK /\ ControlTypeOK
    /\ LeaseTypeOK /\ IngressEngineTypeOK

\* The session of an agent: it ends for good on request only, no torn tunnel
\* stands in the slot, every entry of a live request table has a reader, a
\* failed open takes back its own entry only, and an answer is the hub's.
SessionSound ==
  /\ []StoppedOnlyOnRequest /\ []FacadeNotTorn /\ []NoStrandedEntry
  /\ RollbackSparesSuccessor /\ []AnswerIsHubs

\* A tunnelled stream ends in order: idle only when both halves are silent,
\* not before the answer came, and its goodbye ahead of the Close.
StreamsEndInOrder ==
  /\ IdleOnlyWhenSilent /\ AnswerIsAwaited /\ []CloseAfterGoodbye

\* An agent repairs itself and stops when told: a dead session is noticed and
\* its consumers end, rules whose sockets are free are served, routes come
\* back after an outage, and a shutdown returns.
AgentLive ==
  /\ DeathIsNoticed /\ StopIsHonoured /\ CutConsumersEnd
  /\ ConsumersEndWithSession /\ ServedUnlessTaken /\ EgressTasksEnd
  /\ RouteRecovers /\ ShutdownReturns

\* Nothing in the tunnel waits for good: streams, UDP sessions and pumps end,
\* frames arrive, and uploads, closes and control calls settle.
TunnelLive ==
  /\ SilenceEnds /\ HalfEndsAll /\ UdpSessionsEnd /\ FramesArrive
  /\ CloseReturns /\ PumpsEnd /\ UploadSettles /\ EgressReturns
  /\ CallsSettle /\ StreamLetGo
=============================================================================
