--------------------------- MODULE MCFleet ---------------------------
(***************************************************************************)
(* Instances of the components of a fleet for TLC: the channels of the     *)
(* hub, what the operator runs, the registrar, the public edge, the        *)
(* desktop node and the audit ledger.  An initial state chooses one        *)
(* component, which moves while the others stay at their start.            *)
(***************************************************************************)
EXTENDS PolicyChannel, CrlChannel, Proposals, Renewal, OperatorPlan, IssuerStore,
        EnrollmentCodes, RegistrarServe, EdgeConn, EdgeRun, DesktopNode,
        NodeInstall, AuditLedger, PackLaunch

CONSTANTS Parts,                                 \* the components of the run
          oldPolicy, list2, list3, node1, member1, control1,
          w1, w2, n1, n2, gw, web, r1, a1, h1, H1, h2

VARIABLE part

vars == <<part, po, cr, pq, rn, op, st, en, rv, ec, er, dn, ni, al, mf, pl>>

On(p) == part = p

ATopology == CHOOSE t \in Topology : TRUE

(* Two policies above the embedded one. *)
MCGeneration == [p \in Publication |-> IF p = oldPolicy THEN 2 ELSE 3]

(* One policy is published where there is a fault and where the fleet exposes  *)
(* services; two in a mesh, where the older may be copied to an agent by hand. *)
PolicyBound ==
    /\ po.drops + po.faults <= 1
    /\ po.drops = 1 => ~po.expose /\ po.copying \in {Embedded, oldPolicy}
    /\ po.faults = 1 \/ po.expose => \A p \in Publication \ {oldPolicy} : po.publ[p] = "new"

(* Two pushed lists and a pull that carries none. *)
MCNumber == [p \in Push |-> IF p = list2 THEN 2 ELSE IF p = list3 THEN 3 ELSE 0]

(* A restart of the hub takes the place of a registration, and two pushes are  *)
(* under way at once.                                                          *)
CrlBound ==
    /\ cr.circuits + cr.boots <= 2
    /\ \E p \in Push : cr.push[p].at \in {"new", "done", "refused", "failed"}

(* At most two of the connections come, and the routes change while at most    *)
(* one of them is on the face that routes.                                     *)
EdgeBound ==
    /\ \E c \in Task : ec.at[c] = "none"
    /\ ec.swaps > 0 => \E c \in Conn : ec.at[c] = "none"

(* A fault, a rotation and another operator: two of the three. *)
PlanBound == op.faults + op.rotates + op.others <= 2

(* One principal, or a principal and the control one it vouches for. *)
OneStem == (node1 :> <<member1>>)
TwoStems == (node1 :> <<member1, control1>>)

RealmAndWorkspace == <<"realm", "ws">>

MCPrincipals == <<"w1", "w2">>

(* The documents an operator starts from: a mesh whose hub is still missing,   *)
(* one with two agents; a public edge with a route, with a request rate,       *)
(* without its ingress.                                                        *)
MCFolded == (h1 :> h1) @@ (H1 :> h1) @@ (h2 :> h2)

BaseDoc ==
    [id |-> "good", control |-> NoEndpoint, tls |-> "acme", email |-> TRUE,
     identity |-> [mode |-> "offline", ttl |-> "default", registrar |-> "none"],
     workspace |-> {w1}, ingress |-> <<>>, hub |-> <<>>, agent |-> <<>>, route |-> <<>>]

HubDoc ==
    [BaseDoc EXCEPT !.hub =
        (gw :> [endpoint |-> [form |-> "hostport", host |-> h2], listen |-> "good", quic |-> "off"])]

Member(w, services, inward, outward) ==
    [workspace |-> w, services |-> services, inward |-> inward, outward |-> outward,
     transport |-> "h2"]

Inward == [listen |-> "loopback", proto |-> "tcp", target |-> n2, addr |-> a1, idle |-> "default"]
Outward == [proto |-> "tcp", addr |-> a1, cidr |-> "none", idle |-> "default"]

OfferDoc ==
    [HubDoc EXCEPT !.workspace = {w1, w2}, !.agent = (n2 :> Member(w2, <<>>, <<>>, (r1 :> Outward)))]

MeshDoc ==
    [OfferDoc EXCEPT !.agent = @ @@ (n1 :> Member(w1, <<>>, (r1 :> Inward), (r1 :> Outward)))]

ExposeDoc ==
    [BaseDoc EXCEPT
        !.control = [form |-> "hostport", host |-> h2],
        !.ingress = (gw :> [workspaces |-> <<w1>>, listen |-> "443", quic |-> "off",
                           rate |-> "default", xff |-> "on"]),
        !.agent = (n1 :> Member(w1, (web :> "good"), <<>>, <<>>)),
        !.route = (h1 :> [workspace |-> w1, agent |-> n1, id |-> web])]

MCDrafts ==
    {[OfferDoc EXCEPT !.hub = <<>>], MeshDoc, ExposeDoc, [ExposeDoc EXCEPT !.ingress[gw].rate = "set"],
     [ExposeDoc EXCEPT !.ingress = <<>>]}

MCWatched == {<<"ingress", gw>>, <<"hub", gw>>, <<"agent", n1>>}

(* Where the edge and the document rest while another component moves. *)
EdgeOver == [EdgeRunStart EXCEPT !.phase = "over"]
RestingDoc == [doc |-> [BaseDoc EXCEPT !.workspace = {}], edits |-> 0]
NoLaunch == [node |-> <<"hub", gw>>, generation |-> 0, pack |-> NoPack, state |-> NoPolicy, run |-> "down"]

(* A second edit is tried on the document only: no node is installed from it. *)
LaunchBound == mf.edits <= 1 \/ pl = NoLaunch

Init ==
    /\ part \in Parts
    /\ IF On("policy") THEN PolicyInit ELSE po = PolicyStart(FALSE)
    /\ IF On("crl") THEN CrlInit ELSE cr = CrlStart
    /\ IF On("proposals") THEN ProposalInit ELSE pq = ProposalStart
    /\ IF On("renewal") THEN RenewalInit ELSE rn = RenewalStart
    /\ IF On("plan") THEN PlanInit ELSE op = PlanStart
    /\ IF On("store") THEN StoreInit ELSE st = StoreStart
    /\ IF On("codes") THEN EnrollInit ELSE en = EnrollStart
    /\ IF On("registrar") THEN ServeInit ELSE rv = ServeStart
    /\ IF On("edgeconn") THEN EdgeConnInit ELSE ec = EdgeConnStart(ATopology)
    /\ IF On("edgerun") THEN EdgeRunInit ELSE er = EdgeOver
    /\ IF On("desktop") THEN NodeInit ELSE dn = NodeStart("hub")
    /\ IF On("install") THEN InstallInit ELSE ni = InstallStart
    /\ IF On("ledger") THEN LedgerInit ELSE al = LedgerStart
    /\ IF On("launch") THEN LaunchInit ELSE mf = RestingDoc /\ pl = NoLaunch

PolicyMoves ==
    /\ On("policy") /\ PolicyNext /\ PolicyBound'
    /\ UNCHANGED <<part, cr, pq, rn, op, st, en, rv, ec, er, dn, ni, al, mf, pl>>

CrlMoves ==
    /\ On("crl") /\ CrlNext /\ CrlBound'
    /\ UNCHANGED <<part, po, pq, rn, op, st, en, rv, ec, er, dn, ni, al, mf, pl>>

ProposalsMoves ==
    /\ On("proposals") /\ ProposalNext
    /\ UNCHANGED <<part, po, cr, rn, op, st, en, rv, ec, er, dn, ni, al, mf, pl>>

RenewalMoves ==
    /\ On("renewal") /\ RenewalNext
    /\ UNCHANGED <<part, po, cr, pq, op, st, en, rv, ec, er, dn, ni, al, mf, pl>>

PlanMoves ==
    /\ On("plan") /\ PlanNext /\ PlanBound'
    /\ UNCHANGED <<part, po, cr, pq, rn, st, en, rv, ec, er, dn, ni, al, mf, pl>>

StoreMoves ==
    /\ On("store") /\ StoreNext
    /\ UNCHANGED <<part, po, cr, pq, rn, op, en, rv, ec, er, dn, ni, al, mf, pl>>

CodesMoves ==
    /\ On("codes") /\ EnrollNext
    /\ UNCHANGED <<part, po, cr, pq, rn, op, st, rv, ec, er, dn, ni, al, mf, pl>>

RegistrarMoves ==
    /\ On("registrar") /\ ServeNext
    /\ UNCHANGED <<part, po, cr, pq, rn, op, st, en, ec, er, dn, ni, al, mf, pl>>

EdgeconnMoves ==
    /\ On("edgeconn") /\ EdgeConnNext /\ EdgeBound'
    /\ UNCHANGED <<part, po, cr, pq, rn, op, st, en, rv, er, dn, ni, al, mf, pl>>

EdgerunMoves ==
    /\ On("edgerun") /\ EdgeRunNext
    /\ UNCHANGED <<part, po, cr, pq, rn, op, st, en, rv, ec, dn, ni, al, mf, pl>>

DesktopMoves ==
    /\ On("desktop") /\ NodeNext
    /\ UNCHANGED <<part, po, cr, pq, rn, op, st, en, rv, ec, er, ni, al, mf, pl>>

InstallMoves ==
    /\ On("install") /\ InstallNext
    /\ UNCHANGED <<part, po, cr, pq, rn, op, st, en, rv, ec, er, dn, al, mf, pl>>

LedgerMoves ==
    /\ On("ledger") /\ LedgerNext
    /\ UNCHANGED <<part, po, cr, pq, rn, op, st, en, rv, ec, er, dn, ni, mf, pl>>

LaunchMoves ==
    /\ On("launch") /\ LaunchNext /\ LaunchBound'
    /\ UNCHANGED <<part, po, cr, pq, rn, op, st, en, rv, ec, er, dn, ni, al>>

Next ==
    \/ PolicyMoves
    \/ CrlMoves
    \/ ProposalsMoves
    \/ RenewalMoves
    \/ PlanMoves
    \/ StoreMoves
    \/ CodesMoves
    \/ RegistrarMoves
    \/ EdgeconnMoves
    \/ EdgerunMoves
    \/ DesktopMoves
    \/ InstallMoves
    \/ LedgerMoves
    \/ LaunchMoves

SafetySpec == Init /\ [][Next]_vars

(* The fairness of each component, while it is the one that moves. *)
FairPolicy ==
    /\ WF_po(On("policy") /\ (\E p \in Publication : WriteTemp(p) \/ RenameTemp(p) \/ PublishStores(p)))
    /\ WF_po(On("policy") /\ PullHits)
    /\ WF_po(On("policy") /\ PullMisses)
    /\ WF_po(On("policy") /\ PullLoads)
    /\ WF_po(On("policy") /\ PullAnswers)
    /\ WF_po(On("policy") /\ HubWatcherArms) /\ WF_po(On("policy") /\ HubWatcherReloads)
    /\ WF_po(On("policy") /\ HubStarts) /\ WF_po(On("policy") /\ AgentStarts(TRUE))
    /\ WF_po(On("policy") /\ AgentArms) /\ SF_po(On("policy") /\ AgentTicks)
    /\ WF_po(On("policy") /\ PersistPolicy)
    /\ WF_po(On("policy") /\ PersistSignature)
    /\ WF_po(On("policy") /\ OperatorCopiesSignature)

FairProposals ==
    /\ WF_pq(On("proposals") /\ ProposalTick)
    /\ WF_pq(On("proposals") /\ Sweep)
    /\ WF_pq(On("proposals") /\ QueueStarts)

FairRenewal ==
    /\ \A n \in Node :
          /\ WF_rn(On("renewal") /\ PassStarts(n))
          /\ WF_rn(On("renewal") /\ RenewIssued(n))
          /\ WF_rn(On("renewal") /\ SequencePersisted(n))
          /\ WF_rn(On("renewal") /\ PointerWritten(n))
          /\ WF_rn(On("renewal") /\ ConfirmRotates(n))
          /\ WF_rn(On("renewal") /\ ConfirmLoads(n))
          /\ WF_rn(On("renewal") /\ ConfirmSaves(n))
          /\ WF_rn(On("renewal") /\ CrlRefreshed(n))
          /\ WF_rn(On("renewal") /\ NodeStarts(n))
    /\ \A p \in Principal : WF_rn(On("renewal") /\ PendingLapses(p))

FairPlan ==
    /\ WF_op(On("plan") /\ ApplyStarts)
    /\ WF_op(On("plan") /\ GateAsks)
    /\ WF_op(On("plan") /\ ApplyMints)
    /\ WF_op(On("plan") /\ BundleWritten)
    /\ \A p \in Pack : /\ WF_op(On("plan") /\ PackRendered(p))
                       /\ WF_op(On("plan") /\ SnapshotEmbedded(p))
    /\ WF_op(On("plan") /\ PublishAccepted)
    /\ WF_op(On("plan") /\ PublishConflicts)
    /\ WF_op(On("plan") /\ CrlsPushed)
    /\ WF_op(On("plan") /\ ApplyRecords)
    /\ WF_op(On("plan") /\ RotateRecords)
    /\ WF_op(On("plan") /\ RevokeWrites)
    /\ WF_op(On("plan") /\ ApproveSaves) /\ WF_op(On("plan") /\ ApproveNotifies)

FairStore ==
    \A c \in Command :
       /\ WF_st(On("store") /\ BindingRead(c))
       /\ WF_st(On("store") /\ record_binding(c))
       /\ WF_st(On("store") /\ rename_legacy(c))
       /\ WF_st(On("store") /\ ensure_backup_configured(c))
       /\ WF_st(On("store") /\ ensure(c))
       /\ WF_st(On("store") /\ write_private(c))
       /\ WF_st(On("store") /\ CertWritten(c))
       /\ WF_st(On("store") /\ record_applied(c))
       /\ WF_st(On("store") /\ RevokeRegenerates(c))
       /\ WF_st(On("store") /\ CheckpointReads(c))
       /\ WF_st(On("store") /\ CheckpointWrites(c))
       /\ WF_st(On("store") /\ RestoreReports(c))
       /\ SF_st(On("store") /\ BackupNow(c))

FairRegistrar ==
    /\ WF_rv(On("registrar") /\ Rotates)
    /\ WF_rv(On("registrar") /\ LoopBreaks)
    /\ WF_rv(On("registrar") /\ PreambleEaten)
    /\ WF_rv(On("registrar") /\ PreambleDropped)
    /\ WF_rv(On("registrar") /\ DrainedAll) /\ WF_rv(On("registrar") /\ GraceOver)

FairEdgerun ==
  /\ WF_er(On("edgerun") /\ Validate)
  /\ WF_er(On("edgerun") /\ (HubReady \/ HubBindFails))
  /\ WF_er(On("edgerun") /\ StartAgent)
  /\ WF_er(On("edgerun") /\ wait_initial_registration)
  /\ WF_er(On("edgerun") /\ AgentsStarted)
  /\ WF_er(On("edgerun") /\ SpawnFaces)
  /\ WF_er(On("edgerun") /\ BindPublic)
  /\ WF_er(On("edgerun") /\ SignalReady)
  /\ WF_er(On("edgerun") /\ SelectEnds)
  /\ WF_er(On("edgerun") /\ Release80)
  /\ WF_er(On("edgerun") /\ HubDrains)
  /\ WF_er(On("edgerun") /\ JoinHub)
  /\ WF_er(On("edgerun") /\ StopAgents)
  /\ WF_er(On("edgerun") /\ FlushAudit)
  /\ \A w \in Workspaces : WF_er(On("edgerun") /\ watch_agent_health(w))

FairDesktop ==
    /\ \A n \in EngineNo : /\ WF_dn(On("desktop") /\ EngineCloses(n))
                           /\ WF_dn(On("desktop") /\ ListenerStep(n))
                           /\ WF_dn(On("desktop") /\ RestartStep(n))
                           /\ WF_dn(On("desktop") /\ RenewalStep(n))
    /\ \A o \in AllOp : WF_dn(On("desktop") /\ OpStep(o))
    /\ WF_dn(On("desktop") /\ Persisted)

FleetFairSpec ==
    /\ SafetySpec
    /\ FairPolicy /\ FairProposals /\ FairRenewal /\ FairPlan
    /\ FairStore /\ FairRegistrar /\ FairEdgerun /\ FairDesktop


-----------------------------------------------------------------------------
(* The state of every component is well typed. *)
FleetTypesOK ==
    /\ PolicyTypeOK /\ CrlTypeOK /\ ProposalTypeOK /\ RenewalTypeOK /\ PlanTypeOK
    /\ StoreTypeOK /\ EnrollTypeOK /\ ServeTypeOK /\ EdgeConnTypeOK /\ EdgeRunTypeOK
    /\ NodeTypeOK /\ InstallTypeOK /\ LedgerTypeOK /\ ManifestTypeOK /\ LaunchTypeOK

\* The servers are what they report: a ready edge is bound, one that ended in
\* order left nothing running, a flapping agent does not restart it, and a
\* registrar that noticed in time serves no expired certificate.
ServersHonest ==
  /\ []TeardownIsWhole /\ ReadyMeansBound /\ FlappingIsTolerated
  /\ []NeverServesExpired

\* A node runs what its owner asked for: one engine at most, started only
\* while wanted, the wish kept over a quit; an installed pack moves forward,
\* runs when the command says so, and keeps its lineage.
NodeKept ==
  /\ []NoOrphanEngine /\ RestartRespectsIntent /\ []IntentSurvivesQuit
  /\ []MovesForward /\ AnsweredIsRunning /\ []LineageSurvives

\* Every document that validates can be edited further and launched: renames,
\* tier switches and re-applied flags are accepted, routes and streams find
\* their services, trust and admission cover them, and an updated node
\* starts.
EditsSound ==
  /\ TrustCoversStreams /\ RenameAccepted /\ TierSwitches
  /\ ReapplyKeepsRated /\ UpdateNeverStops /\ RoutesLeadSomewhere
  /\ StreamsAdmitted

\* The fleet converges: published policies are applied, lost renewals heal,
\* plans and backups catch up, records expire, and what starts, stops or dies
\* is dealt with.
FleetLive ==
  /\ ServedIsApplied /\ AdmissionFollows /\ RecordsExpire /\ LostAnswerHeals
  /\ FleetConverges /\ NoOpTreeIsFresh /\ BackupCatchesUp /\ StopEnds
  /\ EdgeEnds /\ StartSettles /\ DeathIsHandled
=============================================================================
