----------------------------- MODULE PackLaunch -----------------------------
(***************************************************************************)
(* From the manifest to a running node: the signed policy derived from a   *)
(* document, the pack rendered for one node, what loading that pack checks *)
(* and what the engine's configuration demands of it.  A policy published  *)
(* later reaches the node without a new pack and takes the place of the    *)
(* embedded one, so a node starts from two documents of different ages.    *)
(* Keys, certificates and digests are IssuerStore's and Renewal's subject. *)
(***************************************************************************)
EXTENDS ManifestEdits

CONSTANTS Watched,        \* the nodes whose packs are followed, as <<kind, name>>
          MaxGeneration

VARIABLE pl

NoPack == [kind |-> "none"]
NoPolicy == [generation |-> 0]

-----------------------------------------------------------------------------
(* The signed policy *)

PolicyService(m) ==
    {[workspace |-> s.workspace, agent |-> s.agent, id |-> s.id,
      address |-> m.agent[s.agent].services[s.id]] : s \in service_index(m)}

IngressAuthorization(m) ==
    UNION {{[workspace |-> w, ingress |-> n] : w \in Range(m.ingress[n].workspaces)} :
               n \in DOMAIN m.ingress}

PolicyMeshStream(m) ==
    UNION {{[source |-> a, source_ws |-> m.agent[a].workspace,
             target |-> m.agent[a].inward[n].target,
             target_ws |-> m.agent[m.agent[a].inward[n].target].workspace,
             name |-> n, listen |-> m.agent[a].inward[n].listen,
             proto |-> m.agent[a].inward[n].proto, addr |-> m.agent[a].inward[n].addr,
             idle |-> m.agent[a].inward[n].idle] :
               n \in {k \in DOMAIN m.agent[a].inward : m.agent[a].inward[k].target \in DOMAIN m.agent}} :
               a \in DOMAIN m.agent}

PolicyMeshEgress(m) ==
    UNION {{[agent |-> a, name |-> n, proto |-> m.agent[a].outward[n].proto,
             addr |-> m.agent[a].outward[n].addr, cidr |-> m.agent[a].outward[n].cidr,
             idle |-> m.agent[a].outward[n].idle] : n \in DOMAIN m.agent[a].outward} :
               a \in DOMAIN m.agent}

from_manifest(m, g) ==
    [generation |-> g, routes |-> m.route, services |-> PolicyService(m),
     authorizations |-> IngressAuthorization(m), mesh |-> PolicyMeshStream(m),
     egress |-> PolicyMeshEgress(m)]

find_service(p, ref) ==
    \E s \in p.services : s.workspace = ref.workspace /\ s.agent = ref.agent /\ s.id = ref.id

check_not_rollback(p, floor) == p.generation >= floor

-----------------------------------------------------------------------------
(* Rendering: one renderer per kind *)

fronted_topology(m) == m.tls = "fronted"

resolve_edge(m, n) ==
    LET Pick(slot, fronted, direct) ==
            IF slot # "default" THEN slot ELSE IF fronted_topology(m) THEN fronted ELSE direct IN
    [rate |-> m.ingress[n].rate,
     xff |-> Pick(m.ingress[n].xff, "required", "off"),
     proxy |-> Pick("default", "on", "off")]

NoEdge == [rate |-> "none"]

IngressCredentialPack(m, n, g) ==
    LET ws == Range(m.ingress[n].workspaces) IN
    [kind |-> "ingress", node |-> n, workspace |-> "none",
     identities |-> {<<"control", "endpoint">>} \cup {<<"ingress", w>> : w \in ws},
     trust |-> ws, listen |-> m.ingress[n].listen, quic |-> m.ingress[n].quic,
     tls |-> m.tls, email |-> m.email, edge |-> resolve_edge(m, n),
     dispatch |-> control_dispatch_host(m, n), services |-> <<>>, transport |-> "none",
     dial |-> m.control, policy |-> from_manifest(m, g)]

AgentCredentialPack(m, n, g) ==
    LET a == m.agent[n] IN
    [kind |-> "agent", node |-> n, workspace |-> a.workspace,
     identities |-> {<<"agent", a.workspace>>},
     trust |-> TrustOfAgent(m, n), listen |-> "none", quic |-> "off",
     tls |-> "none", email |-> FALSE, edge |-> NoEdge,
     dispatch |-> "none", services |-> a.services, transport |-> a.transport,
     dial |-> IF HasMeshRole(a) THEN CHOOSE e \in mesh_hub_endpoint(m) : TRUE ELSE m.control,
     mesh |-> HasMeshRole(a), policy |-> from_manifest(m, g)]

HubCredentialPack(m, n, g) ==
    [kind |-> "hub", node |-> n, workspace |-> "none",
     identities |-> {<<"control", "endpoint">>, <<"hub", "realm">>},
     trust |-> mesh_served_workspaces(m), listen |-> m.hub[n].listen, quic |-> m.hub[n].quic,
     tls |-> "none", email |-> FALSE, edge |-> NoEdge,
     dispatch |-> "none", services |-> <<>>, transport |-> "none",
     dial |-> m.hub[n].endpoint, policy |-> from_manifest(m, g)]

render_pack(m, node, g) ==
    CASE node[1] = "ingress" -> IngressCredentialPack(m, node[2], g)
      [] node[1] = "agent" -> AgentCredentialPack(m, node[2], g)
      [] node[1] = "hub" -> HubCredentialPack(m, node[2], g)

Declared(m, node) ==
    node[2] \in (CASE node[1] = "ingress" -> DOMAIN m.ingress
                   [] node[1] = "agent" -> DOMAIN m.agent
                   [] node[1] = "hub" -> DOMAIN m.hub)

-----------------------------------------------------------------------------
(* Loading: the newer of the two policies, and the binding of the pack to its role *)

load_policy_override(pack, state) ==
    IF state # NoPolicy /\ check_not_rollback(state, pack.policy.generation)
    THEN state ELSE pack.policy

Buckets(pack) == {i[1] : i \in pack.identities}

primary_identity(pack) ==
    IF pack.kind = "agent" THEN <<"agent", pack.workspace>> \in pack.identities
                           ELSE <<"control", "endpoint">> \in pack.identities

ingress_identities(pack) == {i[2] : i \in {j \in pack.identities : j[1] = "ingress"}}

IngressBound(pack, policy) ==
    /\ pack.workspace = "none"
    /\ Buckets(pack) \cap {"agent", "hub"} = {}
    /\ primary_identity(pack)
    /\ \A w \in ingress_identities(pack) :
          [workspace |-> w, ingress |-> pack.node] \in policy.authorizations

AgentBound(pack) ==
    /\ pack.workspace # "none"
    /\ Buckets(pack) \cap {"control", "ingress", "hub"} = {}
    /\ primary_identity(pack)

HubBound(pack) ==
    /\ pack.workspace = "none"
    /\ Buckets(pack) \cap {"agent", "ingress"} = {}
    /\ primary_identity(pack)
    /\ <<"hub", "realm">> \in pack.identities

validate_role_binding(pack, policy) ==
    CASE pack.kind = "ingress" -> IngressBound(pack, policy)
      [] pack.kind = "agent" -> AgentBound(pack)
      [] pack.kind = "hub" -> HubBound(pack)

-----------------------------------------------------------------------------
(* Starting: what each engine's configuration demands *)

resolve_xff_mode(edge) == edge.xff \in {"off", "on", "required"}

resolve_control_proxy_protocol(edge) == edge.proxy \in {"on", "off"}

resolve_quic_listen(q) == q # "malformed"

(* The edge: principals, routes that resolve, and a contact when it terminates TLS itself. *)
build_edge_config(pack, policy) ==
    /\ ingress_identities(pack) # {}
    /\ \A h \in DOMAIN policy.routes : find_service(policy, policy.routes[h])
    /\ resolve_quic_listen(pack.quic)
    /\ pack.tls = "acme" => pack.email
    /\ resolve_control_proxy_protocol(pack.edge)
    /\ resolve_xff_mode(pack.edge)

(* The hub's admission table: streams within a workspace need no rule. *)
policy_acl(policy) ==
    {[source_ws |-> s.source_ws, source |-> s.source, target_ws |-> s.target_ws, target |-> s.target] :
        s \in {t \in policy.mesh : t.source_ws # t.target_ws}}

TenantsWellFormed(pack) == pack.trust # {} /\ \A w \in pack.trust : validate_name(w)

AclWellFormed(policy) ==
    \A r \in policy_acl(policy) :
        \A x \in {r.source_ws, r.target_ws, r.source, r.target} : validate_name(x)

build_hub_config(pack, policy) ==
    /\ pack.trust # {}
    /\ pack.listen = "good"
    /\ resolve_quic_listen(pack.quic)
    /\ TenantsWellFormed(pack)
    /\ AclWellFormed(policy)

(* Only the digits after the last colon make a port here: a path hides it. *)
derive_quic_addr(e) == e.form \in {"hostport", "urlport"}

(* An agent's own rows; a target of its own workspace is named without it. *)
policy_ingress_rules(policy, node, ws) ==
    {[name |-> s.name, listen |-> s.listen, proto |-> s.proto, addr |-> s.addr, idle |-> s.idle,
      target_ws |-> IF s.target_ws = ws THEN "own" ELSE s.target_ws, target |-> s.target] :
        s \in {t \in policy.mesh : t.source = node}}

Offers(policy, node) == {o \in policy.egress : o.agent = node}

ExactlyOne(o) == (o.addr = "none") # (o.cidr = "none")

(* The allowlist of an agent: one address, or every address of a range. *)
policy_egress_rules(policy, node) ==
    {[proto |-> o.proto, allows |-> IF o.addr # "none" THEN {o.addr}
                                    ELSE IF o.cidr = "range" THEN Address ELSE {}] :
        o \in Offers(policy, node)}

IngressWellFormed(pack, policy) ==
    /\ validate_name(pack.node)
    /\ \A r \in policy_ingress_rules(policy, pack.node, pack.workspace) :
          r.listen = "loopback" /\ r.idle # "zero"

EgressWellFormed(pack, policy) == \A o \in Offers(policy, pack.node) : o.idle # "zero"

build_agent_config(pack, policy) ==
    /\ pack.mesh
    /\ \A r \in policy_ingress_rules(policy, pack.node, pack.workspace) : r.listen # "malformed"
    /\ \A o \in Offers(policy, pack.node) : ExactlyOne(o) /\ o.cidr # "malformed"
    /\ pack.transport = "quic" => derive_quic_addr(pack.dial)
    /\ IngressWellFormed(pack, policy)
    /\ EgressWellFormed(pack, policy)

resolve_service_addresses(pack) == \A s \in DOMAIN pack.services : pack.services[s] = "good"

resolve_hub_quic_addr(e) == ExplicitPort(e)

(* The expose agent takes its services from the pack; the policy comes later, by the watcher. *)
build_agent_args(pack) ==
    /\ resolve_service_addresses(pack)
    /\ pack.services # <<>>
    /\ pack.transport = "quic" => resolve_hub_quic_addr(pack.dial)

Starts(pack, policy) ==
    CASE pack.kind = "ingress" -> build_edge_config(pack, policy)
      [] pack.kind = "hub" -> build_hub_config(pack, policy)
      [] pack.kind = "agent" ->
            IF pack.mesh THEN build_agent_config(pack, policy) ELSE build_agent_args(pack)

Boots(pack, state) ==
    LET policy == load_policy_override(pack, state) IN
    validate_role_binding(pack, policy) /\ Starts(pack, policy)

-----------------------------------------------------------------------------
(* The node's life: a pack is installed, a policy is published to it, it restarts. *)

Deliver ==
    /\ pl.generation < MaxGeneration
    /\ validate(mf.doc) /\ Declared(mf.doc, pl.node)
    /\ LET pack == render_pack(mf.doc, pl.node, pl.generation + 1) IN
       pl' = [pl EXCEPT !.generation = @ + 1, !.pack = pack,
                        !.run = IF Boots(pack, pl.state) THEN "up" ELSE "refused"]
    /\ UNCHANGED mf

PublishPolicy ==
    /\ pl.generation < MaxGeneration
    /\ pl.pack # NoPack /\ validate(mf.doc)
    /\ pl' = [pl EXCEPT !.generation = @ + 1, !.state = from_manifest(mf.doc, pl.generation + 1)]
    /\ UNCHANGED mf

RestartNode ==
    /\ pl.pack # NoPack
    /\ pl' = [pl EXCEPT !.run = IF Boots(pl.pack, pl.state) THEN "up" ELSE "refused"]
    /\ UNCHANGED mf

LaunchInit ==
    /\ ManifestInit
    /\ pl \in [node : Watched, generation : {0}, pack : {NoPack}, state : {NoPolicy}, run : {"down"}]

LaunchNext ==
    \/ ManifestNext /\ UNCHANGED pl
    \/ Deliver
    \/ PublishPolicy
    \/ RestartNode

LaunchSpec == LaunchInit /\ [][LaunchNext]_<<mf, pl>>

-----------------------------------------------------------------------------
(* Types: a node runs only from an installed pack, generations are those minted. *)
LaunchTypeOK ==
    /\ pl.run \in {"down", "up", "refused"} /\ (pl.run = "down" <=> pl.pack = NoPack)
    /\ pl.generation \in 0..MaxGeneration /\ pl.state.generation \in 0..pl.generation
    /\ pl.pack # NoPack => /\ pl.pack.kind = pl.node[1] /\ pl.pack.node = pl.node[2]
                           /\ pl.pack.policy.generation \in 1..pl.generation

(* What the validator leaves to the start: a contact for the certificates, and a hub endpoint
   without a path for an agent that dials it over QUIC. *)
LeftToTheStart(pack) ==
    \/ pack.kind = "ingress" /\ pack.tls = "acme" /\ ~pack.email
    \/ pack.kind = "agent" /\ pack.transport = "quic" /\ pack.dial.form = "urlpath"

(* A node whose pack came from a valid document starts, also when a policy of another valid
   document took the place of the embedded one.  The exception is an ingress that holds an
   identity for a workspace which the newer policy no longer authorizes. *)
UpdateNeverStops ==
    pl.run = "refused" =>
        \/ LeftToTheStart(pl.pack)
        \/ /\ pl.pack.kind = "ingress" /\ pl.state # NoPolicy
           /\ \E w \in ingress_identities(pl.pack) :
                 [workspace |-> w, ingress |-> pl.pack.node] \notin pl.state.authorizations

(* A public name leads to one service, and every declared node can be delivered and starts. *)
RoutesLeadSomewhere ==
    validate(mf.doc) =>
        /\ Declared(mf.doc, pl.node) =>
              LET pack == render_pack(mf.doc, pl.node, 1) IN
              Boots(pack, NoPolicy) \/ LeftToTheStart(pack)
        /\ \A f \in {Folded[h] : h \in Host} :
               Cardinality({h \in DOMAIN mf.doc.route : Folded[h] = f}) <= 1

(* The rule an agent derives is served by what its peers derive: the hub resolves its target
   to the agent the row means and admits the stream, and that agent's allowlist has the
   address for the protocol. *)
StreamsAdmitted ==
    validate(mf.doc) =>
        LET p == from_manifest(mf.doc, 1) IN
        \A s \in p.mesh :
            \E r \in policy_ingress_rules(p, s.source, mf.doc.agent[s.source].workspace) :
                /\ r.name = s.name
                /\ LET ws == IF r.target_ws = "own" THEN s.source_ws ELSE r.target_ws IN
                   /\ r.target \in DOMAIN mf.doc.agent
                   /\ mf.doc.agent[r.target].workspace = ws
                   /\ \/ ws = s.source_ws
                      \/ [source_ws |-> s.source_ws, source |-> s.source,
                          target_ws |-> ws, target |-> r.target] \in policy_acl(p)
                /\ \E o \in policy_egress_rules(p, r.target) : o.proto = r.proto /\ r.addr \in o.allows
=============================================================================
