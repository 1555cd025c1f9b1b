---------------------------- MODULE ManifestEdits ----------------------------
(***************************************************************************)
(* The desired-state manifest: what makes one valid, the structured edits  *)
(* that the form and `node add` apply to it, and what the packs rendered   *)
(* from it carry.  A document is a record of its sections; names, hosts    *)
(* and addresses are model values, and an endpoint is the way it is        *)
(* written.  The save of an edited document is in OperatorPlan.            *)
(***************************************************************************)
EXTENDS Integers, Sequences, FiniteSets, Functions, TLC

CONSTANTS Workspace, AgentName, NodeName, \* names of agents, and of ingresses and hubs
          ServiceId, RuleName, Address,
          Host, Folded,   \* host names as written, and their lower-case forms
          IllFormed,      \* the names that validate_name refuses
          DefaultWs,      \* the workspace called "default"
          Drafts,         \* the documents an operator starts from
          MaxEdit

VARIABLE mf

Endpoint == [form : {"host", "hostport", "url", "urlport", "urlpath"}, host : Host]
NoEndpoint == [form |-> "none"]

(* f is a table from some of the keys in S to values in T. *)
Table(f, S, T) == DOMAIN f \subseteq S /\ \A k \in DOMAIN f : f[k] \in T

Quic == {"off", "reachable", "loopback", "portzero", "malformed"}

IngressWorkspaces == UNION {[1..n -> Workspace] : n \in 1..2}
IngressConfig == [workspaces : IngressWorkspaces, listen : {"443", "other"}, quic : Quic,
                  rate : {"default", "set"}, xff : {"default", "off", "on", "required", "malformed"}]
HubNodeConfig == [endpoint : Endpoint \cup {NoEndpoint}, listen : {"good", "malformed"}, quic : Quic]
MeshIngressRule == [listen : {"loopback", "other", "malformed"}, proto : {"tcp", "udp"},
                    target : AgentName, addr : Address, idle : {"default", "good", "zero", "over"}]
MeshEgressRule == [proto : {"tcp", "udp"}, addr : Address \cup {"none"},
                   cidr : {"none", "range", "elsewhere", "all", "reserved", "malformed"},
                   idle : {"default", "good", "zero", "over"}]
IsAgentConfig(a) == /\ a.workspace \in Workspace /\ a.transport \in {"h2", "quic"}
                    /\ Table(a.services, ServiceId, {"good", "malformed"})
                    /\ Table(a.inward, RuleName, MeshIngressRule)
                    /\ Table(a.outward, RuleName, MeshEgressRule)
IdentityConfig == [mode : {"registrar", "offline"}, ttl : {"default", "hours", "months", "malformed"},
                   registrar : {"none", "https", "http", "malformed"}]
ServiceRef == [workspace : Workspace, agent : AgentName, id : ServiceId]
IsManifest(m) ==
    /\ m.id \in {"good", "illformed"} /\ m.control \in Endpoint \cup {NoEndpoint}
    /\ m.tls \in {"acme", "fronted"} /\ m.email \in BOOLEAN /\ m.identity \in IdentityConfig
    /\ m.workspace \subseteq Workspace
    /\ Table(m.ingress, NodeName, IngressConfig) /\ Table(m.hub, NodeName, HubNodeConfig)
    /\ DOMAIN m.agent \subseteq AgentName /\ \A a \in DOMAIN m.agent : IsAgentConfig(m.agent[a])
    /\ Table(m.route, Host, ServiceRef)

-----------------------------------------------------------------------------
(* What the validator demands *)

validate_name(n) == n \notin IllFormed

ExplicitPort(e) == e.form \in {"hostport", "urlport", "urlpath"}

(* The name the route check compares: for `https://host` the fallback of the second split
   is the whole text, which equals no host. *)
ControlHost(e) == IF e.form = "url" THEN "whole text" ELSE Folded[e.host]

ControlDeclared(m) == m.ingress # <<>> => m.control # NoEndpoint

IdentityTier(m) ==
    IF m.identity.mode = "registrar" THEN m.identity.registrar = "https"
                                     ELSE m.identity.registrar = "none"

effective_leaf_ttl(m) ==
    m.identity.ttl \in {"default", IF m.identity.mode = "registrar" THEN "hours" ELSE "months"}

HasMeshRole(a) == a.inward # <<>> \/ a.outward # <<>>

OneRole(a) == (a.services # <<>>) # HasMeshRole(a)

mesh_hub_endpoint(m) == {m.hub[h].endpoint : h \in DOMAIN m.hub}

QuicDialable(m, a) ==
    a.transport = "quic" =>
        IF HasMeshRole(a)
        THEN m.hub # <<>> => /\ \A e \in mesh_hub_endpoint(m) : ExplicitPort(e)
                             /\ \E h \in DOMAIN m.hub : m.hub[h].quic # "off"
        ELSE ExplicitPort(m.control)

ServicesWellFormed(a) ==
    \A s \in DOMAIN a.services : validate_name(s) /\ a.services[s] = "good"

AgentsValid(m) ==
    /\ m.agent # <<>>
    /\ \A n \in DOMAIN m.agent :
          /\ validate_name(n)
          /\ m.agent[n].workspace \in m.workspace
          /\ OneRole(m.agent[n])
          /\ QuicDialable(m, m.agent[n])
          /\ ServicesWellFormed(m.agent[n])

service_index(m) ==
    UNION {{[workspace |-> m.agent[n].workspace, agent |-> n, id |-> s] :
               s \in DOMAIN m.agent[n].services} : n \in DOMAIN m.agent}

QuicListens(q) == q \in {"off", "reachable"}

EdgeSection(g) == g.xff # "malformed"

IngressesValid(m) ==
    /\ m.ingress # <<>> \/ m.hub # <<>>
    /\ \A n \in DOMAIN m.ingress :
          /\ validate_name(n)
          /\ m.ingress[n].workspaces # <<>>
          /\ IsInjective(m.ingress[n].workspaces)
          /\ Range(m.ingress[n].workspaces) \subseteq m.workspace
          /\ QuicListens(m.ingress[n].quic)
          /\ EdgeSection(m.ingress[n])

RoutesValid(m) ==
    /\ m.ingress # <<>> => m.route # <<>>
    /\ \A h, k \in DOMAIN m.route : Folded[h] = Folded[k] => h = k
    /\ \A h \in DOMAIN m.route : m.route[h] \in service_index(m)

ControlHostFree(m) ==
    m.ingress # <<>> /\ m.control # NoEndpoint
        => ControlHost(m.control) \notin {Folded[h] : h \in DOMAIN m.route}

HubsValid(m) ==
    /\ Cardinality(DOMAIN m.hub) <= 1
    /\ \A n \in DOMAIN m.hub :
          /\ validate_name(n)
          /\ m.hub[n].endpoint # NoEndpoint
          /\ m.hub[n].listen = "good"
          /\ QuicListens(m.hub[n].quic)

MeshHasHub(m) == (m.hub # <<>>) <=> \E n \in DOMAIN m.agent : HasMeshRole(m.agent[n])

validate_mesh_idle_timeout(r) == r.idle \notin {"zero", "over"}

validate_egress_cidr(c) == c \notin {"all", "reserved", "malformed"}

(* Mutant: an offer may name both an address and a range. *)
EgressValidBoth(a) ==
    \A n \in DOMAIN a.outward :
        /\ validate_name(n)
        /\ validate_mesh_idle_timeout(a.outward[n])
        /\ a.outward[n].addr # "none" \/ a.outward[n].cidr # "none"
        /\ validate_egress_cidr(a.outward[n].cidr)

EgressValid(a) ==
    \A n \in DOMAIN a.outward :
        /\ validate_name(n)
        /\ validate_mesh_idle_timeout(a.outward[n])
        /\ (a.outward[n].addr = "none") # (a.outward[n].cidr = "none")
        /\ validate_egress_cidr(a.outward[n].cidr)

offers(r, proto, addr) ==
    /\ r.proto = proto
    /\ IF r.addr # "none" THEN r.addr = addr ELSE r.cidr = "range"

MeshIngressValid(m, a) ==
    \A n \in DOMAIN a.inward :
        LET r == a.inward[n] IN
        /\ validate_name(n)
        /\ validate_mesh_idle_timeout(r)
        /\ r.listen = "loopback"
        /\ r.target \in DOMAIN m.agent
        /\ LET out == m.agent[r.target].outward IN
           \E o \in DOMAIN out : offers(out[o], r.proto, r.addr)

validate_mesh(m) ==
    /\ HubsValid(m)
    /\ MeshHasHub(m)
    /\ \A n \in DOMAIN m.agent : EgressValid(m.agent[n])
    /\ \A n \in DOMAIN m.agent : MeshIngressValid(m, m.agent[n])

Provided(m) ==
    \A n \in DOMAIN m.ingress : \A w \in Range(m.ingress[n].workspaces) :
        \E a \in DOMAIN m.agent : m.agent[a].workspace = w /\ m.agent[a].services # <<>>

validate(m) ==
    /\ m.id = "good"
    /\ ControlDeclared(m)
    /\ IdentityTier(m)
    /\ effective_leaf_ttl(m)
    /\ \A w \in m.workspace : validate_name(w)
    /\ AgentsValid(m)
    /\ IngressesValid(m)
    /\ RoutesValid(m)
    /\ ControlHostFree(m)
    /\ validate_mesh(m)
    /\ Provided(m)

-----------------------------------------------------------------------------
(* The edits, as functions of the document.  Put declares or patches an entry in place. *)

Put(f, k, v) == [x \in DOMAIN f \cup {k} |-> IF x = k THEN v ELSE f[x]]

Drop(f, k) == [x \in DOMAIN f \ {k} |-> f[x]]

rename_entry(f, from, to) ==
    [x \in (DOMAIN f \ {from}) \cup {to} |-> IF x = to THEN f[from] ELSE f[x]]

SetRealm(m, id, e) == [m EXCEPT !.id = id, !.control = e]

SetPublicTls(m, mode, email) == [m EXCEPT !.tls = mode, !.email = email]

SetIdentity(m, i) == [m EXCEPT !.identity = i]

declare_workspace(m, ws) == [m EXCEPT !.workspace = @ \cup ws]

UpsertHub(m, n, h) == [m EXCEPT !.hub = Put(@, n, h)]

(* Without a rate the whole [edge] section goes, whatever else it carries. *)
EdgeAfter(m, n, rate) ==
    IF rate = "set" /\ n \in DOMAIN m.ingress THEN m.ingress[n].xff ELSE "default"

UpsertIngress(m, n, ws, listen, quic, rate) ==
    LET d == declare_workspace(m, Range(ws)) IN
    [d EXCEPT !.ingress = Put(@, n, [workspaces |-> ws, listen |-> listen, quic |-> quic,
                                     rate |-> rate, xff |-> EdgeAfter(m, n, rate)])]

SetAgentWorkspace(m, a, w) ==
    [declare_workspace(m, {w}) EXCEPT !.agent[a].workspace = w]

SetAgentTransport(m, a, t) == [m EXCEPT !.agent[a].transport = t]

UpsertService(m, a, s, addr) == [m EXCEPT !.agent[a].services = Put(@, s, addr)]

UpsertMeshIngress(m, a, n, r) == [m EXCEPT !.agent[a].inward = Put(@, n, r)]

UpsertMeshEgress(m, a, n, r) == [m EXCEPT !.agent[a].outward = Put(@, n, r)]

RenameService(m, a, from, to) ==
    LET old == [workspace |-> m.agent[a].workspace, agent |-> a, id |-> from] IN
    [m EXCEPT !.agent[a].services = rename_entry(@, from, to),
              !.route = [h \in DOMAIN @ |-> IF @[h] = old THEN [old EXCEPT !.id = to] ELSE @[h]]]

UpsertRoute(m, h, ref) == [m EXCEPT !.route = Put(@, h, ref)]

default_workspace(m) ==
    IF Cardinality(m.workspace) = 1 THEN CHOOSE w \in m.workspace : TRUE ELSE DefaultWs

NewAgent(m, w, services, inward, outward) ==
    [workspace |-> IF w = "none" THEN default_workspace(m) ELSE w, services |-> services,
     inward |-> inward, outward |-> outward, transport |-> "h2"]

AddAgentNode(m, n, a) ==
    [declare_workspace(m, {a.workspace}) EXCEPT !.agent = Put(@, n, a)]

AddIngressNode(m, n, ws) ==
    [declare_workspace(m, Range(ws)) EXCEPT
        !.ingress = Put(@, n, [workspaces |-> ws, listen |-> "443", quic |-> "off",
                               rate |-> "default", xff |-> "default"])]

AddHubNode(m, n, e) ==
    [m EXCEPT !.hub = Put(@, n, [endpoint |-> e, listen |-> "good", quic |-> "off"])]

-----------------------------------------------------------------------------
(* What the packs rendered from a document carry *)

mesh_trust_workspaces(m, a) ==
    LET Targets(x) == {m.agent[x].inward[n].target : n \in DOMAIN m.agent[x].inward} IN
    {m.agent[a].workspace} \cup
    {m.agent[t].workspace : t \in Targets(a) \cap DOMAIN m.agent} \cup
    {m.agent[p].workspace : p \in {q \in DOMAIN m.agent \ {a} : a \in Targets(q)}}

mesh_served_workspaces(m) ==
    {m.agent[a].workspace : a \in {x \in DOMAIN m.agent : HasMeshRole(m.agent[x])}}

TrustOfAgent(m, a) ==
    IF HasMeshRole(m.agent[a]) THEN mesh_trust_workspaces(m, a) ELSE {m.agent[a].workspace}

dns_host(e) == IF e = NoEndpoint THEN "none" ELSE Folded[e.host]

control_dispatch_host(m, n) ==
    IF m.tls = "acme" /\ m.ingress[n].listen = "443" THEN dns_host(m.control) ELSE "none"

(* The streams of the signed policy: who opens them, and to whom. *)
PolicyStreams(m) ==
    {<<a, t>> \in (DOMAIN m.agent) \X (DOMAIN m.agent) :
        \E n \in DOMAIN m.agent[a].inward : m.agent[a].inward[n].target = t}

-----------------------------------------------------------------------------
(* An edit is applied when the result is as valid as the document was. *)

apply_edit(new) ==
    /\ mf.edits < MaxEdit
    /\ validate(mf.doc) => validate(new)
    /\ mf' = [doc |-> new, edits |-> mf.edits + 1]

(* One append is accepted only when the whole document is valid, whatever it was. *)
add_node_in_text(n, new) ==
    /\ mf.edits < MaxEdit
    /\ n \notin DOMAIN mf.doc.agent \cup DOMAIN mf.doc.ingress \cup DOMAIN mf.doc.hub
    /\ validate(new)
    /\ mf' = [doc |-> new, edits |-> mf.edits + 1]

SomeEndpoint == [form : {"hostport", "url"}, host : Host]
SomeInward == [listen : {"loopback", "other"}, proto : {"tcp"}, target : AgentName,
               addr : Address, idle : {"default", "zero"}]
SomeOutward == [proto : {"tcp", "udp"}, addr : Address, cidr : {"none", "range"}, idle : {"default"}]
               \cup [proto : {"tcp"}, addr : {"none"}, cidr : {"none", "range", "all"}, idle : {"default"}]

EditRealm == \E id \in {"good", "illformed"}, e \in Endpoint \cup {NoEndpoint} :
                 apply_edit(SetRealm(mf.doc, id, e))
EditPublicTls == \E mode \in {"acme", "fronted"}, email \in BOOLEAN :
                     apply_edit(SetPublicTls(mf.doc, mode, email))
EditIdentity == \E i \in IdentityConfig : apply_edit(SetIdentity(mf.doc, i))
EditWorkspace == \E w \in Workspace : apply_edit(declare_workspace(mf.doc, {w}))
RemoveWorkspace == \E w \in mf.doc.workspace : apply_edit([mf.doc EXCEPT !.workspace = @ \ {w}])
EditHub == \E n \in NodeName, e \in SomeEndpoint \cup {NoEndpoint}, q \in Quic :
               apply_edit(UpsertHub(mf.doc, n, [endpoint |-> e, listen |-> "good", quic |-> q]))
RemoveHub == \E n \in DOMAIN mf.doc.hub : apply_edit([mf.doc EXCEPT !.hub = Drop(@, n)])
EditIngress == \E n \in NodeName, ws \in IngressWorkspaces, l \in {"443", "other"},
                  q \in {"off", "reachable", "loopback"}, r \in {"default", "set"} :
                   apply_edit(UpsertIngress(mf.doc, n, ws, l, q, r))
RemoveIngress == \E n \in DOMAIN mf.doc.ingress :
                     apply_edit([mf.doc EXCEPT !.ingress = Drop(@, n)])
EditAgentWorkspace == \E a \in DOMAIN mf.doc.agent, w \in Workspace :
                          apply_edit(SetAgentWorkspace(mf.doc, a, w))
EditAgentTransport == \E a \in DOMAIN mf.doc.agent, t \in {"h2", "quic"} :
                          apply_edit(SetAgentTransport(mf.doc, a, t))
RemoveAgent == \E a \in DOMAIN mf.doc.agent : apply_edit([mf.doc EXCEPT !.agent = Drop(@, a)])
EditService == \E a \in DOMAIN mf.doc.agent, s \in ServiceId, addr \in {"good", "malformed"} :
                   apply_edit(UpsertService(mf.doc, a, s, addr))
RemoveService == \E a \in DOMAIN mf.doc.agent : \E s \in DOMAIN mf.doc.agent[a].services :
                     apply_edit([mf.doc EXCEPT !.agent[a].services = Drop(@, s)])
EditMeshIngress == \E a \in DOMAIN mf.doc.agent, n \in RuleName, r \in SomeInward :
                       apply_edit(UpsertMeshIngress(mf.doc, a, n, r))
RemoveMeshIngress == \E a \in DOMAIN mf.doc.agent : \E n \in DOMAIN mf.doc.agent[a].inward :
                         apply_edit([mf.doc EXCEPT !.agent[a].inward = Drop(@, n)])
EditMeshEgress == \E a \in DOMAIN mf.doc.agent, n \in RuleName, r \in SomeOutward :
                      apply_edit(UpsertMeshEgress(mf.doc, a, n, r))
RemoveMeshEgress == \E a \in DOMAIN mf.doc.agent : \E n \in DOMAIN mf.doc.agent[a].outward :
                        apply_edit([mf.doc EXCEPT !.agent[a].outward = Drop(@, n)])

(* A rename needs a target that is free; a blank one is refused. *)
RenameMeshIngress ==
    \E a \in DOMAIN mf.doc.agent : \E from \in DOMAIN mf.doc.agent[a].inward,
                                      to \in RuleName \ DOMAIN mf.doc.agent[a].inward :
        apply_edit([mf.doc EXCEPT !.agent[a].inward = rename_entry(@, from, to)])
RenameMeshEgress ==
    \E a \in DOMAIN mf.doc.agent : \E from \in DOMAIN mf.doc.agent[a].outward,
                                      to \in RuleName \ DOMAIN mf.doc.agent[a].outward :
        apply_edit([mf.doc EXCEPT !.agent[a].outward = rename_entry(@, from, to)])
RenameOneService ==
    \E a \in DOMAIN mf.doc.agent : \E from \in DOMAIN mf.doc.agent[a].services,
                                      to \in ServiceId \ DOMAIN mf.doc.agent[a].services :
        apply_edit(RenameService(mf.doc, a, from, to))

EditRoute == \E h \in Host, ref \in ServiceRef : apply_edit(UpsertRoute(mf.doc, h, ref))
RemoveRoute == \E h \in DOMAIN mf.doc.route : apply_edit([mf.doc EXCEPT !.route = Drop(@, h)])

(* One pack, one role: the services or the rules, not both and not neither. *)
AddAgent ==
    \E n \in AgentName, w \in Workspace \cup {"none"} :
        \/ \E s \in ServiceId : LET a == NewAgent(mf.doc, w, (s :> "good"), <<>>, <<>>) IN
               add_node_in_text(n, AddAgentNode(mf.doc, n, a))
        \/ \E r \in RuleName, o \in SomeOutward :
               LET a == NewAgent(mf.doc, w, <<>>, <<>>, (r :> o)) IN
               add_node_in_text(n, AddAgentNode(mf.doc, n, a))
        \/ \E r \in RuleName, i \in SomeInward :
               LET a == NewAgent(mf.doc, w, <<>>, (r :> i), <<>>) IN
               add_node_in_text(n, AddAgentNode(mf.doc, n, a))
AddIngress == \E n \in NodeName, ws \in IngressWorkspaces :
                  add_node_in_text(n, AddIngressNode(mf.doc, n, ws))
AddHub == \E n \in NodeName, e \in SomeEndpoint : add_node_in_text(n, AddHubNode(mf.doc, n, e))

ManifestInit == mf \in [doc : Drafts, edits : {0}]

ManifestNext ==
    \/ EditRealm \/ EditPublicTls \/ EditIdentity \/ EditWorkspace \/ RemoveWorkspace
    \/ EditHub \/ RemoveHub \/ EditIngress \/ RemoveIngress
    \/ EditAgentWorkspace \/ EditAgentTransport \/ RemoveAgent
    \/ EditService \/ RemoveService \/ RenameOneService
    \/ EditMeshIngress \/ RemoveMeshIngress \/ RenameMeshIngress
    \/ EditMeshEgress \/ RemoveMeshEgress \/ RenameMeshEgress
    \/ EditRoute \/ RemoveRoute \/ AddAgent \/ AddIngress \/ AddHub

ManifestSpec == ManifestInit /\ [][ManifestNext]_mf

-----------------------------------------------------------------------------
(* Types of the document. *)
ManifestTypeOK == IsManifest(mf.doc) /\ mf.edits \in 0..MaxEdit

(* Inner verification is mutual: for every stream of the policy of a valid document, the
   packs of both ends trust the other's workspace and the hub's pack trusts both. *)
TrustCoversStreams ==
    validate(mf.doc) =>
        \A s \in PolicyStreams(mf.doc) :
            LET Ws(a) == mf.doc.agent[a].workspace IN
            /\ Ws(s[2]) \in TrustOfAgent(mf.doc, s[1])
            /\ Ws(s[1]) \in TrustOfAgent(mf.doc, s[2])
            /\ {Ws(s[1]), Ws(s[2])} \subseteq mesh_served_workspaces(mf.doc)

(* A service of a valid document can be renamed in one edit, whatever routes lead to it. *)
RenameAccepted ==
    validate(mf.doc) =>
        \A a \in DOMAIN mf.doc.agent : \A from \in DOMAIN mf.doc.agent[a].services :
            \A to \in ServiceId \ (DOMAIN mf.doc.agent[a].services \cup IllFormed) :
                validate(RenameService(mf.doc, a, from, to))

(* The identity tier is one decision: from any valid document either tier is one edit away. *)
TierSwitches ==
    validate(mf.doc) =>
        \A i \in {[mode |-> "offline", ttl |-> "default", registrar |-> "none"],
                  [mode |-> "registrar", ttl |-> "default", registrar |-> "https"]} :
            validate(SetIdentity(mf.doc, i))

(* The form resubmits what it shows: an ingress edit that changes nothing changes nothing. *)
Resubmitted(n) ==
    LET g == mf.doc.ingress[n] IN
    UpsertIngress(mf.doc, n, g.workspaces, g.listen, g.quic, g.rate)

(* ... which holds for an ingress whose [edge] section carries a rate or is absent. *)
ReapplyKeepsRated ==
    validate(mf.doc) =>
        \A n \in DOMAIN mf.doc.ingress :
            mf.doc.ingress[n].rate = "set" \/ mf.doc.ingress[n].xff = "default"
                => Resubmitted(n) = mf.doc

=============================================================================
