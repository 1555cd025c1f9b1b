---------------------------- MODULE RouteLeases ----------------------------
(***************************************************************************)
(* Route leases of one source agent: the hub's table from opaque route     *)
(* tokens to targets, the cache of tokens that each tunnel of the agent    *)
(* keeps, and what registrations, connection ends and policy changes do to *)
(* them.  A connection stands for the circuit minted for it, a call for    *)
(* the token it was given.  A session object is named by the connection    *)
(* that created it; a registration that finds an entry reuses its object.  *)
(***************************************************************************)
EXTENDS Naturals, FiniteSets

CONSTANTS Conn,      \* connections, in the order the agent dials them
          QuicConn,  \* those on the QUIC plane
          DialOrder,      \* the order: a sequence without repetitions over Conn
          RouteCall,      \* route requests
          LeaseTarget,    \* targets an agent asks for
          MaxRouteChange, \* policy changes
          MaxEvict,  \* evictions by a supervisor
          None

ASSUME LeaseAssumption ==
  /\ IsFiniteSet(Conn) /\ None \notin Conn \cup RouteCall \cup LeaseTarget
  /\ DialOrder \in [1 .. Cardinality(Conn) -> Conn]
  /\ \A m, n \in 1 .. Cardinality(Conn) : DialOrder[m] = DialOrder[n] => m = n
  /\ MaxRouteChange \in Nat /\ MaxEvict \in Nat

VARIABLE rl

LeaseState ==
  [entry : Conn \cup {None},                \* the object in the registry
   held : [Conn -> Conn \cup {None}],       \* object -> circuit
   obj : [Conn -> Conn \cup {None}],        \* connection -> its object
   reg : [Conn -> {"none", "swept", "installed", "done"}],
   ended : SUBSET Conn,                     \* connections the hub saw end
   using : Conn \cup {None},                \* the tunnel the agent uses
   dialled : 0 .. Cardinality(Conn),
   leases : SUBSET [token : RouteCall, circuit : Conn, target : LeaseTarget],
   cache : [Conn -> [LeaseTarget -> RouteCall \cup {None}]],
   call : [RouteCall -> [at : {"idle", "asked", "gated", "checked", "issued",
                          "over"},
                    conn : Conn \cup {None}, circuit : Conn \cup {None},
                    target : LeaseTarget \cup {None}]],
   open : [at : {"idle", "resolved", "admitted", "denied", "missing",
                 "refused"},
           conn : Conn \cup {None}, target : LeaseTarget \cup {None}],
   allowed : SUBSET LeaseTarget,
   changes : 0 .. MaxRouteChange,
   evictions : 0 .. MaxEvict,
   late : BOOLEAN,        \* some lease was inserted for a replaced circuit
   overtaken : BOOLEAN]   \* some registration went on after a later one

NoCall == [at |-> "idle", conn |-> None, circuit |-> None, target |-> None]
NoOpen == [at |-> "idle", conn |-> None, target |-> None]

LeaseStart ==
  [entry |-> None, held |-> [c \in Conn |-> None],
   obj |-> [c \in Conn |-> None], reg |-> [c \in Conn |-> "none"],
   ended |-> {}, using |-> None, dialled |-> 0, leases |-> {},
   cache |-> [c \in Conn |-> [t \in LeaseTarget |-> None]],
   call |-> [k \in RouteCall |-> NoCall], open |-> NoOpen, allowed |-> LeaseTarget,
   changes |-> 0, evictions |-> 0, late |-> FALSE, overtaken |-> FALSE]

LeaseInit == rl = LeaseStart

-----------------------------------------------------------------------------
(* Registration: sweep the leases of the agent, install the circuit in the *)
(* session, sweep again, answer.                                            *)

\* The table without any lease of this agent (every lease here is its own).
SweepSource(leases) == {}

\* The table without the leases of one circuit.
SweepCircuit(leases, c) == {l \in leases : l.circuit # c}

\* The circuit that the registry holds for the agent.
Registered == IF rl.entry = None THEN None ELSE rl.held[rl.entry]

\* The agent dials its next connection and gives the previous one up.
RegisterSweeps(c) ==
  /\ rl.dialled < Cardinality(Conn)
  /\ c = DialOrder[rl.dialled + 1]
  /\ rl' = [rl EXCEPT !.dialled = @ + 1, !.using = None,
                      !.reg[c] = "swept", !.leases = SweepSource(@)]

RegisterInstalls(c) ==
  /\ rl.reg[c] = "swept"
  /\ LET o == IF rl.entry = None THEN c ELSE rl.entry
     IN rl' = [rl EXCEPT !.entry = o, !.obj[c] = o, !.held[o] = c,
                         !.reg[c] = "installed",
                         !.overtaken = @ \/ c # DialOrder[rl.dialled]]

RegisterSweepsAgain(c) ==
  /\ rl.reg[c] = "installed"
  /\ rl' = [rl EXCEPT !.reg[c] = "done", !.leases = SweepSource(@),
                      !.using = IF c = DialOrder[rl.dialled] THEN c ELSE @,
                      !.overtaken = @ \/ c # DialOrder[rl.dialled]]

\* The heartbeat, a send timeout or the poll grace removes the entry; the
\* leases stay for the case that the connection registers again in place.
Evict ==
  /\ rl.entry # None
  /\ rl.evictions < MaxEvict
  /\ rl' = [rl EXCEPT !.entry = None, !.evictions = @ + 1]

\* A poll or upload of an h2 connection finds no entry: a new session with
\* the circuit of the connection.  The object is the connection's own again.
implicit_re_register(c) ==
  /\ c \notin QuicConn
  /\ rl.using = c
  /\ rl.entry = None
  /\ rl' = [rl EXCEPT !.entry = c, !.obj[c] = c, !.held[c] = c]

\* Mutant: the end of a connection clears all leases of its agent.
ConnectionEndsForSource(c) ==
  /\ rl.reg[c] = "done"
  /\ rl.using # c
  /\ c \notin rl.ended
  /\ rl' = [rl EXCEPT !.ended = @ \cup {c}, !.leases = SweepSource(@),
                      !.entry = IF c \in QuicConn /\ Registered = c
                                THEN None ELSE @]

\* The hub learns that a connection the agent gave up is over: it clears the
\* leases of that circuit, and the QUIC watcher removes the entry if it is
\* still this registration's.
ConnectionEnds(c) ==
  /\ rl.reg[c] = "done"
  /\ rl.using # c
  /\ c \notin rl.ended
  /\ rl' = [rl EXCEPT !.ended = @ \cup {c}, !.leases = SweepCircuit(@, c),
                      !.entry = IF c \in QuicConn /\ Registered = c
                                THEN None ELSE @]

-----------------------------------------------------------------------------
(* A route request, from the agent's cache miss to its cache entry.        *)

\* The tunnel has no token for the target and asks.  On h2 the request names
\* the circuit of the tunnel; on QUIC the hub reads the circuit that the
\* session of the connection holds now.
RouteAsk(k, t) ==
  LET c == rl.using
  IN /\ c # None
     /\ rl.call[k].at = "idle"
     /\ rl.cache[c][t] = None
     /\ rl' = [rl EXCEPT !.call[k] =
               [at |-> "asked", conn |-> c, target |-> t,
                circuit |-> IF c \in QuicConn THEN rl.held[rl.obj[c]] ELSE c]]

\* The token is refused and the agent sees an error.
RouteRefused(k) ==
  rl' = [rl EXCEPT !.call[k] = [NoCall EXCEPT !.at = "over"]]

\* The h2 endpoint first compares the circuit with the registry; then
\* `issue_route` asks the tenant policy.
RouteGates(k) ==
  LET q == rl.call[k]
      known == q.conn \in QuicConn \/ Registered = q.circuit
  IN /\ q.at = "asked"
     /\ \/ known /\ q.target \in rl.allowed
           /\ rl' = [rl EXCEPT !.call[k].at = "gated"]
        \/ ~(known /\ q.target \in rl.allowed) /\ RouteRefused(k)

\* Under the session's write lock: is the circuit still the registered one?
RouteChecks(k) ==
  LET q == rl.call[k]
  IN /\ q.at = "gated"
     /\ \/ Registered = q.circuit /\ rl' = [rl EXCEPT !.call[k].at = "checked"]
        \/ Registered # q.circuit /\ RouteRefused(k)

\* The lock is released; the lease enters the table in a step of its own.
RouteInserts(k) ==
  LET q == rl.call[k]
  IN /\ q.at = "checked"
     /\ rl' = [rl EXCEPT !.call[k].at = "issued",
               !.leases = @ \cup {[token |-> k, circuit |-> q.circuit,
                                   target |-> q.target]},
               !.late = @ \/ Registered # q.circuit]

\* The answer reaches the tunnel that asked, if it is still used.
RouteCached(k) ==
  LET q == rl.call[k]
  IN /\ q.at = "issued"
     /\ rl' = [rl EXCEPT !.call[k] = [NoCall EXCEPT !.at = "over"],
               !.cache[q.conn][q.target] =
                  IF rl.using = q.conn THEN k ELSE @]

-----------------------------------------------------------------------------
(* An Open with a cached token.                                             *)

\* The lease of a token, which only has to belong to the same agent.
LeaseOf(k) == {l \in rl.leases : l.token = k}

\* The hub compares the circuit of the frame with the session's, then looks
\* the token up.
OpenResolves(t) ==
  LET c == rl.using
  IN /\ c # None
     /\ rl.open.at = "idle"
     /\ rl.cache[c][t] # None
     /\ rl' = [rl EXCEPT !.open =
               [at |-> IF Registered # c THEN "refused"
                       ELSE IF LeaseOf(rl.cache[c][t]) = {} THEN "missing"
                       ELSE "resolved",
                conn |-> c, target |-> t]]

\* The policy gate is asked again, on every Open.
OpenAdmits ==
  /\ rl.open.at = "resolved"
  /\ rl' = [rl EXCEPT !.open.at = IF rl.open.target \in rl.allowed
                                  THEN "admitted" ELSE "denied"]

OpenOver ==
  /\ rl.open.at \notin {"idle", "resolved"}
  /\ rl' = [rl EXCEPT !.open = NoOpen]

\* A reload of the tenant rules.
PolicyChanges(t) ==
  /\ rl.changes < MaxRouteChange
  /\ rl' = [rl EXCEPT !.changes = @ + 1,
            !.allowed = (@ \ {t}) \cup ({t} \ @)]

LeaseNext ==
  \/ \E c \in Conn : \/ RegisterSweeps(c) \/ RegisterInstalls(c)
                     \/ RegisterSweepsAgain(c) \/ implicit_re_register(c)
                     \/ ConnectionEnds(c)
  \/ Evict
  \/ \E k \in RouteCall : \/ \E t \in LeaseTarget : RouteAsk(k, t)
                     \/ RouteGates(k) \/ RouteChecks(k) \/ RouteInserts(k)
                     \/ RouteCached(k)
  \/ \E t \in LeaseTarget : OpenResolves(t) \/ PolicyChanges(t)
  \/ OpenAdmits \/ OpenOver

LeaseFairness == WF_rl(OpenAdmits)

LeaseSpec == LeaseInit /\ [][LeaseNext]_rl /\ LeaseFairness

-----------------------------------------------------------------------------
\* The state of the lease table, the caches and the calls is well formed.
LeaseTypeOK == rl \in LeaseState

\* A token in the cache of the tunnel that the agent uses is known to the hub
\* as long as that tunnel is the registered one, whatever evictions, implicit
\* re-registrations and ends of earlier connections came between.  Tokens are
\* cached for the life of the tunnel (`resolve_route`), so a lost lease would
\* refuse every later Open for the target.
CachedRouteServes ==
  ~rl.overtaken /\ rl.using # None /\ Registered = rl.using =>
    \A t \in LeaseTarget : rl.cache[rl.using][t] # None =>
      \E l \in rl.leases : /\ l.token = rl.cache[rl.using][t]
                           /\ l.target = t

\* Once a registration is complete, no lease of an earlier circuit is left,
\* provided no lease was inserted after its circuit was replaced: this is
\* what the second sweep in `handle_register` is for.
LeasesAreCurrent ==
  ~rl.late /\ ~rl.overtaken /\ rl.using # None =>
    \A l \in rl.leases : l.circuit = rl.using

\* The agent's cached routes are known to the hub, and the hub keeps no lease
\* of an earlier circuit.
LeasesSound == CachedRouteServes /\ LeasesAreCurrent
=============================================================================
