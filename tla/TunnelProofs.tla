---------------------------- MODULE TunnelProofs ----------------------------
(***************************************************************************)
(* What holds of an agent's tunnel to the hub: the route leases and the    *)
(* tables of the UDP ingress, for every number of connections, calls,      *)
(* targets, clients, sessions and associations.                            *)
(***************************************************************************)
EXTENDS RouteLeases, UdpSessions, FiniteSetTheorems, TLAPS

-----------------------------------------------------------------------------
(* Route leases.  The argument follows the connection that was dialled     *)
(* last, as long as no registration goes on after a later one.             *)

Latest == DialOrder[rl.dialled]

CallState ==
  [at : {"idle", "asked", "gated", "checked", "issued", "over"},
   conn : Conn \cup {None}, circuit : Conn \cup {None}, target : LeaseTarget \cup {None}]

UnderWay == {"asked", "gated", "checked", "issued"}

LeaseFor(k, c, t) == [token |-> k, circuit |-> c, target |-> t]

\* Only a connection that was dialled registers.
DialInv ==
  \A c \in Conn : rl.reg[c] # "none" => \E n \in 1 .. rl.dialled : c = DialOrder[n]

\* An object that is the entry, or some connection's, holds a circuit.
ObjectInv ==
  /\ rl.entry # None => rl.held[rl.entry] # None
  /\ \A c \in Conn : /\ rl.reg[c] \in {"installed", "done"} => rl.obj[c] # None
                     /\ rl.obj[c] # None => rl.held[rl.obj[c]] # None

\* The agent uses the latest connection, and only once it is registered.
UsingInv == rl.using # None => rl.using = Latest /\ rl.reg[rl.using] = "done"

\* Calls and cache entries are those of a registered connection.
CallInv ==
  \A k \in RouteCall : rl.call[k].at \in UnderWay =>
    /\ rl.call[k].conn \in Conn /\ rl.reg[rl.call[k].conn] = "done"
    /\ rl.call[k].circuit \in Conn /\ rl.call[k].target \in LeaseTarget

CacheInv ==
  \A c \in Conn, t \in LeaseTarget : rl.cache[c][t] # None => rl.reg[c] = "done"

\* Once the latest connection is installed the registry holds its circuit or
\* none, its object holds its circuit, and its calls carry it.
LatestInv ==
  ~rl.overtaken /\ rl.dialled > 0 =>
    /\ rl.reg[Latest] \in {"installed", "done"} =>
         /\ rl.entry # None => rl.held[rl.entry] = Latest
         /\ rl.held[rl.obj[Latest]] = Latest
    /\ \A k \in RouteCall : rl.call[k].at \in UnderWay /\ rl.call[k].conn = Latest
                              => rl.call[k].circuit = Latest

\* The table has the lease of every answer on its way to the tunnel in use and
\* of every entry of its cache.
KnownInv ==
  ~rl.overtaken /\ rl.using # None =>
    /\ \A k \in RouteCall : rl.call[k].at = "issued" /\ rl.call[k].conn = rl.using
         => LeaseFor(k, rl.using, rl.call[k].target) \in rl.leases
    /\ \A t \in LeaseTarget : rl.cache[rl.using][t] # None
         => LeaseFor(rl.cache[rl.using][t], rl.using, t) \in rl.leases

LeaseInv ==
  /\ LeaseTypeOK /\ DialInv /\ ObjectInv /\ UsingInv /\ CallInv /\ CacheInv
  /\ LatestInv /\ KnownInv /\ LeasesAreCurrent

USE LeaseAssumption DEF LeaseTypeOK

LEMMA LeaseStarts == ASSUME LeaseInit PROVE LeaseInv
  <1>1. LeaseTypeOK
    <2>1. Cardinality(Conn) \in Nat  BY FS_CardinalityType
    <2> QED  BY <2>1 DEF LeaseInit, LeaseStart, LeaseState, NoCall, NoOpen
  <1>2. DialInv /\ ObjectInv /\ UsingInv /\ CallInv /\ CacheInv
    BY DEF LeaseInit, LeaseStart, NoCall, DialInv, ObjectInv, UsingInv, CallInv, CacheInv, UnderWay
  <1>3. LatestInv /\ KnownInv /\ LeasesAreCurrent
    BY DEF LeaseInit, LeaseStart, LatestInv, KnownInv, LeasesAreCurrent
  <1> QED  BY <1>1, <1>2, <1>3 DEF LeaseInv

LEMMA SweepsStep ==
  ASSUME LeaseInv, NEW c \in Conn, RegisterSweeps(c) PROVE LeaseInv'
  <1> USE DEF LeaseInv, RegisterSweeps, SweepSource
  <1>0. Cardinality(Conn) \in Nat  BY FS_CardinalityType
  <1>1. /\ rl.dialled \in Nat /\ rl'.dialled = rl.dialled + 1 /\ rl'.using = None
        /\ rl'.reg = [rl.reg EXCEPT ![c] = "swept"] /\ rl'.leases = {}
        /\ rl'.entry = rl.entry /\ rl'.held = rl.held /\ rl'.obj = rl.obj
        /\ rl'.cache = rl.cache /\ rl'.call = rl.call /\ rl'.overtaken = rl.overtaken
    BY <1>0 DEF LeaseState
  <1>2. LeaseTypeOK'
    <2>1. rl.dialled + 1 \in 0 .. Cardinality(Conn)  BY <1>0, <1>1
    <2>2. {} \in SUBSET [token : RouteCall, circuit : Conn, target : LeaseTarget]  OBVIOUS
    <2> QED  BY <2>1, <2>2, Zenon DEF LeaseState
  <1>3. rl.reg[c] = "none" /\ c = Latest'
    BY <1>0, <1>1 DEF DialInv, Latest, LeaseState
  <1>4. DialInv'
    BY <1>0, <1>1, <1>3 DEF DialInv, Latest, LeaseState
  <1>5. ObjectInv' /\ UsingInv' /\ KnownInv' /\ LeasesAreCurrent'
    BY <1>1 DEF ObjectInv, UsingInv, KnownInv, LeasesAreCurrent, LeaseState
  <1>6. CallInv' /\ CacheInv'
    BY <1>1, <1>3 DEF CallInv, CacheInv, LeaseState
  <1>7. LatestInv'
    BY <1>1, <1>3 DEF LatestInv, CallInv, LeaseState
  <1> QED  BY <1>2, <1>4, <1>5, <1>6, <1>7

LEMMA InstallsStep ==
  ASSUME LeaseInv, NEW c \in Conn, RegisterInstalls(c) PROVE LeaseInv'
  <1> USE DEF LeaseInv
  <1> DEFINE o == IF rl.entry = None THEN c ELSE rl.entry
  <1>0. Cardinality(Conn) \in Nat  BY FS_CardinalityType
  <1>1. /\ rl.reg[c] = "swept" /\ o \in Conn
        /\ rl'.entry = o /\ rl'.obj = [rl.obj EXCEPT ![c] = o]
        /\ rl'.held = [rl.held EXCEPT ![o] = c]
        /\ rl'.reg = [rl.reg EXCEPT ![c] = "installed"]
        /\ ~rl'.overtaken => ~rl.overtaken /\ c = Latest
        /\ rl'.dialled = rl.dialled /\ rl'.using = rl.using /\ rl'.leases = rl.leases
        /\ rl'.cache = rl.cache /\ rl'.call = rl.call /\ rl'.late = rl.late
    BY Zenon DEF LeaseState, RegisterInstalls, Latest
  <1>2. LeaseTypeOK'
    BY <1>1, Zenon DEF LeaseState, RegisterInstalls
  <1> HIDE DEF o
  <1>3. DialInv' /\ CallInv' /\ CacheInv' /\ Latest' = Latest
    BY <1>1 DEF DialInv, CallInv, CacheInv, LeaseState, Latest
  <1>4. ObjectInv'
    BY <1>1 DEF ObjectInv, LeaseState
  <1>5. UsingInv'
    BY <1>1, <1>3 DEF UsingInv, LeaseState
  <1>6. ~rl'.overtaken => rl'.using = None
    BY <1>1 DEF UsingInv, LeaseState
  <1>7. LatestInv'
    BY <1>1, <1>3 DEF LatestInv, CallInv, LeaseState
  <1>8. KnownInv' /\ LeasesAreCurrent'
    BY <1>6 DEF KnownInv, LeasesAreCurrent
  <1> QED  BY <1>2, <1>3, <1>4, <1>5, <1>7, <1>8

LEMMA SweepsAgainStep ==
  ASSUME LeaseInv, NEW c \in Conn, RegisterSweepsAgain(c) PROVE LeaseInv'
  <1> USE DEF LeaseInv
  <1>1. /\ rl.reg[c] = "installed" /\ rl'.leases = {}
        /\ rl'.entry = rl.entry /\ rl'.obj = rl.obj /\ rl'.held = rl.held
        /\ rl'.reg = [rl.reg EXCEPT ![c] = "done"]
        /\ rl'.using = IF c = Latest THEN c ELSE rl.using
        /\ ~rl'.overtaken => ~rl.overtaken /\ c = Latest
        /\ rl'.dialled = rl.dialled
        /\ rl'.cache = rl.cache /\ rl'.call = rl.call
    BY Zenon DEF LeaseState, RegisterSweepsAgain, SweepSource, Latest
  <1>2. LeaseTypeOK'
    BY <1>1, Zenon DEF LeaseState, RegisterSweepsAgain, SweepSource
  <1>3. DialInv' /\ CallInv' /\ CacheInv' /\ ObjectInv' /\ Latest' = Latest
    BY <1>1 DEF DialInv, CallInv, CacheInv, ObjectInv, LeaseState, Latest
  <1>5. UsingInv'
    BY <1>1, <1>3 DEF UsingInv, LeaseState
  <1>7. LatestInv'
    BY <1>1, <1>3 DEF LatestInv, CallInv, LeaseState
  <1>8. KnownInv' /\ LeasesAreCurrent'
    BY <1>1 DEF KnownInv, LeasesAreCurrent, CallInv, CacheInv, UnderWay, LeaseState
  <1> QED  BY <1>2, <1>3, <1>5, <1>7, <1>8

LEMMA EvictStep == ASSUME LeaseInv, Evict PROVE LeaseInv'
  <1> USE DEF LeaseInv
  <1>1. /\ rl'.entry = None /\ rl'.leases = rl.leases /\ rl'.late = rl.late
        /\ rl'.obj = rl.obj /\ rl'.held = rl.held /\ rl'.reg = rl.reg
        /\ rl'.using = rl.using /\ rl'.overtaken = rl.overtaken /\ rl'.dialled = rl.dialled
        /\ rl'.cache = rl.cache /\ rl'.call = rl.call
    BY DEF LeaseState, Evict
  <1>2. LeaseTypeOK'
    <2>1. rl.evictions + 1 \in 0 .. MaxEvict  BY DEF LeaseState, Evict
    <2> QED  BY <2>1, Zenon DEF LeaseState, Evict
  <1>3. DialInv' /\ CallInv' /\ CacheInv' /\ ObjectInv' /\ UsingInv' /\ LatestInv'
    BY <1>1 DEF DialInv, CallInv, CacheInv, ObjectInv, UsingInv, LatestInv, Latest
  <1>4. KnownInv' /\ LeasesAreCurrent'
    BY <1>1 DEF KnownInv, LeasesAreCurrent
  <1> QED  BY <1>2, <1>3, <1>4

LEMMA ReRegisterStep ==
  ASSUME LeaseInv, NEW c \in Conn, implicit_re_register(c) PROVE LeaseInv'
  <1> USE DEF LeaseInv
  <1>1. /\ rl.using = c /\ rl'.entry = c /\ rl'.leases = rl.leases /\ rl'.late = rl.late
        /\ rl'.obj = [rl.obj EXCEPT ![c] = c] /\ rl'.held = [rl.held EXCEPT ![c] = c]
        /\ rl'.reg = rl.reg
        /\ rl'.using = rl.using /\ rl'.overtaken = rl.overtaken /\ rl'.dialled = rl.dialled
        /\ rl'.cache = rl.cache /\ rl'.call = rl.call
    BY DEF LeaseState, implicit_re_register
  <1>2. LeaseTypeOK'
    <2>1. /\ [rl.obj EXCEPT ![c] = c] \in [Conn -> Conn \cup {None}]
          /\ [rl.held EXCEPT ![c] = c] \in [Conn -> Conn \cup {None}]
      BY DEF LeaseState
    <2>2. rl' = [rl EXCEPT !.entry = c, !.obj = [rl.obj EXCEPT ![c] = c],
                           !.held = [rl.held EXCEPT ![c] = c]]
      BY DEF LeaseState, implicit_re_register
    <2> QED  BY <2>1, <2>2, Zenon DEF LeaseState
  <1>3. DialInv' /\ CallInv' /\ CacheInv' /\ UsingInv' /\ Latest' = Latest
    BY <1>1 DEF DialInv, CallInv, CacheInv, UsingInv, Latest
  <1>4. ObjectInv' /\ LatestInv'
    BY <1>1, <1>3 DEF ObjectInv, LatestInv, UsingInv, LeaseState
  <1>5. KnownInv' /\ LeasesAreCurrent'
    BY <1>1 DEF KnownInv, LeasesAreCurrent
  <1> QED  BY <1>2, <1>3, <1>4, <1>5

LEMMA EndsStep ==
  ASSUME LeaseInv, NEW c \in Conn, ConnectionEnds(c) PROVE LeaseInv'
  <1> USE DEF LeaseInv
  <1>1. /\ rl.using # c /\ rl'.entry \in {rl.entry, None} /\ rl'.late = rl.late
        /\ rl'.leases = {l \in rl.leases : l.circuit # c}
        /\ rl'.obj = rl.obj /\ rl'.held = rl.held /\ rl'.reg = rl.reg
        /\ rl'.using = rl.using /\ rl'.overtaken = rl.overtaken /\ rl'.dialled = rl.dialled
        /\ rl'.cache = rl.cache /\ rl'.call = rl.call
    BY DEF LeaseState, ConnectionEnds, SweepCircuit
  <1>2. LeaseTypeOK'
    <2>1. rl.ended \cup {c} \in SUBSET Conn  BY DEF LeaseState
    <2>2. rl'.leases \in SUBSET [token : RouteCall, circuit : Conn, target : LeaseTarget]
      BY <1>1 DEF LeaseState
    <2> QED  BY <1>1, <2>1, <2>2, Zenon DEF LeaseState, ConnectionEnds
  <1>3. DialInv' /\ CallInv' /\ CacheInv' /\ ObjectInv' /\ UsingInv' /\ LatestInv'
    BY <1>1 DEF DialInv, CallInv, CacheInv, ObjectInv, UsingInv, LatestInv, Latest
  <1>4. KnownInv'
    BY <1>1 DEF KnownInv, LeaseFor
  <1>5. LeasesAreCurrent'
    BY <1>1 DEF LeasesAreCurrent
  <1> QED  BY <1>2, <1>3, <1>4, <1>5

LEMMA AskStep ==
  ASSUME LeaseInv, NEW k \in RouteCall, NEW t \in LeaseTarget, RouteAsk(k, t) PROVE LeaseInv'
  <1> USE DEF LeaseInv
  <1> DEFINE c == rl.using
             n == IF c \in QuicConn THEN rl.held[rl.obj[c]] ELSE c
             q == [at |-> "asked", conn |-> c, target |-> t, circuit |-> n]
  <1>0. c \in Conn /\ n \in Conn /\ rl.reg[c] = "done" /\ c = Latest
    BY DEF RouteAsk, ObjectInv, UsingInv, LeaseState
  <1>1. /\ rl'.call = [rl.call EXCEPT ![k] = q]
        /\ rl'.entry = rl.entry /\ rl'.late = rl.late /\ rl'.leases = rl.leases
        /\ rl'.obj = rl.obj /\ rl'.held = rl.held /\ rl'.reg = rl.reg
        /\ rl'.using = rl.using /\ rl'.overtaken = rl.overtaken /\ rl'.dialled = rl.dialled
        /\ rl'.cache = rl.cache
    BY DEF LeaseState, RouteAsk
  <1>2. LeaseTypeOK'
    <2>1. [rl.call EXCEPT ![k] = q] \in [RouteCall -> CallState]
      BY <1>0 DEF LeaseState, CallState
    <2>2. rl' = [rl EXCEPT !.call = [rl.call EXCEPT ![k] = q]]  BY DEF LeaseState, RouteAsk
    <2> HIDE DEF q
    <2> QED  BY <2>1, <2>2, Zenon DEF LeaseState, CallState
  <1>3. ~rl.overtaken => n = Latest
    <2>1. rl.dialled > 0  BY <1>0 DEF DialInv, LeaseState
    <2> QED  BY <1>0, <2>1 DEF LatestInv
  <1> HIDE DEF n
  <1>4. \A j \in RouteCall : rl'.call[j] = IF j = k THEN q ELSE rl.call[j]
    BY <1>1 DEF LeaseState
  <1>5. DialInv' /\ CacheInv' /\ ObjectInv' /\ UsingInv' /\ Latest' = Latest
    BY <1>1 DEF DialInv, CacheInv, ObjectInv, UsingInv, Latest
  <1>6. CallInv'
    BY <1>0, <1>1, <1>4 DEF CallInv
  <1>7. LatestInv'
    BY <1>0, <1>1, <1>3, <1>4, <1>5 DEF LatestInv
  <1>8. KnownInv' /\ LeasesAreCurrent'
    BY <1>1, <1>4 DEF KnownInv, LeasesAreCurrent
  <1> QED  BY <1>2, <1>5, <1>6, <1>7, <1>8

\* A call goes on without touching the table, or is over.
LEMMA CallStep ==
  ASSUME LeaseInv, NEW k \in RouteCall, NEW q \in CallState,
         q.at = "over" \/ /\ rl.call[k].at \in UnderWay /\ q.at \in {"gated", "checked"}
                          /\ q.conn = rl.call[k].conn /\ q.circuit = rl.call[k].circuit
                          /\ q.target = rl.call[k].target,
         rl' = [rl EXCEPT !.call[k] = q]
  PROVE  LeaseInv'
  <1> USE DEF LeaseInv
  <1>1. /\ rl'.entry = rl.entry /\ rl'.late = rl.late /\ rl'.leases = rl.leases
        /\ rl'.obj = rl.obj /\ rl'.held = rl.held /\ rl'.reg = rl.reg
        /\ rl'.using = rl.using /\ rl'.overtaken = rl.overtaken /\ rl'.dialled = rl.dialled
        /\ rl'.cache = rl.cache /\ rl'.call = [rl.call EXCEPT ![k] = q]
    BY DEF LeaseState
  <1>2. LeaseTypeOK'
    <2>1. [rl.call EXCEPT ![k] = q] \in [RouteCall -> CallState]
      BY DEF LeaseState, CallState
    <2> QED  BY <2>1, Zenon DEF LeaseState, CallState
  <1>3. \A j \in RouteCall : rl'.call[j] = IF j = k THEN q ELSE rl.call[j]
    BY <1>1 DEF LeaseState
  <1>4. DialInv' /\ CacheInv' /\ ObjectInv' /\ UsingInv' /\ Latest' = Latest
    BY <1>1 DEF DialInv, CacheInv, ObjectInv, UsingInv, Latest
  <1>5. CallInv' /\ LatestInv'
    BY <1>1, <1>3, <1>4 DEF CallInv, LatestInv, UnderWay
  <1>6. KnownInv' /\ LeasesAreCurrent'
    BY <1>1, <1>3 DEF KnownInv, LeasesAreCurrent
  <1> QED  BY <1>2, <1>4, <1>5, <1>6

LEMMA RefusedStep == ASSUME LeaseInv, NEW k \in RouteCall, RouteRefused(k) PROVE LeaseInv'
  <1>1. [NoCall EXCEPT !.at = "over"] \in CallState /\ [NoCall EXCEPT !.at = "over"].at = "over"
    BY DEF NoCall, CallState
  <1> QED  BY <1>1, CallStep, Zenon DEF RouteRefused

LEMMA GatesStep ==
  ASSUME LeaseInv, NEW k \in RouteCall, RouteGates(k) \/ RouteChecks(k) PROVE LeaseInv'
  <1>1. CASE RouteRefused(k)  BY <1>1, RefusedStep
  <1>2. CASE /\ rl.call[k].at \in UnderWay
             /\ \E x \in {"gated", "checked"} : rl' = [rl EXCEPT !.call[k].at = x]
    <2>1. PICK x \in {"gated", "checked"} : rl' = [rl EXCEPT !.call[k].at = x]  BY <1>2
    <2> DEFINE q == [rl.call[k] EXCEPT !.at = x]
    <2>2. rl.call[k] \in CallState  BY DEF LeaseInv, LeaseState, CallState
    <2>3. /\ q \in CallState /\ q.at \in {"gated", "checked"} /\ q.conn = rl.call[k].conn
          /\ q.circuit = rl.call[k].circuit /\ q.target = rl.call[k].target
      BY <2>2 DEF CallState
    <2>4. rl' = [rl EXCEPT !.call[k] = q]  BY <2>1
    <2> HIDE DEF q
    <2> QED  BY <1>2, <2>3, <2>4, CallStep
  <1> QED  BY <1>1, <1>2 DEF RouteGates, RouteChecks, UnderWay

LEMMA InsertsStep ==
  ASSUME LeaseInv, NEW k \in RouteCall, RouteInserts(k) PROVE LeaseInv'
  <1> USE DEF LeaseInv
  <1> DEFINE q == rl.call[k]  p == [q EXCEPT !.at = "issued"]
             l == LeaseFor(k, q.circuit, q.target)
  <1>0. /\ q \in CallState /\ q.at = "checked" /\ q.conn \in Conn /\ rl.reg[q.conn] = "done"
        /\ q.circuit \in Conn /\ q.target \in LeaseTarget
    BY DEF RouteInserts, CallInv, LeaseState, CallState, UnderWay
  <1>1. /\ rl'.entry = rl.entry /\ rl'.leases = rl.leases \cup {l}
        /\ ~rl'.late => ~rl.late /\ Registered = q.circuit
        /\ rl'.obj = rl.obj /\ rl'.held = rl.held /\ rl'.reg = rl.reg
        /\ rl'.using = rl.using /\ rl'.overtaken = rl.overtaken /\ rl'.dialled = rl.dialled
        /\ rl'.cache = rl.cache /\ rl'.call = [rl.call EXCEPT ![k] = p]
    BY Zenon DEF LeaseState, RouteInserts, LeaseFor
  <1>2. LeaseTypeOK'
    <2>1. [rl.call EXCEPT ![k] = p] \in [RouteCall -> CallState]
      BY <1>0 DEF LeaseState, CallState
    <2>2. rl.leases \cup {l} \in SUBSET [token : RouteCall, circuit : Conn, target : LeaseTarget]
      BY <1>0 DEF LeaseState, LeaseFor
    <2> HIDE DEF p, l
    <2> QED  BY <1>1, <2>1, <2>2, Zenon DEF LeaseState, CallState, RouteInserts
  <1>3. /\ \A j \in RouteCall : rl'.call[j] = IF j = k THEN p ELSE rl.call[j]
        /\ p.at = "issued" /\ p.conn = q.conn /\ p.circuit = q.circuit /\ p.target = q.target
    BY <1>0, <1>1 DEF LeaseState, CallState
  <1>4. DialInv' /\ CacheInv' /\ ObjectInv' /\ UsingInv' /\ Latest' = Latest
    BY <1>1 DEF DialInv, CacheInv, ObjectInv, UsingInv, Latest
  <1> HIDE DEF p
  <1>5. CallInv' /\ LatestInv'
    BY <1>0, <1>1, <1>3, <1>4 DEF CallInv, LatestInv, UnderWay
  <1>6. ~rl.overtaken /\ rl.using # None => rl.dialled > 0 /\ rl.using = Latest /\ rl.reg[Latest] = "done"
    BY DEF UsingInv, DialInv, LeaseState
  <1>7. KnownInv'
    BY <1>0, <1>1, <1>3, <1>6 DEF KnownInv, LatestInv, UnderWay
  <1>8. LeasesAreCurrent'
    <2>1. ~rl'.late /\ ~rl.overtaken /\ rl.using # None => q.circuit = rl.using
      BY <1>0, <1>1, <1>6 DEF LatestInv, Registered
    <2>2. l.circuit = q.circuit  BY DEF LeaseFor
    <2> HIDE DEF l
    <2> QED  BY <1>1, <2>1, <2>2 DEF LeasesAreCurrent
  <1> QED  BY <1>2, <1>4, <1>5, <1>7, <1>8

LEMMA CachedStep ==
  ASSUME LeaseInv, NEW k \in RouteCall, RouteCached(k) PROVE LeaseInv'
  <1> USE DEF LeaseInv
  <1> DEFINE q == rl.call[k]  p == [NoCall EXCEPT !.at = "over"]
             v == IF rl.using = q.conn THEN k ELSE rl.cache[q.conn][q.target]
  <1>0. /\ q.at = "issued" /\ q.conn \in Conn /\ rl.reg[q.conn] = "done"
        /\ q.circuit \in Conn /\ q.target \in LeaseTarget
    BY DEF RouteCached, CallInv, LeaseState, UnderWay
  <1>1. /\ rl'.entry = rl.entry /\ rl'.leases = rl.leases /\ rl'.late = rl.late
        /\ rl'.obj = rl.obj /\ rl'.held = rl.held /\ rl'.reg = rl.reg
        /\ rl'.using = rl.using /\ rl'.overtaken = rl.overtaken /\ rl'.dialled = rl.dialled
    BY DEF LeaseState, RouteCached
  <1>8. /\ rl'.cache = [rl.cache EXCEPT ![q.conn] = [rl.cache[q.conn] EXCEPT ![q.target] = v]]
        /\ rl'.call = [rl.call EXCEPT ![k] = p]
    BY DEF LeaseState, RouteCached
  <1>2. LeaseTypeOK'
    <2>1. p \in CallState  BY DEF NoCall, CallState
    <2>2. [rl.call EXCEPT ![k] = p] \in [RouteCall -> CallState]
      BY <2>1 DEF LeaseState, CallState
    <2>3. [rl.cache EXCEPT ![q.conn][q.target] = v]
            \in [Conn -> [LeaseTarget -> RouteCall \cup {None}]]
      BY <1>0 DEF LeaseState
    <2>4. rl' = [rl EXCEPT !.call = [rl.call EXCEPT ![k] = p],
                           !.cache = [rl.cache EXCEPT ![q.conn][q.target] = v]]
      BY DEF RouteCached, LeaseState
    <2> HIDE DEF p, v
    <2> QED  BY <2>2, <2>3, <2>4, Zenon DEF LeaseState, CallState
  <1>3. p.at = "over"  BY DEF NoCall
  <1>9. rl.using = q.conn => v = k  OBVIOUS
  <1> HIDE DEF p, v
  <1>10. \A j \in RouteCall : rl'.call[j] = IF j = k THEN p ELSE rl.call[j]
    BY <1>8 DEF LeaseState
  <1>11. \A c \in Conn, t \in LeaseTarget :
           rl'.cache[c][t] = IF c = q.conn /\ t = q.target THEN v ELSE rl.cache[c][t]
    <2>1. rl.cache \in [Conn -> [LeaseTarget -> RouteCall \cup {None}]]  BY DEF LeaseState
    <2> QED  BY <1>0, <1>8, <2>1
  <1>4. DialInv' /\ ObjectInv' /\ UsingInv' /\ Latest' = Latest
    BY <1>1 DEF DialInv, ObjectInv, UsingInv, Latest
  <1>5. CallInv' /\ LatestInv'
    BY <1>1, <1>3, <1>10, <1>4 DEF CallInv, LatestInv, UnderWay
  <1>12. CacheInv'
    BY <1>0, <1>1, <1>11 DEF CacheInv
  <1>6. LeasesAreCurrent'
    BY <1>1 DEF LeasesAreCurrent
  <1>7. KnownInv'
    <2> SUFFICES ASSUME ~rl.overtaken, rl.using # None
                 PROVE  KnownInv'
      BY <1>1 DEF KnownInv
    <2>1. \A j \in RouteCall : rl.call[j].at = "issued" /\ rl.call[j].conn = rl.using
            => LeaseFor(j, rl.using, rl.call[j].target) \in rl.leases
      BY DEF KnownInv
    <2>2. \A t \in LeaseTarget : rl.cache[rl.using][t] # None
            => LeaseFor(rl.cache[rl.using][t], rl.using, t) \in rl.leases
      BY DEF KnownInv
    <2>3. rl.using \in Conn  BY DEF LeaseState
    <2>4. \A t \in LeaseTarget : rl'.cache[rl.using][t] # None
            => LeaseFor(rl'.cache[rl.using][t], rl.using, t) \in rl.leases
      BY <1>0, <1>9, <1>11, <2>1, <2>2, <2>3
    <2>5. \A j \in RouteCall : rl'.call[j].at = "issued" /\ rl'.call[j].conn = rl.using
            => LeaseFor(j, rl.using, rl'.call[j].target) \in rl.leases
      BY <1>3, <1>10, <2>1
    <2> QED  BY <1>1, <2>4, <2>5 DEF KnownInv
  <1> QED  BY <1>2, <1>4, <1>5, <1>6, <1>7, <1>12

\* An Open and a change of the policy leave leases, caches and calls alone.
LEMMA OpenStep ==
  ASSUME LeaseInv,
         (\E t \in LeaseTarget : OpenResolves(t) \/ PolicyChanges(t)) \/ OpenAdmits \/ OpenOver
  PROVE  LeaseInv'
  <1> USE DEF LeaseInv
  <1> DEFINE Same ==
        /\ rl'.entry = rl.entry /\ rl'.leases = rl.leases /\ rl'.late = rl.late
        /\ rl'.obj = rl.obj /\ rl'.held = rl.held /\ rl'.reg = rl.reg
        /\ rl'.using = rl.using /\ rl'.overtaken = rl.overtaken /\ rl'.dialled = rl.dialled
        /\ rl'.cache = rl.cache /\ rl'.call = rl.call
  <1>1. Same
    <2>1. \/ \E x : rl' = [rl EXCEPT !.open = x]
          \/ \E x, y : rl' = [rl EXCEPT !.changes = x, !.allowed = y]
      BY Zenon DEF OpenResolves, PolicyChanges, OpenAdmits, OpenOver, LeaseState
    <2>2. ASSUME NEW x, rl' = [rl EXCEPT !.open = x] PROVE Same
      BY <2>2 DEF LeaseState
    <2>3. ASSUME NEW x, NEW y, rl' = [rl EXCEPT !.changes = x, !.allowed = y] PROVE Same
      BY <2>3 DEF LeaseState
    <2> QED  BY <2>1, <2>2, <2>3, Zenon
  <1>2. LeaseTypeOK'
    <2>1. ASSUME NEW t \in LeaseTarget, OpenResolves(t) PROVE LeaseTypeOK'
      BY <2>1, Zenon DEF LeaseState, OpenResolves
    <2>2. ASSUME NEW t \in LeaseTarget, PolicyChanges(t) PROVE LeaseTypeOK'
      <3>1. rl.changes \in 0 .. MaxRouteChange /\ rl.changes < MaxRouteChange
        BY <2>2, Zenon DEF LeaseState, PolicyChanges
      <3>2. rl.changes + 1 \in 0 .. MaxRouteChange  BY <3>1
      <3>3. (rl.allowed \ {t}) \cup ({t} \ rl.allowed) \in SUBSET LeaseTarget
        BY DEF LeaseState
      <3> QED  BY <2>2, <3>2, <3>3, Zenon DEF LeaseState, PolicyChanges
    <2>3. CASE OpenAdmits
      <3> DEFINE x == IF rl.open.target \in rl.allowed THEN "admitted" ELSE "denied"
                 o == [rl.open EXCEPT !.at = x]
      <3>1. rl' = [rl EXCEPT !.open = o]  BY <2>3 DEF OpenAdmits, LeaseState
      <3>2. o \in [at : {"idle", "resolved", "admitted", "denied", "missing", "refused"},
                   conn : Conn \cup {None}, target : LeaseTarget \cup {None}]
        BY DEF LeaseState
      <3> HIDE DEF o
      <3> QED  BY <3>1, <3>2, Zenon DEF LeaseState
    <2>4. CASE OpenOver
      BY <2>4, Zenon DEF LeaseState, OpenOver, NoOpen
    <2> QED  BY <2>1, <2>2, <2>3, <2>4
  <1>3. DialInv' /\ CallInv' /\ CacheInv' /\ ObjectInv' /\ UsingInv' /\ LatestInv'
    BY <1>1 DEF DialInv, CallInv, CacheInv, ObjectInv, UsingInv, LatestInv, Latest
  <1>4. KnownInv' /\ LeasesAreCurrent'
    BY <1>1 DEF KnownInv, LeasesAreCurrent
  <1> QED  BY <1>2, <1>3, <1>4

LEMMA LeaseStep == ASSUME LeaseInv, [LeaseNext]_rl PROVE LeaseInv'
  <1>1. CASE UNCHANGED rl
    BY <1>1 DEF LeaseInv, LeaseState, DialInv, CallInv, CacheInv, ObjectInv, UsingInv, LatestInv,
                Latest, KnownInv, LeasesAreCurrent
  <1>2. CASE LeaseNext
    BY <1>2, SweepsStep, InstallsStep, SweepsAgainStep, ReRegisterStep, EndsStep, EvictStep,
       AskStep, GatesStep, InsertsStep, CachedStep, OpenStep, Zenon DEF LeaseNext
  <1> QED  BY <1>1, <1>2

\* For any number of connections, targets and calls: a token in the cache of
\* the tunnel in use is known to the hub, and no lease of an earlier circuit
\* outlives a registration (`handle_register`, `issue_route`).
THEOREM RouteLeasing == LeaseSpec => []LeasesSound
  <1>1. LeaseInit => LeaseInv  BY LeaseStarts
  <1>2. LeaseInv /\ [LeaseNext]_rl => LeaseInv'  BY LeaseStep
  <1>3. LeaseInv => LeasesSound
    <2> SUFFICES ASSUME LeaseInv PROVE CachedRouteServes  BY DEF LeasesSound, LeaseInv
    <2> QED  BY Zenon DEF LeaseInv, KnownInv, CachedRouteServes, LeaseFor
  <1> QED  BY <1>1, <1>2, <1>3, PTL DEF LeaseSpec

-----------------------------------------------------------------------------
(* The tables of the UDP ingress.                                          *)

\* Where the serve loop is, which association it uses and what the open under
\* way has entered.
LoopInv ==
  /\ us.at # "recv" => us.cur \in Client
  /\ us.at \in {"session", "send"} => us.assoc # 0
  /\ us.at = "association" => us.assoc = 0 /\ us.used < MaxSession
  /\ us.assoc = 0 => us.inner = {} /\ \A c \in Client : us.clients[c] = 0
  /\ us.at = "session" => /\ us.used # 0 /\ us.owner[us.used] = us.cur
                          /\ us.of[us.used] = us.assoc /\ us.clients[us.cur] = 0
                          /\ us.pump[us.used] = "none"

\* Sessions get their pump when they are opened, and a pump has a client.
PumpInv ==
  \A s \in SessionIds : /\ s > us.used => us.pump[s] = "none"
                        /\ us.pump[s] \in {"run", "closing"} => us.owner[s] \in Client

TableInv == LoopInv /\ PumpInv /\ ClientServed /\ InnerReclaimed /\ SessionReachable

\* Replies of a backend that is gone are taken before time goes on.
TimerInv ==
  \A s \in SessionIds : us.pump[s] = "run" /\ us.back[s] = "gone" =>
    /\ us.left[s] + us.ended[s] <= IdleTicks
    /\ us.chan[s] > 0 => us.ended[s] = 0

UdpInv == UdpTypeOK /\ TableInv /\ TimerInv

\* The parts of the state that the tables are made of.
Tables == <<us.at, us.cur, us.assoc, us.clients, us.inner, us.used, us.owner, us.of, us.pump>>

LEMMA TablesRest == ASSUME TableInv, Tables' = Tables PROVE TableInv'
  <1>1. /\ us'.at = us.at /\ us'.cur = us.cur /\ us'.assoc = us.assoc /\ us'.clients = us.clients
        /\ us'.inner = us.inner /\ us'.used = us.used /\ us'.owner = us.owner
        /\ us'.of = us.of /\ us'.pump = us.pump
    BY DEF Tables
  <1> QED  BY <1>1 DEF TableInv, LoopInv, PumpInv, ClientServed, InnerReclaimed, SessionReachable

LEMMA UdpNats ==
  /\ MaxSession \in Nat /\ MaxAssociation \in Nat /\ IdleTicks \in Nat /\ ChannelCap \in Nat
  /\ MaxDatagram \in Nat /\ MaxReply \in Nat /\ MaxRuleChange \in Nat
  BY UdpAssumption

LEMMA UdpFields ==
  ASSUME NEW u \in UdpState
  PROVE  /\ u.rule \in 0 .. MaxRuleChange /\ u.limits \in 0 .. MaxRuleChange
         /\ u.at \in {"recv", "association", "session", "send"} /\ u.cur \in Client \cup {0}
         /\ u.tried \in 0 .. MaxAssociation /\ u.assoc \in 0 .. MaxAssociation
         /\ u.carrier \in [1 .. MaxAssociation -> {"none", "up", "lost", "closed"}]
         /\ u.outer \in SUBSET (1 .. MaxAssociation)
         /\ u.clients \in [Client -> 0 .. MaxSession] /\ u.inner \in SUBSET SessionIds
         /\ u.used \in 0 .. MaxSession /\ u.owner \in [SessionIds -> Client \cup {0}]
         /\ u.of \in [SessionIds -> 0 .. MaxAssociation]
         /\ u.pump \in [SessionIds -> {"none", "run", "closing", "gone"}]
         /\ u.chan \in [SessionIds -> 0 .. ChannelCap]
         /\ u.idle \in [SessionIds -> Clock] /\ u.left \in [SessionIds -> Clock]
         /\ u.back \in [SessionIds -> {"none", "run", "gone"}]
         /\ u.bidle \in [SessionIds -> Clock] /\ u.bleft \in [SessionIds -> Clock]
         /\ u.ended \in [SessionIds -> 0 .. (IdleTicks + 1)]
         /\ u.sent \in 0 .. MaxDatagram /\ u.replies \in 0 .. MaxReply
  BY DEF UdpState

\* A step that starts no pump, ends no backend and leaves the timers of the
\* clients without a backend alone.
LEMMA TimersKept ==
  ASSUME TimerInv,
         \A r \in SessionIds : us'.pump[r] = "run" /\ us'.back[r] = "gone" =>
           /\ us.pump[r] = "run" /\ us.back[r] = "gone"
           /\ us'.left[r] = us.left[r] /\ us'.ended[r] = us.ended[r] /\ us'.chan[r] = us.chan[r]
  PROVE  TimerInv'
  BY DEF TimerInv

\* Steps of one session's timers and channel.
LEMMA TimersOf ==
  ASSUME UdpInv, us' \in UdpState, Tables' = Tables, NEW s \in SessionIds,
         \A r \in SessionIds \ {s} : /\ us'.back[r] = us.back[r] /\ us'.left[r] = us.left[r]
                                     /\ us'.ended[r] = us.ended[r] /\ us'.chan[r] = us.chan[r],
         us.pump[s] = "run" /\ us'.back[s] = "gone" =>
           us'.left[s] + us'.ended[s] <= IdleTicks /\ (us'.chan[s] > 0 => us'.ended[s] = 0)
  PROVE  UdpInv'
  <1>1. us'.pump = us.pump  BY DEF Tables
  <1>2. TableInv'  BY TablesRest DEF UdpInv
  <1>3. TimerInv'  BY <1>1 DEF TimerInv, UdpInv
  <1> QED  BY <1>2, <1>3 DEF UdpInv, UdpTypeOK

\* A session is entered for the datagram in hand.
LEMMA TablesEnter ==
  ASSUME UdpInv, us' \in UdpState, us.at \in {"recv", "association"}, us.used < MaxSession,
         NEW c \in Client, us.clients[c] = 0, NEW n, n = us.used + 1,
         us'.at = "session", us'.cur = c, us'.assoc # 0, us.assoc # 0 => us'.assoc = us.assoc,
         us'.clients = us.clients, us'.inner = us.inner \cup {n}, us'.used = n,
         us'.owner = [us.owner EXCEPT ![n] = c], us'.of = [us.of EXCEPT ![n] = us'.assoc],
         us'.pump = us.pump
  PROVE  TableInv'
  <1>1. TableInv /\ us \in UdpState  BY DEF UdpInv, UdpTypeOK
  <1>2. n \in SessionIds /\ us.pump[n] = "none" /\ n # 0
    <2>1. us.used \in 0 .. MaxSession  BY <1>1, UdpFields
    <2>2. n \in SessionIds /\ n > us.used /\ n # 0  BY <2>1, UdpAssumption DEF SessionIds
    <2> QED  BY <1>1, <2>2 DEF TableInv, PumpInv
  <1>3. /\ us.owner \in [SessionIds -> Client \cup {0}] /\ us.of \in [SessionIds -> 0 .. MaxAssociation]
        /\ us.clients \in [Client -> 0 .. MaxSession] /\ us.inner \in SUBSET SessionIds
        /\ us.used \in 0 .. MaxSession
    BY <1>1, UdpFields
  <1>4. /\ us'.owner[n] = c /\ us'.of[n] = us'.assoc
        /\ \A r \in SessionIds : r # n => us'.owner[r] = us.owner[r] /\ us'.of[r] = us.of[r]
    BY <1>2, <1>3
  <1>5. LoopInv'  BY <1>2, <1>4, <1>1 DEF LoopInv
  <1>6. PumpInv'
    <2> SUFFICES ASSUME NEW r \in SessionIds
                 PROVE  /\ r > us'.used => us'.pump[r] = "none"
                        /\ us'.pump[r] \in {"run", "closing"} => us'.owner[r] \in Client
      BY DEF PumpInv
    <2>1. r > us'.used => r > us.used  BY <1>3, UdpAssumption DEF SessionIds
    <2> QED  BY <1>1, <1>2, <1>4, <2>1 DEF TableInv, PumpInv
  <1>7. ClientServed'
    <2> SUFFICES ASSUME NEW d \in Client, NEW r, r = us.clients[d], r # 0
                 PROVE  us'.owner[r] = d /\ us'.of[r] = us'.assoc /\ us'.pump[r] \in {"run", "closing"}
      BY DEF ClientServed
    <2>1. r \in SessionIds  BY <1>3, UdpAssumption DEF SessionIds
    <2>2. us.assoc # 0  BY <1>1 DEF TableInv, LoopInv
    <2>3. us.owner[r] = d /\ us.of[r] = us.assoc /\ us.pump[r] \in {"run", "closing"}
      BY <1>1 DEF TableInv, ClientServed
    <2>4. r # n  BY <1>2, <2>3
    <2> QED  BY <1>4, <2>1, <2>2, <2>3, <2>4
  <1>8. InnerReclaimed'  BY <1>1, <1>2 DEF TableInv, InnerReclaimed
  <1>9. SessionReachable'
    <2> SUFFICES ASSUME NEW r \in us'.inner, us'.pump[r] = "run" PROVE us'.clients[us'.owner[r]] = r
      BY DEF SessionReachable
    <2>1. r # n /\ r \in us.inner /\ r \in SessionIds  BY <1>2, <1>3
    <2> QED  BY <1>1, <1>4, <2>1 DEF TableInv, SessionReachable
  <1> QED  BY <1>5, <1>6, <1>7, <1>8, <1>9 DEF TableInv

\* The loop turns to the sending of the datagram of a client in the table.
LEMMA TablesSend ==
  ASSUME UdpInv, us.at # "session", NEW c \in Client, us.clients[c] # 0, us'.at = "send", us'.cur = c,
         us'.assoc = us.assoc, us'.clients = us.clients, us'.inner = us.inner, us'.used = us.used,
         us'.owner = us.owner, us'.of = us.of, us'.pump = us.pump
  PROVE  TableInv'
  BY DEF UdpInv, TableInv, LoopInv, PumpInv, ClientServed, InnerReclaimed, SessionReachable

\* The loop is done with its datagram, or waits for an association.
LEMMA TablesDone ==
  ASSUME UdpInv, us.at # "session", us'.at \in {"recv", "association"},
         us'.at = "association" => us'.cur \in Client /\ us.assoc = 0 /\ us.used < MaxSession,
         us'.assoc = us.assoc, us'.clients = us.clients, us'.inner = us.inner, us'.used = us.used,
         us'.owner = us.owner, us'.of = us.of, us'.pump = us.pump
  PROVE  TableInv'
  BY DEF UdpInv, TableInv, LoopInv, PumpInv, ClientServed, InnerReclaimed, SessionReachable

\* The association is closed and both tables are cleared.
LEMMA TablesCleared ==
  ASSUME UdpInv, us'.at = "recv", us'.assoc = 0, us'.inner = {}, \A c \in Client : us'.clients[c] = 0,
         us'.used = us.used, us'.owner = us.owner, us'.of = us.of, us'.pump = us.pump
  PROVE  TableInv'
  BY DEF UdpInv, TableInv, LoopInv, PumpInv, ClientServed, InnerReclaimed, SessionReachable

\* The pump of a session leaves its loop.
LEMMA TablesEnding ==
  ASSUME UdpInv, NEW s \in SessionIds, us.pump[s] = "run", us'.pump = [us.pump EXCEPT ![s] = "closing"],
         us'.at = us.at, us'.cur = us.cur, us'.assoc = us.assoc, us'.clients = us.clients,
         us'.inner = us.inner, us'.used = us.used, us'.owner = us.owner, us'.of = us.of
  PROVE  TableInv'
  <1>1. TableInv /\ us \in UdpState  BY DEF UdpInv, UdpTypeOK
  <1>2. us.pump \in [SessionIds -> {"none", "run", "closing", "gone"}]
        /\ us.clients \in [Client -> 0 .. MaxSession] /\ us.inner \in SUBSET SessionIds
        /\ us.used \in 0 .. MaxSession
    BY <1>1, UdpFields
  <1>3. us'.pump[s] = "closing" /\ \A r \in SessionIds : r # s => us'.pump[r] = us.pump[r]
    BY <1>2
  <1>4. LoopInv'
    <2>1. us.at = "session" => us.used \in SessionIds
      BY <1>1, <1>2, UdpAssumption DEF TableInv, LoopInv, SessionIds
    <2> QED  BY <1>1, <1>3, <2>1 DEF TableInv, LoopInv
  <1>5. PumpInv'  BY <1>1, <1>3 DEF TableInv, PumpInv
  <1>6. ClientServed'
    <2> SUFFICES ASSUME NEW d \in Client, NEW r, r = us.clients[d], r # 0
                 PROVE  us'.owner[r] = d /\ us'.of[r] = us'.assoc /\ us'.pump[r] \in {"run", "closing"}
      BY DEF ClientServed
    <2>1. r \in SessionIds  BY <1>2, UdpAssumption DEF SessionIds
    <2>2. us.owner[r] = d /\ us.of[r] = us.assoc /\ us.pump[r] \in {"run", "closing"}
      BY <1>1 DEF TableInv, ClientServed
    <2> QED  BY <1>3, <2>1, <2>2
  <1>7. InnerReclaimed'  BY <1>1, <1>2, <1>3 DEF TableInv, InnerReclaimed
  <1>8. SessionReachable'  BY <1>1, <1>2, <1>3 DEF TableInv, SessionReachable
  <1> QED  BY <1>4, <1>5, <1>6, <1>7, <1>8 DEF TableInv

\* A closing pump takes its session and its client's entry out.
LEMMA TablesLeave ==
  ASSUME UdpInv, NEW s \in SessionIds, us.pump[s] = "closing", us'.pump = [us.pump EXCEPT ![s] = "gone"],
         us'.inner = us.inner \ {s},
         \A c \in Client : us'.clients[c] = IF us.clients[c] = s THEN 0 ELSE us.clients[c],
         us'.at = us.at, us'.cur = us.cur, us'.assoc = us.assoc,
         us'.used = us.used, us'.owner = us.owner, us'.of = us.of
  PROVE  TableInv'
  <1>1. TableInv /\ us \in UdpState  BY DEF UdpInv, UdpTypeOK
  <1>2. us.pump \in [SessionIds -> {"none", "run", "closing", "gone"}]
        /\ us.clients \in [Client -> 0 .. MaxSession] /\ us.inner \in SUBSET SessionIds
        /\ us.used \in 0 .. MaxSession
    BY <1>1, UdpFields
  <1>3. us'.pump[s] = "gone" /\ \A r \in SessionIds : r # s => us'.pump[r] = us.pump[r]
    BY <1>2
  <1>4. LoopInv'
    <2>1. us.at = "session" => us.used \in SessionIds
      BY <1>1, <1>2, UdpAssumption DEF TableInv, LoopInv, SessionIds
    <2>2. us.assoc = 0 => us'.inner = {} /\ \A c \in Client : us'.clients[c] = 0
      BY <1>1 DEF TableInv, LoopInv
    <2>3. us.at = "session" => /\ us.used # 0 /\ us.owner[us.used] = us.cur
                               /\ us.of[us.used] = us.assoc /\ us'.clients[us.cur] = 0
                               /\ us'.pump[us.used] = "none"
      BY <1>1, <1>3, <2>1 DEF TableInv, LoopInv
    <2> QED  BY <1>1, <2>2, <2>3 DEF TableInv, LoopInv
  <1>5. PumpInv'  BY <1>1, <1>3 DEF TableInv, PumpInv
  <1>6. ClientServed'
    <2> SUFFICES ASSUME NEW d \in Client, NEW r, r = us'.clients[d], r # 0
                 PROVE  us'.owner[r] = d /\ us'.of[r] = us'.assoc /\ us'.pump[r] \in {"run", "closing"}
      BY DEF ClientServed
    <2>1. r = us.clients[d] /\ r # s  OBVIOUS
    <2>2. r \in SessionIds  BY <1>2, <2>1, UdpAssumption DEF SessionIds
    <2>3. us.owner[r] = d /\ us.of[r] = us.assoc /\ us.pump[r] \in {"run", "closing"}
      BY <1>1, <2>1 DEF TableInv, ClientServed
    <2> QED  BY <1>3, <2>1, <2>2, <2>3
  <1>7. InnerReclaimed'  BY <1>1, <1>2, <1>3 DEF TableInv, InnerReclaimed
  <1>8. SessionReachable'
    <2> SUFFICES ASSUME NEW r \in us.inner, r # s, us'.pump[r] = "run" PROVE us'.clients[us.owner[r]] = r
      BY DEF SessionReachable
    <2>1. r \in SessionIds /\ us.pump[r] = "run"  BY <1>2, <1>3
    <2>2. us.clients[us.owner[r]] = r /\ us.owner[r] \in Client
      BY <1>1, <2>1 DEF TableInv, SessionReachable, PumpInv
    <2> QED  BY <2>2
  <1> QED  BY <1>4, <1>5, <1>6, <1>7, <1>8 DEF TableInv

\* The session under way is accepted.
LEMMA TablesOpened ==
  ASSUME UdpInv, us.at = "session", NEW s, s = us.used, us'.at = "send", us'.cur = us.cur,
         us'.clients = [us.clients EXCEPT ![us.cur] = s], us'.pump = [us.pump EXCEPT ![s] = "run"],
         us'.assoc = us.assoc, us'.inner = us.inner, us'.used = us.used, us'.owner = us.owner,
         us'.of = us.of
  PROVE  TableInv'
  <1>1. TableInv /\ us \in UdpState  BY DEF UdpInv, UdpTypeOK
  <1>2. us.pump \in [SessionIds -> {"none", "run", "closing", "gone"}]
        /\ us.clients \in [Client -> 0 .. MaxSession] /\ us.inner \in SUBSET SessionIds
        /\ us.used \in 0 .. MaxSession
    BY <1>1, UdpFields
  <1>3. /\ s \in SessionIds /\ us.cur \in Client /\ us.assoc # 0 /\ us.owner[s] = us.cur
        /\ us.of[s] = us.assoc /\ us.clients[us.cur] = 0 /\ us.pump[s] = "none"
    BY <1>1, <1>2, UdpAssumption DEF TableInv, LoopInv, SessionIds
  <1>4. /\ us'.pump[s] = "run" /\ \A r \in SessionIds : r # s => us'.pump[r] = us.pump[r]
        /\ us'.clients[us.cur] = s /\ \A c \in Client : c # us.cur => us'.clients[c] = us.clients[c]
    BY <1>2, <1>3
  <1>5. LoopInv'  BY <1>3 DEF LoopInv
  <1>6. PumpInv'
    <2> SUFFICES ASSUME NEW r \in SessionIds
                 PROVE  /\ r > us.used => us'.pump[r] = "none"
                        /\ us'.pump[r] \in {"run", "closing"} => us.owner[r] \in Client
      BY DEF PumpInv
    <2>1. r > us.used => r # s  BY <1>2, UdpAssumption DEF SessionIds
    <2> QED  BY <1>1, <1>3, <1>4, <2>1 DEF TableInv, PumpInv
  <1>7. ClientServed'
    <2> SUFFICES ASSUME NEW d \in Client, NEW r, r = us'.clients[d], r # 0
                 PROVE  us'.owner[r] = d /\ us'.of[r] = us'.assoc /\ us'.pump[r] \in {"run", "closing"}
      BY DEF ClientServed
    <2>1. CASE d = us.cur  BY <1>3, <1>4, <2>1
    <2>2. CASE d # us.cur
      <3>1. r = us.clients[d] /\ r \in SessionIds  BY <1>2, <1>4, <2>2, UdpAssumption DEF SessionIds
      <3>2. us.owner[r] = d /\ us.of[r] = us.assoc /\ us.pump[r] \in {"run", "closing"}
        BY <1>1, <3>1 DEF TableInv, ClientServed
      <3> QED  BY <1>3, <1>4, <3>1, <3>2
    <2> QED  BY <2>1, <2>2
  <1>8. InnerReclaimed'  BY <1>1, <1>2, <1>4 DEF TableInv, InnerReclaimed
  <1>9. SessionReachable'
    <2> SUFFICES ASSUME NEW r \in us.inner, us'.pump[r] = "run" PROVE us'.clients[us.owner[r]] = r
      BY DEF SessionReachable
    <2>1. CASE r = s  BY <1>3, <1>4, <2>1
    <2>2. CASE r # s
      <3>1. r \in SessionIds /\ us.pump[r] = "run"  BY <1>2, <1>4, <2>2
      <3>2. us.clients[us.owner[r]] = r /\ us.owner[r] \in Client
        BY <1>1, <3>1 DEF TableInv, SessionReachable, PumpInv
      <3>3. r # 0  BY <3>1, UdpAssumption DEF SessionIds
      <3> QED  BY <1>3, <1>4, <3>2, <3>3
    <2> QED  BY <2>1, <2>2
  <1> QED  BY <1>5, <1>6, <1>7, <1>8, <1>9 DEF TableInv

\* The session under way is refused.
LEMMA TablesRefused ==
  ASSUME UdpInv, us.at = "session", us'.at = "recv", us'.inner = us.inner \ {us.used},
         us'.assoc = us.assoc, us'.clients = us.clients, us'.used = us.used, us'.owner = us.owner,
         us'.of = us.of, us'.pump = us.pump
  PROVE  TableInv'
  BY DEF UdpInv, TableInv, LoopInv, PumpInv, ClientServed, InnerReclaimed, SessionReachable

-----------------------------------------------------------------------------
(* The steps of the serve loop.                                            *)

LEMMA ReceiveStep == ASSUME UdpInv, NEW c \in Client, UdpReceive(c) PROVE UdpInv'
  <1> DEFINE u == [LimitsApplied(us) EXCEPT !.cur = c, !.sent = @ + 1]
             n == us.used + 1
  <1>0. us \in UdpState /\ TimerInv  BY DEF UdpInv, UdpTypeOK
  <1>1. u = [us EXCEPT !.limits = us.rule, !.cur = c, !.sent = us.sent + 1]
    BY <1>0 DEF LimitsApplied, UdpState
  <1>2. us.sent + 1 \in 0 .. MaxDatagram
    BY <1>0, UdpFields, UdpAssumption DEF UdpReceive
  <1> HIDE DEF u
  <1>3. /\ u \in UdpState /\ u.cur = c /\ u.at = us.at /\ u.assoc = us.assoc
        /\ u.clients = us.clients /\ u.inner = us.inner /\ u.used = us.used /\ u.owner = us.owner
        /\ u.of = us.of /\ u.pump = us.pump /\ u.back = us.back /\ u.left = us.left
        /\ u.ended = us.ended /\ u.chan = us.chan
    BY <1>0, <1>1, <1>2, Zenon DEF UdpState
  <1>4. us.at = "recv" /\ CanGoOn(c)  BY DEF UdpReceive
  <1>5. CASE us.assoc # 0 /\ us' = Onward(u)
    <2>1. CASE us.clients[c] # 0
      <3>1. us' = [u EXCEPT !.at = "send"]  BY <1>3, <1>5, <2>1 DEF Onward
      <3>2. /\ us' \in UdpState /\ us'.at = "send" /\ us'.cur = c /\ us'.assoc = us.assoc
            /\ us'.clients = us.clients /\ us'.inner = us.inner /\ us'.used = us.used
            /\ us'.owner = us.owner /\ us'.of = us.of /\ us'.pump = us.pump /\ us'.back = us.back
            /\ us'.left = us.left /\ us'.ended = us.ended /\ us'.chan = us.chan
        BY <1>3, <3>1, Zenon DEF UdpState
      <3>3. TableInv'  BY <1>4, <2>1, <3>2, TablesSend
      <3>4. TimerInv'  BY <1>0, <3>2, TimersKept
      <3> QED  BY <3>2, <3>3, <3>4 DEF UdpInv, UdpTypeOK
    <2>2. CASE us.clients[c] = 0
      <3>0. us.used < MaxSession  BY <1>4, <2>2 DEF CanGoOn
      <3>1. us' = OpenBegins(u)  BY <1>3, <1>5, <2>2 DEF Onward
      <3>2. n \in SessionIds /\ n \in 0 .. MaxSession
        BY <1>0, <3>0, UdpFields, UdpAssumption DEF SessionIds
      <3>3. us' = [u EXCEPT !.at = "session", !.used = n, !.inner = us.inner \cup {n},
                            !.owner = [us.owner EXCEPT ![n] = c], !.of = [us.of EXCEPT ![n] = us.assoc]]
        BY <1>3, <3>1, Zenon DEF OpenBegins, NewId
      <3>4. /\ us.inner \cup {n} \in SUBSET SessionIds
            /\ [us.owner EXCEPT ![n] = c] \in [SessionIds -> Client \cup {0}]
            /\ [us.of EXCEPT ![n] = us.assoc] \in [SessionIds -> 0 .. MaxAssociation]
        BY <1>0, <3>2, UdpFields
      <3> HIDE DEF n
      <3>5. /\ us' \in UdpState /\ us'.at = "session" /\ us'.cur = c /\ us'.assoc = us.assoc
            /\ us'.clients = us.clients /\ us'.inner = us.inner \cup {n} /\ us'.used = n
            /\ us'.owner = [us.owner EXCEPT ![n] = c] /\ us'.of = [us.of EXCEPT ![n] = us.assoc]
            /\ us'.pump = us.pump /\ us'.back = us.back
            /\ us'.left = us.left /\ us'.ended = us.ended /\ us'.chan = us.chan
        BY <1>3, <3>2, <3>3, <3>4, Zenon DEF UdpState
      <3>6. TableInv'  BY <1>4, <1>5, <2>2, <3>0, <3>5, TablesEnter DEF n
      <3>7. TimerInv'  BY <1>0, <3>5, TimersKept
      <3> QED  BY <3>5, <3>6, <3>7 DEF UdpInv, UdpTypeOK
    <2> QED  BY <2>1, <2>2
  <1>6. CASE us.assoc = 0 /\ us' = [u EXCEPT !.at = "association"]
    <2>1. /\ us' \in UdpState /\ us'.at = "association" /\ us'.cur = c /\ us'.assoc = us.assoc
          /\ us'.clients = us.clients /\ us'.inner = us.inner /\ us'.used = us.used
          /\ us'.owner = us.owner /\ us'.of = us.of /\ us'.pump = us.pump /\ us'.back = us.back
          /\ us'.left = us.left /\ us'.ended = us.ended /\ us'.chan = us.chan
      <3>1. us' = [u EXCEPT !.at = "association"]  BY <1>6
      <3> QED  BY <1>3, <3>1, Zenon DEF UdpState
    <2>2. us.used < MaxSession  BY <1>4, <1>6 DEF CanGoOn, UdpInv, TableInv, LoopInv
    <2>3. TableInv'  BY <1>4, <1>6, <2>1, <2>2, TablesDone
    <2>4. TimerInv'  BY <1>0, <2>1, TimersKept
    <2> QED  BY <2>1, <2>3, <2>4 DEF UdpInv, UdpTypeOK
  <1> QED  BY <1>5, <1>6 DEF UdpReceive, u

LEMMA AssociationStep == ASSUME UdpInv, open_association PROVE UdpInv'
  <1> DEFINE a == us.tried + 1
             n == us.used + 1
             c == us.cur
             u == [us EXCEPT !.tried = a, !.assoc = a, !.carrier[a] = "up", !.outer = @ \cup {a}]
  <1>0. us \in UdpState /\ TimerInv  BY DEF UdpInv, UdpTypeOK
  <1>1. /\ us.at = "association" /\ us.tried < MaxAssociation /\ us' = Onward(u)
    BY DEF open_association
  <1>2. a \in 0 .. MaxAssociation /\ a \in 1 .. MaxAssociation /\ a # 0
    BY <1>0, <1>1, UdpFields, UdpAssumption
  <1>3. c \in Client /\ us.clients[c] = 0 /\ us.used < MaxSession /\ us.assoc = 0
    BY <1>1 DEF UdpInv, TableInv, LoopInv
  <1>4. n \in SessionIds /\ n \in 0 .. MaxSession
    BY <1>0, <1>3, UdpFields, UdpAssumption DEF SessionIds
  <1>5. /\ [us.carrier EXCEPT ![a] = "up"] \in [1 .. MaxAssociation -> {"none", "up", "lost", "closed"}]
        /\ us.outer \cup {a} \in SUBSET (1 .. MaxAssociation)
        /\ us.inner \cup {n} \in SUBSET SessionIds
        /\ [us.owner EXCEPT ![n] = c] \in [SessionIds -> Client \cup {0}]
        /\ [us.of EXCEPT ![n] = a] \in [SessionIds -> 0 .. MaxAssociation]
    BY <1>0, <1>2, <1>3, <1>4, UdpFields
  <1>6. u = [us EXCEPT !.tried = a, !.assoc = a, !.carrier = [us.carrier EXCEPT ![a] = "up"],
                       !.outer = us.outer \cup {a}]
    OBVIOUS
  <1> HIDE DEF a, u
  <1>7. /\ u \in UdpState /\ u.cur = c /\ u.at = us.at /\ u.assoc = a
        /\ u.clients = us.clients /\ u.inner = us.inner /\ u.used = us.used /\ u.owner = us.owner
        /\ u.of = us.of /\ u.pump = us.pump /\ u.back = us.back /\ u.left = us.left
        /\ u.ended = us.ended /\ u.chan = us.chan
    BY <1>0, <1>2, <1>5, <1>6, Zenon DEF UdpState
  <1>8. us' = [u EXCEPT !.at = "session", !.used = n, !.inner = us.inner \cup {n},
                        !.owner = [us.owner EXCEPT ![n] = c], !.of = [us.of EXCEPT ![n] = a]]
    BY <1>1, <1>3, <1>7, Zenon DEF Onward, OpenBegins, NewId
  <1> HIDE DEF n, c
  <1>9. /\ us' \in UdpState /\ us'.at = "session" /\ us'.cur = c /\ us'.assoc = a
        /\ us'.clients = us.clients /\ us'.inner = us.inner \cup {n} /\ us'.used = n
        /\ us'.owner = [us.owner EXCEPT ![n] = c] /\ us'.of = [us.of EXCEPT ![n] = a]
        /\ us'.pump = us.pump /\ us'.back = us.back
        /\ us'.left = us.left /\ us'.ended = us.ended /\ us'.chan = us.chan
    BY <1>4, <1>5, <1>7, <1>8, Zenon DEF UdpState
  <1>10. TableInv'  BY <1>1, <1>2, <1>3, <1>9, TablesEnter DEF n
  <1>11. TimerInv'  BY <1>0, <1>9, TimersKept
  <1> QED  BY <1>9, <1>10, <1>11 DEF UdpInv, UdpTypeOK

LEMMA AssociationFailsStep == ASSUME UdpInv, AssociationFails PROVE UdpInv'
  <1> DEFINE a == us.tried + 1
  <1>0. us \in UdpState /\ TimerInv  BY DEF UdpInv, UdpTypeOK
  <1>1. us' = [us EXCEPT !.tried = a, !.carrier = [us.carrier EXCEPT ![a] = "closed"],
                         !.outer = us.outer \cup {a}, !.at = "recv", !.cur = 0]
    BY DEF AssociationFails
  <1>2. a \in 0 .. MaxAssociation /\ a \in 1 .. MaxAssociation
    BY <1>0, UdpFields, UdpAssumption DEF AssociationFails
  <1>3. /\ [us.carrier EXCEPT ![a] = "closed"] \in [1 .. MaxAssociation -> {"none", "up", "lost", "closed"}]
        /\ us.outer \cup {a} \in SUBSET (1 .. MaxAssociation)
    BY <1>0, <1>2, UdpFields
  <1> HIDE DEF a
  <1>4. /\ us' \in UdpState /\ us'.at = "recv" /\ us'.assoc = us.assoc
        /\ us'.clients = us.clients /\ us'.inner = us.inner /\ us'.used = us.used
        /\ us'.owner = us.owner /\ us'.of = us.of /\ us'.pump = us.pump /\ us'.back = us.back
        /\ us'.left = us.left /\ us'.ended = us.ended /\ us'.chan = us.chan
    BY <1>0, <1>1, <1>2, <1>3, Zenon DEF UdpState
  <1>5. TableInv'  BY <1>4, TablesDone DEF AssociationFails
  <1>6. TimerInv'  BY <1>0, <1>4, TimersKept
  <1> QED  BY <1>4, <1>5, <1>6 DEF UdpInv, UdpTypeOK

LEMMA CloseTyped ==
  ASSUME NEW u \in UdpState
  PROVE  /\ close_association(u) \in UdpState
         /\ \A c \in Client : close_association(u).clients[c] = 0
         /\ close_association(u).at = "recv" /\ close_association(u).assoc = 0
         /\ close_association(u).inner = {}
         /\ close_association(u).used = u.used /\ close_association(u).owner = u.owner
         /\ close_association(u).of = u.of /\ close_association(u).pump = u.pump
         /\ close_association(u).back = u.back /\ close_association(u).left = u.left
         /\ close_association(u).ended = u.ended /\ close_association(u).chan = u.chan
  <1> DEFINE car == [u.carrier EXCEPT ![u.assoc] = "closed"]
             out == u.outer \ {u.assoc}
             none == [c \in Client |-> 0]
             v == [u EXCEPT !.at = "recv", !.cur = 0, !.assoc = 0, !.carrier = car, !.outer = out,
                            !.inner = {}, !.clients = none]
  <1>1. close_association(u) = v  BY DEF close_association
  <1>2. /\ car \in [1 .. MaxAssociation -> {"none", "up", "lost", "closed"}]
        /\ out \in SUBSET (1 .. MaxAssociation)
        /\ none \in [Client -> 0 .. MaxSession] /\ 0 \in 0 .. MaxAssociation
    <2>1. u.carrier \in [1 .. MaxAssociation -> {"none", "up", "lost", "closed"}]
          /\ u.outer \in SUBSET (1 .. MaxAssociation)
      BY UdpFields
    <2>2. 0 \in 0 .. MaxSession /\ 0 \in 0 .. MaxAssociation  BY UdpNats
    <2>3. car \in [1 .. MaxAssociation -> {"none", "up", "lost", "closed"}]  BY <2>1, Zenon
    <2> QED  BY <2>1, <2>2, <2>3
  <1>3. \A c \in Client : none[c] = 0  OBVIOUS
  <1> HIDE DEF car, out, none
  <1>4. v \in UdpState  BY <1>2, Zenon DEF UdpState
  <1>5. /\ v.at = "recv" /\ v.assoc = 0 /\ v.inner = {} /\ v.clients = none
        /\ v.used = u.used /\ v.owner = u.owner /\ v.of = u.of /\ v.pump = u.pump
        /\ v.back = u.back /\ v.left = u.left /\ v.ended = u.ended /\ v.chan = u.chan
    BY DEF UdpState
  <1> HIDE DEF v
  <1> QED  BY <1>1, <1>3, <1>4, <1>5

\* close_association, after a step that touches one session that is not served
\* or one timer that plays no part.
LEMMA CloseStep ==
  ASSUME UdpInv, us.assoc # 0, NEW u \in UdpState, us' = close_association(u),
         u.assoc = us.assoc, u.used = us.used, u.owner = us.owner, u.of = us.of, u.pump = us.pump,
         u.left = us.left, u.ended = us.ended, u.chan = us.chan,
         \A r \in SessionIds : us.pump[r] = "run" => u.back[r] = us.back[r]
  PROVE  UdpInv'
  <1>1. /\ us' \in UdpState /\ us'.at = "recv" /\ us'.assoc = 0 /\ us'.inner = {}
        /\ us'.used = us.used /\ us'.owner = us.owner /\ us'.of = us.of
        /\ us'.pump = us.pump /\ us'.back = u.back /\ us'.left = us.left /\ us'.ended = us.ended
        /\ us'.chan = us.chan
    BY CloseTyped
  <1>2. \A c \in Client : us'.clients[c] = 0  BY CloseTyped
  <1>3. TableInv'  BY <1>1, <1>2, TablesCleared
  <1>4. TimerInv'  BY <1>1, TimersKept DEF UdpInv
  <1> QED  BY <1>1, <1>3, <1>4 DEF UdpInv, UdpTypeOK

LEMMA OpensStep == ASSUME UdpInv, SessionOpens PROVE UdpInv'
  <1> DEFINE s == us.used
             cl == [us.clients EXCEPT ![us.cur] = s]
             pu == [us.pump EXCEPT ![s] = "run"]
             id == [us.idle EXCEPT ![s] = 0]
             le == [us.left EXCEPT ![s] = IdleTicks]
             ba == [us.back EXCEPT ![s] = "run"]
             bi == [us.bidle EXCEPT ![s] = 0]
             bl == [us.bleft EXCEPT ![s] = IdleTicks]
  <1>0. us \in UdpState /\ TimerInv  BY DEF UdpInv, UdpTypeOK
  <1>1. us' = [us EXCEPT !.at = "send", !.clients = cl, !.pump = pu, !.idle = id, !.left = le,
                         !.back = ba, !.bidle = bi, !.bleft = bl]
    BY DEF SessionOpens
  <1>2. us.at = "session" /\ s # 0  BY DEF SessionOpens, UdpInv, TableInv, LoopInv
  <1>3. s \in SessionIds /\ s \in 0 .. MaxSession
    BY <1>0, <1>2, UdpFields, UdpAssumption DEF SessionIds
  <1>4. 0 \in Clock /\ IdleTicks \in Clock  BY UdpAssumption DEF Clock
  <1>5. /\ cl \in [Client -> 0 .. MaxSession]
        /\ pu \in [SessionIds -> {"none", "run", "closing", "gone"}]
        /\ id \in [SessionIds -> Clock] /\ le \in [SessionIds -> Clock]
        /\ ba \in [SessionIds -> {"none", "run", "gone"}]
        /\ bi \in [SessionIds -> Clock] /\ bl \in [SessionIds -> Clock]
    BY <1>0, <1>3, <1>4, UdpFields, Zenon
  <1>6. /\ ba[s] = "run"
        /\ \A r \in SessionIds : r # s => pu[r] = us.pump[r] /\ ba[r] = us.back[r] /\ le[r] = us.left[r]
    BY <1>0, <1>3, UdpFields
  <1> HIDE DEF id, le, ba, bi, bl, cl, pu
  <1>7. /\ us' \in UdpState /\ us'.at = "send" /\ us'.cur = us.cur /\ us'.clients = cl /\ us'.pump = pu
        /\ us'.assoc = us.assoc /\ us'.inner = us.inner /\ us'.used = us.used /\ us'.owner = us.owner
        /\ us'.of = us.of /\ us'.left = le /\ us'.back = ba /\ us'.ended = us.ended
        /\ us'.chan = us.chan
    BY <1>0, <1>1, <1>5, Zenon DEF UdpState
  <1>8. TableInv'  BY <1>2, <1>7, TablesOpened DEF cl, pu
  <1>9. TimerInv'
    <2> SUFFICES ASSUME NEW r \in SessionIds, us'.pump[r] = "run", us'.back[r] = "gone"
                 PROVE  /\ us.pump[r] = "run" /\ us.back[r] = "gone" /\ us'.left[r] = us.left[r]
                        /\ us'.ended[r] = us.ended[r] /\ us'.chan[r] = us.chan[r]
      BY <1>0, TimersKept
    <2> QED  BY <1>6, <1>7
  <1> QED  BY <1>7, <1>8, <1>9 DEF UdpInv, UdpTypeOK

LEMMA RejectedStep == ASSUME UdpInv, SessionRejected PROVE UdpInv'
  <1>0. us \in UdpState /\ TimerInv  BY DEF UdpInv, UdpTypeOK
  <1>1. us' = [us EXCEPT !.at = "recv", !.cur = 0, !.inner = us.inner \ {us.used}] /\ us.at = "session"
    BY DEF SessionRejected
  <1>2. us.inner \ {us.used} \in SUBSET SessionIds  BY <1>0, UdpFields
  <1>3. /\ us' \in UdpState /\ us'.at = "recv" /\ us'.inner = us.inner \ {us.used}
        /\ us'.assoc = us.assoc /\ us'.clients = us.clients /\ us'.used = us.used
        /\ us'.owner = us.owner /\ us'.of = us.of /\ us'.pump = us.pump /\ us'.back = us.back
        /\ us'.left = us.left /\ us'.ended = us.ended /\ us'.chan = us.chan
    BY <1>0, <1>1, <1>2, Zenon DEF UdpState
  <1>4. TableInv'  BY <1>1, <1>3, TablesRefused
  <1>5. TimerInv'  BY <1>0, <1>3, TimersKept
  <1> QED  BY <1>3, <1>4, <1>5 DEF UdpInv, UdpTypeOK

LEMMA OpenFailsStep == ASSUME UdpInv, SessionOpenFails PROVE UdpInv'
  <1>0. us \in UdpState  BY DEF UdpInv, UdpTypeOK
  <1>1. us.assoc # 0 /\ us.used # 0 /\ us.pump[us.used] = "none"
    BY DEF SessionOpenFails, UdpInv, TableInv, LoopInv
  <1>2. us.used \in SessionIds  BY <1>0, <1>1, UdpFields, UdpAssumption DEF SessionIds
  <1>3. PICK b \in {"none", "run"} :
          us' = close_association([us EXCEPT !.back[us.used] = b,
                                             !.bleft[us.used] = IF b = "run" THEN IdleTicks ELSE 0])
    BY Zenon DEF SessionOpenFails
  <1> DEFINE w == IF b = "run" THEN IdleTicks ELSE 0
             ba == [us.back EXCEPT ![us.used] = b]
             bl == [us.bleft EXCEPT ![us.used] = w]
             u == [us EXCEPT !.back = ba, !.bleft = bl]
  <1>4. us' = close_association(u)  BY <1>3
  <1>5. w \in Clock  BY UdpAssumption DEF Clock
  <1> HIDE DEF w
  <1>6. ba \in [SessionIds -> {"none", "run", "gone"}] /\ bl \in [SessionIds -> Clock]
    BY <1>0, <1>2, <1>5, UdpFields
  <1>7. \A r \in SessionIds : us.pump[r] = "run" => ba[r] = us.back[r]
    BY <1>0, <1>1, <1>2, UdpFields
  <1> HIDE DEF ba, bl
  <1>8. /\ u \in UdpState /\ u.assoc = us.assoc /\ u.used = us.used /\ u.owner = us.owner
        /\ u.of = us.of /\ u.pump = us.pump /\ u.left = us.left /\ u.ended = us.ended
        /\ u.chan = us.chan /\ u.back = ba
    BY <1>0, <1>6, Zenon DEF UdpState
  <1> HIDE DEF u
  <1> QED  BY <1>1, <1>4, <1>7, <1>8, CloseStep

LEMMA SendStep == ASSUME UdpInv, send_datagram PROVE UdpInv'
  <1> DEFINE s == us.clients[us.cur]
             touched == [us EXCEPT !.idle[s] = 0]
  <1>0. us \in UdpState /\ TimerInv  BY DEF UdpInv, UdpTypeOK
  <1>1. us.at = "send" /\ us.cur \in Client /\ us.assoc # 0
    BY DEF send_datagram, UdpInv, TableInv, LoopInv
  <1>2. s \in 0 .. MaxSession  BY <1>0, <1>1, UdpFields
  <1>3. CASE s = 0 /\ us' = [us EXCEPT !.at = "recv", !.cur = 0]
    <2>1. us' = [us EXCEPT !.at = "recv", !.cur = 0]  BY <1>3
    <2>2. /\ us' \in UdpState /\ us'.at = "recv" /\ us'.assoc = us.assoc
          /\ us'.clients = us.clients /\ us'.inner = us.inner /\ us'.used = us.used
          /\ us'.owner = us.owner /\ us'.of = us.of /\ us'.pump = us.pump /\ us'.back = us.back
          /\ us'.left = us.left /\ us'.ended = us.ended /\ us'.chan = us.chan
      BY <1>0, <2>1, Zenon DEF UdpState
    <2>3. TableInv'  BY <1>1, <2>2, TablesDone
    <2>4. TimerInv'  BY <1>0, <2>2, TimersKept
    <2> QED  BY <2>2, <2>3, <2>4 DEF UdpInv, UdpTypeOK
  <1>4. ASSUME s # 0
        PROVE  /\ s \in SessionIds /\ [us.idle EXCEPT ![s] = 0] \in [SessionIds -> Clock]
               /\ touched = [us EXCEPT !.idle = [us.idle EXCEPT ![s] = 0]]
    <2>1. s \in SessionIds  BY <1>2, <1>4, UdpAssumption DEF SessionIds
    <2>2. 0 \in Clock  BY UdpAssumption DEF Clock
    <2> QED  BY <1>0, <2>1, <2>2, UdpFields
  <1>5. ASSUME s # 0, NEW b \in {us.bidle[s], IF us.back[s] = "run" THEN 0 ELSE us.bidle[s]},
               us' = [touched EXCEPT !.bidle[s] = b, !.at = "recv", !.cur = 0]
        PROVE  UdpInv'
    <2> DEFINE id == [us.idle EXCEPT ![s] = 0]
               bi == [us.bidle EXCEPT ![s] = b]
    <2>1. us' = [us EXCEPT !.idle = id, !.bidle = bi, !.at = "recv", !.cur = 0]
      BY <1>0, <1>4, <1>5 DEF UdpState
    <2>2. id \in [SessionIds -> Clock] /\ bi \in [SessionIds -> Clock]
      <3>1. b \in Clock  BY <1>0, <1>4, <1>5, UdpFields, UdpAssumption DEF Clock
      <3> QED  BY <1>0, <1>4, <1>5, <3>1, UdpFields
    <2> HIDE DEF id, bi, s, touched
    <2>3. /\ us' \in UdpState /\ us'.at = "recv" /\ us'.assoc = us.assoc
          /\ us'.clients = us.clients /\ us'.inner = us.inner /\ us'.used = us.used
          /\ us'.owner = us.owner /\ us'.of = us.of /\ us'.pump = us.pump /\ us'.back = us.back
          /\ us'.left = us.left /\ us'.ended = us.ended /\ us'.chan = us.chan
      BY <1>0, <2>1, <2>2, Zenon DEF UdpState
    <2>4. TableInv'  BY <1>1, <2>3, TablesDone
    <2>5. TimerInv'  BY <1>0, <2>3, TimersKept
    <2> QED  BY <2>3, <2>4, <2>5 DEF UdpInv, UdpTypeOK
  <1>6. ASSUME s # 0, us' = close_association(touched) PROVE UdpInv'
    <2> DEFINE id == [us.idle EXCEPT ![s] = 0]
    <2>1. id \in [SessionIds -> Clock] /\ touched = [us EXCEPT !.idle = id]  BY <1>4, <1>6
    <2> HIDE DEF id, touched, s
    <2>2. /\ touched \in UdpState /\ touched.assoc = us.assoc /\ touched.used = us.used
          /\ touched.owner = us.owner /\ touched.of = us.of /\ touched.pump = us.pump
          /\ touched.left = us.left /\ touched.ended = us.ended /\ touched.chan = us.chan
          /\ touched.back = us.back
      BY <1>0, <2>1, Zenon DEF UdpState
    <2> QED  BY <1>1, <1>6, <2>2, CloseStep
  <1> QED  BY <1>3, <1>5, <1>6 DEF send_datagram

-----------------------------------------------------------------------------
(* The steps of the pumps, of the backends and of time.                    *)

\* A pump leaves its loop.
LEMMA EndingStep ==
  ASSUME UdpInv, NEW s \in SessionIds, us.pump[s] = "run",
         NEW ch \in [SessionIds -> 0 .. ChannelCap], \A r \in SessionIds : r # s => ch[r] = us.chan[r],
         NEW pu, pu = [us.pump EXCEPT ![s] = "closing"], us' = [us EXCEPT !.pump = pu, !.chan = ch]
  PROVE  UdpInv'
  <1>0. us \in UdpState /\ TimerInv  BY DEF UdpInv, UdpTypeOK
  <1>2. /\ pu \in [SessionIds -> {"none", "run", "closing", "gone"}]
        /\ pu[s] = "closing" /\ \A r \in SessionIds : r # s => pu[r] = us.pump[r]
    BY <1>0, UdpFields
  <1>3. /\ us' \in UdpState /\ us'.pump = pu /\ us'.at = us.at /\ us'.cur = us.cur
        /\ us'.assoc = us.assoc /\ us'.clients = us.clients /\ us'.inner = us.inner
        /\ us'.used = us.used /\ us'.owner = us.owner /\ us'.of = us.of /\ us'.back = us.back
        /\ us'.left = us.left /\ us'.ended = us.ended /\ us'.chan = ch
    BY <1>0, <1>2, Zenon DEF UdpState
  <1>4. TableInv'  BY <1>3, TablesEnding
  <1>5. TimerInv'
    <2> SUFFICES ASSUME NEW r \in SessionIds, us'.pump[r] = "run", us'.back[r] = "gone"
                 PROVE  /\ us.pump[r] = "run" /\ us.back[r] = "gone" /\ us'.left[r] = us.left[r]
                        /\ us'.ended[r] = us.ended[r] /\ us'.chan[r] = us.chan[r]
      BY <1>0, TimersKept
    <2> QED  BY <1>2, <1>3
  <1> QED  BY <1>3, <1>4, <1>5 DEF UdpInv, UdpTypeOK

LEMMA EndStep ==
  ASSUME UdpInv, NEW s \in SessionIds, PumpFails(s) \/ PumpCut(s) \/ PumpIdle(s) PROVE UdpInv'
  <1>0. us \in UdpState  BY DEF UdpInv, UdpTypeOK
  <1>1. 0 \in 0 .. ChannelCap  BY UdpAssumption
  <1>2. us.chan \in [SessionIds -> 0 .. ChannelCap]  BY <1>0, UdpFields
  <1>3. CASE PumpFails(s) \/ PumpIdle(s)
    <2> DEFINE ch == [us.chan EXCEPT ![s] = 0]
    <2>1. ch \in [SessionIds -> 0 .. ChannelCap] /\ \A r \in SessionIds : r # s => ch[r] = us.chan[r]
      BY <1>1, <1>2
    <2>2. us.pump[s] = "run" /\ us' = [us EXCEPT !.pump = [us.pump EXCEPT ![s] = "closing"], !.chan = ch]
      BY <1>3 DEF PumpFails, PumpIdle
    <2> HIDE DEF ch
    <2> QED  BY <2>1, <2>2, EndingStep, Zenon
  <1>4. CASE PumpCut(s)
    <2>1. us.pump[s] = "run" /\ us' = [us EXCEPT !.pump = [us.pump EXCEPT ![s] = "closing"]]
      BY <1>4 DEF PumpCut
    <2>2. us' = [us EXCEPT !.pump = [us.pump EXCEPT ![s] = "closing"], !.chan = us.chan]
      BY <1>0, <2>1, Zenon DEF UdpState
    <2> QED  BY <1>2, <2>1, <2>2, EndingStep, Zenon
  <1> QED  BY <1>3, <1>4

LEMMA ClosesStep == ASSUME UdpInv, NEW s \in SessionIds, PumpCloses(s) PROVE UdpInv'
  <1> DEFINE pu == [us.pump EXCEPT ![s] = "gone"]
             inn == us.inner \ {s}
             id == [us.idle EXCEPT ![s] = 0]
             le == [us.left EXCEPT ![s] = 0]
             o == us.owner[s]
             cl == IF us.clients[o] = s THEN [us.clients EXCEPT ![o] = 0] ELSE us.clients
             u == [us EXCEPT !.pump = pu, !.inner = inn, !.idle = id, !.left = le]
  <1>0. us \in UdpState /\ TableInv /\ TimerInv  BY DEF UdpInv, UdpTypeOK
  <1>1. us.pump[s] = "closing" /\ us' = remove_client(u, s)  BY DEF PumpCloses
  <1>2. 0 \in Clock /\ 0 \in 0 .. MaxSession /\ s # 0  BY UdpAssumption DEF Clock, SessionIds
  <1>3. /\ pu \in [SessionIds -> {"none", "run", "closing", "gone"}]
        /\ inn \in SUBSET SessionIds
        /\ id \in [SessionIds -> Clock] /\ le \in [SessionIds -> Clock]
        /\ us.clients \in [Client -> 0 .. MaxSession]
    BY <1>0, <1>2, UdpFields
  <1>4. o \in Client  BY <1>0, <1>1 DEF TableInv, PumpInv
  <1>5. cl \in [Client -> 0 .. MaxSession]  BY <1>2, <1>3, <1>4
  <1>6. \A c \in Client : cl[c] = IF us.clients[c] = s THEN 0 ELSE us.clients[c]
    <2> SUFFICES ASSUME NEW c \in Client PROVE cl[c] = IF us.clients[c] = s THEN 0 ELSE us.clients[c]
      OBVIOUS
    <2>1. us.clients[c] = s => c = o  BY <1>0, <1>2 DEF TableInv, ClientServed
    <2> QED  BY <1>3, <1>4, <2>1
  <1>7. pu[s] = "gone" /\ \A r \in SessionIds : r # s => pu[r] = us.pump[r] /\ le[r] = us.left[r]
    BY <1>0, UdpFields
  <1> HIDE DEF pu, inn, id, le
  <1>8. u \in UdpState /\ u.owner = us.owner /\ u.clients = us.clients
    BY <1>0, <1>3, Zenon DEF UdpState
  <1>9. us' = [us EXCEPT !.pump = pu, !.inner = inn, !.idle = id, !.left = le, !.clients = cl]
    <2>1. CASE us.clients[o] = s  BY <1>0, <1>1, <1>8, <2>1 DEF remove_client, UdpState
    <2>2. CASE us.clients[o] # s
      <3>1. us' = u /\ cl = us.clients  BY <1>1, <1>8, <2>2 DEF remove_client
      <3> QED  BY <1>0, <3>1, Zenon DEF UdpState
    <2> QED  BY <2>1, <2>2
  <1> HIDE DEF cl, u
  <1>10. /\ us' \in UdpState /\ us'.pump = pu /\ us'.inner = inn /\ us'.clients = cl
         /\ us'.at = us.at /\ us'.cur = us.cur /\ us'.assoc = us.assoc /\ us'.used = us.used
         /\ us'.owner = us.owner /\ us'.of = us.of /\ us'.back = us.back /\ us'.left = le
         /\ us'.ended = us.ended /\ us'.chan = us.chan
    BY <1>0, <1>3, <1>5, <1>9, Zenon DEF UdpState
  <1>11. TableInv'  BY <1>1, <1>6, <1>10, TablesLeave DEF pu, inn
  <1>12. TimerInv'
    <2> SUFFICES ASSUME NEW r \in SessionIds, us'.pump[r] = "run", us'.back[r] = "gone"
                 PROVE  /\ us.pump[r] = "run" /\ us.back[r] = "gone" /\ us'.left[r] = us.left[r]
                        /\ us'.ended[r] = us.ended[r] /\ us'.chan[r] = us.chan[r]
      BY <1>0, TimersKept
    <2> QED  BY <1>7, <1>10
  <1> QED  BY <1>10, <1>11, <1>12 DEF UdpInv, UdpTypeOK

\* A pump takes a reply: its channel was not empty, so time stood still since
\* the backend went.
LEMMA ReplyStep ==
  ASSUME UdpInv, NEW s \in SessionIds, PumpForwards(s) \/ PumpDrops(s) PROVE UdpInv'
  <1> DEFINE i == IF PumpForwards(s) THEN 0 ELSE us.idle[s]
             ch == [us.chan EXCEPT ![s] = us.chan[s] - 1]
             id == [us.idle EXCEPT ![s] = i]
             le == [us.left EXCEPT ![s] = IdleTicks - i]
  <1>0. us \in UdpState /\ TimerInv  BY DEF UdpInv, UdpTypeOK
  <1>1. us.pump[s] = "run" /\ us.chan[s] > 0  BY DEF PumpForwards, PumpDrops
  <1>2. us.chan[s] \in 0 .. ChannelCap /\ us.idle[s] \in 0 .. IdleTicks
    BY <1>0, UdpFields DEF Clock
  <1>3. i \in Clock /\ IdleTicks - i \in Clock /\ us.chan[s] - 1 \in 0 .. ChannelCap
    <2>1. i \in {0, us.idle[s]}  OBVIOUS
    <2> HIDE DEF i
    <2>2. IdleTicks \in Nat /\ ChannelCap \in Nat  BY UdpNats
    <2>3. i \in 0 .. IdleTicks  BY <1>2, <2>1, <2>2
    <2>4. IdleTicks - i \in 0 .. IdleTicks  BY <2>2, <2>3
    <2>5. us.chan[s] - 1 \in 0 .. ChannelCap  BY <1>1, <1>2, <2>2
    <2> QED  BY <2>3, <2>4, <2>5 DEF Clock
  <1>4. us' = [us EXCEPT !.chan = ch, !.idle = id, !.left = le]
    <2>1. CASE PumpForwards(s)
      <3>1. i = 0 /\ IdleTicks - i = IdleTicks  BY <2>1, UdpAssumption
      <3> QED  BY <2>1, <3>1, Zenon DEF PumpForwards
    <2>2. CASE ~PumpForwards(s)
      <3>1. i = us.idle[s] /\ id = us.idle  BY <1>0, <2>2, UdpFields, Zenon
      <3>2. us' = [us EXCEPT !.chan = ch, !.left = le]  BY <2>2, <3>1 DEF PumpDrops
      <3> QED  BY <1>0, <3>1, <3>2, Zenon DEF UdpState
    <2> QED  BY <2>1, <2>2
  <1>5. /\ ch \in [SessionIds -> 0 .. ChannelCap] /\ id \in [SessionIds -> Clock]
        /\ le \in [SessionIds -> Clock]
    BY <1>0, <1>3, UdpFields
  <1>6. /\ \A r \in SessionIds : r # s => ch[r] = us.chan[r] /\ le[r] = us.left[r]
        /\ le[s] \in Clock
    BY <1>0, <1>5, UdpFields
  <1> HIDE DEF ch, id, le, i
  <1>7. /\ us' \in UdpState /\ Tables' = Tables /\ us'.back = us.back /\ us'.left = le
        /\ us'.ended = us.ended /\ us'.chan = ch
    BY <1>0, <1>4, <1>5, Zenon DEF UdpState, Tables
  <1>8. us'.back[s] = "gone" =>
          us'.left[s] + us'.ended[s] <= IdleTicks /\ (us'.chan[s] > 0 => us'.ended[s] = 0)
    <2> SUFFICES ASSUME us.back[s] = "gone"
                 PROVE  le[s] + us.ended[s] <= IdleTicks /\ us.ended[s] = 0
      BY <1>7
    <2>1. us.ended[s] = 0  BY <1>0, <1>1 DEF TimerInv
    <2> QED  BY <1>6, <2>1, UdpAssumption DEF Clock
  <1> QED  BY <1>6, <1>7, <1>8, TimersOf

\* A backend answers, while it runs.
LEMMA AnswerStep == ASSUME UdpInv, NEW s \in SessionIds, BackendReplies(s) PROVE UdpInv'
  <1> DEFINE bi == [us.bidle EXCEPT ![s] = 0]
             n == us.replies + 1
             u == [us EXCEPT !.bidle = bi, !.replies = n]
  <1>0. us \in UdpState  BY DEF UdpInv, UdpTypeOK
  <1>1. us.back[s] = "run" /\ us.replies < MaxReply  BY DEF BackendReplies
  <1>2. n \in 0 .. MaxReply /\ 0 \in Clock  BY <1>0, <1>1, UdpFields, UdpAssumption DEF Clock
  <1>3. bi \in [SessionIds -> Clock]  BY <1>0, <1>2, UdpFields
  <1>4. PICK ch \in [SessionIds -> 0 .. ChannelCap] :
          /\ us' = [us EXCEPT !.bidle = bi, !.replies = n, !.chan = ch]
          /\ \A r \in SessionIds : r # s => ch[r] = us.chan[r]
    <2>0. us.chan \in [SessionIds -> 0 .. ChannelCap]  BY <1>0, UdpFields
    <2>1. CASE us' = u
      <3> HIDE DEF bi, n
      <3>1. us' = [us EXCEPT !.bidle = bi, !.replies = n, !.chan = us.chan]  BY <1>0, <2>1, Zenon DEF UdpState
      <3> QED  BY <2>0, <3>1, Zenon
    <2>2. CASE us.chan[s] < ChannelCap /\ us' = [u EXCEPT !.chan[s] = @ + 1]
      <3> DEFINE d == [us.chan EXCEPT ![s] = us.chan[s] + 1]
      <3>1. us.chan[s] + 1 \in 0 .. ChannelCap  BY <2>0, <2>2, UdpAssumption
      <3>2. d \in [SessionIds -> 0 .. ChannelCap] /\ \A r \in SessionIds : r # s => d[r] = us.chan[r]
        BY <2>0, <3>1
      <3> HIDE DEF bi, n
      <3>3. us' = [us EXCEPT !.bidle = bi, !.replies = n, !.chan = d]  BY <1>0, <2>2 DEF UdpState
      <3> QED  BY <3>2, <3>3, Zenon
    <2> QED  BY <2>1, <2>2, Zenon DEF BackendReplies
  <1> HIDE DEF bi, n
  <1>5. /\ us' \in UdpState /\ Tables' = Tables /\ us'.back = us.back /\ us'.left = us.left
        /\ us'.ended = us.ended /\ us'.chan = ch
    BY <1>0, <1>2, <1>3, <1>4, Zenon DEF UdpState, Tables
  <1> QED  BY <1>1, <1>4, <1>5, TimersOf

\* A backend ends: nothing was quiet yet.
LEMMA GoneTyped ==
  ASSUME NEW u \in UdpState, NEW s \in SessionIds, NEW v, v = BackendGone(u, s)
  PROVE  /\ v \in UdpState
         /\ \A r \in SessionIds : r # s => v.back[r] = u.back[r] /\ v.ended[r] = u.ended[r]
         /\ v.ended[s] = 0 /\ v.left = u.left /\ v.chan = u.chan
         /\ v.at = u.at /\ v.cur = u.cur /\ v.assoc = u.assoc /\ v.clients = u.clients
         /\ v.inner = u.inner /\ v.used = u.used /\ v.owner = u.owner /\ v.of = u.of
         /\ v.pump = u.pump
  <1> DEFINE ba == [u.back EXCEPT ![s] = "gone"]
             bi == [u.bidle EXCEPT ![s] = 0]
             bl == [u.bleft EXCEPT ![s] = 0]
             en == [u.ended EXCEPT ![s] = 0]
             w == [u EXCEPT !.back = ba, !.bidle = bi, !.bleft = bl, !.ended = en]
  <1>1. v = w  BY DEF BackendGone
  <1>2. 0 \in Clock /\ 0 \in 0 .. (IdleTicks + 1)  BY UdpNats DEF Clock
  <1>3. /\ ba \in [SessionIds -> {"none", "run", "gone"}] /\ bi \in [SessionIds -> Clock]
        /\ bl \in [SessionIds -> Clock] /\ en \in [SessionIds -> 0 .. (IdleTicks + 1)]
    BY <1>2, UdpFields
  <1>4. /\ \A r \in SessionIds : r # s => ba[r] = u.back[r] /\ en[r] = u.ended[r]
        /\ en[s] = 0
    BY UdpFields
  <1> HIDE DEF ba, bi, bl, en
  <1>5. w \in UdpState  BY <1>3, Zenon DEF UdpState
  <1>6. /\ w.back = ba /\ w.ended = en /\ w.left = u.left /\ w.chan = u.chan
        /\ w.at = u.at /\ w.cur = u.cur /\ w.assoc = u.assoc /\ w.clients = u.clients
        /\ w.inner = u.inner /\ w.used = u.used /\ w.owner = u.owner /\ w.of = u.of
        /\ w.pump = u.pump
    BY DEF UdpState
  <1> HIDE DEF w
  <1> QED  BY <1>1, <1>4, <1>5, <1>6

LEMMA GoneStep ==
  ASSUME UdpInv, NEW s \in SessionIds, us' = BackendGone(us, s) PROVE UdpInv'
  <1>0. us \in UdpState  BY DEF UdpInv, UdpTypeOK
  <1>1. us.left[s] \in Clock  BY <1>0, UdpFields
  <1>2. /\ us' \in UdpState /\ us'.left = us.left /\ us'.chan = us.chan /\ us'.ended[s] = 0
        /\ \A r \in SessionIds : r # s => us'.back[r] = us.back[r] /\ us'.ended[r] = us.ended[r]
    BY <1>0, GoneTyped
  <1>3. Tables' = Tables  BY <1>0, GoneTyped DEF Tables
  <1>4. us.left[s] + 0 <= IdleTicks  BY <1>1, UdpNats DEF Clock
  <1> QED  BY <1>2, <1>3, <1>4, TimersOf

\* A tick: it waits for every reply in a channel and every timer that is due.
LEMMA TickStep == ASSUME UdpInv, UdpTick PROVE UdpInv'
  <1> DEFINE id == [s \in SessionIds |-> IF us.pump[s] = "run" THEN Later(us.idle[s], IdleTicks) ELSE 0]
             le == [s \in SessionIds |-> Sooner(us.left[s])]
             bi == [s \in SessionIds |-> IF us.back[s] = "run" THEN Later(us.bidle[s], IdleTicks) ELSE 0]
             bl == [s \in SessionIds |-> Sooner(us.bleft[s])]
             en == [s \in SessionIds |-> IF us.back[s] = "gone" THEN Later(us.ended[s], IdleTicks + 1) ELSE 0]
  <1>0. us \in UdpState /\ TableInv /\ TimerInv  BY DEF UdpInv, UdpTypeOK
  <1>1. us' = [us EXCEPT !.idle = id, !.left = le, !.bidle = bi, !.bleft = bl, !.ended = en]
    BY DEF UdpTick
  <1>2. \A m \in Clock : Later(m, IdleTicks) \in Clock /\ Sooner(m) \in Clock
    BY UdpAssumption DEF Clock, Later, Sooner
  <1>3. \A m \in 0 .. (IdleTicks + 1) : Later(m, IdleTicks + 1) \in 0 .. (IdleTicks + 1)
    BY UdpAssumption DEF Later
  <1>4. 0 \in Clock /\ 0 \in 0 .. (IdleTicks + 1)  BY UdpAssumption DEF Clock
  <1>5. /\ id \in [SessionIds -> Clock] /\ le \in [SessionIds -> Clock] /\ bi \in [SessionIds -> Clock]
        /\ bl \in [SessionIds -> Clock]
    BY <1>0, <1>2, <1>4, UdpFields
  <1>6. en \in [SessionIds -> 0 .. (IdleTicks + 1)]  BY <1>0, <1>3, <1>4, UdpFields
  <1>7. \A s \in SessionIds : us.pump[s] = "run" /\ us.back[s] = "gone" =>
          le[s] + en[s] <= IdleTicks /\ ~(us.chan[s] > 0)
    <2> SUFFICES ASSUME NEW s \in SessionIds, us.pump[s] = "run", us.back[s] = "gone"
                 PROVE  Sooner(us.left[s]) + Later(us.ended[s], IdleTicks + 1) <= IdleTicks /\ ~(us.chan[s] > 0)
      OBVIOUS
    <2>1. us.left[s] > 0 /\ us.chan[s] = 0  BY DEF UdpTick, Timely
    <2>2. us.left[s] + us.ended[s] <= IdleTicks  BY <1>0 DEF TimerInv
    <2>3. us.left[s] \in 0 .. IdleTicks /\ us.ended[s] \in 0 .. (IdleTicks + 1)
      BY <1>0, UdpFields DEF Clock
    <2>4. Sooner(us.left[s]) = us.left[s] - 1  BY <2>1 DEF Sooner
    <2>5. Later(us.ended[s], IdleTicks + 1) = us.ended[s] + 1
      BY <2>1, <2>2, <2>3, UdpNats DEF Later
    <2> QED  BY <2>1, <2>2, <2>3, <2>4, <2>5, UdpNats
  <1> HIDE DEF id, le, bi, bl, en
  <1>8. /\ us' \in UdpState /\ Tables' = Tables /\ us'.pump = us.pump /\ us'.back = us.back
        /\ us'.left = le /\ us'.ended = en /\ us'.chan = us.chan
    BY <1>0, <1>1, <1>5, <1>6, Zenon DEF UdpState, Tables
  <1>9. TableInv'  BY <1>0, <1>8, TablesRest
  <1>10. TimerInv'  BY <1>7, <1>8 DEF TimerInv
  <1> QED  BY <1>8, <1>9, <1>10 DEF UdpInv, UdpTypeOK

LEMMA QuietUdpStep ==
  ASSUME UdpInv, RateLimited \/ CarrierLost \/ RuleChanges PROVE UdpInv'
  <1>0. us \in UdpState /\ TableInv /\ TimerInv  BY DEF UdpInv, UdpTypeOK
  <1>1. ASSUME us' \in UdpState, Tables' = Tables, us'.back = us.back, us'.left = us.left,
               us'.ended = us.ended, us'.chan = us.chan, us'.pump = us.pump
        PROVE  UdpInv'
    <2>1. TableInv'  BY <1>0, <1>1, TablesRest
    <2>2. TimerInv'  BY <1>0, <1>1, TimersKept
    <2> QED  BY <1>1, <2>1, <2>2 DEF UdpInv, UdpTypeOK
  <1>2. CASE RateLimited
    <2>1. us' = [us EXCEPT !.limits = us.rule, !.sent = us.sent + 1]
      BY <1>0, <1>2 DEF RateLimited, LimitsApplied, UdpState
    <2>2. us.sent + 1 \in 0 .. MaxDatagram  BY <1>0, <1>2, UdpFields, UdpAssumption DEF RateLimited
    <2> QED  BY <1>0, <1>1, <2>1, <2>2, Zenon DEF UdpState, Tables
  <1>3. CASE CarrierLost
    <2> DEFINE car == [us.carrier EXCEPT ![us.assoc] = "lost"]
    <2>1. us' = [us EXCEPT !.carrier = car]  BY <1>3 DEF CarrierLost
    <2>2. car \in [1 .. MaxAssociation -> {"none", "up", "lost", "closed"}]  BY <1>0, UdpFields, Zenon
    <2> HIDE DEF car
    <2> QED  BY <1>0, <1>1, <2>1, <2>2, Zenon DEF UdpState, Tables
  <1>4. CASE RuleChanges
    <2>1. us' = [us EXCEPT !.rule = us.rule + 1]  BY <1>4 DEF RuleChanges
    <2>2. us.rule + 1 \in 0 .. MaxRuleChange  BY <1>0, <1>4, UdpFields, UdpAssumption DEF RuleChanges
    <2> QED  BY <1>0, <1>1, <2>1, <2>2, Zenon DEF UdpState, Tables
  <1> QED  BY <1>2, <1>3, <1>4

LEMMA UdpStarts == UdpInit => UdpInv
  <1> SUFFICES ASSUME UdpInit PROVE UdpInv  OBVIOUS
  <1>1. us = UdpStart  BY DEF UdpInit
  <1>2. /\ 0 \in 0 .. MaxRuleChange /\ 0 \in 0 .. MaxAssociation /\ 0 \in 0 .. MaxSession
        /\ 0 \in 0 .. ChannelCap /\ 0 \in Clock /\ 0 \in 0 .. (IdleTicks + 1)
        /\ 0 \in 0 .. MaxDatagram /\ 0 \in 0 .. MaxReply
    BY UdpAssumption DEF Clock
  <1>3. us \in UdpState  BY <1>1, <1>2, Zenon DEF UdpStart, UdpState, Zeros
  <1>4. LoopInv  BY <1>1 DEF UdpStart, LoopInv
  <1>5. PumpInv /\ TimerInv  BY <1>1 DEF UdpStart, PumpInv, TimerInv
  <1>6. ClientServed /\ InnerReclaimed /\ SessionReachable
    BY <1>1 DEF UdpStart, ClientServed, InnerReclaimed, SessionReachable
  <1> QED  BY <1>3, <1>4, <1>5, <1>6 DEF UdpInv, UdpTypeOK, TableInv

LEMMA UdpStep == UdpInv /\ [UdpNext]_us => UdpInv'
  <1> SUFFICES ASSUME UdpInv, [UdpNext]_us PROVE UdpInv'  OBVIOUS
  <1>1. CASE us' = us
    BY Zenon, <1>1 DEF UdpInv, UdpTypeOK, TableInv, LoopInv, PumpInv, ClientServed, InnerReclaimed,
                SessionReachable, TimerInv
  <1>2. CASE ServeStep
    BY <1>2, AssociationStep, AssociationFailsStep, OpensStep, RejectedStep, OpenFailsStep, SendStep
       DEF ServeStep
  <1>3. CASE RateLimited \/ CarrierLost \/ RuleChanges  BY <1>3, QuietUdpStep
  <1>4. CASE UdpTick  BY <1>4, TickStep
  <1>5. CASE \E c \in Client : UdpReceive(c)  BY <1>5, ReceiveStep
  <1>6. ASSUME NEW s \in SessionIds, ClientPumpStep(s) PROVE UdpInv'
    BY <1>6, EndStep, ClosesStep, ReplyStep DEF ClientPumpStep
  <1>7. ASSUME NEW s \in SessionIds,
               BackendReplies(s) \/ BackendIdle(s) \/ BackendEndsEarly(s) \/ BackendHearsClose(s)
        PROVE  UdpInv'
    BY <1>7, AnswerStep, GoneStep DEF BackendIdle, BackendEndsEarly, BackendHearsClose
  <1> QED  BY <1>1, <1>2, <1>3, <1>4, <1>5, <1>6, <1>7 DEF UdpNext

\* The tables of the UDP ingress (ingress_udp.rs) agree for every number of
\* clients, sessions and associations: a client in the table has a session of
\* the association in use with a pump that will take it out, every entry of
\* inner_sessions has one, a pump that ends late spares the session after its
\* own, and a client whose backend is gone is freed within one idle time.
THEOREM UdpTables == UdpSpec => []UdpClientsServed
  <1>1. UdpInit => UdpInv  BY UdpStarts
  <1>2. UdpInv /\ [UdpNext]_us => UdpInv'  BY UdpStep
  <1>3. UdpInv => UdpClientsServed
    <2> SUFFICES ASSUME UdpInv PROVE BlackHoleBounded
      BY DEF UdpInv, TableInv, UdpClientsServed
    <2> QED  BY DEF UdpInv, TimerInv, BlackHoleBounded
  <1> QED  BY <1>1, <1>2, <1>3, PTL DEF UdpSpec
=============================================================================
