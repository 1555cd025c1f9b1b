------------------------------- MODULE EdgeConn -------------------------------
(***************************************************************************)
(* Public connections of the ingress edge (expose/src/edge/listener.rs,    *)
(* acme.rs, host_router.rs; core/src/security/{conn_limit,rate_limit,      *)
(* proxy_protocol,forwarded_for}.rs).  Connection tasks interleave at      *)
(* every await and, in the shared counters, at every atomic operation.     *)
(* What a client sends is an input; the route breaker has its own module.  *)
(***************************************************************************)
EXTENDS Integers, Sequences, FiniteSets

CONSTANTS Conn,        \* connection tasks of the :443 face
          Plain80,     \* connection tasks of the :80 face
          Client,      \* addresses of clients
          FrontProxy,       \* the address of the trusted front proxy
          PerIp, Total, Quota,
          MaxSwap      \* bound: route tables installed after the start

ASSUME EdgeConnAssumption ==
  /\ PerIp \in Nat /\ Total \in Nat /\ Quota \in Nat \ {0} /\ MaxSwap \in Nat
  /\ FrontProxy \notin Client /\ Conn \cap Plain80 = {}
  /\ IsFiniteSet(Conn) /\ IsFiniteSet(Plain80)

VARIABLE ec

Task == Conn \cup Plain80
Ip == Client \cup {FrontProxy}

\* Program points of a connection task.  The guard is taken at "total" and
\* "perIp"; it is given back at "freeTotal" and "freeIp".
ConnPoint ==
  {"none", "proxy", "rate", "total", "perIp", "undo", "hello", "handshake", "head", "route",
   "session", "open", "inner", "greet", "pump", "control", "deny", "request", "respond",
   "abandon", "freeTotal", "freeIp", "done"}

\* The topology: TLS ends here (ACME) or a front ends it; the front may speak
\* the PROXY protocol or send X-Forwarded-For, never both; ACME has no front.
Topology ==
  {t \in [tls : BOOLEAN, proxy : {"off", "on", "required"}, xff : {"off", "on", "required"}] :
     t.proxy = "off" \/ (t.xff = "off" /\ ~t.tls)}

EdgeConnState ==
  [top    : Topology,
   at     : [Task -> ConnPoint],
   peer   : [Task -> Ip],
   ip     : [Task -> Ip],             \* the address the task is accounted under
   guard  : SUBSET Task,              \* tasks that own a ConnGuard
   stream : [Task -> {"none", "registered", "open"}],
   total  : Nat,
   perIp  : [Ip -> Nat],
   tokens : [Ip -> 0..Quota],
   table  : SUBSET {"h"},             \* is the host in the routing table
   swaps  : 0..MaxSwap]

EdgeConnStart(t) ==
  [top |-> t, at |-> [c \in Task |-> "none"], peer |-> [c \in Task |-> FrontProxy],
   ip |-> [c \in Task |-> FrontProxy], guard |-> {}, stream |-> [c \in Task |-> "none"],
   total |-> 0, perIp |-> [i \in Ip |-> 0], tokens |-> [i \in Ip |-> Quota],
   table |-> {"h"}, swaps |-> 0]

EdgeConnInit == \E t \in Topology : ec = EdgeConnStart(t)

Move(c, p) == ec' = [ec EXCEPT !.at[c] = p]

\* A task that ends drops its guard; without one it is over at once.
EndPoint(c) == IF c \in ec.guard THEN "freeTotal" ELSE "done"
End(c) == Move(c, EndPoint(c))

-----------------------------------------------------------------------------
(* Admission.                                                              *)

\* The listener spawns a task per connection; ACME connections and the :80 face
\* are gated on the peer's address before anything is read.
Accept(c) ==
  /\ ec.at[c] = "none" /\ (c \in Plain80 => ec.top.tls)
  /\ \E p \in Ip :
       ec' = [ec EXCEPT !.peer[c] = p, !.ip[c] = p,
                        !.at[c] = IF ec.top.tls THEN "rate" ELSE "proxy"]

\* Only these peers may name another address than their own.
is_trusted(ip) == ip = FrontProxy

\* ProxyProtocolPolicy::read: what the preamble yields.  NoAddr: reject.
Sent == {"header", "unknown", "malformed", "plain", "eof"}

proxy_read(mode, peer, sent, named) ==
  IF mode = "off" \/ sent = "eof" THEN {peer}
  ELSE IF sent = "plain" THEN (IF is_trusted(peer) /\ mode = "required" THEN {} ELSE {peer})
  ELSE IF ~is_trusted(peer) \/ sent = "malformed" THEN {}
  ELSE IF sent = "header" THEN {named} ELSE {peer}

\* The gate waits for the request head when the front restores addresses by header.
xff_deferred(c) ==
  c \notin ec.guard /\ ec.top.xff # "off" /\ is_trusted(ec.peer[c])

\* Negotiation of the preamble, bounded by the peek timeout.
ReadProxy(c) ==
  /\ ec.at[c] = "proxy"
  /\ \/ End(c)
     \/ \E sent \in Sent, named \in Ip :
          LET r == proxy_read(ec.top.proxy, ec.peer[c], sent, named)
          IN  /\ r = {} => End(c)
              /\ \A a \in r :
                   ec' = [ec EXCEPT !.ip[c] = a,
                                    !.at[c] = IF c \in ec.guard \/ xff_deferred(c)
                                              THEN "head" ELSE "rate"]

\* gate_connection: first the rate of new connections, then the two caps.
DenyPoint(c) == IF ec.top.tls THEN EndPoint(c) ELSE "deny"

CheckRate(c) ==
  /\ ec.at[c] = "rate"
  /\ \/ ec.tokens[ec.ip[c]] = 0 /\ Move(c, DenyPoint(c))
     \/ /\ ec.tokens[ec.ip[c]] > 0
        /\ ec' = [ec EXCEPT !.tokens[ec.ip[c]] = @ - 1, !.at[c] = "total"]

\* try_acquire: the total is taken first and given back when a cap is met.
AcquireTotal(c) ==
  /\ ec.at[c] = "total"
  /\ \/ Total > 0 /\ ec.total >= Total /\ Move(c, DenyPoint(c))
     \/ /\ Total > 0 => ec.total < Total
        /\ ec' = [ec EXCEPT !.total = @ + 1, !.at[c] = "perIp"]

\* What an admitted task does next.
AdmittedAt(c) ==
  IF c \in Plain80 THEN "request"
  ELSE IF ec.top.tls THEN "hello"
  ELSE IF xff_deferred(c) THEN "route" ELSE "head"

\* Mutant: one more than the cap of an address is let in.
AcquirePerIpOneMore(c) ==
  /\ ec.at[c] = "perIp"
  /\ \/ PerIp > 0 /\ ec.perIp[ec.ip[c]] > PerIp /\ Move(c, "undo")
     \/ /\ PerIp > 0 => ec.perIp[ec.ip[c]] <= PerIp
        /\ ec' = [ec EXCEPT !.perIp[ec.ip[c]] = @ + 1, !.guard = @ \cup {c},
                            !.at[c] = AdmittedAt(c)]

AcquirePerIp(c) ==
  /\ ec.at[c] = "perIp"
  /\ \/ PerIp > 0 /\ ec.perIp[ec.ip[c]] >= PerIp /\ Move(c, "undo")
     \/ /\ PerIp > 0 => ec.perIp[ec.ip[c]] < PerIp
        /\ ec' = [ec EXCEPT !.perIp[ec.ip[c]] = @ + 1, !.guard = @ \cup {c},
                            !.at[c] = AdmittedAt(c)]

\* Mutant: a refusal under the address cap keeps the total.
AcquireUndoKeeps(c) ==
  /\ ec.at[c] = "undo"
  /\ Move(c, DenyPoint(c))

\* Mutant: a refusal under the address cap gives the total back twice.
AcquireUndoTwice(c) ==
  /\ ec.at[c] = "undo"
  /\ ec' = [ec EXCEPT !.total = @ - 2, !.at[c] = DenyPoint(c)]

AcquireUndo(c) ==
  /\ ec.at[c] = "undo"
  /\ ec' = [ec EXCEPT !.total = @ - 1, !.at[c] = DenyPoint(c)]

\* A refusal on the plain face is answered with 429 or 503.
WriteDeny(c) ==
  /\ ec.at[c] = "deny"
  /\ End(c)

\* ConnGuard::drop, two critical sections.
ReleaseTotal(c) ==
  /\ ec.at[c] = "freeTotal"
  /\ ec' = [ec EXCEPT !.total = @ - 1, !.at[c] = "freeIp"]

ReleasePerIp(c) ==
  /\ ec.at[c] = "freeIp"
  /\ ec' = [ec EXCEPT !.perIp[ec.ip[c]] = @ - 1, !.guard = @ \ {c}, !.at[c] = "done"]

\* The limiter refills with time.
Refill(i) ==
  /\ ec.tokens[i] < Quota
  /\ ec' = [ec EXCEPT !.tokens[i] = @ + 1]

-----------------------------------------------------------------------------
(* The TLS face and the :80 face.                                          *)

\* ClientHello: a stall or an error ends the task, as do a challenge handshake
\* and an unknown name; the control name goes to the embedded hub.
ReadHello443(c) ==
  /\ ec.at[c] = "hello"
  /\ End(c) \/ Move(c, "control") \/ Move(c, "handshake")

\* tls_stage: the handshake is bounded too.
Handshake443(c) ==
  /\ ec.at[c] = "handshake"
  /\ End(c) \/ Move(c, "proxy")

\* The hub's own limits end a connection of the control plane.
ControlEnds(c) ==
  /\ ec.at[c] = "control"
  /\ End(c)

\* The head of a :80 request is read within its budget; a head that is too long
\* is answered, one that stalls or is cut is not.
read_http01_head(c) ==
  /\ ec.at[c] = "request"
  /\ End(c) \/ Move(c, "respond")

\* One response: the challenge, a redirect of a known host, or a refusal.
write_http01_response(c) ==
  /\ ec.at[c] = "respond"
  /\ End(c)

-----------------------------------------------------------------------------
(* From the request head to the stream.                                    *)

\* XffPolicy::resolve on the complete head.
xff_resolve(mode, peer, header, named) ==
  IF header = "address" THEN {named} ELSE IF mode = "required" THEN {} ELSE {peer}

\* validated_host: exactly one Host header, and a well-formed one.
HostLines == {<<>>, <<"h">>, <<"bad">>, <<"h", "h">>}

validated_host(hosts) ==
  IF Len(hosts) = 1 /\ hosts # <<"bad">> THEN {hosts[1]} ELSE {}

\* The head is read under the peek timeout; a stall, an end, a head that is too
\* long or malformed ends the task.
PeekHead(c) ==
  /\ ec.at[c] = "head"
  /\ \/ \E hosts \in HostLines : validated_host(hosts) = {} /\ End(c)
     \/ ~xff_deferred(c) /\ Move(c, "route")
     \/ /\ xff_deferred(c)
        /\ \E header \in {"address", "garbage", "none"}, named \in Ip :
             LET r == xff_resolve(ec.top.xff, ec.peer[c], header, named)
             IN  /\ r = {} => End(c)
                 /\ \A a \in r : ec' = [ec EXCEPT !.ip[c] = a, !.at[c] = "rate"]

\* lookup in the current table, then the breaker's verdict.
LookupRoute(c) ==
  /\ ec.at[c] = "route"
  /\ End(c) \/ (ec.table # {} /\ Move(c, "session"))

\* The workspace session exists, a stream is registered, and the inner material is
\* loaded; without it the stream is closed and unregistered.
RegisterStream(c) ==
  /\ ec.at[c] = "session"
  /\ \E p \in {"open", "abandon"} : ec' = [ec EXCEPT !.stream[c] = "registered", !.at[c] = p]

\* A failed Open unregisters the stream; nothing was opened.
SendOpen(c) ==
  /\ ec.at[c] = "open"
  /\ \/ ec' = [ec EXCEPT !.stream[c] = "open", !.at[c] = "inner"]
     \/ ec' = [ec EXCEPT !.stream[c] = "none", !.at[c] = EndPoint(c)]

\* Inner TLS with the agent, bounded.
InnerConnect(c) ==
  /\ ec.at[c] = "inner"
  /\ Move(c, "greet") \/ Move(c, "abandon")

\* The selector and the buffered head are written; an error abandons the stream.
SendHello(c) ==
  /\ ec.at[c] = "greet"
  /\ Move(c, "pump") \/ Move(c, "abandon")

\* The pump ends, by a close, a reset or the idle limit, and its epilogue runs.
PumpOver(c) ==
  /\ ec.at[c] = "pump"
  /\ Move(c, "abandon")

\* send_close, unregister_stream.
AbandonStream(c) ==
  /\ ec.at[c] = "abandon"
  /\ ec' = [ec EXCEPT !.stream[c] = "none", !.at[c] = EndPoint(c)]

\* routes_to_map refuses a list with an unreadable or a repeated host.
routes_to_map(routes) ==
  IF "bad" \in {routes[i] : i \in DOMAIN routes} \/ Len(routes) > 1 THEN {}
  ELSE {{routes[i] : i \in DOMAIN routes}}

\* A verified policy generation replaces the whole table, or is refused and the
\* table is kept.
replace ==
  /\ ec.swaps < MaxSwap
  /\ \E routes \in HostLines :
       ec' = [ec EXCEPT !.swaps = @ + 1,
                        !.table = IF routes_to_map(routes) = {} THEN @
                                  ELSE CHOOSE t \in routes_to_map(routes) : TRUE]

TaskStep(c) ==
  \/ Accept(c) \/ ReadProxy(c) \/ CheckRate(c) \/ AcquireTotal(c) \/ AcquirePerIp(c)
  \/ AcquireUndo(c) \/ WriteDeny(c) \/ ReleaseTotal(c) \/ ReleasePerIp(c)
  \/ ReadHello443(c) \/ Handshake443(c) \/ ControlEnds(c)
  \/ read_http01_head(c) \/ write_http01_response(c)
  \/ PeekHead(c) \/ LookupRoute(c) \/ RegisterStream(c) \/ SendOpen(c)
  \/ InnerConnect(c) \/ SendHello(c) \/ PumpOver(c) \/ AbandonStream(c)

EdgeConnNext ==
  \/ \E c \in Task : TaskStep(c)
  \/ \E i \in Ip : Refill(i)
  \/ replace

EdgeConnSpec == EdgeConnInit /\ [][EdgeConnNext]_ec

-----------------------------------------------------------------------------

\* Every task is at a known point; the counters of ConnTracker are naturals.
EdgeConnTypeOK == ec \in EdgeConnState

\* ConnTracker::total is the number of connections, of refusals about to be rolled
\* back and of admissions under way, and the count of an address is the number of
\* guards under it: whatever tasks interleave, no place is lost or given twice.
TrackerExact ==
  /\ ec.total = Cardinality({c \in Task : \/ c \in ec.guard /\ ec.at[c] # "freeIp"
                                          \/ ec.at[c] \in {"perIp", "undo"}})
  /\ \A i \in Ip : ec.perIp[i] = Cardinality({c \in ec.guard : ec.ip[c] = i})

\* Nobody is accounted under an address of their choice: a task that runs under
\* another address than its peer's has a trusted front as peer.
EffectiveIsVouched ==
  \A c \in Task : ec.ip[c] # ec.peer[c] => ec.peer[c] = FrontProxy

\* No task reaches routing or the tunnel without an admission under the address it
\* is accounted to, whichever of the three gates it came through.
RoutedIsAdmitted ==
  \A c \in Conn : ec.at[c] \in {"route", "session", "open", "inner", "greet", "pump"}
                    => c \in ec.guard

\* A finished connection leaves no stream registered on the tunnel, whichever of the
\* error paths it took.
StreamsReturned ==
  \A c \in Task : ec.at[c] \in {"none", "done", "freeTotal", "freeIp"} => ec.stream[c] = "none"

\* A connection is in from the step that completes its guard to the first step of
\* the guard's drop.
Stage(c) ==
  IF ec.at[c] \in {"freeIp", "done"} THEN "out" ELSE IF c \in ec.guard THEN "in" ELSE "new"

Limit == INSTANCE ConnLimit WITH stage <- [c \in Task |-> Stage(c)], addr <- ec.ip

\* The counters of ConnTracker, taken one after the other and rolled back, and the
\* gates before and after the request head, implement an admission in one step.
LimitImplemented == Limit!LimitSpec

\* The accounting of the edge: counters are exact, addresses are vouched for,
\* routed connections are admitted, and finished ones leave no stream behind.
EdgeSound ==
  /\ TrackerExact /\ EffectiveIsVouched /\ RoutedIsAdmitted
  /\ StreamsReturned
=============================================================================
