------------------------------ MODULE UdpSessions ------------------------------
(***************************************************************************)
(* UDP through the tunnel: the ingress listener with its client table      *)
(* (mesh/src/agent/ingress_udp.rs), one inner association at a time, and   *)
(* the backend of each session at the egress (egress.rs).  The serve loop  *)
(* is one task, each session has a response pump at the ingress and a      *)
(* backend at the egress, each with an idle timer.  Datagrams may be lost. *)
(* Time is relative: what is left of a timer, and how long it was quiet.   *)
(***************************************************************************)
EXTENDS Integers, FiniteSets

CONSTANTS Client, MaxSession, MaxAssociation, IdleTicks, ChannelCap, MaxDatagram, MaxReply, MaxRuleChange

ASSUME UdpAssumption ==
  /\ 0 \notin Client
  /\ {MaxSession, MaxAssociation, IdleTicks, ChannelCap, MaxDatagram, MaxReply, MaxRuleChange} \subseteq Nat

VARIABLE us

SessionIds == 1..MaxSession

Clock == 0..IdleTicks

UdpState ==
  [rule    : 0..MaxRuleChange,                  \* the limits of the serving rule
   limits  : 0..MaxRuleChange,                  \* those the limiter was built from
   at      : {"recv", "association", "session", "send"},
   cur     : Client \cup {0},
   tried   : 0..MaxAssociation,
   assoc   : 0..MaxAssociation,                 \* the association in use, 0 for none
   carrier : [1..MaxAssociation -> {"none", "up", "lost", "closed"}],
   outer   : SUBSET (1..MaxAssociation),        \* outer streams registered with the tunnel
   clients : [Client -> 0..MaxSession],
   inner   : SUBSET SessionIds,                 \* inner_sessions
   used    : 0..MaxSession,
   owner   : [SessionIds -> Client \cup {0}],
   of      : [SessionIds -> 0..MaxAssociation],
   pump    : [SessionIds -> {"none", "run", "closing", "gone"}],
   chan    : [SessionIds -> 0..ChannelCap],
   idle    : [SessionIds -> Clock],             \* since last_active
   left    : [SessionIds -> Clock],             \* of the deadline the pump sleeps until
   back    : [SessionIds -> {"none", "run", "gone"}],
   bidle   : [SessionIds -> Clock],
   bleft   : [SessionIds -> Clock],
   ended   : [SessionIds -> 0..(IdleTicks + 1)], \* since the backend is gone
   sent    : 0..MaxDatagram,
   replies : 0..MaxReply]

Zeros == [s \in SessionIds |-> 0]

UdpStart ==
  [rule |-> 0, limits |-> 0, at |-> "recv", cur |-> 0, tried |-> 0, assoc |-> 0,
   carrier |-> [a \in 1..MaxAssociation |-> "none"], outer |-> {},
   clients |-> [c \in Client |-> 0], inner |-> {}, used |-> 0,
   owner |-> Zeros, of |-> Zeros, pump |-> [s \in SessionIds |-> "none"], chan |-> Zeros,
   idle |-> Zeros, left |-> Zeros, back |-> [s \in SessionIds |-> "none"],
   bidle |-> Zeros, bleft |-> Zeros, ended |-> Zeros, sent |-> 0, replies |-> 0]

UdpInit == us = UdpStart

-----------------------------------------------------------------------------
(* The serve loop of the listener.                                         *)

\* The session id a new session takes.
NewId == us.used + 1

\* The head of open_session: the id is in the table before the OPEN is written.
OpenBegins(u) ==
  [u EXCEPT !.at = "session", !.used = NewId, !.inner = @ \cup {NewId},
            !.owner[NewId] = u.cur, !.of[NewId] = u.assoc]

\* What the loop does for the datagram in hand once there is an association.
\* The instance ends when the ids are used up.
Onward(u) ==
  IF u.clients[u.cur] # 0 THEN [u EXCEPT !.at = "send"] ELSE OpenBegins(u)

CanGoOn(c) == us.clients[c] # 0 \/ us.used < MaxSession

\* A limiter is rebuilt when the knobs moved, and only then.
LimitsApplied(u) == [u EXCEPT !.limits = u.rule]

\* A datagram passes the limiter, with an association or without one.
UdpReceive(c) ==
  /\ us.at = "recv" /\ us.sent < MaxDatagram /\ CanGoOn(c)
  /\ LET u == [LimitsApplied(us) EXCEPT !.cur = c, !.sent = @ + 1] IN
       \/ us.assoc # 0 /\ us' = Onward(u)
       \/ us.assoc = 0 /\ us.tried < MaxAssociation /\ us' = [u EXCEPT !.at = "association"]

\* It does not: the datagram is dropped.
RateLimited ==
  /\ us.at = "recv" /\ us.sent < MaxDatagram
  /\ us' = [LimitsApplied(us) EXCEPT !.sent = @ + 1]

\* open_association: the outer stream is registered, Open is sent, the inner
\* handshake is done; then the loop goes on with the datagram it holds.
open_association ==
  /\ us.at = "association" /\ us.tried < MaxAssociation
  /\ LET a == us.tried + 1 IN
       us' = Onward([us EXCEPT !.tried = a, !.assoc = a, !.carrier[a] = "up", !.outer = @ \cup {a}])

\* It fails or times out: the stream stays registered, the datagram is lost.
AssociationFails ==
  /\ us.at = "association" /\ us.tried < MaxAssociation
  /\ LET a == us.tried + 1 IN
       us' = [us EXCEPT !.tried = a, !.carrier[a] = "closed", !.outer = @ \cup {a},
                        !.at = "recv", !.cur = 0]

\* Mutant: the clients of a closed association keep their sessions.
close_associationKeeps(u) ==
  [u EXCEPT !.at = "recv", !.cur = 0, !.assoc = 0, !.carrier[u.assoc] = "closed",
            !.outer = @ \ {u.assoc}, !.inner = {}]

\* close_association: both tables are cleared, which ends the pumps.
close_association(u) ==
  [u EXCEPT !.at = "recv", !.cur = 0, !.assoc = 0, !.carrier[u.assoc] = "closed",
            !.outer = @ \ {u.assoc}, !.inner = {}, !.clients = [c \in Client |-> 0]]

\* The Accept arrives: the client is entered and its pump spawned.
SessionOpens ==
  /\ us.at = "session" /\ us.carrier[us.assoc] = "up"
  /\ LET s == us.used IN
       us' = [us EXCEPT !.at = "send", !.clients[us.cur] = s, !.pump[s] = "run",
                        !.idle[s] = 0, !.left[s] = IdleTicks,
                        !.back[s] = "run", !.bidle[s] = 0, !.bleft[s] = IdleTicks]

\* A Reject: the session is withdrawn and the association stays.
SessionRejected ==
  /\ us.at = "session" /\ us.carrier[us.assoc] = "up"
  /\ us' = [us EXCEPT !.at = "recv", !.cur = 0, !.inner = @ \ {us.used}]

\* No answer in time or a broken carrier: the association is rebuilt.  The
\* egress may have accepted.
SessionOpenFails ==
  /\ us.at = "session"
  /\ \E b \in {"none", "run"} :
       /\ b = "run" => us.carrier[us.assoc] = "up"
       /\ us' = close_association([us EXCEPT !.back[us.used] = b,
                                             !.bleft[us.used] = IF b = "run" THEN IdleTicks ELSE 0])

\* The fragments are sent when the client is still entered; last_active is
\* renewed, and the backend sees the datagram unless it is lost.  A failed send
\* rebuilds the association.
send_datagram ==
  /\ us.at = "send"
  /\ LET s == us.clients[us.cur]
         touched == [us EXCEPT !.idle[s] = 0]
     IN \/ s = 0 /\ us' = [us EXCEPT !.at = "recv", !.cur = 0]
        \/ /\ s # 0 /\ us.carrier[us.assoc] = "up"
           /\ \E b \in {us.bidle[s], IF us.back[s] = "run" THEN 0 ELSE us.bidle[s]} :
                us' = [touched EXCEPT !.bidle[s] = b, !.at = "recv", !.cur = 0]
        \/ s # 0 /\ us.carrier[us.assoc] # "up" /\ us' = close_association(touched)

-----------------------------------------------------------------------------
(* The response pump of a session.                                         *)

\* dispatch_datagrams hands a reply to the session's channel, or drops it: the
\* session is unknown, the channel full, or the datagram was lost.
BackendReplies(s) ==
  /\ us.back[s] = "run" /\ us.replies < MaxReply
  /\ LET u == [us EXCEPT !.bidle[s] = 0, !.replies = @ + 1] IN
       \/ us' = u
       \/ /\ us.carrier[us.of[s]] = "up" /\ s \in us.inner
          /\ us.chan[s] < ChannelCap /\ us' = [u EXCEPT !.chan[s] = @ + 1]

\* A reply goes to the client; the next deadline counts from now.
PumpForwards(s) ==
  /\ us.pump[s] = "run" /\ us.chan[s] > 0
  /\ us' = [us EXCEPT !.chan[s] = @ - 1, !.idle[s] = 0, !.left[s] = IdleTicks]

\* The return limiter drops it; the next deadline counts from last_active.
PumpDrops(s) ==
  /\ us.pump[s] = "run" /\ us.chan[s] > 0
  /\ us' = [us EXCEPT !.chan[s] = @ - 1, !.left[s] = IdleTicks - us.idle[s]]

\* The socket refuses, the channel was cut, or the deadline passed.
PumpFails(s) ==
  /\ us.pump[s] = "run" /\ us.chan[s] > 0
  /\ us' = [us EXCEPT !.pump[s] = "closing", !.chan[s] = 0]

PumpCut(s) ==
  /\ us.pump[s] = "run" /\ us.chan[s] = 0 /\ s \notin us.inner
  /\ us' = [us EXCEPT !.pump[s] = "closing"]

PumpIdle(s) ==
  /\ us.pump[s] = "run" /\ us.left[s] = 0
  /\ us' = [us EXCEPT !.pump[s] = "closing", !.chan[s] = 0]

\* remove_client: only the entry of this very session.
remove_client(u, s) ==
  IF u.clients[u.owner[s]] = s THEN [u EXCEPT !.clients[u.owner[s]] = 0] ELSE u

\* After the Close was written, or failed to be, the session is withdrawn.
PumpCloses(s) ==
  /\ us.pump[s] = "closing"
  /\ us' = remove_client([us EXCEPT !.pump[s] = "gone", !.inner = @ \ {s},
                                    !.idle[s] = 0, !.left[s] = 0], s)

-----------------------------------------------------------------------------
(* The backend of a session at the egress.                                 *)

BackendGone(u, s) ==
  [u EXCEPT !.back[s] = "gone", !.bidle[s] = 0, !.bleft[s] = 0, !.ended[s] = 0]

\* Its timer: one sleep, computed when the backend started.
BackendIdle(s) ==
  /\ us.back[s] = "run" /\ us.bleft[s] = 0
  /\ us' = BackendGone(us, s)

\* It cannot be dialled, or its socket fails.  The ingress is sent a Close on
\* the control stream, which nobody reads after the Accept.
BackendEndsEarly(s) ==
  /\ us.back[s] = "run"
  /\ us' = BackendGone(us, s)

\* The Close of the pump or the end of the association reaches the egress.
BackendHearsClose(s) ==
  /\ us.back[s] = "run"
  /\ us.pump[s] = "gone" \/ us.carrier[us.of[s]] # "up"
  /\ us' = BackendGone(us, s)

-----------------------------------------------------------------------------

\* The association breaks: idle, closed by the peer, or its stream was cut.
CarrierLost ==
  /\ us.assoc # 0 /\ us.carrier[us.assoc] = "up"
  /\ us' = [us EXCEPT !.carrier[us.assoc] = "lost"]

\* A policy change writes the serving rule.
RuleChanges ==
  /\ us.rule < MaxRuleChange
  /\ us' = [us EXCEPT !.rule = @ + 1]

Later(n, cap) == IF n < cap THEN n + 1 ELSE n

Sooner(n) == IF n > 0 THEN n - 1 ELSE 0

\* Tasks that can run do so before time goes on.
Timely ==
  /\ us.at # "send"
  /\ \A s \in SessionIds :
       /\ us.pump[s] = "run" => us.left[s] > 0 /\ us.chan[s] = 0
       /\ us.back[s] = "run" => us.bleft[s] > 0

UdpTick ==
  /\ Timely
  /\ us' = [us EXCEPT
       !.idle  = [s \in SessionIds |-> IF us.pump[s] = "run" THEN Later(us.idle[s], IdleTicks) ELSE 0],
       !.left  = [s \in SessionIds |-> Sooner(us.left[s])],
       !.bidle = [s \in SessionIds |-> IF us.back[s] = "run" THEN Later(us.bidle[s], IdleTicks) ELSE 0],
       !.bleft = [s \in SessionIds |-> Sooner(us.bleft[s])],
       !.ended = [s \in SessionIds |-> IF us.back[s] = "gone" THEN Later(us.ended[s], IdleTicks + 1) ELSE 0]]

ClientPumpStep(s) ==
  PumpForwards(s) \/ PumpDrops(s) \/ PumpFails(s) \/ PumpCut(s) \/ PumpIdle(s) \/ PumpCloses(s)

ServeStep ==
  open_association \/ AssociationFails \/ SessionOpens \/ SessionRejected \/ SessionOpenFails \/ send_datagram

UdpNext ==
  \/ ServeStep \/ RateLimited \/ CarrierLost \/ RuleChanges \/ UdpTick
  \/ \E c \in Client : UdpReceive(c)
  \/ \E s \in SessionIds : \/ ClientPumpStep(s) \/ BackendReplies(s)
                           \/ BackendIdle(s) \/ BackendEndsEarly(s) \/ BackendHearsClose(s)

\* The awaits of the loop are bounded, tasks are polled, timers fire.
UdpFairness ==
  /\ WF_us(ServeStep) /\ WF_us(UdpTick)
  /\ \A s \in SessionIds :
       WF_us(ClientPumpStep(s)) /\ WF_us(BackendIdle(s)) /\ WF_us(BackendHearsClose(s))

UdpSpec == UdpInit /\ [][UdpNext]_us /\ UdpFairness

-----------------------------------------------------------------------------

\* The state of listener and backends stays within its types.
UdpTypeOK == us \in UdpState

\* A client in the table has a session of its own on the association in use,
\* with a pump that will take it out again.  The entry of an association that
\* was rebuilt would send datagrams to a session the egress never heard of.
ClientServed ==
  \A c \in Client :
    LET s == us.clients[c] IN
      s # 0 => us.owner[s] = c /\ us.of[s] = us.assoc /\ us.pump[s] \in {"run", "closing"}

\* Every entry of inner_sessions has a pump that will remove it, or belongs to
\* the open under way: no exit of open_session leaves one behind.
InnerReclaimed ==
  \A s \in us.inner : us.pump[s] \in {"run", "closing"} \/ (us.at = "session" /\ s = us.used)

\* A session that receives replies is the one its client is entered with: a
\* pump that ends late does not take out the session that came after its own.
SessionReachable ==
  \A s \in us.inner : us.pump[s] = "run" => us.clients[us.owner[s]] = s

\* A client whose backend is gone is served again one idle time later at the
\* latest: the Close of the egress is not read, so only the timer of the pump
\* frees the client, and the client's own datagrams must not put it off.
BlackHoleBounded ==
  \A s \in SessionIds :
    us.pump[s] = "run" /\ us.back[s] = "gone" => us.left[s] + us.ended[s] <= IdleTicks

\* Every session ends on both sides once its traffic ends: no pump, table entry
\* or backend outlives what it serves.
UdpSessionsEnd ==
  \A s \in SessionIds :
    us.pump[s] = "run" ~> us.pump[s] = "gone" /\ us.back[s] = "gone" /\ s \notin us.inner

\* The tables of the UDP ingress agree: a client, its session and its pump
\* find one another, no session is left behind, and a client whose backend is
\* gone is freed after one idle time.
UdpClientsServed ==
  /\ ClientServed /\ InnerReclaimed /\ SessionReachable /\ BlackHoleBounded
=============================================================================
