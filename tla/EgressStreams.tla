----------------------------- MODULE EgressStreams -----------------------------
(***************************************************************************)
(* The egress side of an agent (mesh/src/agent/egress.rs): TCP forwarders, *)
(* UDP associations with their inner sessions, and the active count, which *)
(* is agent level and outlives sessions.  Every await is a program point.  *)
(* The verdicts of allowlist, breaker, rate limiter, resolver and dial are *)
(* inputs; the breaker has a module of its own.                            *)
(***************************************************************************)
EXTENDS Integers, Sequences, FiniteSets

CONSTANTS TcpStream, UdpSession, MaxIncoming

ASSUME EgressAssumption ==
  MaxIncoming \in Nat /\ IsFiniteSet(TcpStream) /\ IsFiniteSet(UdpSession)

VARIABLE eg

TcpPoint == {"none", "handshake", "hello", "gates", "resolve", "connect", "pump", "echo", "gone"}

EgressState ==
  [active   : 0..(Cardinality(TcpStream) + Cardinality(UdpSession) + 2),
   cut      : BOOLEAN,                        \* the session token is cancelled
   tcp      : [TcpStream -> TcpPoint],
   asc      : {"none", "handshake", "identity", "select", "open", "gates", "count",
               "accept", "over", "echo", "gone"},
   cur      : SUBSET UdpSession,              \* the session an OPEN is read for
   senders  : SUBSET UdpSession,
   controls : SUBSET UdpSession,
   reader   : [UdpSession -> {"none", "read", "sent", "sentOwed", "gone"}],
   back     : [UdpSession -> {"none", "dial", "run", "close", "gone"}],
   cmds     : Seq(UdpSession),                \* Close commands of the association
   asked    : SUBSET UdpSession]              \* sessions whose OPEN was read

EgressStart ==
  [active |-> 0, cut |-> FALSE, tcp |-> [s \in TcpStream |-> "none"], asc |-> "none",
   cur |-> {}, senders |-> {}, controls |-> {},
   reader |-> [u \in UdpSession |-> "none"], back |-> [u \in UdpSession |-> "none"],
   cmds |-> <<>>, asked |-> {}]

EgressInit == eg = EgressStart

\* The local cap, read after the increment at the head of the handler.
OverCap(n) == MaxIncoming > 0 /\ n > MaxIncoming

-----------------------------------------------------------------------------
(* TCP forwarders.                                                         *)

\* finish: the count goes down first, then the Close is echoed, bounded.
FinishStream(s) == [eg EXCEPT !.active = @ - 1, !.tcp[s] = "echo"]

\* A new stream is counted, then refused at the cap or for a missing e2e flag,
\* or its forwarder is spawned.
TcpIncoming(s) ==
  /\ ~eg.cut /\ eg.tcp[s] = "none"
  /\ \/ /\ ~OverCap(eg.active + 1)
        /\ eg' = [eg EXCEPT !.active = @ + 1, !.tcp[s] = "handshake"]
     \/ eg' = [eg EXCEPT !.tcp[s] = "echo"]

\* Inner TLS, then the selector with its identity.  Both are bounded in time.
InnerHandshake(s) ==
  /\ eg.tcp[s] = "handshake"
  /\ eg' \in {FinishStream(s), [eg EXCEPT !.tcp[s] = "hello"]}

ReadHello(s) ==
  /\ eg.tcp[s] = "hello"
  /\ eg' \in {FinishStream(s), [eg EXCEPT !.tcp[s] = "gates"]}

\* Target, allowlist, breaker and open rate.
OpenGates(s) ==
  /\ eg.tcp[s] = "gates"
  /\ eg' \in {FinishStream(s), [eg EXCEPT !.tcp[s] = "resolve"]}

\* Resolution fails, times out, or only yields blocked addresses.
Resolve(s) ==
  /\ eg.tcp[s] = "resolve"
  /\ eg' \in {FinishStream(s), [eg EXCEPT !.tcp[s] = "connect"]}

Connect(s) ==
  /\ eg.tcp[s] = "connect"
  /\ eg' \in {FinishStream(s), [eg EXCEPT !.tcp[s] = "pump"]}

\* The pump ends with either half; there is no idle limit.
PumpEnds(s) ==
  /\ eg.tcp[s] = "pump"
  /\ eg' = FinishStream(s)

\* The echo of the Close is bounded; then the stream is unregistered.
Unregistered(s) ==
  /\ eg.tcp[s] = "echo"
  /\ eg' = [eg EXCEPT !.tcp[s] = "gone"]

-----------------------------------------------------------------------------
(* The UDP association.                                                    *)

UdpIncoming ==
  /\ ~eg.cut /\ eg.asc = "none"
  /\ \/ /\ ~OverCap(eg.active + 1)
        /\ eg' = [eg EXCEPT !.active = @ + 1, !.asc = "handshake"]
     \/ eg' = [eg EXCEPT !.asc = "echo"]

FinishUdp(e) == [e EXCEPT !.active = @ - 1, !.asc = "echo"]

AcceptInnerQuic ==
  /\ eg.asc = "handshake"
  /\ eg' \in {FinishUdp(eg), [eg EXCEPT !.asc = "identity"]}

CheckIdentity ==
  /\ eg.asc = "identity"
  /\ eg' \in {FinishUdp(eg), [eg EXCEPT !.asc = "select"]}

\* A control stream arrives, its OPEN is read for at most 250 ms.
AcceptControl(u) ==
  /\ eg.asc = "select" /\ u \notin eg.asked
  /\ eg' = [eg EXCEPT !.asc = "open", !.cur = {u}, !.asked = @ \cup {u}]

\* No OPEN in time, an identity that is not the peer's, a session that
\* exists, no target, or a refusal of the gates.
OpenRefused ==
  /\ eg.asc \in {"open", "gates"}
  /\ eg' = [eg EXCEPT !.asc = "select", !.cur = {}]

OpenRead ==
  /\ eg.asc = "open" /\ eg.cur \cap eg.senders = {}
  /\ eg' = [eg EXCEPT !.asc = "gates"]

\* The cap is read here and the count raised in the next step.
SessionGates ==
  /\ eg.asc = "gates" /\ (MaxIncoming > 0 => eg.active < MaxIncoming)
  /\ eg' = [eg EXCEPT !.asc = "count"]

SessionCounted ==
  /\ eg.asc = "count"
  /\ eg' = [eg EXCEPT !.asc = "accept", !.active = @ + 1,
                      !.senders = @ \cup eg.cur, !.controls = @ \cup eg.cur]

\* The Accept is written and reader and backend start.
SessionAccepted(u) ==
  /\ eg.asc = "accept" /\ eg.cur = {u}
  /\ eg' = [eg EXCEPT !.asc = "select", !.cur = {}, !.reader[u] = "read", !.back[u] = "dial"]

\* Writing the Accept fails: the entry stays, with no task to serve it.
AcceptFails ==
  /\ eg.asc = "accept"
  /\ eg' = [eg EXCEPT !.asc = "select", !.cur = {}]

\* Mutant: the command gives the place back whoever removed the session.
CloseCommandTwice ==
  /\ eg.asc = "select" /\ eg.cmds # <<>>
  /\ LET u == Head(eg.cmds) IN
       eg' = [eg EXCEPT !.cmds = Tail(@), !.senders = @ \ {u}, !.controls = @ \ {u},
                        !.active = @ - 1]

\* A Close command of a reader or a backend.
CloseCommand ==
  /\ eg.asc = "select" /\ eg.cmds # <<>>
  /\ LET u == Head(eg.cmds) IN
       eg' = [eg EXCEPT !.cmds = Tail(@), !.senders = @ \ {u}, !.controls = @ \ {u},
                        !.active = IF u \in eg.senders THEN @ - 1 ELSE @]

\* The carrier ends, a datagram cannot be sent, or the token is cancelled.
AssociationBreaks ==
  /\ eg.asc = "select"
  /\ eg' = [eg EXCEPT !.asc = "over"]

\* The tables are cleared and the association gives its own place back.
AssociationCleared ==
  /\ eg.asc = "over"
  /\ eg' = [FinishUdp(eg) EXCEPT !.senders = {}, !.controls = {}, !.cmds = <<>>]

AssociationEnds ==
  /\ eg.asc = "echo"
  /\ eg' = [eg EXCEPT !.asc = "gone"]

\* The association token: cancelled with the session, or by the association.
Cancelled == eg.cut \/ eg.asc \in {"over", "echo", "gone"}

\* A send on the command channel: lost when the association is gone.
Told(e, u) == IF e.asc \in {"echo", "gone"} THEN e ELSE [e EXCEPT !.cmds = Append(@, u)]

\* The reader of a session's control stream ends: it takes the entry out and
\* sends a Close.
ReaderEnds(u) ==
  /\ eg.reader[u] = "read"
  /\ eg' = Told([eg EXCEPT !.reader[u] = IF u \in eg.senders THEN "sentOwed" ELSE "sent",
                           !.senders = @ \ {u}, !.controls = @ \ {u}], u)

\* After the send it gives the place back when it had taken the entry out.
ReaderGone(u) ==
  /\ eg.reader[u] \in {"sent", "sentOwed"}
  /\ eg' = [eg EXCEPT !.reader[u] = "gone",
                      !.active = IF eg.reader[u] = "sentOwed" THEN @ - 1 ELSE @]

\* The backend resolves and connects.  A socket that cannot be bound ends it
\* without a Close.
BackendDial(u) ==
  /\ eg.back[u] = "dial"
  /\ eg' \in {[eg EXCEPT !.back[u] = p] : p \in {"run", "close", "gone"}}

\* One of its pumps ends, the idle timer fires, or the token is cancelled.
BackendEnds(u) ==
  /\ eg.back[u] = "run"
  /\ eg' = [eg EXCEPT !.back[u] = "close"]

\* The backend's last words to its association.
BackendCloses(u) ==
  /\ eg.back[u] = "close"
  /\ eg' = Told([eg EXCEPT !.back[u] = "gone"], u)

-----------------------------------------------------------------------------

\* The session ends; the tunnel closes every frame channel.
EgressCut ==
  /\ ~eg.cut
  /\ eg' = [eg EXCEPT !.cut = TRUE]

TcpStep(s) ==
  InnerHandshake(s) \/ ReadHello(s) \/ OpenGates(s) \/ Resolve(s) \/ Connect(s) \/ Unregistered(s)

AssociationStep ==
  \/ AcceptInnerQuic \/ CheckIdentity \/ OpenRead \/ SessionGates \/ SessionCounted
  \/ OpenRefused \/ AcceptFails \/ AssociationCleared \/ AssociationEnds
  \/ \E u \in UdpSession : SessionAccepted(u)

SessionStep(u) == ReaderGone(u) \/ BackendDial(u) \/ BackendCloses(u)

EgressNext ==
  \/ EgressCut \/ UdpIncoming \/ AssociationStep \/ CloseCommand \/ AssociationBreaks
  \/ \E s \in TcpStream : TcpIncoming(s) \/ TcpStep(s) \/ PumpEnds(s)
  \/ \E u \in UdpSession : AcceptControl(u) \/ SessionStep(u) \/ ReaderEnds(u) \/ BackendEnds(u)

\* Awaits are bounded, so a step under way is taken.  What waits for a peer
\* ends for certain only when the session or the association was cut.
EgressFairness ==
  /\ WF_eg(AssociationStep) /\ WF_eg(CloseCommand)
  /\ WF_eg(eg.cut /\ AssociationBreaks)
  /\ \A s \in TcpStream : WF_eg(TcpStep(s)) /\ WF_eg(eg.cut /\ PumpEnds(s))
  /\ \A u \in UdpSession : /\ WF_eg(SessionStep(u))
                           /\ WF_eg(Cancelled /\ ReaderEnds(u))
                           /\ WF_eg(Cancelled /\ BackendEnds(u))

EgressSpec == EgressInit /\ [][EgressNext]_eg /\ EgressFairness

\* Streams, sessions and the count of places have their types.
EgressTypeOK == eg \in EgressState

LiveTcp == {s \in TcpStream : eg.tcp[s] \notin {"none", "echo", "gone"}}

LiveAssociation == IF eg.asc \in {"none", "echo", "gone"} THEN 0 ELSE 1

\* Sessions that hold a place: in the table, or taken out by a reader that has
\* not given the place back yet.
LiveSessions == eg.senders \cup {u \in UdpSession : eg.reader[u] = "sentOwed"}

LiveTasks == Cardinality(LiveTcp) + LiveAssociation + Cardinality(LiveSessions)

\* The count never falls below what is alive: reader and Close command race to
\* end a session, and only the one that took it out of the table gives its
\* place back.  Otherwise the cap goes blind and the count wraps below zero.
NeverUndercounted == eg.active >= LiveTasks

\* The cap read before the count is raised lets an association overshoot it
\* by one session and no more.
CapOvershoot == MaxIncoming > 0 => LiveTasks <= MaxIncoming + 1

\* When the session is over every forwarder, reader and backend ends: nothing
\* waits for a peer that is gone or for a channel nobody reads.
EgressTasksEnd ==
  eg.cut ~> /\ \A s \in TcpStream : eg.tcp[s] \in {"none", "gone"}
            /\ \A u \in UdpSession : eg.reader[u] \in {"none", "gone"} /\ eg.back[u] \in {"none", "gone"}

\* The count of incoming streams: never below the tasks that run, which
\* exceed the cap by one at most.
EgressCounted == NeverUndercounted /\ CapOvershoot
=============================================================================
