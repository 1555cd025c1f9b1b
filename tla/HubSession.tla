------------------------------ MODULE HubSession ------------------------------
(***************************************************************************)
(* The hub's registration of ONE agent identity: the registry entry, the   *)
(* AgentSession Arcs that have been that entry, the /poll bodies and       *)
(* /stream/up readers working on them, and the death signals that remove   *)
(* them (poll grace, heartbeat, send timeout, QUIC watcher and heartbeat). *)
(*                                                                         *)
(* Code: crates/mesh/src/hub/{state,registration,poll,upload,heartbeat,    *)
(* control,quic}.rs.  Registry keys never interact here, so one key is     *)
(* modelled; what a removal does to the streams is in HubStreams.          *)
(*                                                                         *)
(* An await between two critical sections of a handler is a program point  *)
(* ("pc"): each action below is one lock-protected section.  A circuit     *)
(* token is random and minted once per connection (the agent registers     *)
(* once per connection), so a circuit is named by its connection.          *)
(***************************************************************************)
EXTENDS Naturals, FiniteSets

CONSTANTS
  H2Conn, QuicConn,   \* the connections the agent dials over time
  Sess,               \* AgentSession Arcs that may be allocated at a time
  Poll, Up, Signal,   \* slots for /poll requests, /stream/up requests, death signals
  MaxGen,             \* bound on AgentSession::generation
  MaxStalls,          \* bound on spontaneous outages: late Pongs, stalled sends, nudges
  None

Conn == H2Conn \cup QuicConn

ASSUME Distinct ==
  /\ H2Conn \cap QuicConn = {}
  /\ None \notin Conn \cup Sess \cup Up
  /\ None \notin Nat
  /\ MaxGen \in Nat /\ MaxStalls \in Nat

VARIABLES
  active,   \* connections whose agent-side session is still running
  reg,      \* registration progress of every connection
  entry,    \* HubState::agents[key]: an Arc, or None
  sess,     \* what every allocated Arc holds
  poll,     \* /poll requests, from arrival to the end of their grace task
  up,       \* /stream/up requests
  hb,       \* Arc the heartbeat supervisor has snapshotted in this tick
  quic,     \* per QUIC connection: captured Arc, armed witness, tick's circuit
  signal,   \* death signals on their way through remove_agent_if_current
  stalls    \* spontaneous outages so far

vars == <<active, reg, entry, sess, poll, up, hb, quic, signal, stalls>>

-------------------------------------------------------------------------------
(* AgentSession.  chan identifies the current channel pair by the          *)
(* generation that installed it; rx and ctrl are the parked receivers (the *)
(* channel they belong to), None while taken or dropped.                   *)

OptNat == Nat \cup {None}

Session == [circ: Conn, gen: Nat, chan: Nat, rx: OptNat, ctrl: OptNat,
            lease: Up \cup {None}, quic: Conn \cup {None}, aged: BOOLEAN]

NewSession(c, q) ==
  [circ |-> c, gen |-> 0, chan |-> 0, rx |-> 0, ctrl |-> 0,
   lease |-> None, quic |-> q, aged |-> FALSE]

\* The upload lease is taken and cancelled: its reader sees lease # itself.
InstallChannels(x, c, q) ==
  [circ |-> c, gen |-> x.gen + 1, chan |-> x.gen + 1, rx |-> x.gen + 1,
   ctrl |-> x.gen + 1, lease |-> None, quic |-> q, aged |-> FALSE]

Terminate(x) ==
  [x EXCEPT !.rx = None, !.ctrl = None, !.gen = @ + 1, !.lease = None]

\* /poll on a session whose channel lost its receiver: fresh channels, both
\* receivers go to the poll; lease, QUIC handle and liveness stay.
RecreateChannels(x) ==
  [x EXCEPT !.gen = @ + 1, !.chan = x.gen + 1, !.rx = None, !.ctrl = None]

\* control_send beyond CONTROL_BACKLOG_SENTINEL.
Nudged(x) == [x EXCEPT !.ctrl = None, !.gen = @ + 1]

\* A poll slot owns a pair of receivers while streaming and until its drop
\* task has returned or discarded them.
Holding == {"body", "dropped"}
Holds(p, s) == poll[p].pc \in Holding /\ poll[p].sess = s

\* mpsc::Sender::is_closed: nobody owns the receiver of the current channel.
TxClosed(s) ==
  /\ sess[s].rx = None
  /\ \A p \in Poll : Holds(p, s) => poll[p].chan # sess[s].chan

InGen(s) == sess[s].gen < MaxGen

-------------------------------------------------------------------------------
IdlePoll == [pc |-> "idle", conn |-> None, sess |-> None, gen |-> 0, chan |-> 0]
IdleUp == [pc |-> "idle", conn |-> None, sess |-> None]
IdleSignal ==
  [pc |-> "idle", kind |-> "none", sess |-> None, circ |-> None, about |-> None]
IdleQuic == [sess |-> None, armed |-> None, beat |-> FALSE, tick |-> None]

PollPC == {"idle", "sent", "implicit", "check", "take", "body", "dropped", "grace"}
UpPC == {"idle", "sent", "implicit", "check", "lease", "reading"}
SignalPC == {"idle", "resolve", "fire", "sever"}
Kind == {"none", "grace", "heartbeat", "send_timeout", "watcher", "quic_heartbeat"}
RegPhase == {"new", "sent", "registered", "acking", "arming", "watched", "abandoned", "gone"}

Init ==
  /\ active = {}
  /\ reg = [c \in Conn |-> "new"]
  /\ entry = None
  /\ sess = [s \in {} |-> {}]
  /\ poll = [p \in Poll |-> IdlePoll]
  /\ up = [u \in Up |-> IdleUp]
  /\ hb = None
  /\ quic = [c \in QuicConn |-> IdleQuic]
  /\ signal = [k \in Signal |-> IdleSignal]
  /\ stalls = 0

-------------------------------------------------------------------------------
(* Registration.                                                           *)

\* The agent's supervisor runs one session at a time: it dials and registers
\* only when no earlier session of its own is left.
Dial(c) ==
  /\ active = {} /\ reg[c] = "new"
  /\ active' = {c}
  /\ reg' = [reg EXCEPT ![c] = "sent"]
  /\ UNCHANGED <<entry, sess, poll, up, hb, quic, signal, stalls>>

\* The agent abandons its session: crash, stop, network loss, a watchdog.
Disconnect(c) ==
  /\ c \in active
  /\ active' = active \ {c}
  /\ UNCHANGED <<reg, entry, sess, poll, up, hb, quic, signal, stalls>>

\* The Arcs something still points to; the others have been freed.
Refs ==
  {entry, hb} \cup {poll[p].sess : p \in Poll} \cup {up[u].sess : u \in Up}
    \cup {quic[c].sess : c \in QuicConn} \cup {signal[k].sess : k \in Signal}

\* agents.insert(key, Arc::new(..)).
Insert(s, x) ==
  /\ s \in Sess \ Refs
  /\ entry' = s
  /\ sess' = [t \in (DOMAIN sess \cap Refs) \cup {s} |-> IF t = s THEN x ELSE sess[t]]

\* Insert a fresh Arc, or replace the channels of the entry in place.
Enter(c, q, s) ==
  IF entry = None
  THEN Insert(s, NewSession(c, q))
  ELSE /\ s = entry /\ InGen(s)
       /\ sess' = [sess EXCEPT ![s] = InstallChannels(@, c, q)]
       /\ UNCHANGED entry

\* handle_register: may be processed after the agent has given up on it.
Register(c) ==
  /\ c \in H2Conn /\ reg[c] = "sent"
  /\ \E s \in Sess : Enter(c, None, s)
  /\ reg' = [reg EXCEPT ![c] = "registered"]
  /\ UNCHANGED <<active, poll, up, hb, quic, signal, stalls>>

\* implicit_re_register: a fresh Arc is inserted whatever the entry now is.
Reinsert(c, s) == Insert(s, NewSession(c, None))

-------------------------------------------------------------------------------
(* GET /poll.                                                              *)

\* The agent's poll loop has at most one request outstanding per connection.
PollSend(p, c) ==
  /\ poll[p].pc = "idle"
  /\ c \in H2Conn \cap active /\ reg[c] = "registered"
  /\ \A q \in Poll : poll[q].conn = c => poll[q].pc \in {"idle", "dropped", "grace"}
  /\ poll' = [poll EXCEPT ![p] = [IdlePoll EXCEPT !.pc = "sent", !.conn = c]]
  /\ UNCHANGED <<active, reg, entry, sess, up, hb, quic, signal, stalls>>

\* Mutant: an unregistered agent is turned away.
PollLookupRefuses(p) ==
  /\ poll[p].pc = "sent"
  /\ poll' = [poll EXCEPT ![p] = IF entry = None THEN IdlePoll
                                 ELSE [@ EXCEPT !.pc = "check", !.sess = entry]]
  /\ UNCHANGED <<active, reg, entry, sess, up, hb, quic, signal, stalls>>

\* Mutant: the missing registration goes unnoticed.
PollLookupBlind(p) ==
  /\ poll[p].pc = "sent"
  /\ poll' = [poll EXCEPT ![p].pc = "check", ![p].sess = entry]
  /\ UNCHANGED <<active, reg, entry, sess, up, hb, quic, signal, stalls>>

PollLookup(p) ==
  /\ poll[p].pc = "sent"
  /\ poll' = [poll EXCEPT ![p].pc = IF entry = None THEN "implicit" ELSE "check",
                          ![p].sess = entry]
  /\ UNCHANGED <<active, reg, entry, sess, up, hb, quic, signal, stalls>>

PollImplicit(p) ==
  /\ poll[p].pc = "implicit"
  /\ \E s \in Sess :
       /\ Reinsert(poll[p].conn, s)
       /\ poll' = [poll EXCEPT ![p].pc = "check", ![p].sess = s]
  /\ UNCHANGED <<active, reg, up, hb, quic, signal, stalls>>

PollCheck(p) ==
  /\ poll[p].pc = "check"
  /\ poll' = [poll EXCEPT ![p] = IF sess[@.sess].circ = @.conn
                                 THEN [@ EXCEPT !.pc = "take"] ELSE IdlePoll]
  /\ UNCHANGED <<active, reg, entry, sess, up, hb, quic, signal, stalls>>

\* Take the parked receivers.  A missing ctrl_rx panics the handler: the
\* receiver already taken is dropped with it.
PollTakeParked(p) ==
  LET s == poll[p].sess IN
  /\ poll[p].pc = "take"
  /\ sess[s].rx # None
  /\ poll' = [poll EXCEPT ![p] =
                IF sess[s].ctrl = None THEN IdlePoll
                ELSE [@ EXCEPT !.pc = "body", !.gen = sess[s].gen, !.chan = sess[s].rx]]
  /\ sess' = [sess EXCEPT ![s].rx = None, ![s].ctrl = None]
  /\ UNCHANGED <<active, reg, entry, up, hb, quic, signal, stalls>>

PollRecreate(p) ==
  LET s == poll[p].sess IN
  /\ poll[p].pc = "take"
  /\ TxClosed(s) /\ InGen(s)
  /\ sess' = [sess EXCEPT ![s] = RecreateChannels(@)]
  /\ poll' = [poll EXCEPT ![p].pc = "body", ![p].gen = sess[s].gen + 1,
                          ![p].chan = sess[s].gen + 1]
  /\ UNCHANGED <<active, reg, entry, up, hb, quic, signal, stalls>>

\* 409 Channel busy.
PollBusy(p) ==
  LET s == poll[p].sess IN
  /\ poll[p].pc = "take"
  /\ sess[s].rx = None /\ ~TxClosed(s)
  /\ poll' = [poll EXCEPT ![p] = IdlePoll]
  /\ UNCHANGED <<active, reg, entry, sess, up, hb, quic, signal, stalls>>

\* The handler's future is dropped with its connection.
PollAborted(p) ==
  /\ poll[p].pc \in {"sent", "implicit", "check", "take"}
  /\ poll[p].conn \notin active
  /\ poll' = [poll EXCEPT ![p] = IdlePoll]
  /\ UNCHANGED <<active, reg, entry, sess, up, hb, quic, signal, stalls>>

\* RxStream::poll_next sees its generation superseded: both receivers are
\* dropped, the response ends, and Drop has nothing to return.
BodyStale(p) ==
  /\ poll[p].pc = "body"
  /\ poll[p].gen # sess[poll[p].sess].gen
  /\ poll' = [poll EXCEPT ![p] = IdlePoll]
  /\ UNCHANGED <<active, reg, entry, sess, up, hb, quic, signal, stalls>>

\* The connection is gone: RxStream::drop spawns the return-and-grace task.
BodyDropped(p) ==
  /\ poll[p].pc = "body"
  /\ poll[p].conn \notin active
  /\ poll' = [poll EXCEPT ![p].pc = "dropped"]
  /\ UNCHANGED <<active, reg, entry, sess, up, hb, quic, signal, stalls>>

\* Mutant: receivers of a replaced channel are given back too.
ReturnReceiversAnyGen(p) ==
  LET s == poll[p].sess IN
  /\ poll[p].pc = "dropped"
  /\ sess' = IF sess[s].rx = None
             THEN [sess EXCEPT ![s].rx = poll[p].chan, ![s].ctrl = poll[p].chan]
             ELSE sess
  /\ poll' = [poll EXCEPT ![p].pc = "grace"]
  /\ UNCHANGED <<active, reg, entry, up, hb, quic, signal, stalls>>

ReturnReceivers(p) ==
  LET s == poll[p].sess IN
  /\ poll[p].pc = "dropped"
  /\ sess' = IF poll[p].gen = sess[s].gen /\ sess[s].rx = None
             THEN [sess EXCEPT ![s].rx = poll[p].chan, ![s].ctrl = poll[p].chan]
             ELSE sess
  /\ poll' = [poll EXCEPT ![p].pc = "grace"]
  /\ UNCHANGED <<active, reg, entry, up, hb, quic, signal, stalls>>

StillIdle(p) ==
  poll[p].gen = sess[poll[p].sess].gen /\ sess[poll[p].sess].rx # None

\* A death signal enters the funnel with witness <<s, c>>; about is the
\* connection the observed death is about.
Fire(k, kind, s, c, about) ==
  /\ signal[k].pc = "idle"
  /\ signal' = [signal EXCEPT ![k] =
                  [pc |-> "fire", kind |-> kind, sess |-> s, circ |-> c, about |-> about]]

GraceExpires(p, k) ==
  /\ poll[p].pc = "grace"
  /\ IF StillIdle(p)
     THEN Fire(k, "grace", poll[p].sess, poll[p].conn, poll[p].conn)
     ELSE UNCHANGED signal
  /\ poll' = [poll EXCEPT ![p] = IdlePoll]
  /\ UNCHANGED <<active, reg, entry, sess, up, hb, quic, stalls>>

-------------------------------------------------------------------------------
(* POST /stream/up.                                                        *)

UpSend(u, c) ==
  /\ up[u].pc = "idle"
  /\ c \in H2Conn \cap active /\ reg[c] = "registered"
  /\ \A v \in Up : up[v].conn # c
  /\ up' = [up EXCEPT ![u] = [IdleUp EXCEPT !.pc = "sent", !.conn = c]]
  /\ UNCHANGED <<active, reg, entry, sess, poll, hb, quic, signal, stalls>>

UpLookup(u) ==
  /\ up[u].pc = "sent"
  /\ up' = [up EXCEPT ![u].pc = IF entry = None THEN "implicit" ELSE "check",
                      ![u].sess = entry]
  /\ UNCHANGED <<active, reg, entry, sess, poll, hb, quic, signal, stalls>>

UpImplicit(u) ==
  /\ up[u].pc = "implicit"
  /\ \E s \in Sess :
       /\ Reinsert(up[u].conn, s)
       /\ up' = [up EXCEPT ![u].pc = "check", ![u].sess = s]
  /\ UNCHANGED <<active, reg, poll, hb, quic, signal, stalls>>

UpCheck(u) ==
  /\ up[u].pc = "check"
  /\ up' = [up EXCEPT ![u] = IF sess[@.sess].circ = @.conn
                             THEN [@ EXCEPT !.pc = "lease"] ELSE IdleUp]
  /\ UNCHANGED <<active, reg, entry, sess, poll, hb, quic, signal, stalls>>

\* A lease still held is never a cancelled one (cancelling takes it): 409.
UpLease(u) ==
  LET s == up[u].sess IN
  /\ up[u].pc = "lease"
  /\ IF sess[s].lease = None
     THEN /\ sess' = [sess EXCEPT ![s].lease = u]
          /\ up' = [up EXCEPT ![u].pc = "reading"]
     ELSE /\ up' = [up EXCEPT ![u] = IdleUp]
          /\ UNCHANGED sess
  /\ UNCHANGED <<active, reg, entry, poll, hb, quic, signal, stalls>>

\* A Pong frame refreshes the entry of the moment, whichever it is.
UpPong(u) ==
  /\ up[u].pc = "reading" /\ entry # None
  /\ sess' = [sess EXCEPT ![entry].aged = FALSE]
  /\ UNCHANGED <<active, reg, entry, poll, up, hb, quic, signal, stalls>>

\* Mutant: the lease is not given back.
UpEndsKeepsLease(u) ==
  /\ up[u].pc = "reading"
  /\ sess[up[u].sess].lease # u \/ up[u].conn \notin active
  /\ up' = [up EXCEPT ![u] = IdleUp]
  /\ UNCHANGED <<active, reg, entry, sess, poll, hb, quic, signal, stalls>>

\* Lease cancelled, or the body ended with its connection; the lease is
\* given back only if it is still this reader's.
UpEnds(u) ==
  LET s == up[u].sess IN
  /\ up[u].pc = "reading"
  /\ sess[s].lease # u \/ up[u].conn \notin active
  /\ sess' = IF sess[s].lease = u THEN [sess EXCEPT ![s].lease = None] ELSE sess
  /\ up' = [up EXCEPT ![u] = IdleUp]
  /\ UNCHANGED <<active, reg, entry, poll, hb, quic, signal, stalls>>

UpAborted(u) ==
  /\ up[u].pc \in {"sent", "implicit", "check", "lease"}
  /\ up[u].conn \notin active
  /\ up' = [up EXCEPT ![u] = IdleUp]
  /\ UNCHANGED <<active, reg, entry, sess, poll, hb, quic, signal, stalls>>

-------------------------------------------------------------------------------
(* Liveness bookkeeping and the heartbeat supervisor.                      *)

\* A poll body that drains the channel the registry's senders use.
Served(c) ==
  \E p \in Poll : /\ poll[p].pc = "body" /\ poll[p].conn = c
                  /\ poll[p].sess = entry
                  /\ poll[p].gen = sess[entry].gen
                  /\ sess[entry].circ = c

\* No Ping of this session can be answered: its connection was abandoned, or
\* the agent's only poll body drains another channel, for good.
Deaf(s) ==
  \/ sess[s].circ \notin active
  \/ \E p \in Poll : /\ poll[p].pc = "body" /\ poll[p].conn = sess[s].circ
                     /\ poll[p].sess # s
                     /\ poll[p].gen = sess[poll[p].sess].gen
                     /\ \A k \in Signal : signal[k].sess # poll[p].sess

\* last_pong passes the dead line: certain when the session is deaf, an
\* outage of the path (bounded) otherwise.
PongAges(s) ==
  /\ s \in DOMAIN sess /\ ~sess[s].aged
  /\ \/ Deaf(s) /\ UNCHANGED stalls
     \/ ~Deaf(s) /\ stalls < MaxStalls /\ stalls' = stalls + 1
  /\ sess' = [sess EXCEPT ![s].aged = TRUE]
  /\ UNCHANGED <<active, reg, entry, poll, up, hb, quic, signal>>

\* The supervisor awaits the removal it started before it goes on.
HbSnapshot ==
  /\ hb = None /\ entry # None
  /\ \A k \in Signal : signal[k].kind # "heartbeat"
  /\ hb' = entry
  /\ UNCHANGED <<active, reg, entry, sess, poll, up, quic, signal, stalls>>

\* One read of the snapshotted session decides and arms the witness.
HbVisit(k) ==
  /\ hb # None
  /\ IF sess[hb].quic = None /\ sess[hb].aged
     THEN Fire(k, "heartbeat", hb, sess[hb].circ, sess[hb].circ)
     ELSE UNCHANGED signal
  /\ hb' = None
  /\ UNCHANGED <<active, reg, entry, sess, poll, up, quic, stalls>>

-------------------------------------------------------------------------------
(* Other death signals.                                                    *)

\* frame_data: a send to this agent timed out, on a data channel whose
\* receiver still exists (parked at the entry, or owned by some poll).
SendTimeout(k) ==
  /\ entry # None
  /\ stalls < MaxStalls /\ stalls' = stalls + 1
  /\ signal[k].pc = "idle"
  /\ \E c \in {sess[s].circ : s \in {x \in {entry} : sess[x].rx # None}}
           \cup {poll[p].conn : p \in {q \in Poll : poll[q].pc \in Holding}} :
       signal' = [signal EXCEPT ![k] = [IdleSignal EXCEPT
                    !.pc = "resolve", !.kind = "send_timeout", !.about = c]]
  /\ UNCHANGED <<active, reg, entry, sess, poll, up, hb, quic>>

\* evict_agent_by_id: the witness is resolved from the registry now.
EvictById(k) ==
  /\ signal[k].pc = "resolve"
  /\ signal' = [signal EXCEPT ![k] =
                  IF entry = None THEN IdleSignal
                  ELSE [@ EXCEPT !.pc = "fire", !.sess = entry, !.circ = sess[entry].circ]]
  /\ UNCHANGED <<active, reg, entry, sess, poll, up, hb, quic, stalls>>

\* control_send counted a backlog at the sentinel and nudges the session
\* registered by now (not necessarily the one whose channel it counted).
Nudge ==
  /\ entry # None /\ InGen(entry)
  /\ stalls < MaxStalls /\ stalls' = stalls + 1
  /\ sess' = [sess EXCEPT ![entry] = Nudged(@)]
  /\ UNCHANGED <<active, reg, entry, poll, up, hb, quic, signal>>

\* Mutant: Arc identity only.
SpeaksByArc(k) == entry = signal[k].sess

\* remove_agent_if_current, registry section: Arc identity, then circuit.
Speaks(k) == entry = signal[k].sess /\ sess[signal[k].sess].circ = signal[k].circ

Funnel(k) ==
  /\ signal[k].pc = "fire"
  /\ entry' = IF Speaks(k) THEN None ELSE entry
  /\ signal' = [signal EXCEPT ![k] =
                  IF entry = @.sess /\ ~Speaks(k) THEN IdleSignal
                  ELSE [@ EXCEPT !.pc = "sever"]]
  /\ UNCHANGED <<active, reg, sess, poll, up, hb, quic, stalls>>

\* ... and the session section, after the registry lock is released.
Sever(k) ==
  /\ signal[k].pc = "sever" /\ InGen(signal[k].sess)
  /\ sess' = [sess EXCEPT ![signal[k].sess] = Terminate(@)]
  /\ signal' = [signal EXCEPT ![k] = IdleSignal]
  /\ UNCHANGED <<active, reg, entry, poll, up, hb, quic, stalls>>

-------------------------------------------------------------------------------
(* QUIC connections.                                                       *)

QuicRegister(c) ==
  /\ c \in QuicConn /\ reg[c] = "sent"
  /\ \E s \in Sess : /\ Enter(c, c, s)
                     /\ quic' = [quic EXCEPT ![c].sess = s]
  /\ reg' = [reg EXCEPT ![c] = "acking"]
  /\ UNCHANGED <<active, poll, up, hb, signal, stalls>>

\* HelloAck written: the connection's heartbeat starts.
QuicAck(c) ==
  /\ reg[c] = "acking"
  /\ reg' = [reg EXCEPT ![c] = "arming"]
  /\ quic' = [quic EXCEPT ![c].beat = TRUE]
  /\ UNCHANGED <<active, entry, sess, poll, up, hb, signal, stalls>>

\* HelloAck not written: register_quic_agent returns None, so neither the
\* heartbeat nor the connection-lost watcher is ever started.
QuicAckFails(c) ==
  /\ reg[c] = "acking" /\ c \notin active
  /\ reg' = [reg EXCEPT ![c] = "abandoned"]
  /\ UNCHANGED <<active, entry, sess, poll, up, hb, quic, signal, stalls>>

\* handle_connection reads the captured Arc's circuit for the watcher.
QuicArm(c) ==
  /\ reg[c] = "arming"
  /\ reg' = [reg EXCEPT ![c] = "watched"]
  /\ quic' = [quic EXCEPT ![c].armed = sess[quic[c].sess].circ]
  /\ UNCHANGED <<active, entry, sess, poll, up, hb, signal, stalls>>

QuicClosed(c, k) ==
  /\ reg[c] = "watched" /\ c \notin active
  /\ Fire(k, "watcher", quic[c].sess, quic[c].armed, c)
  /\ reg' = [reg EXCEPT ![c] = "gone"]
  /\ quic' = [quic EXCEPT ![c].beat = FALSE]
  /\ UNCHANGED <<active, entry, sess, poll, up, hb, stalls>>

\* One tick of spawn_quic_heartbeat: the circuit is read before the Ping is
\* written, last_pong after.
QuicTick(c) ==
  /\ quic[c].beat /\ quic[c].tick = None
  /\ quic' = [quic EXCEPT ![c].tick = sess[quic[c].sess].circ]
  /\ UNCHANGED <<active, reg, entry, sess, poll, up, hb, signal, stalls>>

QuicJudge(c, k) ==
  /\ quic[c].tick # None
  /\ IF sess[quic[c].sess].aged
     THEN /\ Fire(k, "quic_heartbeat", quic[c].sess, quic[c].tick, quic[c].tick)
          /\ quic' = [quic EXCEPT ![c].tick = None, ![c].beat = FALSE]
          /\ active' = active \ {c}
     ELSE /\ quic' = [quic EXCEPT ![c].tick = None]
          /\ UNCHANGED <<signal, active>>
  /\ UNCHANGED <<reg, entry, sess, poll, up, hb, stalls>>

\* A Pong on the control stream refreshes the captured Arc.
QuicPong(c) ==
  /\ reg[c] \in {"arming", "watched"} /\ c \in active
  /\ sess' = [sess EXCEPT ![quic[c].sess].aged = FALSE]
  /\ UNCHANGED <<active, reg, entry, poll, up, hb, quic, signal, stalls>>

-------------------------------------------------------------------------------
PollStep(p) ==
  \/ PollLookup(p) \/ PollImplicit(p) \/ PollCheck(p) \/ PollTakeParked(p)
  \/ PollRecreate(p) \/ PollBusy(p) \/ PollAborted(p)
  \/ BodyStale(p) \/ BodyDropped(p) \/ ReturnReceivers(p)
  \/ \E k \in Signal : GraceExpires(p, k)

UpStep(u) ==
  \/ UpLookup(u) \/ UpImplicit(u) \/ UpCheck(u) \/ UpLease(u)
  \/ UpEnds(u) \/ UpAborted(u)

HbStep == HbSnapshot \/ \E k \in Signal : HbVisit(k)

SignalStep(k) == EvictById(k) \/ Funnel(k) \/ Sever(k)

QuicStep(c) ==
  \/ QuicRegister(c) \/ QuicAck(c) \/ QuicAckFails(c) \/ QuicArm(c)
  \/ QuicTick(c) \/ \E k \in Signal : QuicClosed(c, k) \/ QuicJudge(c, k)

Next ==
  \/ \E c \in Conn : Dial(c) \/ Disconnect(c)
  \/ \E c \in H2Conn : Register(c)
  \/ \E p \in Poll : PollStep(p) \/ \E c \in H2Conn : PollSend(p, c)
  \/ \E u \in Up : UpStep(u) \/ UpPong(u) \/ \E c \in H2Conn : UpSend(u, c)
  \/ \E s \in Sess : PongAges(s)
  \/ HbStep \/ Nudge
  \/ \E k \in Signal : SignalStep(k) \/ SendTimeout(k)
  \/ \E c \in QuicConn : QuicStep(c) \/ QuicPong(c)

Spec == Init /\ [][Next]_vars

\* What the code's scheduling guarantees.  Hub tasks are polled to
\* completion; the agent's poll and upload loops retry for ever; the heartbeat
\* supervisor ticks for ever and an unanswerable session's Pong does age.
Fairness ==
  /\ \A p \in Poll : WF_vars(PollStep(p)) /\ \A c \in H2Conn : WF_vars(PollSend(p, c))
  /\ \A u \in Up : WF_vars(UpStep(u)) /\ \A c \in H2Conn : WF_vars(UpSend(u, c))
  /\ \A c \in H2Conn : WF_vars(Register(c))
  /\ \A s \in Sess : WF_vars(PongAges(s) /\ Deaf(s))
  /\ WF_vars(HbStep)
  /\ \A k \in Signal : WF_vars(SignalStep(k))
  /\ \A c \in QuicConn : WF_vars(QuicStep(c))

\* The agent's receive watchdog (drain_poll_response): a poll body on which
\* no Ping can arrive is silent, and silence cancels the agent's session.
Watchdog(c) ==
  /\ \E p \in Poll : poll[p].pc = "body" /\ poll[p].conn = c
  /\ ~Served(c)
  /\ Disconnect(c)

\* Heartbeats disabled on the agent side: nobody watches for silence.
LiveSpec == Spec /\ Fairness

WatchedSpec == LiveSpec /\ \A c \in H2Conn : WF_vars(Watchdog(c))

-------------------------------------------------------------------------------
(* Properties.                                                             *)

Arc == DOMAIN sess \cup {None}
PollSlot == [pc: PollPC, conn: H2Conn \cup {None}, sess: Arc, gen: Nat, chan: Nat]
UpSlot == [pc: UpPC, conn: H2Conn \cup {None}, sess: Arc]
QuicSlot == [sess: Arc, armed: Conn \cup {None}, beat: BOOLEAN, tick: Conn \cup {None}]
SignalSlot == [pc: SignalPC, kind: Kind, sess: Arc, circ: Conn \cup {None},
               about: Conn \cup {None}]

\* Whatever is under way refers to an allocated session, and to one at all
\* from the point where the code holds it.
TypeOK ==
  /\ active \subseteq Conn /\ reg \in [Conn -> RegPhase] /\ stalls \in Nat
  /\ DOMAIN sess \subseteq Sess /\ sess \in [DOMAIN sess -> Session]
  /\ entry \in Arc /\ hb \in Arc
  /\ poll \in [Poll -> PollSlot]
  /\ \A p \in Poll : /\ poll[p].pc # "idle" => poll[p].conn # None
                     /\ poll[p].pc \notin {"idle", "sent", "implicit"} => poll[p].sess # None
  /\ up \in [Up -> UpSlot]
  /\ \A u \in Up : /\ up[u].pc # "idle" => up[u].conn # None
                   /\ up[u].pc \notin {"idle", "sent", "implicit"} => up[u].sess # None
  /\ quic \in [QuicConn -> QuicSlot]
  /\ \A c \in QuicConn : (reg[c] \notin {"new", "sent"} \/ quic[c].beat \/ quic[c].tick # None) =>
       quic[c].sess # None
  /\ signal \in [Signal -> SignalSlot]
  /\ \A k \in Signal : signal[k].pc \in {"fire", "sever"} => signal[k].sess # None

\* A receiver parked in a session is always the one its current senders feed:
\* RxStream::drop never gives back a receiver of a channel that register,
\* eviction or a rebuild has replaced (state.rs, Drop for RxStream).
ReceiverMatchesSender ==
  \A s \in DOMAIN sess :
    /\ sess[s].rx # None => sess[s].rx = sess[s].chan
    /\ sess[s].ctrl # None => sess[s].ctrl = sess[s].chan

\* The body of the session's present generation.
Current(p) == poll[p].pc \in Holding /\ poll[p].gen = sess[poll[p].sess].gen

\* A poll body that passes the generation self-check of poll_next drains the
\* very channel the session's senders feed, and no other body passes it: one
\* consumer per registration, whatever was replaced under the earlier ones
\* (handle_poll, RxStream::drop, install_channels).
SingleConsumer ==
  \A p \in Poll : Current(p) =>
    /\ poll[p].chan = sess[poll[p].sess].chan
    /\ sess[poll[p].sess].rx = None
    /\ \A q \in Poll : Current(q) /\ poll[q].sess = poll[p].sess => q = p

\* An upload lease never outlives its reader, so 409 Upload busy is answered
\* only while the earlier /stream/up body is still being read (upload_reader,
\* install_channels and terminate each take it back).
LeaseHeldByReader ==
  \A s \in DOMAIN sess : \A u \in Up :
    sess[s].lease = u => up[u].pc = "reading" /\ up[u].sess = s

\* The signal that empties the registry in this step, if any.
Evicting(k) == signal[k].pc = "fire" /\ signal'[k].pc = "sever"
               /\ entry = signal[k].sess /\ entry' = None

\* A registration is removed by the poll-grace timer only after its own
\* connection was abandoned, and by a heartbeat only for its own Pong outage:
\* a re-registration in between voids the removal, whichever shape it takes
\* (remove_agent_if_current).
SparesSuccessor ==
  \A k \in Signal : Evicting(k) =>
    /\ signal[k].kind = "grace" => sess[entry].circ \notin active
    /\ signal[k].kind \in {"grace", "heartbeat", "quic_heartbeat"} =>
         sess[entry].circ = signal[k].about

\* Every step of every death signal spares the successor of its registration.
SuccessorSpared == [][SparesSuccessor]_vars

\* terminate() only ever hits an Arc that is no longer registered, although
\* the registry lock is released before it runs.
SparesEntry ==
  \A k \in Signal : signal[k].pc = "sever" /\ signal'[k].pc = "idle" => signal[k].sess # entry

\* No terminate() of remove_agent_if_current severs the registered session.
SeverSparesEntry == [][SparesEntry]_vars

\* An agent that stays connected is served again whatever was evicted under
\* it, or its own watchdog makes it reconnect.
Recovers ==
  \A c \in H2Conn :
    (c \in active /\ reg[c] = "registered") ~> (Served(c) \/ c \notin active)

\* The channels of a registration: receivers stay with the senders they were
\* made with, and one body at most drains them.
ChannelsSound == ReceiverMatchesSender /\ SingleConsumer

\* What a death signal may remove: never a successor of the registration it
\* witnessed, and never the connection of the registered session.
RemovalsSound == SuccessorSpared /\ SeverSparesEntry
===============================================================================
