------------------------------ MODULE HubStreams ------------------------------
(***************************************************************************)
(* The hub's stream table: opening, closing and sweeping tunnel streams    *)
(* between agents, the per-agent slot counters, and what the two endpoints *)
(* of a stream are told.                                                   *)
(*                                                                         *)
(* Code: crates/mesh/src/hub/{routing,registration,control,quic,state}.rs. *)
(* How a registration itself is replaced or removed is in HubSession; here *)
(* it is one step that starts the sweep of the agent's streams.  An agent  *)
(* is on one plane: h2 (poll channels) or QUIC (one relay stream per       *)
(* tunnel stream).                                                         *)
(***************************************************************************)
EXTENDS Naturals, Sequences, FiniteSets

CONSTANTS
  Agent, Stream,
  Src, Tgt,        \* source and target agent of every stream
  Quic,            \* agents on the QUIC plane
  Restarting,      \* agents that lose their connection or registration
  Sweeper,         \* slots for running sweeps
  MaxPerAgent,     \* max_streams_per_agent (0: unlimited)
  MaxTotal,        \* max_streams_total (0: unlimited)
  MaxCircuit,      \* bound on the registrations of one agent
  MaxQueue,        \* bound on the notifications queued by repeated Data frames
  EvictsLive,      \* death signals also hit agents whose connection works
  Drops            \* a /register handler may be dropped with its connection

ASSUME StreamsAssumption ==
  /\ Src \in [Stream -> Agent] /\ Tgt \in [Stream -> Agent]
  /\ Quic \subseteq Agent /\ Restarting \subseteq Agent
  /\ IsFiniteSet(Stream)
  /\ MaxPerAgent \in Nat /\ MaxTotal \in Nat /\ MaxCircuit \in Nat /\ MaxQueue \in Nat
  /\ EvictsLive \in BOOLEAN /\ Drops \in BOOLEAN

VARIABLES
  conn,     \* circuit of the agent's working connection, 0 if none
  newest,   \* circuit of its latest registration
  circ,     \* circuit in the registry, 0 if not registered
  table,    \* HubState::active_streams
  count,    \* HubState::stream_counts
  open,     \* handlers of Open frames
  closer,   \* handlers of Close frames and relay ends, per side of the stream
  sweep,    \* running sweep_agent_streams
  ctl, dat, \* control and data channel of the agent's poll session
  src, tgt, \* the stream as its two endpoints know it
  tgtc      \* connection on which the target holds the stream

reg == <<conn, newest, circ>>
ends == <<src, tgt, tgtc>>
vars == <<conn, newest, circ, table, count, open, closer, sweep, ctl, dat, src, tgt, tgtc>>

Side == {"src", "tgt"}
Holder(s, d) == IF d = "src" THEN Src[s] ELSE Tgt[s]

IdleOpen == [pc |-> "new", sc |-> 0, tc |-> 0, face |-> "poll"]
IdleCloser == [pc |-> "none", face |-> "poll"]
IdleSweep == [pc |-> "idle", agent |-> "none", kind |-> "evict", of |-> 0, reset |-> FALSE, peers |-> {}]

Init ==
  /\ conn = [a \in Agent |-> 1] /\ newest = [a \in Agent |-> 1] /\ circ = [a \in Agent |-> 1]
  /\ table = [s \in {} |-> {}]
  /\ count = [a \in Agent |-> 0]
  /\ open = [s \in Stream |-> IdleOpen]
  /\ closer = [s \in Stream |-> [d \in Side |-> IdleCloser]]
  /\ sweep = [k \in Sweeper |-> IdleSweep]
  /\ ctl = [a \in Agent |-> <<>>] /\ dat = [a \in Agent |-> <<>>]
  /\ src = [s \in Stream |-> "none"] /\ tgt = [s \in Stream |-> "none"]
  /\ tgtc = [s \in Stream |-> 0]

-------------------------------------------------------------------------------
(* Channels, slots and the table.                                          *)

Note(kind, s) == [kind |-> kind, s |-> s]

\* lookup_channels: a registered h2 agent.
PollPlane(a) == circ[a] # 0 /\ a \notin Quic

\* The registration was answered: the handler answers after its sweep.
Ready(a) ==
  /\ conn[a] # 0
  /\ \A k \in Sweeper : sweep[k].pc = "idle" \/ sweep[k].agent # a
                        \/ sweep[k].kind # "register" \/ sweep[k].of # conn[a]

\* The circuit of the connection on which a side holds the stream.
Circuit(s, d) == IF d = "src" THEN open[s].sc ELSE tgtc[s]

\* upload_reader handles the frames of one h2 connection one by one; the
\* relay streams of a QUIC connection are handled independently.
ReaderFree(s, d) ==
  Holder(s, d) \notin Quic =>
    \A x \in Stream :
      /\ Src[x] = Holder(s, d) /\ open[x].sc = Circuit(s, d)
           => open[x].pc \in {"new", "check", "done", "refused"}
      /\ \A e \in Side : Holder(x, e) = Holder(s, d) /\ Circuit(x, e) = Circuit(s, d)
           => closer[x][e].pc \in {"none", "sent"}

\* deliver_control; nothing is sent to an agent without a poll session.
Post(q, a, n) == IF PollPlane(a) THEN [q EXCEPT ![a] = Append(@, n)] ELSE q

\* Mutant: the counter is left alone.
ReleaseForgotten(a) == count

\* Mutant: the counter goes below zero.
ReleaseUnchecked(a) == [count EXCEPT ![a] = @ - 1]

\* release_stream_slot: saturating.
Release(a) == [count EXCEPT ![a] = IF @ = 0 THEN 0 ELSE @ - 1]

Without(f, S) == [s \in DOMAIN f \ S |-> f[s]]

OpenTo(s, pc) == open' = [open EXCEPT ![s].pc = pc]

-------------------------------------------------------------------------------
(* Open: frame_open (h2 source) and handle_quic_stream (QUIC source).      *)

OpenSend(s) ==
  /\ open[s].pc = "new" /\ Ready(Src[s])
  /\ open' = [open EXCEPT ![s].pc = "check", ![s].sc = conn[Src[s]]]
  /\ src' = [src EXCEPT ![s] = "held"]
  /\ UNCHANGED <<reg, table, count, closer, sweep, ctl, dat, tgt, tgtc>>

\* Circuit and route lease: both die with a newer registration of the source.
OpenCheck(s) ==
  /\ open[s].pc = "check" /\ ReaderFree(s, "src")
  /\ OpenTo(s, IF newest[Src[s]] = open[s].sc THEN "admit" ELSE "reject")
  /\ UNCHANGED <<reg, table, count, closer, sweep, ctl, dat, ends>>

\* admit_stream: the table's size, then try_acquire_stream_slot.
Admit(s) ==
  /\ open[s].pc = "admit"
  /\ MaxTotal = 0 \/ Cardinality(DOMAIN table) < MaxTotal
  /\ MaxPerAgent = 0 \/ count[Src[s]] < MaxPerAgent
  /\ count' = IF MaxPerAgent = 0 THEN count ELSE [count EXCEPT ![Src[s]] = @ + 1]
  /\ OpenTo(s, "resolve")
  /\ UNCHANGED <<reg, table, closer, sweep, ctl, dat, ends>>

\* ... or tenant policy or a cap refuses.
Refuse(s) ==
  /\ open[s].pc = "admit"
  /\ OpenTo(s, "reject")
  /\ UNCHANGED <<reg, table, count, closer, sweep, ctl, dat, ends>>

Resolved(s, face) ==
  open' = [open EXCEPT ![s].pc = "insert", ![s].tc = circ[Tgt[s]], ![s].face = face]

\* The target is not registered: an h2 source goes on and lets the
\* notification fail, a QUIC source is refused here.
ResolveMissing(s) ==
  /\ open[s].pc = "resolve" /\ circ[Tgt[s]] = 0
  /\ IF Src[s] \in Quic THEN OpenTo(s, "release") ELSE Resolved(s, "poll")
  /\ UNCHANGED <<reg, table, count, closer, sweep, ctl, dat, ends>>

\* An h2 target.  A QUIC source notifies it now, on the data channel.
ResolvePoll(s) ==
  /\ open[s].pc = "resolve" /\ PollPlane(Tgt[s])
  /\ Resolved(s, "poll")
  /\ dat' = IF Src[s] \in Quic THEN Post(dat, Tgt[s], Note("open", s)) ELSE dat
  /\ UNCHANGED <<reg, table, count, closer, sweep, ctl, ends>>

\* The data channel of the target took no frame in time.
ResolvePollFails(s) ==
  /\ open[s].pc = "resolve" /\ PollPlane(Tgt[s]) /\ Src[s] \in Quic
  /\ OpenTo(s, "release")
  /\ UNCHANGED <<reg, table, count, closer, sweep, ctl, dat, ends>>

\* open_relay_stream writes the Open and starts the target's read pump.
ResolveRelay(s) ==
  LET t == Tgt[s] IN
  /\ open[s].pc = "resolve" /\ circ[t] # 0 /\ t \in Quic
  /\ Resolved(s, "relay")
  /\ IF conn[t] = circ[t]
     THEN /\ tgt' = [tgt EXCEPT ![s] = "opened"]
          /\ tgtc' = [tgtc EXCEPT ![s] = circ[t]]
          /\ UNCHANGED closer
     ELSE /\ closer' = [closer EXCEPT ![s]["tgt"].pc = "remove"]
          /\ UNCHANGED <<tgt, tgtc>>
  /\ UNCHANGED <<reg, table, count, sweep, ctl, dat, src>>

\* open_relay_stream fails on a dead connection: no sink, no error.
ResolveRelayFails(s) ==
  /\ open[s].pc = "resolve" /\ circ[Tgt[s]] # 0 /\ Tgt[s] \in Quic
  /\ conn[Tgt[s]] # circ[Tgt[s]]
  /\ Resolved(s, "poll")
  /\ UNCHANGED <<reg, table, count, closer, sweep, ctl, dat, ends>>

OpenInsert(s) ==
  /\ open[s].pc = "insert"
  /\ table' = [x \in DOMAIN table \cup {s} |->
                 IF x = s THEN [sc |-> open[s].sc, tc |-> open[s].tc, face |-> open[s].face]
                 ELSE table[x]]
  /\ OpenTo(s, IF Src[s] \in Quic THEN "done" ELSE "notify")
  /\ UNCHANGED <<reg, count, closer, sweep, ctl, dat, ends>>

\* Mutant: the notification may get lost and nobody notices.
OpenNotifyLossy(s) ==
  /\ open[s].pc = "notify"
  /\ OpenTo(s, "done")
  /\ ctl' \in {ctl, Post(ctl, Tgt[s], Note("open", s))}
  /\ UNCHANGED <<reg, table, count, closer, sweep, dat, ends>>

\* frame_open tells the target, on the control channel; a relay target knows.
OpenNotify(s) ==
  LET relay == open[s].face = "relay" IN
  /\ open[s].pc = "notify"
  /\ OpenTo(s, IF relay \/ PollPlane(Tgt[s]) THEN "done" ELSE "rollback")
  /\ ctl' = IF relay THEN ctl ELSE Post(ctl, Tgt[s], Note("open", s))
  /\ UNCHANGED <<reg, table, count, closer, sweep, dat, ends>>

\* The entry may have been swept meanwhile; the slot is released all the same.
OpenRollback(s) ==
  /\ open[s].pc = "rollback"
  /\ table' = Without(table, {s})
  /\ OpenTo(s, "release")
  /\ UNCHANGED <<reg, count, closer, sweep, ctl, dat, ends>>

OpenRelease(s) ==
  /\ open[s].pc = "release"
  /\ count' = Release(Src[s])
  /\ OpenTo(s, "reject")
  /\ UNCHANGED <<reg, table, closer, sweep, ctl, dat, ends>>

\* notify_sender_close, or write_close_frame on the source's own stream.
OpenReject(s) ==
  /\ open[s].pc = "reject"
  /\ OpenTo(s, "refused")
  /\ ctl' = Post(ctl, Src[s], Note("reject", s))
  /\ src' = IF Src[s] \in Quic THEN [src EXCEPT ![s] = "done"] ELSE src
  /\ UNCHANGED <<reg, table, count, closer, sweep, dat, tgt, tgtc>>

-------------------------------------------------------------------------------
(* Endpoints.                                                              *)

\* The side still holds the stream, on its working connection.
Holds(s, d) ==
  /\ IF d = "src" THEN src[s] = "held" ELSE tgt[s] \in {"opened", "up"}
  /\ conn[Holder(s, d)] = Circuit(s, d)

EndHere(s, d) ==
  IF d = "src" THEN src' = [src EXCEPT ![s] = "done"] /\ UNCHANGED <<tgt, tgtc>>
  ELSE tgt' = [tgt EXCEPT ![s] = "done"] /\ UNCHANGED <<src, tgtc>>

\* Frames of one source are handled in order: nothing follows an Open that
\* is still being handled.
Heard(s, d) == d = "src" => open[s].pc \in {"done", "refused"}

\* The inner handshake: frames of both directions were routed.
Handshake(s) ==
  /\ s \in DOMAIN table /\ open[s].pc = "done" /\ tgt[s] = "opened"
  /\ Holds(s, "src") /\ Holds(s, "tgt") /\ table[s].tc = tgtc[s]
  /\ circ[Src[s]] # 0 /\ circ[Tgt[s]] # 0 /\ Ready(Tgt[s])
  /\ tgt' = [tgt EXCEPT ![s] = "up"]
  /\ UNCHANGED <<reg, table, count, open, closer, sweep, ctl, dat, src, tgtc>>

\* An endpoint ends the stream: client or backend closed, a timeout.
EndpointCloses(s, d) ==
  /\ Holds(s, d) /\ Heard(s, d) /\ Ready(Holder(s, d)) /\ closer[s][d].pc = "none"
  /\ EndHere(s, d)
  /\ closer' = [closer EXCEPT ![s][d].pc = IF Holder(s, d) \in Quic THEN "remove" ELSE "sent"]
  /\ UNCHANGED <<reg, table, count, open, sweep, ctl, dat>>

\* A Data frame of an h2 endpoint meets no entry, or an entry whose recipient
\* is gone: the sender is told, the entry stays.
DataRejected(s, d) ==
  LET a == Holder(s, d)
      other == IF d = "src" THEN Tgt[s] ELSE Src[s]
      relay == IF d = "src" THEN table[s].face = "relay" ELSE Src[s] \in Quic
      mine == IF d = "src" THEN TRUE ELSE table[s].tc = tgtc[s] IN
  /\ Holds(s, d) /\ Heard(s, d) /\ a \notin Quic /\ ReaderFree(s, d)
  /\ s \in DOMAIN table => mine /\ ~relay /\ circ[other] = 0
  /\ Len(ctl[a]) < MaxQueue
  /\ ctl' = Post(ctl, a, Note("reject", s))
  /\ UNCHANGED <<reg, table, count, open, closer, sweep, dat, ends>>

\* A relay read pump cannot dispatch a frame: it tears the stream down.
RelayRejected(s, d) ==
  LET other == IF d = "src" THEN Tgt[s] ELSE Src[s]
      relay == IF d = "src" THEN table[s].face = "relay" ELSE Src[s] \in Quic IN
  /\ Holds(s, d) /\ Heard(s, d) /\ Holder(s, d) \in Quic /\ closer[s][d].pc = "none"
  /\ s \in DOMAIN table /\ ~relay /\ circ[other] = 0
  /\ closer' = [closer EXCEPT ![s][d].pc = "remove"]
  /\ UNCHANGED <<reg, table, count, open, sweep, ctl, dat, ends>>

\* The agent's poll delivers its next notification, control channel first.
\* A Close is for the request table if that has the stream; the source side
\* answers any Close with its own, the target side only a rejection.
Deliver(a) ==
  LET q == IF ctl[a] # <<>> THEN ctl[a] ELSE dat[a]
      n == Head(q)
      toTgt == Tgt[n.s] = a /\ Holds(n.s, "tgt")
      toSrc == ~toTgt /\ Src[n.s] = a /\ Holds(n.s, "src")
      echo == (toSrc \/ (toTgt /\ n.kind = "reject")) IN
  /\ a \notin Quic /\ Ready(a) /\ conn[a] = circ[a] /\ q # <<>>
  /\ IF ctl[a] # <<>> THEN ctl' = [ctl EXCEPT ![a] = Tail(@)] /\ UNCHANGED dat
     ELSE dat' = [dat EXCEPT ![a] = Tail(@)] /\ UNCHANGED ctl
  /\ IF n.kind = "open"
     THEN /\ tgt' = [tgt EXCEPT ![n.s] = "opened"]
          /\ tgtc' = [tgtc EXCEPT ![n.s] = conn[a]]
          /\ UNCHANGED <<src, closer>>
     ELSE /\ tgt' = IF toTgt THEN [tgt EXCEPT ![n.s] = "done"] ELSE tgt
          /\ src' = IF toSrc THEN [src EXCEPT ![n.s] = "done"] ELSE src
          /\ closer' = IF echo
                       THEN [closer EXCEPT ![n.s][IF toTgt THEN "tgt" ELSE "src"].pc = "sent"]
                       ELSE closer
          /\ UNCHANGED tgtc
  /\ UNCHANGED <<reg, table, count, open, sweep>>

\* relay_stream_writer: the last sender is gone with the entry.
RelayWriterEnds(s, d) ==
  /\ Holds(s, d) /\ Holder(s, d) \in Quic
  /\ s \notin DOMAIN table
  /\ open[s].pc \in {"done", "release", "reject", "refused"}
  /\ EndHere(s, d)
  /\ UNCHANGED <<reg, table, count, open, closer, sweep, ctl, dat>>

\* The connection of a relay endpoint is gone: its read pump ends.
RelayEof(s, d) ==
  /\ Holder(s, d) \in Quic /\ ~Holds(s, d) /\ Heard(s, d) /\ closer[s][d].pc = "none"
  /\ IF d = "src" THEN src[s] = "held" ELSE tgt[s] \in {"opened", "up"}
  /\ EndHere(s, d)
  /\ closer' = [closer EXCEPT ![s][d].pc = "remove"]
  /\ UNCHANGED <<reg, table, count, open, sweep, ctl, dat>>

\* A frame in transit is lost with its connection, or with the upload that an
\* eviction cancels.
FrameLost(s, d) ==
  LET a == Holder(s, d) IN
  /\ a \notin Quic /\ (conn[a] # Circuit(s, d) \/ circ[a] # Circuit(s, d))
  /\ \/ d = "src" /\ open[s].pc = "check" /\ OpenTo(s, "refused") /\ UNCHANGED closer
     \/ closer[s][d].pc = "sent" /\ closer' = [closer EXCEPT ![s][d].pc = "none"] /\ UNCHANGED open
  /\ UNCHANGED <<reg, table, count, sweep, ctl, dat, ends>>

-------------------------------------------------------------------------------
(* Close: frame_close (h2 endpoint) and teardown_stream (relay endpoint).  *)

CloserTo(s, d, pc) == closer' = [closer EXCEPT ![s][d].pc = pc]

\* frame_close: the circuit decides whether the sender owns that end.
CloseRead(s, d) ==
  /\ closer[s][d].pc = "sent" /\ ReaderFree(s, d)
  /\ CloserTo(s, d, IF s \in DOMAIN table /\ (d = "tgt" => table[s].tc = tgtc[s])
                    THEN "remove" ELSE "none")
  /\ UNCHANGED <<reg, table, count, open, sweep, ctl, dat, ends>>

\* Mutant: the slot is given back whether or not the entry was still there.
CloseRemoveAlways(s, d) ==
  /\ closer[s][d].pc = "remove" /\ Holder(s, d) \notin Quic
  /\ table' = Without(table, {s})
  /\ count' = Release(Src[s])
  /\ CloserTo(s, d, "notify")
  /\ UNCHANGED <<reg, open, sweep, ctl, dat, ends>>

\* Entry and slot go together; the peer is notified even if another handler
\* has removed the entry since the circuit was checked.
CloseRemove(s, d) ==
  /\ closer[s][d].pc = "remove" /\ Holder(s, d) \notin Quic
  /\ table' = Without(table, {s})
  /\ count' = IF s \in DOMAIN table THEN Release(Src[s]) ELSE count
  /\ CloserTo(s, d, "notify")
  /\ UNCHANGED <<reg, open, sweep, ctl, dat, ends>>

\* Mutant: a relay end drops the entry and tells nobody on the poll plane.
TeardownQuiet(s, d) ==
  /\ closer[s][d].pc = "remove" /\ Holder(s, d) \in Quic
  /\ table' = Without(table, {s})
  /\ closer' = [closer EXCEPT ![s][d] =
                  IF s \notin DOMAIN table THEN IdleCloser ELSE [pc |-> "release", face |-> "relay"]]
  /\ UNCHANGED <<reg, count, open, sweep, ctl, dat, ends>>

\* teardown_stream: entry first, slot next; face is the peer's plane.
Teardown(s, d) ==
  /\ closer[s][d].pc = "remove" /\ Holder(s, d) \in Quic
  /\ table' = Without(table, {s})
  /\ closer' = [closer EXCEPT ![s][d] =
                  IF s \notin DOMAIN table THEN IdleCloser
                  ELSE [pc |-> "release",
                        face |-> IF d = "src" THEN table[s].face
                                 ELSE IF Src[s] \in Quic THEN "relay" ELSE "poll"]]
  /\ UNCHANGED <<reg, count, open, sweep, ctl, dat, ends>>

TeardownRelease(s, d) ==
  /\ closer[s][d].pc = "release"
  /\ count' = Release(Src[s])
  /\ CloserTo(s, d, IF closer[s][d].face = "poll" THEN "notify" ELSE "none")
  /\ UNCHANGED <<reg, table, open, sweep, ctl, dat, ends>>

\* The target is told on its control channel; the source on its data channel,
\* behind the response, or on the control channel when that is stalled.
CloseNotify(s, d) ==
  /\ closer[s][d].pc = "notify"
  /\ CloserTo(s, d, "none")
  /\ IF d = "src" THEN ctl' = Post(ctl, Tgt[s], Note("close", s)) /\ UNCHANGED dat
     ELSE \/ dat' = Post(dat, Src[s], Note("close", s)) /\ UNCHANGED ctl
          \/ ctl' = Post(ctl, Src[s], Note("close", s)) /\ UNCHANGED dat
  /\ UNCHANGED <<reg, table, count, open, sweep, ends>>

-------------------------------------------------------------------------------
(* Registrations and the sweep of their streams.                           *)

StartSweep(a, kind, of) ==
  \E k \in Sweeper :
    /\ sweep[k].pc = "idle"
    /\ sweep' = [sweep EXCEPT ![k] = [IdleSweep EXCEPT !.pc = "retain", !.agent = a,
                                                      !.kind = kind, !.of = of]]

FreshChannels(a) == ctl' = [ctl EXCEPT ![a] = <<>>] /\ dat' = [dat EXCEPT ![a] = <<>>]

Disconnect(a) ==
  /\ a \in Restarting /\ conn[a] # 0
  /\ conn' = [conn EXCEPT ![a] = 0]
  /\ UNCHANGED <<newest, circ, table, count, open, closer, sweep, ctl, dat, ends>>

\* handle_register, register_quic_agent.
Connect(a) ==
  /\ a \in Restarting /\ conn[a] = 0 /\ newest[a] < MaxCircuit
  /\ newest' = [newest EXCEPT ![a] = @ + 1]
  /\ conn' = [conn EXCEPT ![a] = newest[a] + 1]
  /\ circ' = [circ EXCEPT ![a] = newest[a] + 1]
  /\ FreshChannels(a) /\ StartSweep(a, "register", newest[a] + 1)
  /\ UNCHANGED <<table, count, open, closer, ends>>

\* remove_agent_if_current, for a connection that is gone or seems so.
Evict(a) ==
  /\ a \in Restarting /\ circ[a] # 0
  /\ conn[a] # circ[a] \/ (EvictsLive /\ a \notin Quic)
  /\ circ' = [circ EXCEPT ![a] = 0]
  /\ FreshChannels(a) /\ StartSweep(a, "evict", circ[a])
  /\ UNCHANGED <<conn, newest, table, count, open, closer, ends>>

\* implicit_re_register: the connection was alive after all.
Reinsert(a) ==
  /\ a \notin Quic /\ Ready(a) /\ circ[a] = 0
  /\ circ' = [circ EXCEPT ![a] = conn[a]]
  /\ FreshChannels(a) /\ StartSweep(a, "implicit", conn[a])
  /\ UNCHANGED <<conn, newest, table, count, open, closer, ends>>

\* sweep_agent_streams, under the table's lock.
Swept(a) == {s \in DOMAIN table : Src[s] = a \/ Tgt[s] = a}

\* Mutant: the sweep tells nobody.
SweepPeersNone(a) == {}

\* The ends on the poll plane that the sweep tells; never the agent itself.
SweepPeers(a) ==
  {s \in Swept(a) : /\ Src[s] # Tgt[s]
                    /\ IF Src[s] = a THEN table[s].face = "poll" ELSE Src[s] \notin Quic}

SweepRetain(k) ==
  LET a == sweep[k].agent IN
  /\ sweep[k].pc = "retain"
  /\ table' = Without(table, Swept(a))
  /\ sweep' = [sweep EXCEPT ![k].pc = "reset",
                            ![k].reset = \E s \in Swept(a) : Src[s] = a,
                            ![k].peers = SweepPeers(a)]
  /\ UNCHANGED <<reg, count, open, closer, ctl, dat, ends>>

\* The counter is reset if the agent was the source of a swept stream; the
\* sources of the streams swept because of their target keep theirs.
SweepReset(k) ==
  /\ sweep[k].pc = "reset"
  /\ count' = IF sweep[k].reset THEN [count EXCEPT ![sweep[k].agent] = 0] ELSE count
  /\ sweep' = [sweep EXCEPT ![k].pc = "notify"]
  /\ UNCHANGED <<reg, table, open, closer, ctl, dat, ends>>

Peer(k, s) == IF Src[s] = sweep[k].agent THEN Tgt[s] ELSE Src[s]

SweepNotify(k) ==
  /\ sweep[k].pc = "notify"
  /\ IF sweep[k].peers = {}
     THEN sweep' = [sweep EXCEPT ![k] = IdleSweep] /\ UNCHANGED ctl
     ELSE \E s \in sweep[k].peers :
            /\ ctl' = Post(ctl, Peer(k, s), Note("close", s))
            /\ sweep' = [sweep EXCEPT ![k].peers = @ \ {s}]
  /\ UNCHANGED <<reg, table, count, open, closer, dat, ends>>

\* The handler is dropped at an await: its connection is gone again.
SweepDropped(k) ==
  /\ Drops /\ sweep[k].pc \in {"retain", "notify"}
  /\ sweep[k].kind # "evict" /\ conn[sweep[k].agent] # sweep[k].of
  /\ sweep' = [sweep EXCEPT ![k] = IdleSweep]
  /\ UNCHANGED <<reg, table, count, open, closer, ctl, dat, ends>>

-------------------------------------------------------------------------------
OpenStep(s) ==
  \/ OpenCheck(s) \/ Admit(s) \/ Refuse(s)
  \/ ResolveMissing(s) \/ ResolvePoll(s) \/ ResolvePollFails(s)
  \/ ResolveRelay(s) \/ ResolveRelayFails(s)
  \/ OpenInsert(s) \/ OpenNotify(s) \/ OpenRollback(s) \/ OpenRelease(s) \/ OpenReject(s)

CloseStep(s, d) ==
  \/ CloseRead(s, d) \/ CloseRemove(s, d) \/ Teardown(s, d) \/ TeardownRelease(s, d)
  \/ CloseNotify(s, d) \/ RelayWriterEnds(s, d) \/ RelayEof(s, d)

SweepStep(k) == SweepRetain(k) \/ SweepReset(k) \/ SweepNotify(k)

Next ==
  \/ \E s \in Stream : OpenSend(s) \/ OpenStep(s) \/ Handshake(s)
  \/ \E s \in Stream, d \in Side :
       CloseStep(s, d) \/ FrameLost(s, d) \/ EndpointCloses(s, d) \/ DataRejected(s, d) \/ RelayRejected(s, d)
  \/ \E a \in Agent : Deliver(a) \/ Disconnect(a) \/ Connect(a) \/ Evict(a) \/ Reinsert(a)
  \/ \E k \in Sweeper : SweepStep(k) \/ SweepDropped(k)

Spec == Init /\ [][Next]_vars

\* Handlers run on, polls are delivered, and the heartbeat removes the
\* registration of a connection that is gone.
Fairness ==
  /\ \A s \in Stream : WF_vars(OpenStep(s)) /\ \A d \in Side : WF_vars(CloseStep(s, d))
  /\ \A k \in Sweeper : WF_vars(SweepStep(k))
  /\ \A a \in Agent : WF_vars(Deliver(a)) /\ WF_vars(Evict(a) \/ Reinsert(a))
LiveSpec == Spec /\ Fairness

-------------------------------------------------------------------------------
(* Properties.                                                             *)

OpenPC == {"new", "check", "admit", "resolve", "insert", "notify", "done",
           "rollback", "release", "reject", "refused"}
Face == {"poll", "relay"}
NoteSet == [kind: {"open", "close", "reject"}, s: Stream]

\* Every table, handler and channel holds what the code puts there, and only
\* endpoints that were told of a stream hold it.
TypeOK ==
  /\ conn \in [Agent -> Nat] /\ newest \in [Agent -> Nat] /\ circ \in [Agent -> Nat]
  /\ DOMAIN table \subseteq Stream
  /\ table \in [DOMAIN table -> [sc: Nat, tc: Nat, face: Face]]
  /\ count \in [Agent -> Nat]
  /\ open \in [Stream -> [pc: OpenPC, sc: Nat, tc: Nat, face: Face]]
  /\ closer \in [Stream -> [Side -> [pc: {"none", "sent", "remove", "release", "notify"}, face: Face]]]
  /\ sweep \in [Sweeper -> [pc: {"idle", "retain", "reset", "notify"}, agent: Agent \cup {"none"},
                            kind: {"register", "implicit", "evict"}, of: Nat, reset: BOOLEAN, peers: SUBSET Stream]]
  /\ \A k \in Sweeper : sweep[k].pc # "idle" => sweep[k].agent \in Agent
  /\ ctl \in [Agent -> Seq(NoteSet)] /\ dat \in [Agent -> Seq(NoteSet)]
  /\ src \in [Stream -> {"none", "held", "done"}]
  /\ tgt \in [Stream -> {"none", "opened", "up", "done"}]
  /\ tgtc \in [Stream -> Nat]

\* The streams for which an agent's counter stands: in the table, on the way
\* into it, or already out of it with the release still to come.
HasSlot(s) ==
  \/ s \in DOMAIN table
  \/ open[s].pc \in {"resolve", "insert", "rollback", "release"}
  \/ \E d \in Side : closer[s][d].pc = "release"
Slots(a) == {s \in Stream : Src[s] = a /\ HasSlot(s)}

ResetPending(a) == \E k \in Sweeper : sweep[k].pc = "reset" /\ sweep[k].reset /\ sweep[k].agent = a

\* stream_counts never stays above the streams it stands for: no slot is
\* occupied by a stream that is gone, whichever of close, relay teardown,
\* refusal, rollback and sweep ended it.  A sweep resets the counter a moment
\* after it emptied the table.
NoSlotLeak == \A a \in Agent : ResetPending(a) \/ count[a] <= Cardinality(Slots(a))

\* stream_counts never falls below the streams it stands for: no stream gives
\* its slot back twice, however the handlers that end it overlap.
SlotsCounted == MaxPerAgent # 0 => \A a \in Agent : Cardinality(Slots(a)) <= count[a]

\* max_streams_per_agent bounds the entries of an agent in active_streams.
PerAgentCap ==
  MaxPerAgent # 0 =>
    \A a \in Agent : Cardinality({s \in DOMAIN table : Src[s] = a}) <= MaxPerAgent

\* A notification that ends the stream at a is queued for its live session.
Queued(a, s) ==
  \E q \in {ctl[a], dat[a]} : \E i \in 1..Len(q) : q[i].s = s /\ q[i].kind # "open"

OpenQueued(s) ==
  \E q \in {ctl[Tgt[s]], dat[Tgt[s]]} : Note("open", s) \in {q[i] : i \in 1..Len(q)}

PeerSweep(s, a) ==
  \E k \in Sweeper : sweep[k].pc \in {"reset", "notify"} /\ s \in sweep[k].peers /\ Peer(k, s) = a

\* The termination contract: removing an entry produces a signal on the peer's
\* plane.  A target that carries traffic still has its entry, or its Close is
\* queued, or the handler that removed the entry is about to queue it; a relay
\* target hears it from the dropped sender.
TargetTold ==
  \A s \in Stream : tgt[s] = "up" /\ Holds(s, "tgt") =>
    \/ s \in DOMAIN table \/ Tgt[s] \in Quic
    \/ Queued(Tgt[s], s) \/ closer[s]["src"].pc \in {"release", "notify"} \/ PeerSweep(s, Tgt[s])

\* The same contract for the source, whose Open may still be in a handler.
SourceTold ==
  \A s \in Stream : Holds(s, "src") =>
    \/ s \in DOMAIN table \/ Src[s] \in Quic \/ open[s].pc \notin {"done", "refused"}
    \/ Queued(Src[s], s) \/ closer[s]["tgt"].pc \in {"release", "notify"} \/ PeerSweep(s, Src[s])

\* A target whose source is gone does not wait forever for a Close: however the
\* source went, by a Close, a lost connection or a new registration, the target
\* releases its backend connection or loses its own hub connection.
TargetReleased ==
  \A s \in Stream : (tgt[s] = "up" /\ ~Holds(s, "src")) ~> ~(tgt[s] = "up" /\ Holds(s, "tgt"))

\* Some running sweep has yet to remove the streams of the agent.
SweepDue(a) == \E k \in Sweeper : sweep[k].pc = "retain" /\ sweep[k].agent = a

\* frame_open's "never stream opened but the peer doesn't know": an established
\* entry has a target that holds the stream or will hear of it, or the entry is
\* on its way out (a close, a sweep, a Close queued for the source), or the
\* target's own connection is gone.
NoBlackHole ==
  \A s \in DOMAIN table : open[s].pc = "done" =>
    \/ Holds(s, "tgt") \/ OpenQueued(s)
    \/ closer[s]["tgt"].pc \in {"sent", "remove"} \/ closer[s]["src"].pc \in {"sent", "remove"}
    \/ SweepDue(Tgt[s]) \/ SweepDue(Src[s]) \/ Queued(Src[s], s)
    \/ conn[Tgt[s]] # circ[Tgt[s]]

\* Admission: every stream that holds a slot is counted, so the cap bounds
\* the table.
SlotsSound == SlotsCounted /\ PerAgentCap

\* The termination contract at both ends: whoever holds a stream whose entry
\* is gone is told, or is about to be.
PartnersTold == TargetTold /\ SourceTold
===============================================================================
