---------------------------- MODULE AgentDispatch ----------------------------
(***************************************************************************)
(* The dispatch tables of one agent tunnel (core/src/tunnel/transport.rs)  *)
(* and the loops that feed and clear them (h2.rs, quic.rs).  A channel is  *)
(* a number; a table maps a stream to the channel whose sender it holds.   *)
(* A channel is closed for its receiver when no table, no reader and no    *)
(* parked hand-off holds a sender of it.                                   *)
(***************************************************************************)
EXTENDS Naturals, Sequences, FiniteSets

CONSTANTS Stream,      \* stream ids
          Reader,      \* loops that dispatch frames
          PollReader,  \* the one reader of an h2 tunnel
          MaxChan,     \* channels ever created
          Cap,         \* STREAM_CHANNEL_CAP
          ParkCap      \* pending_attach_cap, and the incoming event channel

VARIABLE dp

Chan == 1..MaxChan

\* The tables and the channels of a tunnel, and who works on them.
DispatchState ==
  [plane : {"h2", "quic"},
   made  : 0..MaxChan,                        \* channels created so far
   sid   : [Chan -> Stream],                  \* the stream a channel is for
   role  : [Chan -> {"egress", "ingress", "edge"}],
   req   : [Stream -> 0..MaxChan],            \* req_streams, 0 is absent
   resp  : [Stream -> 0..MaxChan],            \* resp_streams
   buf   : [Chan -> Seq({"data", "close"})],  \* up to Cap frames
   rx    : [Chan -> {"none", "inhand", "parked", "rollback", "queued", "shake",
                     "run", "ending", "orphan", "gone"}],
   rd    : [Reader -> [pc : {"idle", "hubclose", "send", "poison", "handoff", "rollback", "out"},
                       s : Stream, dir : {"req", "resp"}, c : 0..MaxChan, f : {"data", "close"}]],
   gate  : {"shut", "open", "dead"},          \* egress took the events, or is gone
   token : BOOLEAN,                           \* session token cancelled
   stop  : {"no", "req", "resp", "done"},     \* progress of shutdown()
   exit  : {"no", "req", "resp", "done"},     \* the poll loop's own release
   late  : SUBSET Chan]                       \* registered after the token fell

ReaderOn(r) == dp.plane = "quic" \/ r = PollReader

\* Senders of a channel that are still alive.
HasSender(c) ==
  \/ \E s \in Stream : dp.req[s] = c \/ dp.resp[s] = c
  \/ dp.rx[c] = "parked"
  \/ \E r \in Reader : dp.rd[r].c = c /\ dp.rd[r].pc \in {"send", "handoff"}

Table(dir) == IF dir = "req" THEN dp.req ELSE dp.resp

DispatchStart(p, s0) ==
  [plane |-> p, made |-> 0,
   sid |-> [c \in Chan |-> s0], role |-> [c \in Chan |-> "egress"],
   req |-> [s \in Stream |-> 0], resp |-> [s \in Stream |-> 0],
   buf |-> [c \in Chan |-> <<>>], rx |-> [c \in Chan |-> "none"],
   rd |-> [r \in Reader |-> [pc |-> "idle", s |-> s0, dir |-> "req", c |-> 0, f |-> "data"]],
   gate |-> "shut", token |-> FALSE, stop |-> "no", exit |-> "no", late |-> {}]

DispatchInit == \E p \in {"h2", "quic"}, s0 \in Stream : dp = DispatchStart(p, s0)

Idle == [pc |-> "idle", s |-> CHOOSE s \in Stream : TRUE, dir |-> "req", c |-> 0, f |-> "data"]

(***************************************************************************)
(* Consumers register, take over, receive and leave.                       *)
(***************************************************************************)

\* An ingress or edge connection registers its response channel and opens the
\* stream.  Nothing stops it between the fall of the token and its next poll.
RegisterStream(s, role) ==
  /\ dp.made < MaxChan
  /\ \A c \in 1..dp.made : dp.sid[c] # s          \* stream ids are random
  /\ dp' = [dp EXCEPT !.made = @ + 1, !.sid[dp.made + 1] = s,
                      !.role[dp.made + 1] = role, !.resp[s] = dp.made + 1,
                      !.rx[dp.made + 1] = "shake",
                      !.late = IF dp.token THEN @ \cup {dp.made + 1} ELSE @]

\* Egress takes the event receiver, which opens the attach gate.
TakeIncoming ==
  /\ dp.gate = "shut" /\ ~dp.token
  /\ dp' = [dp EXCEPT !.gate = "open"]

\* Egress takes one event and spawns its forwarder.
EgressTakes(c) ==
  /\ dp.gate = "open" /\ dp.rx[c] = "queued"
  /\ dp' = [dp EXCEPT !.rx[c] = "shake"]

\* The egress loop is dropped with the session: queued events go with it.
EgressEnds ==
  /\ dp.token /\ dp.gate # "dead"
  /\ dp' = [dp EXCEPT !.gate = "dead",
                      !.rx = [c \in Chan |-> IF @[c] = "queued" THEN "gone" ELSE @[c]]]

\* A consumer takes the next frame.  Data completes the handshake; a Close
\* ends a pump, and with it an orphaned shuttle.
Receive(c) ==
  /\ dp.rx[c] \in {"shake", "run", "orphan"} /\ dp.buf[c] # <<>>
  /\ dp' = [dp EXCEPT !.buf[c] = Tail(@),
                      !.rx[c] = IF Head(dp.buf[c]) = "close"
                                THEN (IF @ = "orphan" THEN "gone" ELSE "ending")
                                ELSE (IF @ = "shake" THEN "run" ELSE @)]

\* recv() yields None: every sender is gone.
SeesClosed(c) ==
  /\ dp.rx[c] \in {"shake", "run", "orphan"} /\ dp.buf[c] = <<>> /\ ~HasSender(c)
  /\ dp' = [dp EXCEPT !.rx[c] = IF @ = "orphan" THEN "gone" ELSE "ending"]

\* The handshake deadline; it bounds a stream that never carries a frame.
ShakeFails(c) ==
  /\ dp.rx[c] = "shake"
  /\ dp' = [dp EXCEPT !.rx[c] = "ending"]

\* The local endpoint ends the stream.
LocalEnds(c) ==
  /\ dp.rx[c] = "run"
  /\ dp' = [dp EXCEPT !.rx[c] = "ending"]

\* The connection task of an ingress stream is dropped by its select on the
\* session token.  Its TLS shuttle is detached and keeps the receiver.
TaskDropped(c) ==
  /\ dp.token /\ dp.role[c] = "ingress" /\ dp.rx[c] \in {"shake", "run", "ending"}
  /\ dp' = [dp EXCEPT !.rx[c] = "orphan"]

\* The end of a pump: the table entry of the stream goes, whatever it holds.
Unregister(c) ==
  /\ dp.rx[c] = "ending"
  /\ dp' = [dp EXCEPT !.rx[c] = "gone",
                      !.req = IF dp.role[c] = "egress" THEN [@ EXCEPT ![dp.sid[c]] = 0] ELSE @,
                      !.resp = IF dp.role[c] # "egress" THEN [@ EXCEPT ![dp.sid[c]] = 0] ELSE @]

(***************************************************************************)
(* Readers dispatch frames.                                                *)
(***************************************************************************)

\* The sender of a table entry is cloned; without an entry the frame is late.
Lookup(r, s, dir, f) ==
  IF Table(dir)[s] = 0
  THEN Idle
  ELSE [pc |-> "send", s |-> s, dir |-> dir, c |-> Table(dir)[s], f |-> f]

\* A reader may take a frame until it sees the token between two frames.
MayRead(r) == ReaderOn(r) /\ dp.rd[r].pc = "idle" /\ dp.exit = "no"

\* Data or Close of one direction.
DispatchFrame(r, s, dir, f) ==
  /\ MayRead(r) /\ ~dp.token
  /\ \E c \in 1..dp.made : dp.sid[c] = s /\ (dir = "req") = (dp.role[c] = "egress")
  /\ dp' = [dp EXCEPT !.rd[r] = Lookup(r, s, dir, f)]

\* A Close authored by the hub first asks whether the request table has it ...
HubClose(r, s) ==
  /\ MayRead(r) /\ ~dp.token
  /\ \E c \in 1..dp.made : dp.sid[c] = s
  /\ dp' = [dp EXCEPT !.rd[r] = [pc |-> "hubclose", s |-> s, f |-> "close", c |-> 0,
                                 dir |-> IF dp.req[s] # 0 THEN "req" ELSE "resp"]]

\* ... and looks the entry up again to deliver to it.
HubCloseLookup(r) ==
  /\ dp.rd[r].pc = "hubclose"
  /\ dp' = [dp EXCEPT !.rd[r] = Lookup(r, @.s, @.dir, "close")]

\* The bounded send succeeds, or finds the receiver gone.
Deliver(r) ==
  /\ dp.rd[r].pc = "send"
  /\ LET c == dp.rd[r].c IN
     \/ /\ dp.rx[c] \in {"gone", "rollback"}
        /\ dp' = [dp EXCEPT !.rd[r] = Idle]
     \/ /\ dp.rx[c] \notin {"gone", "rollback"} /\ Len(dp.buf[c]) < Cap
        /\ dp' = [dp EXCEPT !.buf[c] = Append(@, dp.rd[r].f), !.rd[r] = Idle]

\* The consumer stalled past DISPATCH_SEND_TIMEOUT.
SendTimesOut(r) ==
  /\ dp.rd[r].pc = "send" /\ Len(dp.buf[dp.rd[r].c]) = Cap
  /\ dp' = [dp EXCEPT !.rd[r].pc = "poison", !.rd[r].c = 0]

\* Poisoning removes the entry by stream id.
Poison(r) ==
  /\ dp.rd[r].pc = "poison"
  /\ LET d == dp.rd[r] IN
     dp' = [dp EXCEPT !.rd[r] = Idle,
                      !.req = IF d.dir = "req" THEN [@ EXCEPT ![d.s] = 0] ELSE @,
                      !.resp = IF d.dir = "resp" THEN [@ EXCEPT ![d.s] = 0] ELSE @]

\* An Open inserts its channel, over an older one of the same stream, and is
\* handed off, parked, or dropped when too many are parked.  The task of an
\* accepted QUIC stream dispatches its Open without looking at the token.
OpenRequestStream(r, s) ==
  /\ MayRead(r) /\ (dp.token => dp.plane = "quic")
  /\ dp.made < MaxChan
  /\ \A c \in 1..dp.made : dp.sid[c] = s => dp.role[c] = "egress"
  /\ LET c == dp.made + 1
         parked == Cardinality({d \in Chan : dp.rx[d] = "parked"})
         next == IF dp.gate # "shut" THEN [pc |-> "handoff", rx |-> "inhand"]
                 ELSE IF parked >= ParkCap THEN [pc |-> "rollback", rx |-> "rollback"]
                 ELSE [pc |-> "idle", rx |-> "parked"]
     IN dp' = [dp EXCEPT !.made = c, !.sid[c] = s, !.role[c] = "egress", !.req[s] = c,
                         !.rx[c] = next.rx,
                         !.rd[r] = IF next.pc = "idle" THEN Idle
                                   ELSE [pc |-> next.pc, s |-> s, dir |-> "req", c |-> c, f |-> "data"]]

Queued == {c \in Chan : dp.rx[c] = "queued"}

\* hand_off_incoming from the dispatch loop: room and a consumer, or not.
HandOff(r) ==
  /\ dp.rd[r].pc = "handoff"
  /\ LET c == dp.rd[r].c IN
     \/ /\ dp.gate = "open" /\ Queued = {}
        /\ dp' = [dp EXCEPT !.rx[c] = "queued", !.rd[r] = Idle]
     \/ /\ dp.gate = "dead" \/ Queued # {}
        /\ dp' = [dp EXCEPT !.rx[c] = "rollback", !.rd[r].pc = "rollback"]

\* remove_req_stream: the entry goes only if it still is this channel.
Rollback(r) ==
  /\ dp.rd[r].pc = "rollback"
  /\ LET d == dp.rd[r] IN
     dp' = [dp EXCEPT !.rx[d.c] = "gone", !.rd[r] = Idle,
                      !.req[d.s] = IF @ = d.c THEN 0 ELSE @]

\* The parked task: woken by the gate it hands off, after ATTACH_GRACE or on
\* a failed hand-off it gives up.
ParkEnds(c) ==
  /\ dp.rx[c] = "parked"
  /\ dp' = [dp EXCEPT !.rx[c] = IF dp.gate = "open" /\ Queued = {} THEN "queued" ELSE "rollback"]

\* Mutant: the roll-back removes by stream id.
ParkRollbackById(c) ==
  /\ dp.rx[c] = "rollback" /\ \A r \in Reader : dp.rd[r].c # c
  /\ dp' = [dp EXCEPT !.rx[c] = "gone", !.req[dp.sid[c]] = 0]

\* The parked task's roll-back.
ParkRollback(c) ==
  /\ dp.rx[c] = "rollback" /\ \A r \in Reader : dp.rd[r].c # c
  /\ dp' = [dp EXCEPT !.rx[c] = "gone",
                      !.req[dp.sid[c]] = IF @ = c THEN 0 ELSE @]

(***************************************************************************)
(* The end of the session.                                                 *)
(***************************************************************************)

\* A watchdog, a dead task, or the supervisor cancels the session token.
CancelToken ==
  /\ ~dp.token
  /\ dp' = [dp EXCEPT !.token = TRUE]

\* A QUIC read loop is dropped by its select on the token.
ReaderDropped(r) ==
  /\ dp.token /\ dp.plane = "quic" /\ dp.rd[r].pc \in {"hubclose", "send", "poison"}
  /\ dp' = [dp EXCEPT !.rd[r] = Idle]

ClearReq == [s \in Stream |-> 0]

\* shutdown(): cancel, clear the request table, then the response table.
ShutdownStep ==
  /\ dp.token
  /\ \/ /\ dp.stop = "no"  /\ dp' = [dp EXCEPT !.stop = "req", !.req = ClearReq]
     \/ /\ dp.stop = "req" /\ dp' = [dp EXCEPT !.stop = "done", !.resp = ClearReq]

\* The poll loop leaves between two frames and releases all streams itself.
PollExit ==
  /\ dp.token /\ dp.plane = "h2"
  /\ \/ /\ dp.exit = "no" /\ dp.rd[PollReader].pc = "idle"
        /\ dp' = [dp EXCEPT !.exit = "req", !.req = ClearReq]
     \/ /\ dp.exit = "req"
        /\ dp' = [dp EXCEPT !.exit = "done", !.resp = ClearReq]

ReaderStep(r) ==
  HubCloseLookup(r) \/ Deliver(r) \/ SendTimesOut(r) \/ Poison(r) \/ HandOff(r)
    \/ Rollback(r) \/ ReaderDropped(r)

ConsumerStep(c) ==
  EgressTakes(c) \/ Receive(c) \/ SeesClosed(c) \/ ShakeFails(c) \/ Unregister(c)
    \/ ParkEnds(c) \/ ParkRollback(c)

DispatchNext ==
  \/ \E s \in Stream, role \in {"ingress", "edge"} : RegisterStream(s, role)
  \/ TakeIncoming \/ EgressEnds \/ CancelToken \/ ShutdownStep \/ PollExit
  \/ \E r \in Reader, s \in Stream :
       \/ HubClose(r, s) \/ OpenRequestStream(r, s)
       \/ \E dir \in {"req", "resp"}, f \in {"data", "close"} : DispatchFrame(r, s, dir, f)
  \/ \E r \in Reader : ReaderStep(r)
  \/ \E c \in Chan : ConsumerStep(c) \/ LocalEnds(c) \/ TaskDropped(c)

\* Every task is polled to completion.  A local endpoint that ends, a frame
\* that arrives and a session that dies are never assumed.
DispatchFairness ==
  /\ \A r \in Reader : WF_dp(ReaderStep(r))
  /\ \A c \in Chan : WF_dp(ConsumerStep(c)) /\ WF_dp(TaskDropped(c))
  /\ WF_dp(ShutdownStep) /\ WF_dp(PollExit) /\ WF_dp(EgressEnds)

DispatchSpec == DispatchInit /\ [][DispatchNext]_dp /\ DispatchFairness

(***************************************************************************)
(* Properties.                                                             *)
(***************************************************************************)

\* Types of the tables, the channels and the program points.
DispatchTypeOK == dp \in DispatchState /\ \A c \in Chan : Len(dp.buf[c]) <= Cap

\* While egress lives, an entry of the request table leads to a receiver that
\* somebody still reads or is about to roll back: a frame is never buffered
\* for a stream nobody serves (unregister, roll-back and poison clean up).
NoStrandedEntry ==
  \A s \in Stream : dp.gate # "dead" /\ dp.req[s] # 0 => dp.rx[dp.req[s]] # "gone"

\* The roll-back of an Open that was not taken over never removes the entry of
\* the Open that replaced it (remove_req_stream compares channels).
RollbackSparesSuccessor ==
  [][\A c, d \in Chan : \A s \in Stream :
       dp.rx[c] = "rollback" /\ dp'.rx[c] = "gone" /\ c # d
         => (dp.req[s] = d => dp'.req[s] = d)]_dp

\* A consumer whose channel lost its last sender ends: poisoning, replacement
\* by a second Open and the end of the session all release what they cut.
CutConsumersEnd ==
  \A c \in Chan : (dp.rx[c] \in {"shake", "run"} /\ ~HasSender(c)) ~> (dp.rx[c] = "gone")

\* The end of the session releases every consumer that was registered before
\* it: forwarders have no idle timeout, so the cleared tables must reach them.
ConsumersEndWithSession ==
  \A c \in Chan : (dp.token /\ dp.rx[c] # "none" /\ c \notin dp.late) ~> (dp.rx[c] = "gone")
=============================================================================
