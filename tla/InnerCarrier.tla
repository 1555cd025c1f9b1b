---------------------------- MODULE InnerCarrier ----------------------------
(***************************************************************************)
(* The inner QUIC association that carries UDP sessions over one outer     *)
(* stream (core/src/tunnel/inner_udp.rs): a sans-I/O QUIC connection       *)
(* behind a mutex, and three tasks around it.  The output pump hands its   *)
(* packets to the tunnel, the input pump feeds it the stream's frames, the *)
(* timer pump its timeouts.  The owner connects or accepts, works, and     *)
(* closes, at the egress behind a flush barrier so that the outer Close    *)
(* does not overtake the CONNECTION_CLOSE.                                 *)
(***************************************************************************)
EXTENDS Integers, Sequences, FiniteSets

CONSTANTS QueueCap, ReceivedCap, MaxIn, MaxOut

VARIABLE ca

Owners == {"starting", "ready", "up", "closing", "barrier", "closed", "gone"}

CarrierState ==
  [server   : BOOLEAN,
   owner    : Owners,
   \* The connection: none at an egress until the first packet comes.
   conn     : {"none", "handshake", "connected", "closed"},
   lost     : BOOLEAN,
   shutdown : BOOLEAN,
   outq     : Seq({"packet", "cc"}),
   enqueued : Nat, pumped : Nat, target : Nat,
   dropped  : BOOLEAN,           \* some packet found the queue full
   output   : {"run", "ended"},
   input    : {"run", "ended"},
   timer    : {"run", "ended"},
   inbound  : Seq({"hs", "datagram", "cc"}),
   open     : BOOLEAN,           \* the stream's frames may still come
   received : Nat,
   wire     : Seq({"packet", "cc", "Close"}),
   failed   : BOOLEAN,           \* a send on the tunnel failed
   late     : BOOLEAN,           \* the barrier timed out
   ins      : Nat, outs : Nat]

CarrierStart(server) ==
  [server |-> server, owner |-> "starting", conn |-> "none", lost |-> FALSE, shutdown |-> FALSE,
   outq |-> <<>>, enqueued |-> 0, pumped |-> 0, target |-> 0, dropped |-> FALSE,
   output |-> "run", input |-> "run", timer |-> "run", inbound |-> <<>>, open |-> TRUE,
   received |-> 0, wire |-> <<>>, failed |-> FALSE, late |-> FALSE, ins |-> 0, outs |-> 0]

-----------------------------------------------------------------------------
(* The connection behind the mutex.                                        *)

\* send_packet counts a packet before it tries the queue.
send_packet(c, packet) ==
  LET n == [c EXCEPT !.enqueued = @ + 1] IN
  IF c.output = "ended" THEN n
  ELSE IF Len(c.outq) >= QueueCap THEN [n EXCEPT !.dropped = TRUE]
  ELSE [n EXCEPT !.outq = Append(@, packet)]

\* A local close says so to the peer, once; it is not a loss.
conn_close(c) ==
  IF c.conn \in {"handshake", "connected"} /\ ~c.lost
  THEN send_packet([c EXCEPT !.conn = "closed"], "cc") ELSE c

Shut(c) == [c EXCEPT !.shutdown = TRUE]

\* InnerQuicCarrier::close.
close(c) == Shut(conn_close(c))

\* What a packet does to the connection, and what drive finds after it: the
\* handshake ends, a datagram is queued up to the limit, the peer is gone.
handle_packet(c, packet) ==
  CASE packet = "hs" -> IF c.conn = "closed" THEN c
                        ELSE send_packet([c EXCEPT !.conn = "connected"], "packet")
    [] packet = "datagram" -> IF c.conn # "connected" \/ c.received >= ReceivedCap THEN c
                              ELSE [c EXCEPT !.received = @ + 1]
    [] packet = "cc" -> [c EXCEPT !.lost = @ \/ c.conn # "closed"]

-----------------------------------------------------------------------------
(* The peer and the tunnel.                                                *)

PeerSends(packet) ==
  /\ ca.open /\ ca.ins < MaxIn
  /\ packet # "hs" => ca.conn # "none"
  /\ ca' = [ca EXCEPT !.inbound = Append(@, packet), !.ins = @ + 1]

\* The outer stream ends: its channel is closed after what is in it.
CarrierEnds == ca.open /\ ca' = [ca EXCEPT !.open = FALSE]

\* The output pump counts a packet whose send failed, and ends with it.
OutputPump ==
  /\ ca.output = "run" /\ ca.outq # <<>>
  /\ \/ ca' = [ca EXCEPT !.outq = Tail(@), !.pumped = @ + 1, !.wire = Append(@, Head(ca.outq))]
     \/ /\ ~ca.open
        /\ ca' = [ca EXCEPT !.outq = <<>>, !.pumped = @ + 1, !.failed = TRUE, !.output = "ended"]

\* The queue is closed once nobody holds the carrier any more.
OutputPumpEnds ==
  /\ ca.output = "run" /\ ca.outq = <<>>
  /\ ca.owner = "gone" /\ ca.input = "ended" /\ ca.timer = "ended"
  /\ ca' = [ca EXCEPT !.output = "ended"]

\* Frames that are not Data are passed over; an answer that finds the output
\* pump gone is an error that ends the input pump.
InputPump ==
  /\ ca.input = "run" /\ ca.inbound # <<>>
  /\ LET c == handle_packet([ca EXCEPT !.inbound = Tail(@)], Head(ca.inbound)) IN
       IF c.enqueued > ca.enqueued /\ ca.output = "ended"
       THEN ca' = [close(c) EXCEPT !.input = "ended", !.inbound = <<>>]
       ELSE ca' = c

InputPumpEnds ==
  /\ ca.input = "run" /\ ca.inbound = <<>> /\ ~ca.open
  /\ ca' = [close(ca) EXCEPT !.input = "ended"]

\* The timer pump looks at the flag and at the connection every 50 ms.
TimerPumpEnds ==
  /\ ca.timer = "run" /\ (ca.shutdown \/ ca.lost)
  /\ ca' = [Shut(ca) EXCEPT !.timer = "ended"]

\* The idle timeout of a silent connection, and a retransmission.
TimerFires ==
  /\ ca.timer = "run" /\ ~ca.shutdown /\ ~ca.lost /\ ca.conn \in {"handshake", "connected"}
  /\ \/ ca' = [ca EXCEPT !.lost = TRUE]
     \/ ca.outs < MaxOut /\ ca' = [send_packet(ca, "packet") EXCEPT !.outs = @ + 1]

-----------------------------------------------------------------------------
(* The owner.                                                              *)

\* connect_inner_quic starts a handshake at once, accept_inner_quic waits.
StartClient ==
  /\ ~ca.server /\ ca.owner = "starting" /\ ca.conn = "none"
  /\ ca' = send_packet([ca EXCEPT !.conn = "handshake"], "packet")

WaitsReady == ca.owner = "starting" /\ (ca.server \/ ca.conn # "none")

\* wait_ready within the handshake timeout.
WaitReady ==
  /\ WaitsReady /\ ca.conn = "connected"
  /\ ca' = [ca EXCEPT !.owner = IF ca.server THEN "up" ELSE "ready"]

HandshakeFails ==
  /\ WaitsReady /\ ca.conn # "connected"
  /\ ca' = [close(ca) EXCEPT !.owner = "gone"]

\* The identity goes first; when it cannot be written the caller gets the error
\* and the carrier is not closed.  A connection the input pump closed opens no
\* stream and is not lost: the call polls on.
SendIdentity ==
  /\ ca.owner = "ready" /\ (ca.lost \/ ca.conn = "connected")
  /\ IF ca.lost \/ ca.output = "ended"
     THEN ca' = [ca EXCEPT !.owner = "gone"]
     ELSE ca' = [send_packet(ca, "packet") EXCEPT !.owner = "up"]

\* send_datagram, write_some and finish.
OwnerSends ==
  /\ ca.owner = "up" /\ ~ca.lost /\ ca.conn = "connected" /\ ca.outs < MaxOut
  /\ ca' = [send_packet(ca, "packet") EXCEPT !.outs = @ + 1]

\* recv_datagram.
OwnerReceives ==
  /\ ca.owner = "up" /\ ~ca.lost /\ ca.received > 0
  /\ ca' = [ca EXCEPT !.received = @ - 1]

\* The association is over: an operation failed, or its owner was told.
OwnerDone ==
  /\ ca.owner = "up"
  /\ ca' = [ca EXCEPT !.owner = "closing"]

\* An ingress closes and leaves.
CloseNow ==
  /\ ca.owner = "closing" /\ ~ca.server
  /\ ca' = [close(ca) EXCEPT !.owner = "closed"]

\* An egress closes and reads the count under one lock, then waits for the pump.
close_drained ==
  /\ ca.owner = "closing" /\ ca.server
  /\ LET c == conn_close(ca) IN
       ca' = [Shut(c) EXCEPT !.owner = "barrier", !.target = c.enqueued]

BarrierPasses ==
  /\ ca.owner = "barrier" /\ ca.pumped >= ca.target
  /\ ca' = [ca EXCEPT !.owner = "closed"]

BarrierTimesOut ==
  /\ ca.owner = "barrier" /\ ca.pumped < ca.target
  /\ ca' = [ca EXCEPT !.owner = "closed", !.late = TRUE]

\* The outer Close rides the same ordered path as the pump's packets.
OuterClose ==
  /\ ca.owner = "closed"
  /\ ca' = [ca EXCEPT !.owner = "gone", !.wire = Append(@, "Close")]

-----------------------------------------------------------------------------

CarrierInit == \E server \in BOOLEAN : ca = CarrierStart(server)

Owner ==
  \/ StartClient \/ WaitReady \/ HandshakeFails \/ SendIdentity
  \/ CloseNow \/ close_drained \/ BarrierPasses \/ BarrierTimesOut \/ OuterClose

CarrierNext ==
  \/ \E packet \in {"hs", "datagram", "cc"} : PeerSends(packet)
  \/ CarrierEnds
  \/ OutputPump \/ OutputPumpEnds \/ InputPump \/ InputPumpEnds
  \/ TimerPumpEnds \/ TimerFires
  \/ Owner \/ OwnerSends \/ OwnerReceives \/ OwnerDone

\* Tasks run and timeouts come; the peer, the stream's end and the owner's wish
\* to leave are not assumed.
CarrierFairness ==
  /\ WF_ca(OutputPump) /\ WF_ca(OutputPumpEnds) /\ WF_ca(InputPump) /\ WF_ca(InputPumpEnds)
  /\ WF_ca(TimerPumpEnds) /\ WF_ca(Owner)

CarrierSpec == CarrierInit /\ [][CarrierNext]_ca /\ CarrierFairness

-----------------------------------------------------------------------------

\* Types and limits of the carrier's state.
CarrierTypeOK == ca \in CarrierState /\ Len(ca.outq) <= QueueCap /\ ca.received <= ReceivedCap

\* With no packet dropped, no failed send and the barrier passed in time, the
\* outer Close comes after the CONNECTION_CLOSE of a connection that had one.
CloseAfterGoodbye ==
  \A k \in 1..Len(ca.wire) :
    ca.wire[k] = "Close" /\ ca.server /\ ~ca.dropped /\ ~ca.failed /\ ~ca.late /\ ca.conn = "closed" =>
      \E j \in 1..(k - 1) : ca.wire[j] = "cc"

\* Closing never hangs, wedged tunnel or not.
CloseReturns == ca.owner = "closing" ~> ca.owner = "gone"

\* When the owner has left and the stream has ended no task of the carrier is
\* left behind.
PumpsEnd ==
  ca.owner = "gone" /\ ~ca.open ~>
    ca.input = "ended" /\ ca.timer = "ended" /\ ca.output = "ended"

=============================================================================
