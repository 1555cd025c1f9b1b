------------------------------- MODULE Uplink -------------------------------
(***************************************************************************)
(* The uplink of an h2 agent: one streaming POST per round, fed by a       *)
(* bounded channel whose writer end sits in a slot behind a mutex.  Every  *)
(* stream of the session, the Pongs, the upload loop and the shutdown take *)
(* that mutex; a sender keeps it while it waits for room in the channel.   *)
(*                                                                         *)
(* A Data frame is two items, header and payload, enqueued under one       *)
(* holding of the mutex.  The mutex hands itself to its waiters in order,  *)
(* and hands itself to a waiter whose task no longer polls it as well.     *)
(***************************************************************************)
EXTENDS Integers, Sequences, SequencesExt

CONSTANTS
    Ingress,      \* pumps that close their stream over the uplink before they return
    Egress,       \* pumps that return first and echo the Close afterwards
    UplinkCap,          \* capacity of the channel, in items
    MaxRound,     \* bound: upload rounds of the session
    MaxPing       \* bound: Pings that the hub sends

ASSUME UplinkAssumption == UplinkCap \in Nat \ {0} /\ MaxRound \in Nat /\ MaxPing \in Nat

VARIABLE up

Pump == Ingress \cup Egress

\* Who may wait for the mutex: the write and the Close of a pump, a Pong, the loop, the shutdown.
Claim == (Pump \X {"write", "close"}) \cup {<<"pong", "one">>, <<"upload", "slot">>, <<"shutdown", "slot">>}

\* Items of the channel: the halves of a Data frame and frames without payload.
Item == (Pump \X {"header", "payload", "close"}) \cup {<<"pong", "one">>}

UplinkState ==
    [token  : BOOLEAN,                                  \* the session is cancelled
     slot   : {"channel", "dead"},                      \* what up_tx holds
     rx     : BOOLEAN,                                  \* its channel has a reader
     q      : Seq(Item),
     lockq  : Seq(Claim),                               \* holder first
     write  : [Pump -> {"none", "header", "payload"}],  \* the pending write, next item to enqueue
     pump   : [Pump -> {"run", "close", "gone"}],
     loop   : {"request", "swap", "up", "seal", "backoff", "gone"},
     poll   : {"drain", "backoff", "gone"},
     end    : {"none", "sealing", "done"},              \* H2Tunnel::shutdown
     mid    : Pump \cup {"boundary"},                   \* what the hub's decoder is inside of
     desync : BOOLEAN,                                  \* it read something else than that payload
     torn   : SUBSET Pump,                              \* pumps dropped between header and payload
     rounds : 0 .. MaxRound,
     pings  : 0 .. MaxPing]

UplinkStart ==
    [token |-> FALSE, slot |-> "channel", rx |-> TRUE, q |-> <<>>, lockq |-> <<>>,
     write |-> [p \in Pump |-> "none"], pump |-> [p \in Pump |-> "run"],
     loop |-> "request", poll |-> "drain", end |-> "none",
     mid |-> "boundary", desync |-> FALSE, torn |-> {}, rounds |-> 0, pings |-> 0]

UplinkInit == up = UplinkStart

Holder(c) == up.lockq # <<>> /\ Head(up.lockq) = c

Waits(q, c) == c \in Range(q)

\* Dropping the future of a claim gives the mutex or the place in its queue back.
LettingGo(q, c) == SelectSeq(q, LAMBDA d : d # c)

\* The channel in the slot accepts an item, or refuses it at once.
Room == up.slot = "channel" /\ up.rx /\ Len(up.q) < UplinkCap

Refused == up.slot = "dead" \/ ~ up.rx

---------------------------------------------------------------------------
\* The pumps.

\* A pump's tail: the half that is still writing is not polled again.  The
\* ingress then sends its Close with that write still in being; the egress
\* returns, which drops it, and echoes the Close afterwards.
EndsPump(u, p) ==
    IF p \in Ingress
    THEN [u EXCEPT !.pump[p] = "close", !.lockq = Append(@, <<p, "close">>)]
    ELSE [u EXCEPT !.pump[p] = "close",
                   !.torn = IF u.write[p] = "payload" THEN @ \cup {p} ELSE @,
                   !.write[p] = "none",
                   !.lockq = Append(LettingGo(@, <<p, "write">>), <<p, "close">>)]

PumpWrites(p) ==
    /\ up.pump[p] = "run" /\ up.write[p] = "none"
    /\ up' = [up EXCEPT !.write[p] = "header", !.lockq = Append(@, <<p, "write">>)]

\* Mutant: the header and the payload are enqueued under two holdings of the mutex.
SendHeaderUnlocks(p) ==
    /\ up.pump[p] = "run" /\ up.write[p] = "header" /\ Holder(<<p, "write">>) /\ Room
    /\ up' = [up EXCEPT !.q = Append(@, <<p, "header">>), !.write[p] = "payload",
                        !.lockq = Append(Tail(@), <<p, "write">>)]

SendHeader(p) ==
    /\ up.pump[p] = "run" /\ up.write[p] = "header" /\ Holder(<<p, "write">>) /\ Room
    /\ up' = [up EXCEPT !.q = Append(@, <<p, "header">>), !.write[p] = "payload"]

SendPayload(p) ==
    /\ up.pump[p] = "run" /\ up.write[p] = "payload" /\ Holder(<<p, "write">>) /\ Room
    /\ up' = [up EXCEPT !.q = Append(@, <<p, "payload">>), !.write[p] = "none", !.lockq = Tail(@)]

\* The channel is closed: the write fails, the half ends with it and so does the pump.
SendFails(p) ==
    /\ up.pump[p] = "run" /\ up.write[p] # "none" /\ Holder(<<p, "write">>) /\ Refused
    /\ up' = EndsPump([up EXCEPT !.write[p] = "none", !.lockq = Tail(@)], p)

\* The local side ends between two writes.
LocalCloses(p) ==
    /\ up.pump[p] = "run" /\ up.write[p] = "none"
    /\ up' = EndsPump(up, p)

\* The drain window polls the other half once more: a write that can go on does.
Drained(p) == up.write[p] # "none" => ~ (Holder(<<p, "write">>) /\ (Room \/ Refused))

\* The tunnel side ends (peer Close, idle) and the drain window is over.
TunnelEnds(p) ==
    /\ up.pump[p] = "run" /\ up.poll # "gone" /\ Drained(p)
    /\ up' = EndsPump(up, p)

\* The poll loop is gone: release_all_streams closed the channels of every stream.
Released(p) ==
    /\ up.pump[p] = "run" /\ up.poll = "gone" /\ Drained(p)
    /\ up' = EndsPump(up, p)

\* The Close is enqueued or refused; the pump returns and whatever it held is dropped.
CloseSent(p) ==
    /\ up.pump[p] = "close" /\ Holder(<<p, "close">>) /\ (Room \/ Refused)
    /\ up' = [up EXCEPT !.pump[p] = "gone", !.write[p] = "none",
                        !.q = IF Refused THEN @ ELSE Append(@, <<p, "close">>),
                        !.torn = IF up.write[p] = "payload" THEN @ \cup {p} ELSE @,
                        !.lockq = LettingGo(Tail(@), <<p, "write">>)]

\* The echo of the egress is bounded by CLOSE_NOTIFY_TIMEOUT.
EchoTimesOut(p) ==
    /\ p \in Egress /\ up.pump[p] = "close"
    /\ up' = [up EXCEPT !.pump[p] = "gone", !.lockq = LettingGo(@, <<p, "close">>)]

---------------------------------------------------------------------------
\* The upload loop.

\* A channel whose reader goes takes its items with it; the hub's decoder goes with the request.
DropReader(u) == [u EXCEPT !.rx = FALSE, !.q = <<>>, !.mid = "boundary"]

\* 200.  The first round uses the channel that is already in the slot.
UploadAnswered ==
    /\ up.loop = "request" /\ ~ up.token
    /\ up' = IF up.rounds = 0 THEN [up EXCEPT !.loop = "up"]
             ELSE [up EXCEPT !.loop = "swap", !.lockq = Append(@, <<"upload", "slot">>)]

UploadSwaps ==
    /\ up.loop = "swap" /\ Holder(<<"upload", "slot">>)
    /\ up' = [up EXCEPT !.loop = "up", !.slot = "channel", !.rx = TRUE, !.q = <<>>,
                        !.mid = "boundary", !.lockq = Tail(@)]

\* Refused or failed: the body, and with it this round's reader, is dropped.
UploadRejected ==
    /\ up.loop = "request" /\ ~ up.token /\ up.rounds < MaxRound
    /\ up' = [(IF up.rounds = 0 THEN DropReader(up) ELSE up)
              EXCEPT !.loop = "backoff", !.rounds = @ + 1]

UploadRetries ==
    /\ up.loop = "backoff" /\ ~ up.token
    /\ up' = [up EXCEPT !.loop = "request"]

\* No headers in time, or the connection is lost: the session ends.
UploadGivesUp ==
    /\ up.loop = "request"
    /\ up' = [(IF up.rounds = 0 THEN DropReader(up) ELSE up)
              EXCEPT !.loop = "gone", !.token = TRUE]

\* The hub ends the response: the reader goes, the slot must be sealed.
UploadEnds ==
    /\ up.loop = "up" /\ ~ up.token /\ up.rounds < MaxRound
    /\ up' = [DropReader(up) EXCEPT !.loop = "seal", !.rounds = @ + 1,
                                    !.lockq = Append(@, <<"upload", "slot">>)]

UploadSeals ==
    /\ up.loop = "seal" /\ Holder(<<"upload", "slot">>)
    /\ up' = [up EXCEPT !.loop = "request", !.slot = "dead", !.lockq = Tail(@)]

UploadStops ==
    /\ up.token /\ up.loop \in {"request", "up", "backoff"}
    /\ up' = [(IF up.loop = "up" \/ up.rounds = 0 THEN DropReader(up) ELSE up)
              EXCEPT !.loop = "gone"]

\* The loop waits for the mutex outside of its beat: the stall monitor ends the session.
StallTrips ==
    /\ ~ up.token /\ up.loop \in {"swap", "seal"}
    /\ up' = [up EXCEPT !.token = TRUE]

\* The hub reads the request body and decodes it.
HubDecodes ==
    /\ up.loop = "up" /\ up.rx /\ up.q # <<>>
    /\ LET i == Head(up.q) IN
       up' = [up EXCEPT !.q = Tail(@),
                        !.mid = IF i[2] = "header" THEN i[1] ELSE "boundary",
                        !.desync = @ \/ IF up.mid = "boundary" THEN i[2] = "payload"
                                        ELSE i # <<up.mid, "payload">>]

---------------------------------------------------------------------------
\* The poll loop, the Pongs and the end of the session.

PollPing ==
    /\ up.poll = "drain" /\ ~ up.token /\ up.pings < MaxPing
    /\ ~ Waits(up.lockq, <<"pong", "one">>)
    /\ up' = [up EXCEPT !.pings = @ + 1, !.lockq = Append(@, <<"pong", "one">>)]

PongSent ==
    /\ Holder(<<"pong", "one">>) /\ (Room \/ Refused)
    /\ up' = [up EXCEPT !.q = IF Refused THEN @ ELSE Append(@, <<"pong", "one">>),
                        !.lockq = Tail(@)]

\* A poll round ends and the next one is asked for after a pause.
PollRound ==
    /\ up.poll # "gone" /\ ~ up.token
    /\ up' = [up EXCEPT !.poll = IF @ = "drain" THEN "backoff" ELSE "drain"]

\* The receive watchdog, an establish timeout or a lost connection: the session ends.
PollDies ==
    /\ up.poll # "gone" /\ ~ up.token
    /\ up' = [up EXCEPT !.poll = "gone", !.token = TRUE]

PollStops ==
    /\ up.poll # "gone" /\ up.token
    /\ up' = [up EXCEPT !.poll = "gone"]

UserStops ==
    /\ ~ up.token
    /\ up' = [up EXCEPT !.token = TRUE]

ShutdownCalled ==
    /\ up.token /\ up.end = "none"
    /\ up' = [up EXCEPT !.end = "sealing", !.poll = "gone",
                        !.lockq = Append(@, <<"shutdown", "slot">>)]

ShutdownSeals ==
    /\ up.end = "sealing" /\ Holder(<<"shutdown", "slot">>)
    /\ up' = [up EXCEPT !.end = "done", !.slot = "dead", !.lockq = Tail(@)]

\* SESSION_SHUTDOWN_TIMEOUT.
ShutdownTimesOut ==
    /\ up.end = "sealing"
    /\ up' = [up EXCEPT !.end = "done", !.lockq = LettingGo(@, <<"shutdown", "slot">>)]

\* The connection goes with the session.
ConnectionDropped ==
    /\ up.end = "done" /\ up.rx
    /\ up' = DropReader(up)

---------------------------------------------------------------------------
PumpStep(p) ==
    PumpWrites(p) \/ SendHeader(p) \/ SendPayload(p) \/ SendFails(p) \/ LocalCloses(p)
    \/ TunnelEnds(p) \/ Released(p) \/ CloseSent(p) \/ EchoTimesOut(p)

UplinkNext ==
    \/ \E p \in Pump : PumpStep(p)
    \/ UploadAnswered \/ UploadSwaps \/ UploadRejected \/ UploadRetries \/ UploadGivesUp
    \/ UploadEnds \/ UploadSeals \/ UploadStops \/ StallTrips \/ HubDecodes
    \/ PollPing \/ PongSent \/ PollRound \/ PollDies \/ PollStops
    \/ UserStops \/ ShutdownCalled \/ ShutdownSeals \/ ShutdownTimesOut \/ ConnectionDropped

\* Tasks are polled; timers fire; the hub reads what it is sent.  Nothing
\* obliges a stream, the hub or the user to end anything.
UplinkFairness ==
    /\ \A p \in Pump : WF_up(SendHeader(p)) /\ WF_up(SendPayload(p)) /\ WF_up(SendFails(p))
                       /\ WF_up(CloseSent(p)) /\ WF_up(EchoTimesOut(p)) /\ WF_up(Released(p))
    /\ WF_up(UploadSwaps) /\ WF_up(UploadSeals) /\ WF_up(UploadStops) /\ WF_up(UploadRetries)
    /\ WF_up(UploadAnswered \/ UploadRejected \/ UploadGivesUp)
    /\ WF_up(StallTrips) /\ WF_up(HubDecodes) /\ WF_up(PongSent) /\ WF_up(PollStops)
    /\ WF_up(ShutdownCalled) /\ WF_up(ShutdownSeals \/ ShutdownTimesOut)
    /\ WF_up(ConnectionDropped)

UplinkSpec == UplinkInit /\ [][UplinkNext]_up /\ UplinkFairness

---------------------------------------------------------------------------
\* Types; the channel keeps its capacity and every party has one claim of the mutex.
UplinkTypeOK ==
    /\ up \in UplinkState
    /\ Len(up.q) <= UplinkCap
    /\ IsInjective(up.lockq)

\* The two items of a Data frame are enqueued under one holding of the mutex:
\* the hub's decoder meets something else than the payload that a header
\* announced only after a pump was dropped between the two.
FramesNotInterleaved == up.desync => up.torn # {}

\* From the end of one upload until the next is answered no frame is
\* accepted: a frame sent in the gap fails and is not lost in silence.
GapRefuses == up.rounds > 0 /\ up.loop \in {"seal", "backoff", "request", "swap"} => Refused

\* The upload loop gets the mutex in the end, or the session ends.
UploadSettles == (up.loop \in {"swap", "seal"}) ~> (up.loop \notin {"swap", "seal"} \/ up.token)

\* When the session ends every pump of the egress returns.
EgressReturns == up.token ~> (\A p \in Egress : up.pump[p] = "gone")

\* The frames of the uplink stay whole, and no frame is accepted between two
\* uploads, where nobody would send it.
UplinkOrdered == FramesNotInterleaved /\ GapRefuses
=============================================================================
