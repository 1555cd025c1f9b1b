------------------------------ MODULE WireCodec ------------------------------
(***************************************************************************)
(* The wire: the frame contract and decoder (core/src/protocol/frame.rs),  *)
(* the chunk adapter every long h2 body goes through (tunnel/chunking.rs), *)
(* the three loops that decode a body (decode_tunnel_data at the agent,    *)
(* upload_reader and drain_frames at the hub), and the payloads both ends  *)
(* exchange (tunnel/negotiation.rs, selector.rs, inner_udp.rs).  Bytes are *)
(* units, a header is HeaderLen units, and a unit knows its frame and      *)
(* place.  Text is its length.                                             *)
(***************************************************************************)
EXTENDS Integers, Sequences, FiniteSets

CONSTANTS HeaderLen, MaxPayload, CopyThreshold, MaxFrames, MaxText, Side

ASSUME WireAssumption ==
  /\ {HeaderLen, MaxPayload, CopyThreshold, MaxFrames, MaxText} \subseteq Nat \ {0}
  /\ Side \subseteq {"agent", "upload", "drain", "contract", "exchange"}

VARIABLE wc

-----------------------------------------------------------------------------
(* Frames and their contract.                                              *)

HubOnly ==
  {"HelloAck", "Ping", "OpenAck", "RouteAck", "PolicyPullResponse", "PeerListResponse",
   "ProposalSubmitResponse", "ProposalMineResponse", "LivenessPong", "Error"}

Requests ==
  {"RouteRequest", "PolicyPullRequest", "PeerListRequest", "ProposalSubmitRequest",
   "ProposalMineRequest", "LivenessPing"}

FrameTypes == HubOnly \cup Requests \cup {"Open", "Data", "Close", "Hello", "Pong"}

\* Flags the contract knows, besides must-understand.
Flag == {"udp", "e2e", "response", "hub"}

\* A type takes a response, or the mark of the hub.
ResponseAllowed(ft) == ft \in {"Data", "Close"}

HubAllowed(ft) == ft \in HubOnly \cup {"Close"}

\* Mutant: the mark of the hub is not required of the types only it writes.
GlobalRulesOpen(ft, flags, circuit) ==
  /\ ~({"hub", "response"} \subseteq flags)
  /\ flags \cap {"hub", "response"} # {} => circuit = 0
  /\ flags \cap {"udp", "e2e"} # {} => ft = "Open"
  /\ "response" \in flags => ResponseAllowed(ft)
  /\ "hub" \in flags => HubAllowed(ft)

\* The rules for every type.
GlobalRules(ft, flags, circuit) ==
  /\ ~({"hub", "response"} \subseteq flags)
  /\ flags \cap {"hub", "response"} # {} => circuit = 0
  /\ flags \cap {"udp", "e2e"} # {} => ft = "Open"
  /\ "response" \in flags => ResponseAllowed(ft)
  /\ "hub" \in flags => HubAllowed(ft)
  /\ ft \in HubOnly => "hub" \in flags

\* The fields a type requires: 0 is the zero marker.
FieldRules(ft, flags, sid, circuit) ==
  CASE ft = "Open" -> sid # 0 /\ circuit # 0
    [] ft \in {"Data", "Close"} ->
         sid # 0 /\ (circuit = 0) = (flags \cap {"hub", "response"} # {})
    [] ft = "Pong" -> sid = 0 /\ circuit # 0
    [] ft \in {"Hello", "HelloAck", "Ping", "Error"} -> sid = 0 /\ circuit = 0
    [] OTHER -> sid # 0 /\ circuit = 0

contract_ok(ft, flags, sid, circuit) ==
  GlobalRules(ft, flags, circuit) /\ FieldRules(ft, flags, sid, circuit)

\* FrameOrigin::from_parts.
from_parts(flags) ==
  IF "hub" \in flags THEN "hub" ELSE IF "response" \in flags THEN "response" ELSE "agent"

Header == [ft : FrameTypes, flags : SUBSET Flag, sid : {0, 1}, circuit : {0, 1}]

\* The table in the module doc of frame.rs: what stands in a row.
TableRow(ft) ==
  [sid     |-> IF ft \in {"Hello", "HelloAck", "Ping", "Pong", "Error"} THEN 0 ELSE 1,
   circuit |-> CASE ft \in {"Open", "Pong"} -> {"own"}
                 [] ft \in {"Data", "Close"} -> {"own", "marked"}
                 [] OTHER -> {"zero"},
   may     |-> CASE ft = "Open" -> {"udp", "e2e"}
                 [] ft = "Data" -> {"response"}
                 [] ft = "Close" -> {"response", "hub"}
                 [] ft \in HubOnly -> {"hub"}
                 [] OTHER -> {},
   must    |-> IF ft \in HubOnly THEN {"hub"} ELSE {}]

-----------------------------------------------------------------------------
(* A body: frames as the sender queues them, the adapter, the wire.        *)

\* What a sender may queue: frames of this build, and of another one: of a type
\* this build does not know, with and without must-understand, of another format
\* version (not ok), or longer than it admits.
Sample ==
  {[ft |-> "Ping",    must |-> FALSE, ok |-> TRUE,  len |-> 0],
   [ft |-> "Data",    must |-> FALSE, ok |-> TRUE,  len |-> 1],
   [ft |-> "Data",    must |-> FALSE, ok |-> TRUE,  len |-> MaxPayload],
   [ft |-> "Data",    must |-> FALSE, ok |-> TRUE,  len |-> MaxPayload + 1],
   [ft |-> "unknown", must |-> FALSE, ok |-> TRUE,  len |-> 1],
   [ft |-> "unknown", must |-> TRUE,  ok |-> TRUE,  len |-> 1],
   [ft |-> "Data",    must |-> FALSE, ok |-> FALSE, len |-> 1]}

NoProbe == [none |-> TRUE]

BodyStart(side) ==
  [side |-> side, frames |-> <<>>, inner |-> <<>>, staging |-> <<>>, pending |-> <<>>,
   wire |-> <<>>, buf |-> <<>>, busy |-> FALSE, out |-> <<>>, bad |-> FALSE, ended |-> FALSE,
   msg |-> NoProbe, got |-> NoProbe]

Units(i, len) == [k \in 1..(HeaderLen + len) |-> <<i, k>>]

\* encode_frame_header refuses an oversized payload; a foreign peer may not.
\* Header and payload are two chunks, the payload's empty when there is none.
SendFrame(f) ==
  /\ wc.side \in {"agent", "upload", "drain"} /\ Len(wc.frames) < MaxFrames /\ ~wc.ended
  /\ LET i == Len(wc.frames) + 1
         u == Units(i, f.len)
     IN wc' = [wc EXCEPT !.frames = Append(@, f),
                         !.inner = @ \o <<SubSeq(u, 1, HeaderLen), SubSeq(u, HeaderLen + 1, Len(u))>>]

\* A large chunk goes out as it is, after the staged bytes.
PassesLarge(chunk) ==
  IF wc.staging = <<>>
  THEN wc' = [wc EXCEPT !.inner = Tail(@), !.wire = Append(@, chunk)]
  ELSE wc' = [wc EXCEPT !.inner = Tail(@), !.wire = Append(@, wc.staging),
                        !.staging = <<>>, !.pending = <<chunk>>]

\* An empty chunk never reaches the wire.
DropsEmpty(chunk) == wc' = [wc EXCEPT !.inner = Tail(@)]

\* The inner stream has nothing more for now: the staged tail goes out.
FlushesTail ==
  /\ wc.pending = <<>> /\ wc.inner = <<>> /\ wc.staging # <<>> /\ Len(wc.staging) < CopyThreshold
  /\ wc' = [wc EXCEPT !.staging = <<>>, !.wire = Append(@, wc.staging)]

\* One round of poll_next: the slot first, then staged bytes at the threshold,
\* then a chunk of the inner stream, and what is staged when there is none.
poll_next ==
  \/ /\ wc.pending # <<>>
     /\ wc' = [wc EXCEPT !.pending = <<>>, !.wire = Append(@, wc.pending[1])]
  \/ /\ wc.pending = <<>> /\ Len(wc.staging) >= CopyThreshold
     /\ wc' = [wc EXCEPT !.staging = <<>>, !.wire = Append(@, wc.staging)]
  \/ /\ wc.pending = <<>> /\ Len(wc.staging) < CopyThreshold /\ wc.inner # <<>>
     /\ LET chunk == Head(wc.inner) IN
          \/ chunk = <<>> /\ DropsEmpty(chunk)
          \/ Len(chunk) >= CopyThreshold /\ PassesLarge(chunk)
          \/ /\ chunk # <<>> /\ Len(chunk) < CopyThreshold
             /\ wc' = [wc EXCEPT !.inner = Tail(@), !.staging = @ \o chunk]
  \/ FlushesTail

-----------------------------------------------------------------------------
(* The receivers.                                                          *)

\* A chunk of the body is appended to the buffer, then frames are decoded.
ReadChunk ==
  /\ wc.wire # <<>> /\ ~wc.busy /\ ~wc.ended
  /\ wc' = [wc EXCEPT !.wire = Tail(@), !.buf = @ \o Head(wc.wire), !.busy = TRUE]

\* decode_frame on the head of the buffer.  Magic, version, length and contract
\* are judged as soon as the header is there, an unknown type once it is whole.
decode_frame(buf) ==
  IF Len(buf) < HeaderLen THEN "pending"
  ELSE LET f == wc.frames[buf[1][1]] IN
    CASE buf[1][2] # 1 \/ ~f.ok \/ f.len > MaxPayload -> "error"
      [] OTHER -> IF Len(buf) < HeaderLen + f.len THEN "pending"
                  ELSE IF f.ft = "unknown" THEN (IF f.must THEN "refused" ELSE "skip")
                  ELSE "ok"

FrameLen(buf) == HeaderLen + wc.frames[buf[1][1]].len

Consumed(w) == [w EXCEPT !.buf = SubSeq(@, FrameLen(w.buf) + 1, Len(@))]

DecodeOk ==
  /\ wc.busy /\ decode_frame(wc.buf) = "ok"
  /\ wc' = [Consumed(wc) EXCEPT !.out = Append(@, wc.buf[1][1])]

DecodeSkips ==
  /\ wc.busy /\ decode_frame(wc.buf) = "skip"
  /\ wc' = Consumed(wc)

DecodePending ==
  /\ wc.busy /\ decode_frame(wc.buf) = "pending"
  /\ wc' = [wc EXCEPT !.busy = FALSE]

\* upload_reader ends the whole upload.
UploadFails == wc' = [wc EXCEPT !.busy = FALSE, !.bad = TRUE, !.ended = TRUE, !.buf = <<>>]

\* decode_tunnel_data clears the buffer and answers None, like for a frame that
\* is not complete: its callers read on.
AgentFails == wc' = [wc EXCEPT !.busy = FALSE, !.bad = TRUE, !.buf = <<>>]

\* drain_frames stops and leaves the buffer as it is; a type it must understand
\* is skipped like any other.
DrainFails ==
  IF decode_frame(wc.buf) = "refused" THEN wc' = [Consumed(wc) EXCEPT !.bad = TRUE]
  ELSE wc' = [wc EXCEPT !.busy = FALSE, !.bad = TRUE]

DecodeFails ==
  /\ wc.busy /\ decode_frame(wc.buf) \in {"error", "refused"}
  /\ \/ wc.side = "upload" /\ UploadFails
     \/ wc.side = "agent" /\ AgentFails
     \/ wc.side = "drain" /\ DrainFails

-----------------------------------------------------------------------------
(* Payloads the two ends exchange.  A message is what the sender has, the  *)
(* wire form its fields and lengths, and what the receiver gets is checked *)
(* against the message.                                                    *)

Text == 0..(MaxText + 1)

Absent == -1

Selector == {<<"default", 0>>} \cup ({"address", "service"} \X (Text \ {0}))

\* The reasons of a Close in the order of their codes, the plain one being 0.
CloseReason ==
  <<"CloseFrame", "NoTarget", "SecurityDenied", "ConnectFailed", "BackendWriteTimeout",
    "BackendClosed", "DispatchPoison", "RateLimited", "TargetCircuitOpen", "LocalLimit",
    "UdpIdle", "SessionClosed", "E2eHandshakeFailed">>

Message ==
  [kind : {"hello"}, id : Text, build : Text \cup {Absent}] \cup
  [kind : {"route"}, target : Text] \cup
  [kind : {"routeAck"}, token : {Absent, 1}] \cup
  [kind : {"pull"}, seen : {0, 1}] \cup
  [kind : {"pullAnswer"}, outcome : {"update", "unchanged", "noFace"}, gen : {0, 1},
   sig : Text \ {0}, body : Text] \cup
  [kind : {"innerHello", "udpOpen"}, principal : Text, selector : Selector] \cup
  [kind : {"udpIdentity"}, principal : Text] \cup
  [kind : {"udpReply"}, frame : {"accept", "close", "noTarget", "denied", "rate", "limit"}] \cup
  [kind : {"close"}, reason : {CloseReason[c] : c \in 1..Len(CloseReason)}]

Unreadable == [refused |-> TRUE]

\* encode_hello_payload and decode_hello_payload: an empty build is left out,
\* and an overlong one refused by the sender.
encode_hello(m) ==
  IF m.id = 0 \/ m.id > MaxText \/ m.build > MaxText THEN Unreadable
  ELSE [m EXCEPT !.build = IF m.build = 0 THEN Absent ELSE @]

decode_hello(w) ==
  IF w.id = 0 \/ w.id > MaxText THEN Unreadable
  ELSE [w EXCEPT !.build = IF w.build = 0 \/ w.build > MaxText THEN Absent ELSE @]

\* RouteRequest and RouteAck: a denial is an ack without a token.
encode_route_request(m) == IF m.target > MaxText THEN Unreadable ELSE m

decode_route_request(w) == IF w.target > MaxText THEN Unreadable ELSE w

encode_route_ack(m) == [kind |-> m.kind, granted |-> m.token # Absent, token |-> m.token]

decode_route_ack(w) ==
  [kind |-> w.kind, token |-> IF w.granted /\ w.token # 0 THEN w.token ELSE Absent]

\* The pull is fixed layout: 8 bytes; the answer 1, 9, or 11 and more.
encode_policy_pull_request(m) == [kind |-> m.kind, len |-> 8, seen |-> m.seen]

decode_policy_pull_request(w) ==
  IF w.len # 8 THEN Unreadable ELSE [kind |-> w.kind, seen |-> w.seen]

encode_policy_pull_response(m) ==
  [kind |-> m.kind, outcome |-> m.outcome, gen |-> m.gen, sig |-> m.sig,
   len |-> CASE m.outcome = "noFace" -> 1
             [] m.outcome = "unchanged" -> 9
             [] m.outcome = "update" -> 11 + m.sig + m.body]

decode_policy_pull_response(w) ==
  CASE w.len = 1 /\ w.outcome = "noFace" -> [kind |-> w.kind, outcome |-> w.outcome]
    [] w.len >= 9 /\ w.outcome = "unchanged" ->
         IF w.len # 9 THEN Unreadable ELSE [kind |-> w.kind, outcome |-> w.outcome, gen |-> w.gen]
    [] w.len >= 9 /\ w.outcome = "update" ->
         IF w.len < 11 \/ w.sig = 0 \/ w.len - 11 < w.sig THEN Unreadable
         ELSE [kind |-> w.kind, outcome |-> w.outcome, gen |-> w.gen,
               sig |-> w.sig, body |-> w.len - 11 - w.sig]
    [] OTHER -> Unreadable

\* What of an answer means something.
PullValue(m) ==
  CASE m.outcome = "noFace" -> [kind |-> m.kind, outcome |-> m.outcome]
    [] m.outcome = "unchanged" -> [kind |-> m.kind, outcome |-> m.outcome, gen |-> m.gen]
    [] m.outcome = "update" -> m

\* The inner hello of a TCP stream and the OPEN of a UDP session: a principal
\* and a selector with two length fields, and nothing after them.
encode_selected(m) ==
  IF m.principal > MaxText \/ m.selector[2] > MaxText THEN Unreadable
  ELSE [kind |-> m.kind, plen |-> m.principal, sel |-> m.selector[1], vlen |-> m.selector[2],
        len |-> m.principal + m.selector[2]]

decode_selected(w) ==
  IF \/ w.plen > MaxText \/ w.len < w.plen \/ w.vlen > MaxText \/ w.len # w.plen + w.vlen
     \/ (w.sel = "default") # (w.vlen = 0)
  THEN Unreadable
  ELSE [kind |-> w.kind, principal |-> w.plen, selector |-> <<w.sel, w.vlen>>]

\* Accept, Reject with its code, Close: 16 or 17 bytes.
RejectCode == <<"noTarget", "denied", "rate", "limit">>

encode_reply(m) ==
  IF m.frame \in {"accept", "close"} THEN [kind |-> m.kind, tag |-> m.frame, len |-> 16, code |-> 0]
  ELSE [kind |-> m.kind, tag |-> "reject", len |-> 17,
        code |-> CHOOSE c \in 1..4 : RejectCode[c] = m.frame]

decode_reply(w) ==
  CASE w.tag = "reject" /\ w.len = 17 /\ w.code \in 1..4 -> [kind |-> w.kind, frame |-> RejectCode[w.code]]
    [] w.tag # "reject" /\ w.len = 16 -> [kind |-> w.kind, frame |-> w.tag]
    [] OTHER -> Unreadable

\* An identity is a principal alone, up to the end of the frame.
encode_identity(m) ==
  IF m.principal > MaxText THEN Unreadable
  ELSE [kind |-> m.kind, plen |-> m.principal, len |-> m.principal]

decode_identity(w) ==
  IF w.plen > MaxText \/ w.len # w.plen THEN Unreadable ELSE [kind |-> w.kind, principal |-> w.plen]

\* A Close carries one byte; anything else is the plain close.
as_code(reason) == CHOOSE c \in 0..(Len(CloseReason) - 1) : CloseReason[c + 1] = reason

from_payload(payload) ==
  IF Len(payload) = 1 /\ payload[1] \in 0..(Len(CloseReason) - 1)
  THEN CloseReason[payload[1] + 1] ELSE "CloseFrame"

\* What arrives at the other end, or Unreadable when the sender refuses.
Exchanged(m) ==
  LET Through(w, value) == IF w = Unreadable THEN Unreadable ELSE value IN
  CASE m.kind = "hello" -> LET w == encode_hello(m) IN Through(w, decode_hello(w))
    [] m.kind = "route" -> LET w == encode_route_request(m) IN Through(w, decode_route_request(w))
    [] m.kind = "routeAck" -> decode_route_ack(encode_route_ack(m))
    [] m.kind = "pull" -> decode_policy_pull_request(encode_policy_pull_request(m))
    [] m.kind = "pullAnswer" -> decode_policy_pull_response(encode_policy_pull_response(m))
    [] m.kind \in {"innerHello", "udpOpen"} -> LET w == encode_selected(m) IN Through(w, decode_selected(w))
    [] m.kind = "udpIdentity" -> LET w == encode_identity(m) IN Through(w, decode_identity(w))
    [] m.kind = "udpReply" -> decode_reply(encode_reply(m))
    [] m.kind = "close" -> [kind |-> m.kind, reason |-> from_payload(<<as_code(m.reason)>>)]

\* A codec judges a header.
JudgeHeader ==
  /\ wc.side = "contract" /\ wc.got = NoProbe
  /\ wc' = [wc EXCEPT !.got = [valid |-> contract_ok(wc.msg.ft, wc.msg.flags, wc.msg.sid, wc.msg.circuit),
                               origin |-> from_parts(wc.msg.flags)]]

Exchange ==
  /\ wc.side = "exchange" /\ wc.got = NoProbe
  /\ wc' = [wc EXCEPT !.got = Exchanged(wc.msg)]

-----------------------------------------------------------------------------

WireInit ==
  \E side \in Side :
    CASE side = "contract" -> \E h \in Header : wc = [BodyStart(side) EXCEPT !.msg = h]
      [] side = "exchange" -> \E m \in Message : wc = [BodyStart(side) EXCEPT !.msg = m]
      [] OTHER -> wc = BodyStart(side)

Decode == DecodeOk \/ DecodeSkips \/ DecodePending \/ DecodeFails

WireNext ==
  \/ \E f \in Sample : SendFrame(f)
  \/ poll_next \/ ReadChunk \/ Decode \/ JudgeHeader \/ Exchange

\* A body is polled while there is something to send, and read as it arrives.
WireFairness == WF_wc(poll_next) /\ WF_wc(ReadChunk) /\ WF_wc(Decode)

WireSpec == WireInit /\ [][WireNext]_wc /\ WireFairness

-----------------------------------------------------------------------------

UnitOf == (1..MaxFrames) \X (1..(HeaderLen + MaxPayload + 1))

\* Buffers hold units of frames that were sent, flags are flags.
WireTypeOK ==
  /\ wc.side \in Side /\ Len(wc.frames) <= MaxFrames
  /\ \A k \in 1..Len(wc.buf) : wc.buf[k] \in UnitOf
  /\ wc.busy \in BOOLEAN /\ wc.bad \in BOOLEAN /\ wc.ended \in BOOLEAN

\* The two-stage contract check admits exactly what the table of the protocol
\* lists, for every type, every set of flags and every presence of the fields,
\* and only the hub's own types and its Close read as authored by the hub.
ContractIsTable ==
  wc.side = "contract" /\ wc.got # NoProbe =>
    LET h == wc.msg
        row == TableRow(h.ft)
        marked == h.flags \cap {"hub", "response"} # {}
    IN /\ wc.got.valid <=>
            /\ h.sid = row.sid
            /\ h.flags \subseteq row.may /\ row.must \subseteq h.flags
            /\ ~({"hub", "response"} \subseteq h.flags)
            /\ CASE row.circuit = {"own"} -> h.circuit = 1
                 [] row.circuit = {"zero"} -> h.circuit = 0
                 [] OTHER -> (h.circuit = 0) = marked
       /\ wc.got.valid /\ wc.got.origin = "hub" => h.ft \in HubOnly \cup {"Close"}

\* What one end encodes the other decodes to the same value, and what the
\* sender lets through the receiver does not refuse: bounds, lengths and
\* optional fields agree between the two ends of every payload.
ExchangesAgree ==
  wc.side = "exchange" /\ wc.got # NoProbe =>
    LET m == wc.msg
        overlong == \/ m.kind = "hello" /\ (m.id \in {0, MaxText + 1} \/ m.build = MaxText + 1)
                    \/ m.kind = "route" /\ m.target = MaxText + 1
                    \/ m.kind \in {"innerHello", "udpOpen", "udpIdentity"} /\ m.principal = MaxText + 1
                    \/ m.kind \in {"innerHello", "udpOpen"} /\ m.selector[2] = MaxText + 1
    IN wc.got = CASE overlong -> Unreadable
                  [] ~overlong /\ m.kind = "hello" -> [m EXCEPT !.build = IF @ = 0 THEN Absent ELSE @]
                  [] ~overlong /\ m.kind = "pullAnswer" -> PullValue(m)
                  [] OTHER -> m

\* No chunk on the wire is empty: the receiver's h2 counts empty frames and
\* never forgets one, so a heartbeat's empty payload would end the connection.
NoEmptyChunk == \A k \in 1..Len(wc.wire) : wc.wire[k] # <<>>

\* Merging chunks is invisible to the receiver: what it decodes is what was
\* sent, in its order and once, and it meets a broken frame only if one was sent.
ChunkingInvisible ==
  /\ \A a, b \in 1..Len(wc.out) : a < b => wc.out[a] < wc.out[b]
  /\ wc.bad => \E i \in 1..Len(wc.frames) :
                  LET f == wc.frames[i] IN ~f.ok \/ f.must \/ f.len > MaxPayload

\* As long as nothing broken was read every frame that was sent arrives.
FramesArrive ==
  \A i \in 1..MaxFrames :
    Len(wc.frames) >= i /\ wc.frames[i].ft # "unknown" ~>
      wc.bad \/ \E k \in 1..Len(wc.out) : wc.out[k] = i

\* Both ends read the same thing into the bytes of a frame, however the body
\* is cut into chunks.
WireAgrees ==
  /\ ContractIsTable /\ ExchangesAgree /\ NoEmptyChunk /\ ChunkingInvisible
=============================================================================
