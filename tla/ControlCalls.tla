---------------------------- MODULE ControlCalls ----------------------------
(***************************************************************************)
(* Request and response over the control plane of an agent's session: the  *)
(* route lease, the policy pull, the peer list, the proposal calls and the *)
(* liveness question, on both transports, made through the slot that       *)
(* always names the current session.  With it the life of one stream of an *)
(* embedder whose registration and Open may land in different sessions.    *)
(***************************************************************************)
EXTENDS Naturals

CONSTANTS Call,        \* concurrent calls
          Kind,        \* a subset of CallKind
          Form,        \* forms of a request: "good", "malformed", "foreign"
          MaxTunnel,  \* sessions the supervisor installs
          MaxStop,     \* times the path stops carrying anything
          Nobody

CallKind == {"route", "policy", "peers", "submit", "mine", "ping"}
Session == 1 .. MaxTunnel
Plane == {"h2", "quic"}
Pull == {"NoPolicyFace", "UpToDate", "Update"}
Outcome == Pull \cup {"none", "ok", "rejected", "failed", "timeout"}

VARIABLE cc

ControlState ==
  [slot : 0 .. MaxTunnel,                  \* 0: withdrawn
   life : [Session -> {"none", "up", "closing", "down"}],
   plane : [Session -> Plane],
   sender : [Session -> Call \cup {Nobody}],  \* the h2 sender's lock
   routed : SUBSET Session,                 \* sessions with the route cached
   flow : BOOLEAN, stops : 0 .. MaxStop,
   call : [Call -> [kind : CallKind, form : {"good", "malformed", "foreign"},
                    at : {"idle", "lock", "ready", "await", "body", "over"},
                    on : 0 .. MaxTunnel,
                    hub : {"none", "asked", "value", "refused", "error",
                           "closed"},
                    said : Outcome, result : Outcome]],
   stream : [at : {"idle", "registered", "open", "ended", "over"},
             reg : 0 .. MaxTunnel, on : 0 .. MaxTunnel],
   known : SUBSET Session]                  \* sessions whose hub has the stream

Unasked == [kind |-> "ping", form |-> "good", at |-> "idle", on |-> 0,
            hub |-> "none", said |-> "none", result |-> "none"]

ControlStart ==
  [slot |-> 0, life |-> [b \in Session |-> "none"],
   plane |-> [b \in Session |-> "h2"],
   sender |-> [b \in Session |-> Nobody], routed |-> {},
   flow |-> TRUE, stops |-> 0, call |-> [k \in Call |-> Unasked],
   stream |-> [at |-> "idle", reg |-> 0, on |-> 0], known |-> {}]

ControlInit == cc = ControlStart

-----------------------------------------------------------------------------
(* Sessions.  The supervisor installs a backend in the slot and withdraws  *)
(* it first thing when the session winds down.                             *)

Up(b) == b \in Session /\ cc.life[b] = "up"

\* Bytes move on a session whose connection stands and whose path carries.
Carries(b) == Up(b) /\ cc.flow

install(b, p) ==
  /\ cc.life[b] = "none"
  /\ \A a \in 1 .. b - 1 : cc.life[a] = "down"
  /\ cc' = [cc EXCEPT !.life[b] = "up", !.plane[b] = p, !.slot = b]

\* The session ends: withdraw, then shut the transport down.
Wind(b) ==
  cc' = [cc EXCEPT !.life[b] = "closing", !.slot = 0]

ConnectionLost(b) == Up(b) /\ Wind(b)

\* A path that carries nothing is noticed by keepalive, watchdog or probe.
SilenceNoticed(b) == Up(b) /\ ~cc.flow /\ Wind(b)

\* `shutdown` of the backend clears its stream tables and drops the
\* connection, which fails whatever still waits on it.
shutdown(b) ==
  /\ cc.life[b] = "closing"
  /\ cc' = [cc EXCEPT !.life[b] = "down", !.known = @ \ {b}]

FlowStops ==
  /\ cc.flow /\ cc.stops < MaxStop
  /\ cc' = [cc EXCEPT !.flow = FALSE, !.stops = @ + 1]

FlowResumes == ~cc.flow /\ cc' = [cc EXCEPT !.flow = TRUE]

-----------------------------------------------------------------------------
(* A call, from the facade to its outcome.                                  *)

Over(k, outcome) ==
  [Unasked EXCEPT !.at = "over", !.said = cc.call[k].said, !.result = outcome]

\* An empty slot fails the call at once.
slot_empty_error(k) ==
  /\ cc.call[k].at = "idle" /\ cc.slot = 0
  /\ cc' = [cc EXCEPT !.call[k] = Over(k, "failed")]

\* A route is answered from the session's cache.
CacheHit(k) ==
  /\ cc.call[k].at = "idle" /\ cc.slot \in cc.routed /\ "route" \in Kind
  /\ cc' = [cc EXCEPT !.call[k] = Over(k, "ok")]

\* The call takes a snapshot of the backend.  h2 calls queue for the sender,
\* QUIC calls open a stream of their own.
Ask(k, kind, form) ==
  LET b == cc.slot
  IN /\ cc.call[k].at = "idle" /\ b # 0
     /\ kind = "route" => b \notin cc.routed
     /\ form = "malformed" => kind \in {"route", "policy", "submit"}
     /\ cc.plane[b] = "h2" => form = "good"
     /\ cc' = [cc EXCEPT !.call[k] =
               [@ EXCEPT !.kind = kind, !.form = form, !.on = b,
                !.at = IF cc.plane[b] = "h2" THEN "lock" ELSE "ready"]]

TakeSender(k) ==
  LET b == cc.call[k].on
  IN /\ cc.call[k].at = "lock" /\ cc.sender[b] = Nobody
     /\ cc' = [cc EXCEPT !.call[k].at = "ready", !.sender[b] = k]

\* Who holds the lock of a session once call k no longer needs it.
Freed(k) ==
  [b \in Session |-> IF cc.sender[b] = k THEN Nobody ELSE cc.sender[b]]

\* The sender is ready, or the stream has credit: the request goes out.
SendRequest(k) ==
  /\ cc.call[k].at = "ready" /\ Carries(cc.call[k].on)
  /\ cc' = [cc EXCEPT !.call[k].at = "await", !.call[k].hub = "asked",
                      !.sender = Freed(k)]

\* The session went away before or after the request was sent.  The sender
\* fails only for the call that holds it.
CallFails(k) ==
  LET q == cc.call[k]
  IN /\ q.at \in {"ready", "await", "body"}
     /\ cc.life[q.on] = "down"
     /\ cc' = [cc EXCEPT !.call[k] = Over(k, "failed"), !.sender = Freed(k)]

\* The ten seconds for the answer are over; the probe's own deadline also
\* covers the wait for the sender.
TimesOut(k) ==
  LET q == cc.call[k]
  IN /\ \/ q.at = "await"
        \/ q.kind = "ping" /\ q.at \in {"lock", "ready"}
     /\ cc' = [cc EXCEPT !.call[k] = Over(k, "timeout"), !.sender = Freed(k)]

-----------------------------------------------------------------------------
(* The hub's side.                                                          *)

\* A known frame type without a handler, or one the codec rejects, in the
\* first position of a stream: an Error frame.
write_error_frame(k) ==
  /\ cc.call[k].form = "foreign"
  /\ cc' = [cc EXCEPT !.call[k].hub = "error"]

\* A payload that does not parse ends the handler, and with it the stream.
Malformed(k) ==
  /\ cc.call[k].form = "malformed"
  /\ cc' = [cc EXCEPT !.call[k].hub = "closed"]

\* A policy pull: what `serve_policy_conditional` decided.
ServePolicy(k) ==
  /\ cc.call[k].form = "good" /\ cc.call[k].kind = "policy"
  /\ \E p \in Pull : cc' = [cc EXCEPT !.call[k].hub = "value",
                                      !.call[k].said = p]

\* A route request is granted or denied.
ServeRoute(k) ==
  /\ cc.call[k].form = "good" /\ cc.call[k].kind = "route"
  /\ \/ cc' = [cc EXCEPT !.call[k].hub = "value", !.call[k].said = "ok"]
     \/ cc' = [cc EXCEPT !.call[k].hub = "refused", !.call[k].said = "rejected"]

Serve(k) == cc' = [cc EXCEPT !.call[k].hub = "value", !.call[k].said = "ok"]

\* The peers of the tenant.
ServePeers(k) ==
  cc.call[k].form = "good" /\ cc.call[k].kind = "peers" /\ Serve(k)

\* A proposal: queued, duplicate or denied, each an answer of its own.
ServeSubmit(k) ==
  cc.call[k].form = "good" /\ cc.call[k].kind = "submit" /\ Serve(k)

\* The proposals of the agent.
ServeMine(k) ==
  cc.call[k].form = "good" /\ cc.call[k].kind = "mine" /\ Serve(k)

\* The liveness question.
ServePing(k) ==
  cc.call[k].form = "good" /\ cc.call[k].kind = "ping" /\ Serve(k)

handle_quic_stream(k) ==
  /\ cc.call[k].hub = "asked" /\ cc.call[k].at = "await"
  /\ Carries(cc.call[k].on)
  /\ \/ write_error_frame(k) \/ Malformed(k)
     \/ ServePolicy(k) \/ ServeRoute(k) \/ ServePeers(k) \/ ServeSubmit(k)
     \/ ServeMine(k) \/ ServePing(k)

-----------------------------------------------------------------------------
(* The answer.                                                              *)

\* How the h2 client reads the status of a policy pull.
PullOfStatus(status) ==
  CASE status = 404 -> "NoPolicyFace" [] status = 304 -> "UpToDate"
    [] status = 200 -> "Update"

\* The status the hub answers a policy pull with.
StatusOf(pull) ==
  CASE pull = "NoPolicyFace" -> 404 [] pull = "UpToDate" -> 304
    [] pull = "Update" -> 200

\* The response head: a refusal or an answer without body decides, any other
\* is followed by the body, which has no deadline of its own.
ReadHead(k) ==
  LET q == cc.call[k]
  IN /\ q.at = "await" /\ Carries(q.on) /\ cc.plane[q.on] = "h2"
     /\ \/ /\ q.hub = "refused"
           /\ cc' = [cc EXCEPT !.call[k] = Over(k, "rejected")]
        \/ /\ q.hub = "value" /\ q.kind = "ping"
           /\ cc' = [cc EXCEPT !.call[k] = Over(k, "ok")]
        \/ /\ q.hub = "value" /\ q.kind = "policy" /\ StatusOf(q.said) # 200
           /\ cc' = [cc EXCEPT !.call[k] =
                       Over(k, PullOfStatus(StatusOf(q.said)))]
        \/ /\ q.hub = "value" /\ q.kind # "ping"
           /\ q.kind = "policy" => StatusOf(q.said) = 200
           /\ cc' = [cc EXCEPT !.call[k].at = "body"]

\* What the caller makes of an answer that arrived whole.
Value(q) == IF q.kind = "policy" THEN q.said ELSE "ok"

Routed(k) ==
  IF cc.call[k].kind = "route" THEN cc.routed \cup {cc.call[k].on}
  ELSE cc.routed

ReadBody(k) ==
  LET q == cc.call[k]
  IN /\ q.at = "body" /\ Carries(q.on)
     /\ cc' = [cc EXCEPT !.call[k] = Over(k, Value(q)), !.routed = Routed(k)]

\* One read of the QUIC stream: a frame of the expected type and id, an Error
\* frame, a RouteAck without a token, or the end of the stream.
control_roundtrip(k) ==
  LET q == cc.call[k]
  IN /\ q.at = "await" /\ Carries(q.on) /\ cc.plane[q.on] = "quic"
     /\ \/ /\ q.hub = "value"
           /\ cc' = [cc EXCEPT !.call[k] = Over(k, Value(q)),
                               !.routed = Routed(k)]
        \/ /\ q.hub \in {"error", "closed"}
           /\ cc' = [cc EXCEPT !.call[k] = Over(k, "failed")]
        \/ /\ q.hub = "refused"
           /\ cc' = [cc EXCEPT !.call[k] = Over(k, "rejected")]

-----------------------------------------------------------------------------
(* A stream of an embedder: register the answer channel, open, use, close. *)

\* The channel is registered with the session of this moment; without one it
\* is closed already.
register_stream ==
  /\ cc.stream.at = "idle"
  /\ cc' = [cc EXCEPT !.stream.at = "registered", !.stream.reg = cc.slot]

\* The Open goes to the session of the next moment.
send_open_with ==
  /\ cc.stream.at = "registered"
  /\ \/ /\ Carries(cc.slot)
        /\ cc' = [cc EXCEPT !.stream.at = "open", !.stream.on = cc.slot,
                            !.known = @ \cup {cc.slot}]
     \/ /\ cc.slot = 0
        /\ cc' = [cc EXCEPT !.stream.at = "ended"]

\* The answer channel is closed: never opened, or its session was shut down.
ChannelClosed == cc.stream.reg # 0 => cc.life[cc.stream.reg] = "down"

\* The pump ends because its channel closed or the client is finished.
StreamEnds ==
  /\ cc.stream.at = "open"
  /\ ChannelClosed
  /\ cc' = [cc EXCEPT !.stream.at = "ended"]

\* The Close goes to the session of the moment, whichever it is.
send_close ==
  /\ cc.stream.at = "ended"
  /\ \/ /\ Carries(cc.slot)
        /\ cc' = [cc EXCEPT !.stream = [at |-> "over", reg |-> 0, on |-> 0],
                            !.known = @ \ {cc.slot}]
     \/ /\ cc.slot = 0
        /\ cc' = [cc EXCEPT !.stream = [at |-> "over", reg |-> 0, on |-> 0]]

-----------------------------------------------------------------------------
CallStep(k) ==
  \/ TakeSender(k) \/ SendRequest(k) \/ CallFails(k) \/ handle_quic_stream(k)
  \/ ReadHead(k) \/ ReadBody(k) \/ control_roundtrip(k)

ControlNext ==
  \/ \E b \in Session : \/ \E p \in Plane : install(b, p)
                        \/ ConnectionLost(b) \/ SilenceNoticed(b) \/ shutdown(b)
  \/ FlowStops \/ FlowResumes
  \/ \E k \in Call : \/ slot_empty_error(k) \/ CacheHit(k) \/ TimesOut(k)
                     \/ \E kind \in Kind, form \in Form : Ask(k, kind, form)
                     \/ CallStep(k)
  \/ register_stream \/ send_open_with \/ StreamEnds \/ send_close

\* Every task is polled; the path's silence is noticed and a session winds
\* down.  Deadlines may fire but nothing relies on them.
ControlFairness ==
  /\ \A k \in Call : WF_cc(CallStep(k))
  /\ \A b \in Session : WF_cc(SilenceNoticed(b)) /\ WF_cc(shutdown(b))
  /\ WF_cc(FlowResumes)
  /\ WF_cc(send_open_with) /\ WF_cc(StreamEnds) /\ WF_cc(send_close)

ControlSpec == ControlInit /\ [][ControlNext]_cc /\ ControlFairness

-----------------------------------------------------------------------------
\* Slot, sessions, calls and the stream are well formed.
ControlTypeOK == cc \in ControlState

\* What the caller learns is what the hub decided, on either transport: in
\* particular a hub without a policy face is never taken for one whose policy
\* is up to date.
AnswerIsHubs ==
  \A k \in Call : cc.call[k].result \in Pull \cup {"ok", "rejected"} =>
    cc.call[k].said \in {cc.call[k].result, "none"}

\* Every call that was made settles even if no deadline ever fires: by an
\* answer, an Error frame, the end of its stream or of its session.  This is
\* the "defensive deadline, not a tolerated failure mode" of
\* `control_roundtrip`, and the "never hang" of `SessionSlot`.
CallsSettle ==
  \A k \in Call : cc.call[k].at # "idle" ~> cc.call[k].at = "over"

\* The hub that knows a stream is told of its end or loses the session, even
\* if the channel and the Open landed in different sessions.
StreamLetGo ==
  cc.known # {} /\ cc.stream.reg # cc.stream.on ~> cc.known = {}

=============================================================================
