------------------------------ MODULE StreamPump ------------------------------
(***************************************************************************)
(* The pump of one stream (core/src/tunnel/pump.rs): two halves in one     *)
(* task that copy between a socket and the tunnel and share one idle       *)
(* clock.  Timers count down; time passes only when none is due.           *)
(***************************************************************************)
EXTENDS Naturals

CONSTANTS QuietTicks,   \* idle_timeout
          StallTicks,  \* write_stall_timeout
          DrainTicks   \* local_eof_drain

VARIABLE pm

PumpState ==
  [kind   : {"duplex", "plain"},    \* pump_duplex or pump_tcp_stream
   since  : 0..QuietTicks,                \* age of the last progress of either half
   lt     : 0..QuietTicks,                \* what is left of the local half's wait
   tt     : 0..QuietTicks,                \* ... and of the tunnel half's
   wt     : 0..StallTicks,               \* write stall budget
   dt     : 0..DrainTicks,               \* drain window
   local  : {"wait", "send", "done"},
   tunnel : {"wait", "write", "done"},
   phase  : {"both", "drainLocal", "drainTunnel", "cut", "over"},
   first  : {"none", "local", "tunnel"},  \* the half that ended the select
   relay  : BOOLEAN,                \* response_relayed
   idle   : BOOLEAN,                \* idle_expired
   shut   : BOOLEAN]                \* delivery for the stream was cut

PumpStart(k) ==
  [kind |-> k, since |-> 0, lt |-> QuietTicks, tt |-> QuietTicks, wt |-> 0, dt |-> 0,
   local |-> "wait", tunnel |-> "wait", phase |-> "both", first |-> "none",
   relay |-> FALSE, idle |-> FALSE, shut |-> FALSE]

PumpInit == \E k \in {"duplex", "plain"} : pm = PumpStart(k)

LocalLives == pm.local # "done" /\ pm.phase \in {"both", "drainLocal"}

TunnelLives == pm.tunnel # "done" /\ pm.phase \in {"both", "drainTunnel"}

\* The select returns with the first half that ends.  A duplex pump lets the
\* other one go on for a while; a plain pump drops its read half, or cuts the
\* delivery and lets the write half drain what is buffered.
LocalDone(s) ==
  CASE s.phase = "drainLocal" -> [s EXCEPT !.local = "done", !.phase = "cut"]
    [] s.phase = "both" /\ s.kind = "duplex" ->
         [s EXCEPT !.local = "done", !.phase = "drainTunnel", !.first = "local", !.dt = DrainTicks]
    [] s.phase = "both" /\ s.kind = "plain" ->
         [s EXCEPT !.local = "done", !.phase = "drainTunnel", !.first = "local", !.shut = TRUE]

TunnelDone(s) ==
  CASE s.phase = "drainTunnel" -> [s EXCEPT !.tunnel = "done", !.phase = "cut"]
    [] s.phase = "both" /\ s.kind = "duplex" ->
         [s EXCEPT !.tunnel = "done", !.phase = "drainLocal", !.first = "tunnel", !.dt = DrainTicks]
    [] s.phase = "both" /\ s.kind = "plain" ->
         [s EXCEPT !.tunnel = "done", !.phase = "cut", !.first = "tunnel"]

\* The head of a half's loop: remaining() is None when the budget is used up,
\* otherwise the half waits for what is left of it.
ArmLocal(s) ==
  IF s.since = QuietTicks THEN LocalDone([s EXCEPT !.idle = TRUE])
  ELSE [s EXCEPT !.local = "wait", !.lt = QuietTicks - s.since]

ArmTunnel(s) ==
  IF s.since = QuietTicks THEN TunnelDone([s EXCEPT !.idle = TRUE])
  ELSE [s EXCEPT !.tunnel = "wait", !.tt = QuietTicks - s.since]

\* Bytes from the local endpoint: progress, then a send into the tunnel.
LocalRead ==
  /\ LocalLives /\ pm.local = "wait"
  /\ pm' = [pm EXCEPT !.local = "send", !.since = 0]

LocalSent ==
  /\ LocalLives /\ pm.local = "send"
  /\ pm' = ArmLocal(pm)

\* EOF or an error of the endpoint, or a failed send.
LocalEof ==
  /\ LocalLives
  /\ pm' = LocalDone(pm)

\* Mutant: the half judges by its own wait.
LocalTimerAlone ==
  /\ LocalLives /\ pm.local = "wait" /\ pm.lt = 0
  /\ pm' = LocalDone([pm EXCEPT !.idle = TRUE])

\* The half's own wait is over: look at the shared clock again.
LocalTimer ==
  /\ LocalLives /\ pm.local = "wait" /\ pm.lt = 0
  /\ pm' = ArmLocal(pm)

\* A frame from the tunnel: progress, then a bounded write to the endpoint.
TunnelRead ==
  /\ TunnelLives /\ pm.tunnel = "wait"
  /\ pm' = [pm EXCEPT !.tunnel = "write", !.since = 0, !.wt = StallTicks]

TunnelWritten ==
  /\ TunnelLives /\ pm.tunnel = "write"
  /\ pm' = ArmTunnel([pm EXCEPT !.relay = TRUE, !.wt = 0])

TunnelStalls ==
  /\ TunnelLives /\ pm.tunnel = "write" /\ pm.wt = 0
  /\ pm' = TunnelDone(pm)

\* A Close frame, a closed channel, a failed write.
TunnelEof ==
  /\ TunnelLives
  /\ pm' = TunnelDone([pm EXCEPT !.wt = 0])

\* Mutant: the tunnel half waits without a deadline.
TunnelTimerNever == FALSE /\ pm' = pm

TunnelTimer ==
  /\ TunnelLives /\ pm.tunnel = "wait" /\ pm.tt = 0
  /\ pm' = ArmTunnel(pm)

\* The drain window closes on the half that is still there.
DrainOver ==
  /\ pm.kind = "duplex" /\ pm.phase \in {"drainLocal", "drainTunnel"} /\ pm.dt = 0
  /\ pm' = [pm EXCEPT !.phase = "cut"]

\* cut_delivery, or unregister_stream, then the pump returns.
Cut ==
  /\ pm.phase = "cut"
  /\ pm' = [pm EXCEPT !.phase = "over", !.shut = TRUE]

\* A timer that is due fires before time goes on.
Due ==
  \/ LocalLives /\ pm.local = "wait" /\ pm.lt = 0
  \/ TunnelLives /\ pm.tunnel = "wait" /\ pm.tt = 0
  \/ TunnelLives /\ pm.tunnel = "write" /\ pm.wt = 0
  \/ pm.kind = "duplex" /\ pm.phase \in {"drainLocal", "drainTunnel"} /\ pm.dt = 0

Down(n) == IF n = 0 THEN 0 ELSE n - 1

PumpTick ==
  /\ pm.phase \in {"both", "drainLocal", "drainTunnel"} /\ ~Due
  /\ pm' = [pm EXCEPT !.since = IF @ = QuietTicks THEN @ ELSE @ + 1, !.lt = Down(@),
                      !.tt = Down(@), !.wt = Down(@), !.dt = Down(@)]

PumpNext ==
  \/ LocalRead \/ LocalSent \/ LocalEof \/ LocalTimer
  \/ TunnelRead \/ TunnelWritten \/ TunnelStalls \/ TunnelEof \/ TunnelTimer
  \/ DrainOver \/ Cut \/ PumpTick

\* Time passes and timers fire.  No byte, no frame and no end is assumed,
\* except that a plain pump's write half finds the end of its channel.
PumpFairness ==
  /\ WF_pm(PumpTick) /\ WF_pm(LocalTimer) /\ WF_pm(TunnelTimer) /\ WF_pm(TunnelStalls)
  /\ WF_pm(DrainOver) /\ WF_pm(Cut) /\ WF_pm(pm.shut /\ TunnelEof)

PumpSpec == PumpInit /\ [][PumpNext]_pm /\ PumpFairness

\* Both directions of the pump and its timers have their types.
PumpTypeOK == pm \in PumpState

\* The idle budget is shared: a stream is given up for idleness only when
\* neither direction moved for all of it (a stream that only receives lives).
IdleOnlyWhenSilent == [][~pm.idle /\ pm'.idle => pm.since = QuietTicks]_pm

\* After the local end of a duplex stream the delivery is not cut while the
\* peer's answer may still come: either the tunnel half has seen its end or the
\* whole window has passed.
AnswerIsAwaited ==
  [][pm.kind = "duplex" /\ pm.phase = "drainTunnel" /\ pm'.phase = "cut"
       => pm'.tunnel = "done" \/ pm.dt = 0]_pm

\* A stream that is silent in both directions for the budget is closed.  This
\* includes one whose local half hangs in a send, which no timer of its own bounds.
SilenceEnds == (pm.since = QuietTicks) ~> (pm.since = 0 \/ pm.phase = "over")

\* Once one half has ended, the pump returns.
HalfEndsAll == (pm.first # "none") ~> (pm.phase = "over")
=============================================================================
