------------------------------- MODULE Breakers -------------------------------
(***************************************************************************)
(* The circuit breaker (mesh/src/agent/target_breaker.rs) in its two uses: *)
(* the edge's route breaker in front of the agent's target breaker.  A     *)
(* request passes the edge's table, then the agent's, then dials; what     *)
(* comes of it is reported to both.  Instants are ages and remaining times *)
(* in ticks.                                                               *)
(***************************************************************************)
EXTENDS Integers, Sequences, FiniteSets, SequencesExt

CONSTANTS Target,     \* hosts, one backend each
          Request,
          Threshold, Window, Cooldown, ProbeInterval,
          MaxTracked, \* entries of a table
          NoEntry

ASSUME BreakerAssumption ==
  Threshold \in Nat \ {0} /\ {Window, Cooldown, ProbeInterval, MaxTracked} \subseteq Nat

VARIABLE bk

Entry == [open : BOOLEAN,
          fails : UNION {[1..n -> 0..(Window + 1)] : n \in 0..Threshold},  \* ages
          wait : 0..Cooldown,          \* until the deadline
          since : 0..ProbeInterval,    \* since the last probe
          quiet : 0..(Cooldown + 1)]   \* since the last direct failure

BreakerTable == [entry : [Target -> Entry \cup {NoEntry}],
                 lru : Seq(Target),    \* tracked targets, least recently touched first
                 tripped : 0..MaxTracked]

BreakerState ==
  [edge : BreakerTable, agent : BreakerTable, backend : [Target -> {"up", "down"}],
   req : [Request -> [at : {"idle", "edge", "agent", "failed", "circuit", "served", "aborted"},
                      target : Target, probe : BOOLEAN]]]

EmptyTable == [entry |-> [t \in Target |-> NoEntry], lru |-> <<>>, tripped |-> 0]

BreakerStart(t) ==
  [edge |-> EmptyTable, agent |-> EmptyTable, backend |-> [u \in Target |-> "up"],
   req |-> [q \in Request |-> [at |-> "idle", target |-> t, probe |-> FALSE]]]

BreakerInit == \E t \in Target : bk = BreakerStart(t)

Tracked(b) == {t \in Target : b.entry[t] # NoEntry}

Touch(b, t) == [b EXCEPT !.lru = Append(SelectSeq(@, LAMBDA u : u # t), t)]

\* The verdict of check and the table it leaves.
Verdict(b, t) ==
  IF b.entry[t] = NoEntry \/ (b.entry[t] # NoEntry /\ ~b.entry[t].open) THEN "Allow"
  ELSE IF b.entry[t].wait = 0 /\ b.entry[t].since >= ProbeInterval THEN "Probe"
  ELSE "Reject"

Checked(b, t) ==
  IF b.entry[t] = NoEntry THEN b
  ELSE IF Verdict(b, t) = "Probe" THEN [Touch(b, t) EXCEPT !.entry[t].since = 0]
  ELSE Touch(b, t)

\* The failures that are still inside the window, with a new one.
Recent(f) == Append(SelectSeq(f, LAMBDA age : age <= Window), 0)

trip(b, t) ==
  [b EXCEPT !.entry[t].open = TRUE, !.entry[t].wait = Cooldown, !.entry[t].since = 0,
            !.tripped = @ + 1]

TripIfDue(b, t) == IF Len(b.entry[t].fails) >= Threshold THEN trip(b, t) ELSE b

\* The victim of a full table: closed entries first, then the least recently
\* touched.
eviction_candidate(b) ==
  LET closed == SelectSeq(b.lru, LAMBDA t : ~b.entry[t].open)
  IN IF closed # <<>> THEN Head(closed) ELSE Head(b.lru)

\* Mutant: an evicted entry stays in the count of tripped ones.
EvictedCounted(b) ==
  LET v == eviction_candidate(b)
  IN [b EXCEPT !.entry[v] = NoEntry, !.lru = SelectSeq(@, LAMBDA t : t # v)]

Evicted(b) ==
  LET v == eviction_candidate(b)
  IN [b EXCEPT !.entry[v] = NoEntry, !.lru = SelectSeq(@, LAMBDA t : t # v),
               !.tripped = IF b.entry[v].open THEN @ - 1 ELSE @]

NewEntry(b, t) ==
  [b EXCEPT !.entry[t] = [open |-> FALSE, fails |-> <<0>>, wait |-> 0, since |-> 0, quiet |-> 0],
            !.lru = Append(@, t)]

\* A failure.  A tripped entry is armed again by direct evidence only.
record_failure(b, t, soft) ==
  IF b.entry[t] = NoEntry
  THEN TripIfDue(NewEntry(IF Cardinality(Tracked(b)) >= MaxTracked THEN Evicted(b) ELSE b, t), t)
  ELSE IF b.entry[t].open
  THEN IF soft THEN Touch(b, t)
       ELSE [Touch(b, t) EXCEPT !.entry[t].wait = Cooldown, !.entry[t].quiet = 0]
  ELSE TripIfDue([Touch(b, t) EXCEPT !.entry[t].fails = Recent(@), !.entry[t].quiet = 0], t)

\* A success removes a tripped entry and leaves a closed one alone.
note_success(b, t) ==
  IF b.entry[t] = NoEntry THEN b
  ELSE IF ~b.entry[t].open THEN Touch(b, t)
  ELSE [b EXCEPT !.entry[t] = NoEntry, !.lru = SelectSeq(@, LAMBDA u : u # t), !.tripped = @ - 1]

-----------------------------------------------------------------------------

\* A public connection for a route passes or is refused by the route breaker.
EdgeChecks(q, t) ==
  /\ bk.req[q].at = "idle"
  /\ LET v == Verdict(bk.edge, t)
     IN bk' = [bk EXCEPT !.edge = Checked(bk.edge, t),
                         !.req[q] = IF v = "Reject" THEN @
                                    ELSE [at |-> "edge", target |-> t, probe |-> v = "Probe"]]

\* The agent's breaker refuses before the dial, or the open goes on.
AgentChecks(q) ==
  /\ bk.req[q].at = "edge"
  /\ LET t == bk.req[q].target
     IN bk' = [bk EXCEPT !.agent = Checked(bk.agent, t),
                         !.req[q].at = IF Verdict(bk.agent, t) = "Reject" THEN "circuit" ELSE "agent"]

\* The dial succeeds or fails with the backend.
Dial(q) ==
  /\ bk.req[q].at = "agent"
  /\ LET t == bk.req[q].target
     IN IF bk.backend[t] = "up"
        THEN \E r \in {"served", "aborted"} :
               bk' = [bk EXCEPT !.agent = note_success(bk.agent, t), !.req[q].at = r]
        ELSE bk' = [bk EXCEPT !.agent = record_failure(bk.agent, t, FALSE), !.req[q].at = "failed"]

\* A request that is lost on the way leaves no evidence.
RequestLost(q) ==
  /\ bk.req[q].at \in {"edge", "agent"}
  /\ bk' = [bk EXCEPT !.req[q].at = "aborted"]

\* The evidence of a finished connection, by how it was closed.
route_evidence(at) ==
  CASE at = "failed"  -> "Failure"
    [] at = "circuit" -> "DerivativeFailure"
    [] at = "served"  -> "Recovery"
    [] OTHER          -> "Neutral"

EdgeHears(q) ==
  /\ bk.req[q].at \in {"failed", "circuit", "served", "aborted"}
  /\ LET t == bk.req[q].target
         e == route_evidence(bk.req[q].at)
     IN bk' = [bk EXCEPT
          !.req[q] = [@ EXCEPT !.at = "idle", !.probe = FALSE],
          !.edge = CASE e = "Failure"           -> record_failure(@, t, FALSE)
                     [] e = "DerivativeFailure" -> record_failure(@, t, TRUE)
                     [] e = "Recovery"          -> note_success(@, t)
                     [] OTHER                   -> @]

BackendChanges(t) ==
  /\ bk' = [bk EXCEPT !.backend[t] = IF @ = "up" THEN "down" ELSE "up"]

AtMost(n, bound) == IF n < bound THEN n + 1 ELSE bound

Aged(e) ==
  IF e = NoEntry THEN NoEntry
  ELSE [e EXCEPT !.fails = [i \in DOMAIN @ |-> AtMost(@[i], Window + 1)],
                 !.wait = IF @ > 0 THEN @ - 1 ELSE 0,
                 !.since = AtMost(@, ProbeInterval),
                 !.quiet = AtMost(@, Cooldown + 1)]

BreakerTick ==
  /\ bk' = [bk EXCEPT !.edge.entry = [t \in Target |-> Aged(@[t])],
                      !.agent.entry = [t \in Target |-> Aged(@[t])]]

BreakerNext ==
  \/ BreakerTick
  \/ \E t \in Target : BackendChanges(t) \/ \E q \in Request : EdgeChecks(q, t)
  \/ \E q \in Request : AgentChecks(q) \/ Dial(q) \/ RequestLost(q) \/ EdgeHears(q)

\* Time passes, requests keep coming and end, and some are served in full.
BreakerFairness ==
  /\ WF_bk(BreakerTick)
  /\ \A q \in Request : /\ SF_bk(AgentChecks(q)) /\ WF_bk(EdgeHears(q))
                        /\ SF_bk(Dial(q) /\ bk'.req[q].at \in {"served", "failed"})
                        /\ \A t \in Target : SF_bk(EdgeChecks(q, t) /\ bk'.req[q].at = "edge")

BreakerSpec == BreakerInit /\ [][BreakerNext]_bk /\ BreakerFairness

\* Circuits, requests and the eviction order have their types.
BreakerTypeOK == bk \in BreakerState

\* The counter of tripped entries is exact, across trips, recoveries, evictions
\* of a full table and late reports on entries that were recreated.
TrippedCounted ==
  \A b \in {bk.edge, bk.agent} :
    /\ b.tripped = Cardinality({t \in Tracked(b) : b.entry[t].open})
    /\ Cardinality(Tracked(b)) <= MaxTracked
    /\ ToSet(b.lru) = Tracked(b)

\* Second-hand evidence never extends an outage: once no dial has failed for a
\* cooldown the route may be probed, however often the agent's own breaker
\* answered meanwhile.
OutageBounded ==
  \A b \in {bk.edge, bk.agent}, t \in Target :
    b.entry[t] # NoEntry => (b.entry[t].quiet >= Cooldown => b.entry[t].wait = 0)

\* The two layers do not lock each other open: a backend that is up for good
\* is admitted again by both.
RouteRecovers ==
  \A t \in Target :
    <>[](bk.backend[t] = "up")
      => []<>(Verdict(bk.edge, t) = "Allow" /\ Verdict(bk.agent, t) = "Allow")

\* The breakers' own book-keeping is exact, and an outage lasts no longer
\* than the first-hand evidence for it.
BreakersBounded == TrippedCounted /\ OutageBounded
=============================================================================
