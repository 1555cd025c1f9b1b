------------------------------ MODULE SlotProofs ------------------------------
(***************************************************************************)
(* Proofs about the slot counters of HubStreams: they are exact as long as *)
(* the agents at one end of the streams keep their registration.           *)
(***************************************************************************)
EXTENDS HubStreamsProofs, FiniteSetTheorems

-------------------------------------------------------------------------------
(* Registrations.                                                          *)

\* Only agents that restart are ever unregistered or swept.
OnlyRestarting ==
  /\ \A a \in Agent : circ[a] = 0 => a \in Restarting
  /\ \A k \in Sweeper : sweep[k].pc # "idle" => sweep[k].agent \in Restarting

LEMMA RestartingInit == Init => OnlyRestarting
BY DEF Init, OnlyRestarting, IdleSweep

LEMMA RestartingStep == Types /\ OnlyRestarting /\ [Next]_vars => OnlyRestarting'
<1> SUFFICES ASSUME Types, OnlyRestarting, [Next]_vars PROVE OnlyRestarting'
  OBVIOUS
<1>1. CASE circ' = circ /\ sweep' = sweep
  BY <1>1 DEF OnlyRestarting
<1>2. ASSUME NEW a \in Agent, Connect(a) \/ Evict(a) \/ Reinsert(a) PROVE OnlyRestarting'
  <2>1. a \in Restarting
    BY <1>2 DEF Connect, Evict, Reinsert, OnlyRestarting
  <2>2. \A b \in Agent : b # a => circ'[b] = circ[b]
    BY <1>2 DEF Connect, Evict, Reinsert, Types
  <2>3. PICK kind, of : StartSweep(a, kind, of)
    BY <1>2 DEF Connect, Evict, Reinsert
  <2>4. \A k \in Sweeper : sweep'[k] = sweep[k] \/ sweep'[k].agent = a
    BY <2>3 DEF StartSweep, IdleSweep, Types
  <2> QED BY <2>1, <2>2, <2>4 DEF OnlyRestarting
<1>3. ASSUME NEW k \in Sweeper, SweepStep(k) \/ SweepDropped(k) PROVE OnlyRestarting'
  <2>1. circ' = circ /\ sweep[k].pc # "idle"
    BY <1>3, Zenon DEF SweepStep, SweepRetain, SweepReset, SweepNotify, SweepDropped, reg
  <2>2. sweep'[k].pc = "idle" \/ sweep'[k].agent = sweep[k].agent
    <3>1. CASE SweepRetain(k)
      BY <3>1, Zenon DEF SweepRetain, Types, SweepRec
    <3>2. CASE SweepReset(k)
      BY <3>2 DEF SweepReset, Types, SweepRec
    <3>3. CASE SweepNotify(k)
      BY <3>3 DEF SweepNotify, Types, SweepRec, IdleSweep
    <3>4. CASE SweepDropped(k)
      BY <3>4 DEF SweepDropped, Types, IdleSweep
    <3> QED BY <1>3, <3>1, <3>2, <3>3, <3>4 DEF SweepStep
  <2>3. \A j \in Sweeper : j # k => sweep'[j] = sweep[j]
    BY <1>3, Zenon DEF SweepStep, SweepRetain, SweepReset, SweepNotify, SweepDropped, Types
  <2> QED BY <2>1, <2>2, <2>3 DEF OnlyRestarting
<1>4. ASSUME NEW s \in Stream, OpenSend(s) \/ OpenStep(s) \/ Handshake(s) PROVE OnlyRestarting'
  BY <1>1, <1>4 DEF OpenSend, OpenStep, OpenCheck, Admit, Refuse, ResolveMissing, ResolvePoll,
     ResolvePollFails, ResolveRelay, ResolveRelayFails, OpenInsert, OpenNotify, OpenRollback,
     OpenRelease, OpenReject, Handshake, reg
<1>5. ASSUME NEW s \in Stream, NEW d \in Side,
             CloseStep(s, d) \/ FrameLost(s, d) \/ EndpointCloses(s, d) \/ DataRejected(s, d) \/ RelayRejected(s, d)
      PROVE  OnlyRestarting'
  BY <1>1, <1>5 DEF CloseStep, CloseRead, CloseRemove, Teardown, TeardownRelease, CloseNotify,
     RelayWriterEnds, RelayEof, FrameLost, EndpointCloses, DataRejected, RelayRejected, reg
<1>6. ASSUME NEW a \in Agent, Deliver(a) \/ Disconnect(a) PROVE OnlyRestarting'
  BY <1>1, <1>6, Zenon DEF Deliver, Disconnect, reg
<1>7. CASE UNCHANGED vars
  BY <1>1, <1>7 DEF vars
<1> QED BY <1>2, <1>3, <1>4, <1>5, <1>6, <1>7 DEF Next

-------------------------------------------------------------------------------
(* Slots.  Every step is quiet, takes one slot, frees one, or sweeps.      *)

\* Between insert and notification a rollback may still release the slot.
Covered(s) == HasSlot(s) \/ (open[s].pc = "notify" /\ open[s].face = "poll")

KeepsSlot(s) == (HasSlot(s) => HasSlot(s)') /\ (Covered(s)' => Covered(s))
KeepsResets == \A a \in Agent : ResetPending(a) => ResetPending(a)'

Quiet == count' = count /\ (\A x \in Stream : KeepsSlot(x)) /\ KeepsResets

Taken(s) ==
  /\ \A x \in Stream : x # s => KeepsSlot(x)
  /\ ~Covered(s) /\ HasSlot(s)' /\ KeepsResets
  /\ count' = IF MaxPerAgent = 0 THEN count ELSE [count EXCEPT ![Src[s]] = @ + 1]
  /\ MaxPerAgent # 0 => count[Src[s]] < MaxPerAgent

Freed(s) ==
  /\ \A x \in Stream : x # s => KeepsSlot(x)
  /\ HasSlot(s) /\ ~Covered(s)' /\ KeepsResets
  /\ count' = Release(Src[s])

\* What a step leaves alone keeps its slot.
LEMMA SlotFrame ==
  ASSUME NEW s \in Stream, open'[s].pc = open[s].pc, open'[s].face = open[s].face,
         \A d \in Side : closer'[s][d].pc = "release" <=> closer[s][d].pc = "release",
         s \in DOMAIN table' <=> s \in DOMAIN table
  PROVE  KeepsSlot(s)
BY DEF KeepsSlot, Covered, HasSlot

LEMMA SameResets ==
  ASSUME sweep' = sweep PROVE KeepsResets
BY DEF KeepsResets, ResetPending

LEMMA OpenSlots ==
  ASSUME Types, Stages, NEW s \in Stream, OpenSend(s) \/ OpenStep(s) \/ Handshake(s)
  PROVE  Quiet \/ Taken(s) \/ Freed(s)
<1> USE DEF Side
<1>0. Stage(s) /\ open \in [Stream -> OpenRec] /\ closer \in [Stream -> [Side -> CloserRec]]
      /\ circ \in [Agent -> Nat]
  BY DEF Stages, Types
<1>1. KeepsResets
  BY SameResets DEF OpenSend, OpenStep, OpenCheck, Admit, Refuse, ResolveMissing, ResolvePoll,
     ResolvePollFails, ResolveRelay, ResolveRelayFails, OpenInsert, OpenNotify, OpenRollback,
     OpenRelease, OpenReject, Handshake
<1>2. \A x \in Stream : x # s => (x \in DOMAIN table' <=> x \in DOMAIN table)
  BY DEF OpenSend, OpenStep, OpenCheck, Admit, Refuse, ResolveMissing, ResolvePoll,
     ResolvePollFails, ResolveRelay, ResolveRelayFails, OpenInsert, OpenNotify, OpenRollback,
     OpenRelease, OpenReject, Handshake, Without
<1>3. \A x \in Stream : x # s => open'[x] = open[x]
  BY <1>0 DEF OpenSend, OpenStep, OpenCheck, Admit, Refuse, ResolveMissing, ResolvePoll,
     ResolvePollFails, ResolveRelay, ResolveRelayFails, OpenInsert, OpenNotify, OpenRollback,
     OpenRelease, OpenReject, Handshake, OpenTo, Resolved
<1>4. \A x \in Stream : x # s => closer'[x] = closer[x]
  BY <1>0 DEF OpenSend, OpenStep, OpenCheck, Admit, Refuse, ResolveMissing, ResolvePoll,
     ResolvePollFails, ResolveRelay, ResolveRelayFails, OpenInsert, OpenNotify, OpenRollback,
     OpenRelease, OpenReject, Handshake
<1>5. \A x \in Stream : x # s => KeepsSlot(x)
  BY <1>2, <1>3, <1>4, SlotFrame
<1>6. ASSUME count' = count, KeepsSlot(s) PROVE Quiet
  BY <1>1, <1>5, <1>6 DEF Quiet
<1>7. CASE OpenSend(s) \/ OpenCheck(s) \/ Refuse(s) \/ OpenReject(s)
  <2>1. /\ open[s].pc \in {"new", "check", "admit", "reject"}
        /\ open'[s].pc \in {"check", "admit", "reject", "refused"}
    BY <1>0, <1>7 DEF OpenSend, OpenCheck, Refuse, OpenReject, OpenTo, OpenRec
  <2>2. table' = table /\ closer' = closer /\ count' = count
    BY <1>7 DEF OpenSend, OpenCheck, Refuse, OpenReject
  <2> QED BY <1>6, <2>1, <2>2 DEF KeepsSlot, Covered, HasSlot
<1>8. CASE ResolveMissing(s) \/ ResolvePoll(s) \/ ResolvePollFails(s) \/ ResolveRelay(s) \/ ResolveRelayFails(s)
  <2>1. open[s].pc = "resolve" /\ open'[s].pc \in {"insert", "release"}
    BY <1>0, <1>8, OpenWrite, ResolvedWrite DEF ResolveMissing, ResolvePoll, ResolvePollFails,
       ResolveRelay, ResolveRelayFails, OpenPC, Face
  <2>2. count' = count
    BY <1>8 DEF ResolveMissing, ResolvePoll, ResolvePollFails, ResolveRelay, ResolveRelayFails
  <2> QED BY <1>6, <2>1, <2>2 DEF KeepsSlot, Covered, HasSlot
<1>9. CASE OpenInsert(s)
  <2>1. open[s].pc = "insert" /\ s \in DOMAIN table' /\ count' = count
    BY <1>9 DEF OpenInsert
  <2> QED BY <1>6, <2>1 DEF KeepsSlot, Covered, HasSlot
<1>10. CASE OpenNotify(s)
  <2>1. /\ open[s].pc = "notify" /\ table' = table /\ closer' = closer /\ count' = count
        /\ open'[s].pc = "done" \/ (open'[s].pc = "rollback" /\ open[s].face # "relay")
    BY <1>0, <1>10, OpenWrite DEF OpenNotify, OpenPC
  <2>2. open[s].face \in {"poll", "relay"}
    BY <1>0 DEF OpenRec, Face
  <2> QED BY <1>6, <2>1, <2>2 DEF KeepsSlot, Covered, HasSlot
<1>11. CASE OpenRollback(s)
  <2>1. open[s].pc = "rollback" /\ open'[s].pc = "release" /\ count' = count
    BY <1>0, <1>11, OpenWrite DEF OpenRollback, OpenPC
  <2> QED BY <1>6, <2>1 DEF KeepsSlot, Covered, HasSlot
<1>12. CASE Handshake(s)
  <2>1. open' = open /\ table' = table /\ closer' = closer /\ count' = count
    BY <1>12 DEF Handshake
  <2> QED BY <1>6, <2>1, SlotFrame
<1>13. CASE Admit(s)
  <2>1. open[s].pc = "admit" /\ open'[s].pc = "resolve"
    BY <1>0, <1>13, OpenWrite DEF Admit, OpenPC
  <2>2. ~Covered(s) /\ HasSlot(s)'
    BY <1>0, <2>1 DEF Stage, Untold, Covered, HasSlot
  <2>3. /\ MaxPerAgent # 0 => count[Src[s]] < MaxPerAgent
        /\ count' = IF MaxPerAgent = 0 THEN count ELSE [count EXCEPT ![Src[s]] = @ + 1]
    BY <1>13 DEF Admit
  <2> QED BY <1>1, <1>5, <2>2, <2>3 DEF Taken
<1>14. CASE OpenRelease(s)
  <2>1. /\ open[s].pc = "release" /\ open'[s].pc = "reject" /\ table' = table /\ closer' = closer
        /\ count' = Release(Src[s])
    BY <1>0, <1>14, OpenWrite DEF OpenRelease, OpenPC
  <2>2. HasSlot(s) /\ ~Covered(s)'
    BY <1>0, <2>1 DEF Stage, Covered, HasSlot
  <2> QED BY <1>1, <1>5, <2>1, <2>2 DEF Freed
<1> QED BY <1>7, <1>8, <1>9, <1>10, <1>11, <1>12, <1>13, <1>14 DEF OpenStep

LEMMA CloseSlots ==
  ASSUME Types, Stages, NEW s \in Stream, NEW d \in Side,
         CloseStep(s, d) \/ FrameLost(s, d) \/ EndpointCloses(s, d) \/ DataRejected(s, d) \/ RelayRejected(s, d)
  PROVE  Quiet \/ Freed(s)
<1> USE DEF Side
<1>0. Stage(s) /\ open \in [Stream -> OpenRec] /\ closer \in [Stream -> [Side -> CloserRec]]
  BY DEF Stages, Types
<1>1. KeepsResets
  BY SameResets DEF CloseStep, CloseRead, CloseRemove, Teardown, TeardownRelease, CloseNotify,
     RelayWriterEnds, RelayEof, FrameLost, EndpointCloses, DataRejected, RelayRejected
<1>2. \A x \in Stream : x # s =>
        /\ open'[x] = open[x] /\ closer'[x] = closer[x] /\ (x \in DOMAIN table' <=> x \in DOMAIN table)
  BY <1>0 DEF CloseStep, CloseRead, CloseRemove, Teardown, TeardownRelease, CloseNotify,
     RelayWriterEnds, RelayEof, FrameLost, EndpointCloses, DataRejected, RelayRejected,
     OpenTo, CloserTo, Without
<1>3. \A x \in Stream : x # s => KeepsSlot(x)
  BY <1>2, SlotFrame
<1>4. ASSUME count' = count, KeepsSlot(s) PROVE Quiet
  BY <1>1, <1>3, <1>4 DEF Quiet
<1>5. CASE CloseRead(s, d) \/ CloseNotify(s, d) \/ RelayEof(s, d) \/ EndpointCloses(s, d) \/ RelayRejected(s, d)
  <2>1. PICK pc \in ClosePC \ {"release"} : CloserTo(s, d, pc)
    BY <1>5 DEF CloseRead, CloseNotify, RelayEof, EndpointCloses, RelayRejected, CloserTo, ClosePC
  <2>2. /\ closer'[s][d].pc # "release" /\ \A e \in Side : e # d => closer'[s][e] = closer[s][e]
    BY <1>0, <2>1, CloserWrite
  <2>3. /\ closer[s][d].pc # "release" /\ open' = open /\ table' = table /\ count' = count
    BY <1>5 DEF CloseRead, CloseNotify, RelayEof, EndpointCloses, RelayRejected
  <2>4. KeepsSlot(s)
    BY <2>2, <2>3, SlotFrame
  <2> QED BY <1>4, <2>3, <2>4
<1>6. CASE RelayWriterEnds(s, d) \/ DataRejected(s, d)
  <2>1. open' = open /\ closer' = closer /\ table' = table /\ count' = count
    BY <1>6 DEF RelayWriterEnds, DataRejected
  <2> QED BY <1>4, <2>1, SlotFrame
<1>7. CASE FrameLost(s, d)
  <2>1. table' = table /\ count' = count
    BY <1>7 DEF FrameLost
  <2>2. CASE open[s].pc = "check" /\ OpenTo(s, "refused") /\ closer' = closer
    <3>1. open'[s].pc = "refused"
      BY <1>0, <2>2, OpenWrite DEF OpenPC
    <3> QED BY <1>4, <2>1, <2>2, <3>1 DEF KeepsSlot, Covered, HasSlot
  <2>3. CASE closer[s][d].pc = "sent" /\ CloserTo(s, d, "none") /\ open' = open
    <3>1. closer'[s][d].pc = "none" /\ \A e \in Side : e # d => closer'[s][e] = closer[s][e]
      BY <1>0, <2>3, CloserWrite DEF ClosePC
    <3> QED BY <1>4, <2>1, <2>3, <3>1, SlotFrame
  <2> QED BY <1>7, <2>2, <2>3 DEF FrameLost, CloserTo
<1>8. CASE CloseRemove(s, d)
  <2>1. /\ closer[s][d].pc = "remove" /\ open' = open /\ DOMAIN table' = DOMAIN table \ {s}
        /\ count' = IF s \in DOMAIN table THEN Release(Src[s]) ELSE count
    BY <1>8 DEF CloseRemove, Without
  <2>2. closer'[s][d].pc = "notify" /\ \A e \in Side : e # d => closer'[s][e] = closer[s][e]
    BY <1>0, <1>8, CloserWrite DEF CloseRemove, ClosePC
  <2>3. CASE s \in DOMAIN table
    <3>1. HasSlot(s)
      BY <2>3 DEF HasSlot
    <3>2. \A e \in Side : closer'[s][e].pc # "release"
      BY <1>0, <2>2, <2>3 DEF Stage
    <3>3. /\ open[s].pc \notin {"resolve", "insert", "rollback", "release"}
          /\ ~(open[s].pc = "notify" /\ open[s].face = "poll")
      BY <1>0, <2>1, <2>3 DEF Stage, Untold
    <3>4. ~Covered(s)'
      BY <2>1, <3>2, <3>3 DEF Covered, HasSlot
    <3> QED BY <1>1, <1>3, <2>1, <2>3, <3>1, <3>4 DEF Freed
  <2>4. CASE s \notin DOMAIN table
    <3>1. KeepsSlot(s)
      BY <2>1, <2>2, <2>4, SlotFrame
    <3> QED BY <1>4, <2>1, <2>4, <3>1
  <2> QED BY <2>3, <2>4
<1>9. CASE Teardown(s, d)
  <2>1. /\ closer[s][d].pc = "remove" /\ open' = open /\ DOMAIN table' = DOMAIN table \ {s}
        /\ count' = count
    BY <1>9 DEF Teardown, Without
  <2>2. PICK r \in CloserRec : /\ closer' = [closer EXCEPT ![s][d] = r]
                               /\ r.pc = IF s \in DOMAIN table THEN "release" ELSE "none"
    BY <1>9, TeardownRecord
  <2>3. closer'[s][d] = r /\ \A e \in Side : e # d => closer'[s][e] = closer[s][e]
    BY <1>0, <2>2, CloserSet
  <2>4. CASE s \in DOMAIN table
    BY <1>4, <2>1, <2>2, <2>3, <2>4 DEF KeepsSlot, Covered, HasSlot
  <2>5. CASE s \notin DOMAIN table
    <3>1. KeepsSlot(s)
      BY <2>1, <2>2, <2>3, <2>5, SlotFrame
    <3> QED BY <1>4, <2>1, <3>1
  <2> QED BY <2>4, <2>5
<1>10. CASE TeardownRelease(s, d)
  <2>1. /\ closer[s][d].pc = "release" /\ open' = open /\ table' = table
        /\ count' = Release(Src[s])
    BY <1>10 DEF TeardownRelease
  <2>2. closer'[s][d].pc # "release" /\ \A e \in Side : e # d => closer'[s][e] = closer[s][e]
    BY <1>0, <1>10, CloserWrite DEF TeardownRelease, ClosePC
  <2>3. HasSlot(s)
    BY <2>1 DEF HasSlot
  <2>4. \A e \in Side : closer'[s][e].pc # "release"
    BY <1>0, <2>1, <2>2 DEF Stage
  <2>5. /\ s \notin DOMAIN table
        /\ open[s].pc \notin {"resolve", "insert", "rollback", "release"}
        /\ ~(open[s].pc = "notify" /\ open[s].face = "poll")
    BY <1>0, <2>1 DEF Stage, Untold
  <2>6. ~Covered(s)'
    BY <2>1, <2>4, <2>5 DEF Covered, HasSlot
  <2> QED BY <1>1, <1>3, <2>1, <2>3, <2>6 DEF Freed
<1> QED BY <1>5, <1>6, <1>7, <1>8, <1>9, <1>10 DEF CloseStep

\* A delivery never hits a handler that owes a slot: that one serves a relay.
LEMMA DeliverSlots ==
  ASSUME Types, Stages, NEW a \in Agent, Deliver(a)
  PROVE  Quiet
<1> USE DEF Side
<1> DEFINE q == IF ctl[a] # <<>> THEN ctl[a] ELSE dat[a]
<1>1. q \in Seq(NoteSet) /\ q # <<>>
  BY Zenon DEF Deliver, Types
<1>2. Head(q) \in NoteSet
  BY <1>1
<1>3. PICK s \in Stream : s = Head(q).s
  BY <1>2 DEF NoteSet
<1>4. UNCHANGED <<table, count, open, sweep>> /\ a \notin Quic
  BY Zenon DEF Deliver
<1>5. closer' = closer \/ \E e \in Side : CloserTo(s, e, "sent") /\ Holder(s, e) = a
  BY <1>3, Zenon DEF Deliver, CloserTo, Holder
<1>6. \A x \in Stream : KeepsSlot(x)
  <2>1. CASE closer' = closer
    BY <1>4, <2>1, SlotFrame
  <2>2. ASSUME NEW e \in Side, CloserTo(s, e, "sent"), Holder(s, e) = a
        PROVE  \A x \in Stream : KeepsSlot(x)
    <3>1. /\ closer'[s][e].pc = "sent" /\ \A d \in Side : d # e => closer'[s][d] = closer[s][d]
          /\ \A x \in Stream : x # s => closer'[x] = closer[x]
      BY <2>2, CloserWrite DEF ClosePC, Types
    <3>2. closer[s][e].pc # "release"
      BY <1>4, <2>2 DEF Stages, Stage
    <3> QED BY <1>4, <3>1, <3>2, SlotFrame
  <2> QED BY <1>5, <2>1, <2>2
<1> QED BY <1>4, <1>6, SameResets DEF Quiet

\* Every step of the hub is quiet, takes or frees the slot of one stream, or
\* is one of the two parts of a sweep that touch entries and counters.
LEMMA SlotStep ==
  ASSUME Types, Stages, [Next]_vars
  PROVE  \/ Quiet \/ \E s \in Stream : Taken(s) \/ Freed(s)
         \/ \E k \in Sweeper : SweepRetain(k) \/ SweepReset(k)
<1>1. ASSUME UNCHANGED <<table, count, open, closer>>, KeepsResets PROVE Quiet
  BY <1>1, SlotFrame DEF Quiet
<1>2. ASSUME NEW a \in Agent, Disconnect(a) PROVE Quiet
  BY <1>1, <1>2, SameResets DEF Disconnect
<1>3. ASSUME NEW a \in Agent, Connect(a) \/ Evict(a) \/ Reinsert(a) PROVE Quiet
  <2>1. UNCHANGED <<table, count, open, closer>> /\ \E kind, of : StartSweep(a, kind, of)
    BY <1>3 DEF Connect, Evict, Reinsert
  <2>2. \A j \in Sweeper : sweep[j].pc # "idle" => sweep'[j] = sweep[j]
    BY <2>1 DEF StartSweep, Types
  <2>3. KeepsResets
    BY <2>2 DEF KeepsResets, ResetPending
  <2> QED BY <1>1, <2>1, <2>3
<1>4. ASSUME NEW k \in Sweeper, SweepNotify(k) \/ SweepDropped(k) PROVE Quiet
  <2>1. UNCHANGED <<table, count, open, closer>> /\ sweep[k].pc # "reset"
    BY <1>4 DEF SweepNotify, SweepDropped
  <2>2. \A j \in Sweeper : j # k => sweep'[j] = sweep[j]
    BY <1>4 DEF SweepNotify, SweepDropped, Types
  <2>3. KeepsResets
    BY <2>1, <2>2 DEF KeepsResets, ResetPending
  <2> QED BY <1>1, <2>1, <2>3
<1>5. CASE UNCHANGED vars
  BY <1>1, <1>5, SameResets DEF vars
<1> QED BY <1>2, <1>3, <1>4, <1>5, OpenSlots, CloseSlots, DeliverSlots DEF Next, SweepStep

-------------------------------------------------------------------------------
(* Counting.                                                               *)

LEMMA StreamSets ==
  ASSUME NEW S, S \subseteq Stream
  PROVE  IsFiniteSet(S) /\ Cardinality(S) \in Nat
BY StreamsAssumption, FS_Subset, FS_CardinalityType

LEMMA Inside ==
  ASSUME NEW T, T \subseteq Stream, NEW S, S \subseteq T
  PROVE  Cardinality(S) <= Cardinality(T)
BY StreamSets, FS_Subset

LEMMA OneMore ==
  ASSUME NEW T, T \subseteq Stream, NEW S, S \subseteq T, NEW s \in T, s \notin S
  PROVE  Cardinality(S) + 1 <= Cardinality(T)
<1>1. S \cup {s} \subseteq T /\ S \subseteq Stream /\ S \cup {s} \subseteq Stream
  OBVIOUS
<1>2. Cardinality(S \cup {s}) = Cardinality(S) + 1
  BY <1>1, StreamSets, FS_AddElement
<1> QED BY <1>1, <1>2, Inside

LEMMA OneLess ==
  ASSUME NEW S, S \subseteq Stream, NEW T, T \subseteq Stream, NEW s \in S, S \ {s} \subseteq T
  PROVE  Cardinality(S) - 1 <= Cardinality(T)
<1>1. Cardinality(S \ {s}) = Cardinality(S) - 1
  BY StreamSets, FS_RemoveElement
<1> QED BY <1>1, Inside

LEMMA ReleaseValue ==
  ASSUME Types, NEW a \in Agent, NEW b \in Agent, count' = Release(b)
  PROVE  count'[a] = IF a = b /\ count[a] # 0 THEN count[a] - 1 ELSE count[a]
BY DEF Release, Types

SlotInv == Types /\ Stages /\ OnlyRestarting

LEMMA SlotInvariant == Spec => []SlotInv
<1>1. Init => SlotInv
  BY TypesInit, StagesInit, RestartingInit DEF SlotInv
<1>2. SlotInv /\ [Next]_vars => SlotInv'
  BY TypesStep, StagesStep, RestartingStep DEF SlotInv
<1> QED BY <1>1, <1>2, PTL DEF Spec

TargetsStay == \A s \in Stream : Tgt[s] \notin Restarting
SourcesStay == \A s \in Stream : Src[s] \notin Restarting

LEMMA LeakStep ==
  ASSUME TargetsStay, SlotInv, NoSlotLeak, [Next]_vars
  PROVE  NoSlotLeak'
<1> SUFFICES ASSUME NEW a \in Agent, ~ResetPending(a)'
             PROVE  count'[a] <= Cardinality(Slots(a)')
  BY DEF NoSlotLeak
<1>0. /\ Types /\ Stages /\ OnlyRestarting /\ count[a] \in Nat
      /\ \A s \in Stream : Src[s] \in Agent
  BY Ends DEF SlotInv, Types
<1>1. PICK S : S = Slots(a)
  OBVIOUS
<1>2. PICK T : T = Slots(a)'
  OBVIOUS
<1>3. /\ S = {s \in Stream : Src[s] = a /\ HasSlot(s)}
      /\ T = {s \in Stream : Src[s] = a /\ HasSlot(s)'}
  BY <1>1, <1>2 DEF Slots
<1>4. S \subseteq Stream /\ T \subseteq Stream /\ Cardinality(S) \in Nat /\ Cardinality(T) \in Nat
  BY <1>3, StreamSets
<1>5. ~ResetPending(a) => count[a] <= Cardinality(S)
  BY <1>1 DEF NoSlotLeak
<1>6. ASSUME KeepsResets PROVE count[a] <= Cardinality(S)
  BY <1>5, <1>6 DEF KeepsResets
<1>7. ASSUME S \subseteq T, count'[a] = count[a], KeepsResets PROVE count'[a] <= Cardinality(T)
  <2>1. Cardinality(S) <= Cardinality(T)
    BY <1>4, <1>7, Inside
  <2>2. count[a] <= Cardinality(S)
    BY <1>6, <1>7
  <2> QED BY <1>0, <1>4, <1>7, <2>1, <2>2
<1>8. CASE Quiet
  <2>1. S \subseteq T /\ count' = count /\ KeepsResets
    BY <1>3, <1>8 DEF Quiet, KeepsSlot
  <2> QED BY <1>2, <1>7, <2>1
<1>9. ASSUME NEW s \in Stream, Taken(s) PROVE count'[a] <= Cardinality(T)
  <2>1. /\ S \subseteq T /\ s \notin S /\ (Src[s] = a => s \in T) /\ KeepsResets
    BY <1>3, <1>9 DEF Taken, KeepsSlot, Covered
  <2>2. count[a] <= Cardinality(S)
    BY <1>6, <2>1
  <2>3. CASE Src[s] = a
    <3>1. Cardinality(S) + 1 <= Cardinality(T)
      BY <1>4, <2>1, <2>3, OneMore
    <3>2. count'[a] = count[a] \/ count'[a] = count[a] + 1
      BY <1>0, <1>9, <2>3 DEF Taken, Types
    <3> QED BY <1>0, <1>4, <2>2, <3>1, <3>2
  <2>4. CASE Src[s] # a
    <3>1. count'[a] = count[a]
      BY <1>0, <1>9, <2>4 DEF Taken, Types
    <3> QED BY <1>7, <2>1, <3>1
  <2> QED BY <2>3, <2>4
<1>10. ASSUME NEW s \in Stream, Freed(s) PROVE count'[a] <= Cardinality(T)
  <2>1. S \ {s} \subseteq T /\ KeepsResets /\ count' = Release(Src[s])
    BY <1>3, <1>10 DEF Freed, KeepsSlot
  <2>2. count'[a] = IF a = Src[s] /\ count[a] # 0 THEN count[a] - 1 ELSE count[a]
    BY <1>0, <2>1, ReleaseValue
  <2>3. CASE Src[s] = a
    <3>1. s \in S
      BY <1>3, <1>10, <2>3 DEF Freed
    <3> QED BY <1>0, <1>4, <1>6, <2>1, <2>2, <2>3, <3>1, OneLess
  <2>4. CASE Src[s] # a
    <3>1. S \subseteq T
      BY <1>3, <2>1, <2>4
    <3> QED BY <1>7, <2>1, <2>2, <2>4, <3>1
  <2> QED BY <2>3, <2>4
<1>11. ASSUME NEW k \in Sweeper, SweepRetain(k) PROVE count'[a] <= Cardinality(T)
  <2>1. /\ sweep[k].pc = "retain" /\ count' = count /\ open' = open /\ closer' = closer
        /\ DOMAIN table' = DOMAIN table \ Swept(sweep[k].agent)
    BY <1>11, Zenon DEF SweepRetain, Without
  <2>2. /\ sweep'[k].pc = "reset" /\ sweep'[k].agent = sweep[k].agent
        /\ sweep'[k].reset <=> \E s \in Swept(sweep[k].agent) : Src[s] = sweep[k].agent
        /\ \A j \in Sweeper : j # k => sweep'[j] = sweep[j]
    BY <1>0, <1>11, Zenon DEF SweepRetain, Types, SweepRec
  <2>3. KeepsResets
    BY <2>1, <2>2 DEF KeepsResets, ResetPending
  <2>4. \A s \in Swept(sweep[k].agent) : Src[s] = sweep[k].agent
    BY <1>0, <2>1 DEF Swept, TargetsStay, OnlyRestarting, Types
  <2>5. \A s \in Swept(sweep[k].agent) : Src[s] # a
    BY <2>2, <2>4 DEF ResetPending
  <2>6. S \subseteq T
    BY <1>3, <2>1, <2>5 DEF HasSlot
  <2> QED BY <1>7, <2>1, <2>3, <2>6
<1>12. ASSUME NEW k \in Sweeper, SweepReset(k) PROVE count'[a] <= Cardinality(T)
  <2>1. /\ sweep[k].pc = "reset" /\ open' = open /\ closer' = closer /\ table' = table
        /\ count' = IF sweep[k].reset THEN [count EXCEPT ![sweep[k].agent] = 0] ELSE count
        /\ \A j \in Sweeper : j # k => sweep'[j] = sweep[j]
    BY <1>0, <1>12 DEF SweepReset, Types
  <2>2. S = T
    BY <1>3, <2>1 DEF HasSlot
  <2>3. CASE sweep[k].reset /\ sweep[k].agent = a
    <3>1. count'[a] = 0
      BY <1>0, <2>1, <2>3 DEF Types
    <3> QED BY <1>4, <3>1
  <2>4. CASE ~(sweep[k].reset /\ sweep[k].agent = a)
    <3>1. count'[a] = count[a]
      BY <1>0, <2>1, <2>4 DEF Types
    <3>2. ~ResetPending(a)
      BY <2>1, <2>4 DEF ResetPending
    <3> QED BY <1>5, <2>2, <3>1, <3>2
  <2> QED BY <2>3, <2>4
<1> QED BY <1>0, <1>2, <1>8, <1>9, <1>10, <1>11, <1>12, SlotStep

\* As long as the targets keep their registration, no slot leaks: however
\* closes, teardowns, refusals, rollbacks and the sweeps of restarting sources
\* overlap, stream_counts does not exceed the streams it stands for.
THEOREM NoLeakWhileTargetsStay ==
  ASSUME TargetsStay PROVE Spec => []NoSlotLeak
<1>1. Init => NoSlotLeak
  <2> SUFFICES ASSUME Init, NEW a \in Agent PROVE count[a] <= Cardinality(Slots(a))
    BY DEF NoSlotLeak
  <2>1. Slots(a) \subseteq Stream /\ count[a] = 0
    BY DEF Slots, Init
  <2> QED BY <2>1, StreamSets
<1>2. SlotInv /\ NoSlotLeak /\ [Next]_vars => NoSlotLeak'
  BY LeakStep
<1> QED BY <1>1, <1>2, SlotInvariant, PTL DEF Spec

\* The counter covers every slot, also one that a rollback may release; a
\* sweep never resets it, and the cap bounds it.
CoveredSlots(a) == {s \in Stream : Src[s] = a /\ Covered(s)}
CountInv ==
  /\ MaxPerAgent # 0 =>
       \A a \in Agent : Cardinality(CoveredSlots(a)) <= count[a] /\ count[a] <= MaxPerAgent
  /\ \A k \in Sweeper : sweep[k].pc = "reset" => ~sweep[k].reset

LEMMA NoResets ==
  ASSUME SourcesStay, SlotInv, CountInv, [Next]_vars
  PROVE  \A k \in Sweeper : sweep'[k].pc = "reset" => ~sweep'[k].reset
<1>0. Types /\ OnlyRestarting /\ \A k \in Sweeper : sweep[k].pc = "reset" => ~sweep[k].reset
  BY DEF SlotInv, CountInv
<1>1. CASE sweep' = sweep
  BY <1>0, <1>1
<1>2. ASSUME NEW a \in Agent, Connect(a) \/ Evict(a) \/ Reinsert(a)
      PROVE  \A k \in Sweeper : sweep'[k].pc = "reset" => ~sweep'[k].reset
  <2>1. \E kind, of : StartSweep(a, kind, of)
    BY <1>2 DEF Connect, Evict, Reinsert
  <2>2. \A k \in Sweeper : sweep'[k] = sweep[k] \/ sweep'[k].pc = "retain"
    BY <1>0, <2>1 DEF StartSweep, IdleSweep, Types
  <2> QED BY <1>0, <2>2
<1>3. ASSUME NEW k \in Sweeper, SweepStep(k) \/ SweepDropped(k)
      PROVE  \A j \in Sweeper : sweep'[j].pc = "reset" => ~sweep'[j].reset
  <2>1. \A j \in Sweeper : j # k => sweep'[j] = sweep[j]
    BY <1>0, <1>3, Zenon DEF SweepStep, SweepRetain, SweepReset, SweepNotify, SweepDropped, Types
  <2>2. CASE SweepRetain(k)
    <3>1. sweep'[k].reset <=> \E s \in Swept(sweep[k].agent) : Src[s] = sweep[k].agent
      BY <1>0, <2>2, Zenon DEF SweepRetain, Types, SweepRec
    <3>2. ~ \E s \in Swept(sweep[k].agent) : Src[s] = sweep[k].agent
      BY <1>0, <2>2, Zenon DEF SweepRetain, Swept, SourcesStay, OnlyRestarting, Types
    <3> QED BY <1>0, <2>1, <3>1, <3>2
  <2>3. CASE SweepReset(k) \/ SweepNotify(k) \/ SweepDropped(k)
    <3>1. sweep'[k].pc # "reset"
      <4>1. CASE SweepReset(k)
        BY <1>0, <4>1 DEF SweepReset, Types, SweepRec
      <4>2. CASE SweepNotify(k)
        <5>1. CASE sweep[k].peers = {}
          BY <1>0, <4>2, <5>1 DEF SweepNotify, IdleSweep, Types
        <5>2. CASE sweep[k].peers # {}
          <6>1. PICK s : sweep' = [sweep EXCEPT ![k].peers = @ \ {s}]
            BY <4>2, <5>2 DEF SweepNotify
          <6>2. sweep[k].pc = "notify" /\ sweep[k] \in SweepRec
            BY <1>0, <4>2 DEF SweepNotify, Types
          <6> QED BY <1>0, <6>1, <6>2 DEF Types, SweepRec
        <5> QED BY <5>1, <5>2
      <4>3. CASE SweepDropped(k)
        BY <1>0, <4>3 DEF SweepDropped, IdleSweep, Types
      <4> QED BY <2>3, <4>1, <4>2, <4>3
    <3> QED BY <1>0, <2>1, <3>1
  <2> QED BY <1>3, <2>2, <2>3 DEF SweepStep
<1>4. ASSUME NEW s \in Stream, OpenSend(s) \/ OpenStep(s) \/ Handshake(s) PROVE sweep' = sweep
  BY <1>4 DEF OpenSend, OpenStep, OpenCheck, Admit, Refuse, ResolveMissing, ResolvePoll,
     ResolvePollFails, ResolveRelay, ResolveRelayFails, OpenInsert, OpenNotify, OpenRollback,
     OpenRelease, OpenReject, Handshake
<1>5. ASSUME NEW s \in Stream, NEW d \in Side,
             CloseStep(s, d) \/ FrameLost(s, d) \/ EndpointCloses(s, d) \/ DataRejected(s, d) \/ RelayRejected(s, d)
      PROVE  sweep' = sweep
  BY <1>5 DEF CloseStep, CloseRead, CloseRemove, Teardown, TeardownRelease, CloseNotify,
     RelayWriterEnds, RelayEof, FrameLost, EndpointCloses, DataRejected, RelayRejected
<1>6. ASSUME NEW a \in Agent, Deliver(a) \/ Disconnect(a) PROVE sweep' = sweep
  BY <1>6, Zenon DEF Deliver, Disconnect
<1>7. CASE UNCHANGED vars
  BY <1>1, <1>7 DEF vars
<1> QED BY <1>1, <1>2, <1>3, <1>4, <1>5, <1>6, <1>7 DEF Next

LEMMA CountStep ==
  ASSUME SourcesStay, SlotInv, CountInv, [Next]_vars
  PROVE  CountInv'
<1> SUFFICES ASSUME MaxPerAgent # 0, NEW a \in Agent
             PROVE  Cardinality(CoveredSlots(a)') <= count'[a] /\ count'[a] <= MaxPerAgent
  BY NoResets DEF CountInv
<1>0. /\ Types /\ Stages /\ OnlyRestarting /\ count[a] \in Nat /\ MaxPerAgent \in Nat
      /\ \A s \in Stream : Src[s] \in Agent
  BY Ends, StreamsAssumption DEF SlotInv, Types
<1>1. PICK S : S = CoveredSlots(a)
  OBVIOUS
<1>2. PICK T : T = CoveredSlots(a)'
  OBVIOUS
<1>3. /\ S = {s \in Stream : Src[s] = a /\ Covered(s)}
      /\ T = {s \in Stream : Src[s] = a /\ Covered(s)'}
  BY <1>1, <1>2 DEF CoveredSlots
<1>4. S \subseteq Stream /\ T \subseteq Stream /\ Cardinality(S) \in Nat /\ Cardinality(T) \in Nat
  BY <1>3, StreamSets
<1>5. Cardinality(S) <= count[a] /\ count[a] <= MaxPerAgent
  BY <1>1 DEF CountInv
<1>6. ASSUME T \subseteq S, count'[a] = count[a]
      PROVE  Cardinality(T) <= count'[a] /\ count'[a] <= MaxPerAgent
  <2>1. Cardinality(T) <= Cardinality(S)
    BY <1>4, <1>6, Inside
  <2> QED BY <1>0, <1>4, <1>5, <1>6, <2>1
<1>7. CASE Quiet
  <2>1. T \subseteq S /\ count' = count
    BY <1>3, <1>7 DEF Quiet, KeepsSlot
  <2> QED BY <1>2, <1>6, <2>1
<1>8. ASSUME NEW s \in Stream, Taken(s)
      PROVE  Cardinality(T) <= count'[a] /\ count'[a] <= MaxPerAgent
  <2>1. T \ {s} \subseteq S
    BY <1>3, <1>8 DEF Taken, KeepsSlot
  <2>2. CASE Src[s] = a
    <3>1. count'[a] = count[a] + 1 /\ count[a] < MaxPerAgent
      BY <1>0, <1>8, <2>2 DEF Taken, Types
    <3>2. s \in T
      BY <1>3, <1>8, <2>2 DEF Taken, Covered
    <3>3. Cardinality(T) - 1 <= Cardinality(S)
      BY <1>4, <2>1, <3>2, OneLess
    <3> QED BY <1>0, <1>4, <1>5, <3>1, <3>3
  <2>3. CASE Src[s] # a
    <3>1. T \subseteq S
      BY <1>3, <2>1, <2>3
    <3>2. count'[a] = count[a]
      BY <1>0, <1>8, <2>3 DEF Taken, Types
    <3> QED BY <1>6, <3>1, <3>2
  <2> QED BY <2>2, <2>3
<1>9. ASSUME NEW s \in Stream, Freed(s)
      PROVE  Cardinality(T) <= count'[a] /\ count'[a] <= MaxPerAgent
  <2>1. T \subseteq S /\ s \notin T /\ count' = Release(Src[s])
    BY <1>3, <1>9 DEF Freed, KeepsSlot
  <2>2. count'[a] = IF a = Src[s] /\ count[a] # 0 THEN count[a] - 1 ELSE count[a]
    BY <1>0, <2>1, ReleaseValue
  <2>3. CASE Src[s] = a
    <3>1. s \in S
      BY <1>3, <1>9, <2>3 DEF Freed, Covered
    <3>2. Cardinality(T) + 1 <= Cardinality(S)
      BY <1>4, <2>1, <3>1, OneMore
    <3> QED BY <1>0, <1>4, <1>5, <2>2, <2>3, <3>2
  <2>4. CASE Src[s] # a
    BY <1>6, <2>1, <2>2, <2>4
  <2> QED BY <2>3, <2>4
<1>10. ASSUME NEW k \in Sweeper, SweepRetain(k) \/ SweepReset(k)
       PROVE  Cardinality(T) <= count'[a] /\ count'[a] <= MaxPerAgent
  <2>1. open' = open /\ closer' = closer /\ DOMAIN table' \subseteq DOMAIN table
    BY <1>10, Zenon DEF SweepRetain, SweepReset, Without
  <2>2. count' = count
    BY <1>10, Zenon DEF SweepRetain, SweepReset, CountInv
  <2>3. T \subseteq S
    BY <1>3, <2>1 DEF Covered, HasSlot
  <2> QED BY <1>6, <2>2, <2>3
<1> QED BY <1>0, <1>2, <1>7, <1>8, <1>9, <1>10, SlotStep

LEMMA CountInit == Init => CountInv
<1> SUFFICES ASSUME Init PROVE CountInv
  OBVIOUS
<1>1. \A s \in Stream : ~Covered(s)
  BY DEF Init, Covered, HasSlot, IdleOpen, IdleCloser
<1>2. \A a \in Agent : CoveredSlots(a) = {} /\ count[a] = 0
  BY <1>1 DEF CoveredSlots, Init
<1>3. \A k \in Sweeper : sweep[k].pc = "idle"
  BY DEF Init, IdleSweep
<1>4. Cardinality({}) = 0 /\ MaxPerAgent \in Nat
  BY FS_EmptySet, StreamsAssumption
<1>5. \A a \in Agent : Cardinality(CoveredSlots(a)) <= count[a] /\ count[a] <= MaxPerAgent
  BY <1>2, <1>4
<1> QED BY <1>3, <1>5 DEF CountInv

LEMMA CountInvariant ==
  ASSUME SourcesStay PROVE Spec => []CountInv
<1>1. SlotInv /\ CountInv /\ [Next]_vars => CountInv'
  BY CountStep
<1> QED BY <1>1, CountInit, SlotInvariant, PTL DEF Spec

\* As long as the sources keep their registration, no stream gives its slot
\* back twice: however the handlers that end streams overlap, and however
\* often the targets restart, stream_counts covers the streams it stands for.
THEOREM CountedWhileSourcesStay ==
  ASSUME SourcesStay PROVE Spec => []SlotsCounted
<1>1. SlotInv /\ CountInv => SlotsCounted
  <2> SUFFICES ASSUME SlotInv, CountInv, MaxPerAgent # 0, NEW a \in Agent
               PROVE  Cardinality(Slots(a)) <= count[a]
    BY DEF SlotsCounted
  <2>1. Slots(a) \subseteq CoveredSlots(a) /\ CoveredSlots(a) \subseteq Stream
    BY DEF Slots, CoveredSlots, Covered
  <2>2. /\ Cardinality(Slots(a)) <= Cardinality(CoveredSlots(a))
        /\ Cardinality(Slots(a)) \in Nat /\ Cardinality(CoveredSlots(a)) \in Nat
    BY <2>1, Inside, StreamSets
  <2>3. Cardinality(CoveredSlots(a)) <= count[a] /\ count[a] \in Nat
    BY DEF CountInv, SlotInv, Types
  <2> QED BY <2>2, <2>3
<1> QED BY <1>1, SlotInvariant, CountInvariant, PTL

\* ... and then max_streams_per_agent bounds the entries of every agent in
\* active_streams (admit_stream).
THEOREM CapWhileSourcesStay ==
  ASSUME SourcesStay PROVE Spec => []PerAgentCap
<1>1. SlotInv /\ CountInv => PerAgentCap
  <2> SUFFICES ASSUME SlotInv, CountInv, MaxPerAgent # 0, NEW a \in Agent
               PROVE  Cardinality({s \in DOMAIN table : Src[s] = a}) <= MaxPerAgent
    BY DEF PerAgentCap
  <2> DEFINE E == {s \in DOMAIN table : Src[s] = a}
  <2>1. E \subseteq CoveredSlots(a) /\ CoveredSlots(a) \subseteq Stream
    BY DEF CoveredSlots, Covered, HasSlot, SlotInv, Types
  <2>2. /\ Cardinality(E) <= Cardinality(CoveredSlots(a))
        /\ Cardinality(E) \in Nat /\ Cardinality(CoveredSlots(a)) \in Nat
    BY <2>1, Inside, StreamSets
  <2>3. /\ Cardinality(CoveredSlots(a)) <= count[a] /\ count[a] \in Nat
        /\ count[a] <= MaxPerAgent /\ MaxPerAgent \in Nat
    BY StreamsAssumption DEF CountInv, SlotInv, Types
  <2> HIDE DEF E
  <2>4. Cardinality(E) <= MaxPerAgent
    BY <2>2, <2>3
  <2> QED BY <2>4 DEF E
<1> QED BY <1>1, SlotInvariant, CountInvariant, PTL

\* Both together: every stream that holds a slot is counted and the cap bounds
\* the table, while the sources keep their registration.
THEOREM AdmissionWhileSourcesStay ==
  ASSUME SourcesStay PROVE Spec => []SlotsSound
<1>1. SlotsCounted /\ PerAgentCap => SlotsSound
  BY DEF SlotsSound
<1> QED BY <1>1, CountedWhileSourcesStay, CapWhileSourcesStay, PTL
===============================================================================
