--------------------------- MODULE HubStreamsProofs ---------------------------
(***************************************************************************)
(* Proofs about HubStreams, for any agents, streams and bounds: types, and *)
(* which handlers may be at work on a stream at once.                      *)
(***************************************************************************)
EXTENDS HubStreams, TLAPS

-------------------------------------------------------------------------------
(* Types.                                                                  *)

ClosePC == {"none", "sent", "remove", "release", "notify"}
OpenRec == [pc: OpenPC, sc: Nat, tc: Nat, face: Face]
CloserRec == [pc: ClosePC, face: Face]
SweepRec == [pc: {"idle", "retain", "reset", "notify"}, agent: Agent \cup {"none"},
             kind: {"register", "implicit", "evict"}, of: Nat, reset: BOOLEAN, peers: SUBSET Stream]

\* An Open handler moves on.
LEMMA OpenWrite ==
  ASSUME open \in [Stream -> OpenRec], NEW s \in Stream, NEW pc \in OpenPC, OpenTo(s, pc)
  PROVE  /\ open' \in [Stream -> OpenRec]
         /\ open'[s].pc = pc /\ open'[s].face = open[s].face /\ open'[s].sc = open[s].sc
         /\ \A x \in Stream : x # s => open'[x] = open[x]
BY DEF OpenTo, OpenRec

\* ... and takes note of the target's registration.
LEMMA ResolvedWrite ==
  ASSUME open \in [Stream -> OpenRec], circ \in [Agent -> Nat], NEW s \in Stream, NEW face \in Face,
         Resolved(s, face)
  PROVE  /\ open' \in [Stream -> OpenRec]
         /\ open'[s].pc = "insert" /\ open'[s].face = face
         /\ \A x \in Stream : x # s => open'[x] = open[x]
<1> DEFINE r == [open[s] EXCEPT !.pc = "insert", !.tc = circ[Tgt[s]], !.face = face]
<1>1. open[s] \in OpenRec /\ circ[Tgt[s]] \in Nat
  BY StreamsAssumption
<1>2. r \in OpenRec /\ r.pc = "insert" /\ r.face = face
  BY <1>1, Zenon DEF OpenRec, OpenPC
<1>3. open' = [open EXCEPT ![s] = r]
  BY Zenon DEF Resolved
<1> HIDE DEF r
<1> QED BY <1>2, <1>3

\* A closer moves on.
LEMMA CloserWrite ==
  ASSUME closer \in [Stream -> [Side -> CloserRec]], NEW s \in Stream, NEW d \in Side,
         NEW pc \in ClosePC, CloserTo(s, d, pc)
  PROVE  /\ closer' \in [Stream -> [Side -> CloserRec]]
         /\ closer'[s][d].pc = pc
         /\ \A e \in Side : e # d => closer'[s][e] = closer[s][e]
         /\ \A x \in Stream : x # s => closer'[x] = closer[x]
<1> DEFINE r == [closer[s][d] EXCEPT !.pc = pc]
           c == [closer[s] EXCEPT ![d] = r]
<1>1. closer[s] \in [Side -> CloserRec] /\ closer[s][d] \in CloserRec
  OBVIOUS
<1>2. r \in CloserRec /\ r.pc = pc
  BY <1>1 DEF CloserRec
<1>3. c \in [Side -> CloserRec] /\ c[d] = r /\ \A e \in Side : e # d => c[e] = closer[s][e]
  <2> HIDE DEF r
  <2> QED BY <1>1, <1>2
<1>4. closer' = [closer EXCEPT ![s] = c]
  BY DEF CloserTo
<1> HIDE DEF c, r
<1> QED BY <1>2, <1>3, <1>4

\* A closer is replaced.
LEMMA CloserSet ==
  ASSUME closer \in [Stream -> [Side -> CloserRec]], NEW s \in Stream, NEW d \in Side,
         NEW r \in CloserRec, closer' = [closer EXCEPT ![s][d] = r]
  PROVE  /\ closer' \in [Stream -> [Side -> CloserRec]]
         /\ closer'[s][d] = r
         /\ \A e \in Side : e # d => closer'[s][e] = closer[s][e]
         /\ \A x \in Stream : x # s => closer'[x] = closer[x]
OBVIOUS

\* A notification for an agent.
LEMMA PostTyped ==
  ASSUME NEW q \in [Agent -> Seq(NoteSet)], NEW a \in Agent, NEW n \in NoteSet
  PROVE  Post(q, a, n) \in [Agent -> Seq(NoteSet)]
BY DEF Post

LEMMA NoteTyped ==
  ASSUME NEW s \in Stream
  PROVE  Note("open", s) \in NoteSet /\ Note("close", s) \in NoteSet /\ Note("reject", s) \in NoteSet
BY DEF Note, NoteSet

LEMMA Ends ==
  ASSUME NEW s \in Stream
  PROVE  Src[s] \in Agent /\ Tgt[s] \in Agent /\ \A d \in Side : Holder(s, d) \in Agent
BY StreamsAssumption DEF Holder

\* The conjuncts of TypeOK, by the names used here.
Types ==
  /\ conn \in [Agent -> Nat] /\ newest \in [Agent -> Nat] /\ circ \in [Agent -> Nat]
  /\ DOMAIN table \subseteq Stream
  /\ table \in [DOMAIN table -> [sc: Nat, tc: Nat, face: Face]]
  /\ count \in [Agent -> Nat]
  /\ open \in [Stream -> OpenRec]
  /\ closer \in [Stream -> [Side -> CloserRec]]
  /\ sweep \in [Sweeper -> SweepRec]
  /\ \A k \in Sweeper : sweep[k].pc # "idle" => sweep[k].agent \in Agent
  /\ ctl \in [Agent -> Seq(NoteSet)] /\ dat \in [Agent -> Seq(NoteSet)]
  /\ src \in [Stream -> {"none", "held", "done"}]
  /\ tgt \in [Stream -> {"none", "opened", "up", "done"}]
  /\ tgtc \in [Stream -> Nat]

LEMMA Typed == (TypeOK <=> Types) /\ (TypeOK' <=> Types')
BY DEF TypeOK, Types, OpenRec, CloserRec, ClosePC, SweepRec

LEMMA ReleaseTyped ==
  ASSUME count \in [Agent -> Nat], NEW a \in Agent
  PROVE  Release(a) \in [Agent -> Nat]
BY DEF Release

LEMMA WithoutTyped ==
  ASSUME Types, NEW S, table' = Without(table, S)
  PROVE  /\ DOMAIN table' = DOMAIN table \ S /\ DOMAIN table' \subseteq Stream
         /\ table' \in [DOMAIN table' -> [sc: Nat, tc: Nat, face: Face]]
BY DEF Without, Types

\* What a teardown leaves in its closer.
LEMMA TeardownRecord ==
  ASSUME Types, NEW s \in Stream, NEW d \in Side, Teardown(s, d)
  PROVE  \E r \in CloserRec : /\ closer' = [closer EXCEPT ![s][d] = r]
                              /\ r.pc = IF s \in DOMAIN table THEN "release" ELSE "none"
<1> DEFINE r == IF s \notin DOMAIN table THEN IdleCloser
                ELSE [pc |-> "release",
                      face |-> IF d = "src" THEN table[s].face
                               ELSE IF Src[s] \in Quic THEN "relay" ELSE "poll"]
<1>1. s \in DOMAIN table => table[s].face \in Face
  BY DEF Types
<1>2. r \in CloserRec /\ r.pc = IF s \in DOMAIN table THEN "release" ELSE "none"
  BY <1>1 DEF CloserRec, ClosePC, IdleCloser, Face
<1>3. closer' = [closer EXCEPT ![s][d] = r]
  BY DEF Teardown
<1> HIDE DEF r
<1> QED BY <1>2, <1>3, Zenon

LEMMA TypesStep == Types /\ [Next]_vars => Types'
<1> SUFFICES ASSUME Types, [Next]_vars PROVE Types'
  OBVIOUS
<1>1. ASSUME NEW s \in Stream, OpenSend(s) \/ OpenStep(s) \/ Handshake(s) PROVE Types'
  <2>1. CASE OpenSend(s)
    <3> DEFINE r == [open[s] EXCEPT !.pc = "check", !.sc = conn[Src[s]]]
    <3>1. open[s] \in OpenRec /\ conn[Src[s]] \in Nat
      BY Ends DEF Types
    <3>2. r \in OpenRec
      BY <3>1, Zenon DEF OpenRec, OpenPC
    <3>3. open' = [open EXCEPT ![s] = r]
      BY <2>1, Zenon DEF OpenSend
    <3> HIDE DEF r
    <3>4. open' \in [Stream -> OpenRec]
      BY <3>2, <3>3 DEF Types
    <3>5. src' \in [Stream -> {"none", "held", "done"}]
      BY <2>1 DEF OpenSend, Types
    <3> QED BY <2>1, <3>4, <3>5 DEF OpenSend, Types, reg
  <2>2. CASE OpenCheck(s) \/ Refuse(s) \/ ResolvePollFails(s)
    <3>1. open' \in [Stream -> OpenRec]
      BY <2>2, OpenWrite DEF OpenCheck, Refuse, ResolvePollFails, Types, OpenPC
    <3> QED BY <2>2, <3>1 DEF OpenCheck, Refuse, ResolvePollFails, Types, reg, ends
  <2>3. CASE Admit(s)
    <3>1. open' \in [Stream -> OpenRec]
      BY <2>3, OpenWrite DEF Admit, Types, OpenPC
    <3>2. count' \in [Agent -> Nat]
      BY <2>3, Ends DEF Admit, Types
    <3> QED BY <2>3, <3>1, <3>2, Zenon DEF Admit, Types, reg, ends
  <2>4. CASE ResolveMissing(s) \/ ResolveRelayFails(s)
    <3>1. open' \in [Stream -> OpenRec]
      BY <2>4, OpenWrite, ResolvedWrite DEF ResolveMissing, ResolveRelayFails, Types, OpenPC, Face
    <3> QED BY <2>4, <3>1 DEF ResolveMissing, ResolveRelayFails, Types, reg, ends
  <2>5. CASE ResolvePoll(s)
    <3>1. open' \in [Stream -> OpenRec]
      BY <2>5, ResolvedWrite DEF ResolvePoll, Types, Face
    <3>2. dat' \in [Agent -> Seq(NoteSet)]
      BY <2>5, PostTyped, NoteTyped, Ends, Zenon DEF ResolvePoll, Types
    <3> QED BY <2>5, <3>1, <3>2 DEF ResolvePoll, Types, reg, ends
  <2>6. CASE ResolveRelay(s)
    <3>1. open' \in [Stream -> OpenRec]
      BY <2>6, ResolvedWrite DEF ResolveRelay, Types, Face
    <3>2. closer' \in [Stream -> [Side -> CloserRec]]
      BY <2>6, CloserWrite, Zenon DEF ResolveRelay, CloserTo, Types, ClosePC, Side
    <3>3. tgt' \in [Stream -> {"none", "opened", "up", "done"}] /\ tgtc' \in [Stream -> Nat]
      BY <2>6, Ends, Zenon DEF ResolveRelay, Types
    <3> QED BY <2>6, <3>1, <3>2, <3>3 DEF ResolveRelay, Types, reg
  <2>7. CASE OpenInsert(s)
    <3>1. open' \in [Stream -> OpenRec]
      BY <2>7, OpenWrite DEF OpenInsert, Types, OpenPC
    <3>2. [sc |-> open[s].sc, tc |-> open[s].tc, face |-> open[s].face] \in [sc: Nat, tc: Nat, face: Face]
      BY DEF Types, OpenRec
    <3>3. /\ DOMAIN table' \subseteq Stream
          /\ table' \in [DOMAIN table' -> [sc: Nat, tc: Nat, face: Face]]
      BY <2>7, <3>2 DEF OpenInsert, Types
    <3> QED BY <2>7, <3>1, <3>3 DEF OpenInsert, Types, reg, ends
  <2>8. CASE OpenNotify(s) \/ OpenReject(s)
    <3>1. open' \in [Stream -> OpenRec]
      BY <2>8, OpenWrite DEF OpenNotify, OpenReject, Types, OpenPC
    <3>2. ctl' \in [Agent -> Seq(NoteSet)]
      <4>1. ctl' \in {ctl, Post(ctl, Tgt[s], Note("open", s)), Post(ctl, Src[s], Note("reject", s))}
        BY <2>8 DEF OpenNotify, OpenReject
      <4>2. ctl \in [Agent -> Seq(NoteSet)]
        BY DEF Types
      <4>3. /\ Post(ctl, Tgt[s], Note("open", s)) \in [Agent -> Seq(NoteSet)]
            /\ Post(ctl, Src[s], Note("reject", s)) \in [Agent -> Seq(NoteSet)]
        BY <4>2, PostTyped, NoteTyped, Ends
      <4> QED BY <4>1, <4>2, <4>3
    <3>3. src' \in [Stream -> {"none", "held", "done"}]
      BY <2>8 DEF OpenNotify, OpenReject, Types, ends
    <3> QED BY <2>8, <3>1, <3>2, <3>3 DEF OpenNotify, OpenReject, Types, reg, ends
  <2>9. CASE OpenRollback(s)
    <3>1. open' \in [Stream -> OpenRec]
      BY <2>9, OpenWrite DEF OpenRollback, Types, OpenPC
    <3> QED BY <2>9, <3>1, WithoutTyped, Zenon DEF OpenRollback, Types, reg, ends
  <2>10. CASE OpenRelease(s)
    <3>1. open' \in [Stream -> OpenRec]
      BY <2>10, OpenWrite DEF OpenRelease, Types, OpenPC
    <3> QED BY <2>10, <3>1, ReleaseTyped, Ends DEF OpenRelease, Types, reg, ends
  <2>11. CASE Handshake(s)
    BY <2>11 DEF Handshake, Types, reg
  <2> QED BY <1>1, <2>1, <2>2, <2>3, <2>4, <2>5, <2>6, <2>7, <2>8, <2>9, <2>10, <2>11 DEF OpenStep
<1>2. ASSUME NEW s \in Stream, NEW d \in Side,
             CloseStep(s, d) \/ FrameLost(s, d) \/ EndpointCloses(s, d) \/ DataRejected(s, d) \/ RelayRejected(s, d)
      PROVE  Types'
  <2>1. CASE CloseRead(s, d)
    <3>1. closer' \in [Stream -> [Side -> CloserRec]]
      BY <2>1, CloserWrite DEF CloseRead, Types, ClosePC
    <3> QED BY <2>1, <3>1 DEF CloseRead, Types, reg, ends
  <2>2. CASE CloseRemove(s, d)
    <3>1. closer' \in [Stream -> [Side -> CloserRec]]
      BY <2>2, CloserWrite DEF CloseRemove, Types, ClosePC
    <3>2. count' \in [Agent -> Nat]
      BY <2>2, ReleaseTyped, Ends, Zenon DEF CloseRemove, Types
    <3> QED BY <2>2, <3>1, <3>2, WithoutTyped, Zenon DEF CloseRemove, Types, reg, ends
  <2>3. CASE Teardown(s, d)
    <3>1. PICK r \in CloserRec : closer' = [closer EXCEPT ![s][d] = r]
      BY <2>3, TeardownRecord
    <3>2. closer \in [Stream -> [Side -> CloserRec]]
      BY DEF Types
    <3>3. closer' \in [Stream -> [Side -> CloserRec]]
      BY <3>1, <3>2, CloserSet
    <3> QED BY <2>3, <3>3, WithoutTyped, Zenon DEF Teardown, Types, reg, ends
  <2>4. CASE TeardownRelease(s, d)
    <3>1. closer' \in [Stream -> [Side -> CloserRec]]
      BY <2>4, CloserWrite DEF TeardownRelease, Types, ClosePC
    <3>2. count' \in [Agent -> Nat]
      BY <2>4, ReleaseTyped, Ends DEF TeardownRelease, Types
    <3> QED BY <2>4, <3>1, <3>2 DEF TeardownRelease, Types, reg, ends
  <2>5. CASE CloseNotify(s, d)
    <3>1. closer' \in [Stream -> [Side -> CloserRec]]
      BY <2>5, CloserWrite DEF CloseNotify, Types, ClosePC
    <3>2. ctl' \in [Agent -> Seq(NoteSet)] /\ dat' \in [Agent -> Seq(NoteSet)]
      <4>1. /\ ctl' \in {ctl, Post(ctl, Tgt[s], Note("close", s)), Post(ctl, Src[s], Note("close", s))}
            /\ dat' \in {dat, Post(dat, Src[s], Note("close", s))}
        BY <2>5 DEF CloseNotify
      <4>2. ctl \in [Agent -> Seq(NoteSet)] /\ dat \in [Agent -> Seq(NoteSet)]
        BY DEF Types
      <4>3. /\ Post(ctl, Tgt[s], Note("close", s)) \in [Agent -> Seq(NoteSet)]
            /\ Post(ctl, Src[s], Note("close", s)) \in [Agent -> Seq(NoteSet)]
            /\ Post(dat, Src[s], Note("close", s)) \in [Agent -> Seq(NoteSet)]
        BY <4>2, PostTyped, NoteTyped, Ends, Zenon
      <4> QED BY <4>1, <4>2, <4>3, Zenon
    <3> QED BY <2>5, <3>1, <3>2 DEF CloseNotify, Types, reg, ends
  <2>6. CASE RelayWriterEnds(s, d)
    BY <2>6, Zenon DEF RelayWriterEnds, EndHere, Types, reg
  <2>7. CASE RelayEof(s, d) \/ EndpointCloses(s, d)
    <3>1. closer' \in [Stream -> [Side -> CloserRec]]
      BY <2>7, CloserWrite, Zenon DEF RelayEof, EndpointCloses, CloserTo, Types, ClosePC
    <3>2. /\ src' \in [Stream -> {"none", "held", "done"}]
          /\ tgt' \in [Stream -> {"none", "opened", "up", "done"}] /\ tgtc' = tgtc
      BY <2>7, Zenon DEF RelayEof, EndpointCloses, EndHere, Types
    <3> QED BY <2>7, <3>1, <3>2 DEF RelayEof, EndpointCloses, Types, reg
  <2>8. CASE FrameLost(s, d)
    <3>1. open' \in [Stream -> OpenRec]
      BY <2>8, OpenWrite DEF FrameLost, Types, OpenPC
    <3>2. closer' \in [Stream -> [Side -> CloserRec]]
      BY <2>8, CloserWrite, Zenon DEF FrameLost, CloserTo, Types, ClosePC
    <3> QED BY <2>8, <3>1, <3>2 DEF FrameLost, Types, reg, ends
  <2>9. CASE DataRejected(s, d)
    <3>1. ctl' \in [Agent -> Seq(NoteSet)]
      BY <2>9, PostTyped, NoteTyped, Ends, Zenon DEF DataRejected, Types
    <3> QED BY <2>9, <3>1 DEF DataRejected, Types, reg, ends
  <2>10. CASE RelayRejected(s, d)
    <3>1. closer' \in [Stream -> [Side -> CloserRec]]
      BY <2>10, CloserWrite, Zenon DEF RelayRejected, CloserTo, Types, ClosePC
    <3> QED BY <2>10, <3>1 DEF RelayRejected, Types, reg, ends
  <2> QED BY <1>2, <2>1, <2>2, <2>3, <2>4, <2>5, <2>6, <2>7, <2>8, <2>9, <2>10 DEF CloseStep
<1>3. ASSUME NEW a \in Agent, Deliver(a) PROVE Types'
  <2> DEFINE q == IF ctl[a] # <<>> THEN ctl[a] ELSE dat[a]
             s == Head(q).s
             e == IF Tgt[s] = a /\ Holds(s, "tgt") THEN "tgt" ELSE "src"
  <2>1. q \in Seq(NoteSet) /\ q # <<>>
    BY <1>3, Zenon DEF Deliver, Types
  <2>2. Head(q) \in NoteSet
    BY <2>1
  <2>3. s \in Stream
    BY <2>2 DEF NoteSet
  <2>4. ctl' \in [Agent -> Seq(NoteSet)] /\ dat' \in [Agent -> Seq(NoteSet)]
    <3>1. Tail(q) \in Seq(NoteSet)
      BY <2>1
    <3>2. \/ ctl' = [ctl EXCEPT ![a] = Tail(q)] /\ dat' = dat
          \/ dat' = [dat EXCEPT ![a] = Tail(q)] /\ ctl' = ctl
      BY <1>3, Zenon DEF Deliver, Types
    <3> HIDE DEF q
    <3> QED BY <3>1, <3>2, Zenon DEF Types
  <2>5. closer' = closer \/ CloserTo(s, e, "sent")
    BY <1>3, Zenon DEF Deliver, CloserTo
  <2>6. e \in Side
    BY DEF Side
  <2>7. /\ src' = src \/ src' = [src EXCEPT ![s] = "done"]
        /\ tgt' = tgt \/ tgt' = [tgt EXCEPT ![s] = "done"] \/ tgt' = [tgt EXCEPT ![s] = "opened"]
        /\ tgtc' = tgtc \/ tgtc' = [tgtc EXCEPT ![s] = conn[a]]
    BY <1>3, Zenon DEF Deliver
  <2> HIDE DEF q, s, e
  <2>8. closer' \in [Stream -> [Side -> CloserRec]]
    <3>1. closer \in [Stream -> [Side -> CloserRec]] /\ "sent" \in ClosePC
      BY DEF Types, ClosePC
    <3> QED BY <2>3, <2>5, <2>6, <3>1, CloserWrite
  <2>9. /\ src' \in [Stream -> {"none", "held", "done"}]
        /\ tgt' \in [Stream -> {"none", "opened", "up", "done"}] /\ tgtc' \in [Stream -> Nat]
    BY <2>3, <2>7, Zenon DEF Types
  <2>10. UNCHANGED <<reg, table, count, open, sweep>>
    BY <1>3, Zenon DEF Deliver
  <2> QED BY <2>4, <2>8, <2>9, <2>10 DEF Types, reg
<1>4. ASSUME NEW a \in Agent, Disconnect(a) PROVE Types'
  BY <1>4 DEF Disconnect, Types, ends
<1>5. ASSUME NEW a \in Agent, Connect(a) \/ Evict(a) \/ Reinsert(a) PROVE Types'
  <2>1. PICK kind \in {"register", "implicit", "evict"}, of \in Nat : StartSweep(a, kind, of)
    <3>1. newest[a] + 1 \in Nat /\ circ[a] \in Nat /\ conn[a] \in Nat
      BY DEF Types
    <3> QED BY <1>5, <3>1 DEF Connect, Evict, Reinsert
  <2>2. PICK k \in Sweeper :
          sweep' = [sweep EXCEPT ![k] = [IdleSweep EXCEPT !.pc = "retain", !.agent = a,
                                                         !.kind = kind, !.of = of]]
    BY <2>1, Zenon DEF StartSweep
  <2> DEFINE r == [IdleSweep EXCEPT !.pc = "retain", !.agent = a, !.kind = kind, !.of = of]
  <2>3. r \in SweepRec /\ r.agent \in Agent
    BY Zenon DEF SweepRec, IdleSweep
  <2> HIDE DEF r
  <2>4. /\ sweep' \in [Sweeper -> SweepRec]
        /\ \A j \in Sweeper : sweep'[j].pc # "idle" => sweep'[j].agent \in Agent
    BY <2>2, <2>3 DEF Types, r
  <2>5. ctl' \in [Agent -> Seq(NoteSet)] /\ dat' \in [Agent -> Seq(NoteSet)]
    <3>1. FreshChannels(a)
      BY <1>5 DEF Connect, Evict, Reinsert
    <3>2. <<>> \in Seq(NoteSet)
      OBVIOUS
    <3> QED BY <3>1, <3>2 DEF FreshChannels, Types
  <2>6. conn' \in [Agent -> Nat] /\ newest' \in [Agent -> Nat] /\ circ' \in [Agent -> Nat]
    <3>1. CASE Connect(a)
      BY <3>1 DEF Connect, Types
    <3>2. CASE Evict(a)
      BY <3>2 DEF Evict, Types
    <3>3. CASE Reinsert(a)
      BY <3>3 DEF Reinsert, Types
    <3> QED BY <1>5, <3>1, <3>2, <3>3
  <2>7. UNCHANGED <<table, count, open, closer, ends>>
    BY <1>5 DEF Connect, Evict, Reinsert
  <2> QED BY <2>4, <2>5, <2>6, <2>7, Zenon DEF Types, ends
<1>6. ASSUME NEW k \in Sweeper, SweepStep(k) \/ SweepDropped(k) PROVE Types'
  <2>1. sweep[k] \in SweepRec
    BY DEF Types
  <2>2. CASE SweepRetain(k)
    <3> DEFINE p == SweepPeers(sweep[k].agent)
               b == \E s \in Swept(sweep[k].agent) : Src[s] = sweep[k].agent
               r == [sweep[k] EXCEPT !.pc = "reset", !.reset = b, !.peers = p]
    <3>1. p \in SUBSET Stream /\ b \in BOOLEAN
      BY DEF SweepPeers, Swept, Types
    <3>2. sweep' = [sweep EXCEPT ![k] = r]
      BY <2>2, Zenon DEF SweepRetain
    <3>3. sweep[k].agent \in Agent
      BY <2>2, Zenon DEF SweepRetain, Types
    <3> HIDE DEF p, b
    <3>4. r \in SweepRec /\ r.agent \in Agent
      BY <2>1, <3>1, <3>3, Zenon DEF SweepRec
    <3> HIDE DEF r
    <3>5. /\ sweep' \in [Sweeper -> SweepRec]
          /\ \A j \in Sweeper : sweep'[j].pc # "idle" => sweep'[j].agent \in Agent
      BY <3>2, <3>4 DEF Types
    <3> QED BY <2>2, <3>5, WithoutTyped, Zenon DEF SweepRetain, Types, reg, ends
  <2>3. CASE SweepReset(k)
    <3> DEFINE r == [sweep[k] EXCEPT !.pc = "notify"]
    <3>1. sweep' = [sweep EXCEPT ![k] = r]
      BY <2>3 DEF SweepReset
    <3>2. sweep[k].agent \in Agent
      BY <2>3 DEF SweepReset, Types
    <3>3. r \in SweepRec /\ r.agent \in Agent
      BY <2>1, <3>2 DEF SweepRec
    <3> HIDE DEF r
    <3>4. /\ sweep' \in [Sweeper -> SweepRec]
          /\ \A j \in Sweeper : sweep'[j].pc # "idle" => sweep'[j].agent \in Agent
      BY <3>1, <3>3 DEF Types
    <3>5. count' \in [Agent -> Nat]
      BY <2>3 DEF SweepReset, Types
    <3> QED BY <2>3, <3>4, <3>5 DEF SweepReset, Types, reg, ends
  <2>4. CASE SweepDropped(k) \/ (SweepNotify(k) /\ sweep[k].peers = {})
    <3>1. sweep' = [sweep EXCEPT ![k] = IdleSweep]
      BY <2>4 DEF SweepDropped, SweepNotify
    <3>2. IdleSweep \in SweepRec /\ IdleSweep.pc = "idle"
      BY DEF SweepRec, IdleSweep
    <3>3. /\ sweep' \in [Sweeper -> SweepRec]
          /\ \A j \in Sweeper : sweep'[j].pc # "idle" => sweep'[j].agent \in Agent
      BY <3>1, <3>2 DEF Types
    <3> QED BY <2>4, <3>3 DEF SweepDropped, SweepNotify, Types, reg, ends
  <2>5. CASE SweepNotify(k) /\ sweep[k].peers # {}
    <3>1. sweep[k].agent \in Agent
      BY <2>5 DEF SweepNotify, Types
    <3>2. PICK s \in sweep[k].peers : /\ ctl' = Post(ctl, Peer(k, s), Note("close", s))
                                      /\ sweep' = [sweep EXCEPT ![k].peers = @ \ {s}]
      BY <2>5 DEF SweepNotify
    <3> DEFINE r == [sweep[k] EXCEPT !.peers = @ \ {s}]
    <3>3. r \in SweepRec /\ r.agent \in Agent
      BY <2>1, <3>1 DEF SweepRec
    <3>4. sweep' = [sweep EXCEPT ![k] = r]
      BY <3>2
    <3> HIDE DEF r
    <3>5. /\ sweep' \in [Sweeper -> SweepRec]
          /\ \A j \in Sweeper : sweep'[j].pc # "idle" => sweep'[j].agent \in Agent
      BY <3>3, <3>4 DEF Types
    <3>6. s \in Stream
      BY <2>1 DEF SweepRec
    <3>7. ctl' \in [Agent -> Seq(NoteSet)]
      BY <3>2, <3>6, PostTyped, NoteTyped, Ends, Zenon DEF Peer, Types
    <3> QED BY <2>5, <3>5, <3>7 DEF SweepNotify, Types, reg, ends
  <2> QED BY <1>6, <2>2, <2>3, <2>4, <2>5 DEF SweepStep
<1>7. CASE UNCHANGED vars
  BY <1>7 DEF vars, Types
<1> QED BY <1>1, <1>2, <1>3, <1>4, <1>5, <1>6, <1>7 DEF Next

LEMMA TypesInit == Init => Types
<1> SUFFICES ASSUME Init PROVE Types
  OBVIOUS
<1>1. /\ IdleOpen \in OpenRec /\ IdleCloser \in CloserRec
      /\ IdleSweep \in SweepRec /\ IdleSweep.pc = "idle"
  BY DEF IdleOpen, OpenRec, OpenPC, IdleCloser, CloserRec, ClosePC, Face, IdleSweep, SweepRec
<1> QED BY <1>1 DEF Init, Types

\* Every table, handler and channel holds what the code puts there, and only
\* endpoints that were told of a stream hold it (TypeOK of HubStreams).
THEOREM StreamTyping == Spec => []TypeOK
<1>1. Init => TypeOK
  BY TypesInit, Typed
<1>2. TypeOK /\ [Next]_vars => TypeOK'
  BY TypesStep, Typed
<1> QED BY <1>1, <1>2, PTL DEF Spec

-------------------------------------------------------------------------------
(* The invariant.                                                          *)

\* The streams whose Open waits in a channel.
OpensIn(q) == {s \in Stream : \E i \in 1..Len(q) : q[i] = Note("open", s)}
Posted(s) == \E a \in Agent : s \in OpensIn(ctl[a]) \/ s \in OpensIn(dat[a])

\* The target side has not come into being.
Untold(s) == tgt[s] = "none" /\ closer[s]["tgt"].pc = "none" /\ ~Posted(s)

\* Which handlers may be at work on a stream at once.  An Open that has not
\* inserted its entry is alone; one that may still roll back has told nobody;
\* a slot that a teardown will give back has no entry any more.
Stage(s) ==
  /\ open[s].pc \in {"new", "check", "admit", "resolve"} => s \notin DOMAIN table /\ Untold(s)
  /\ open[s].pc = "insert" => s \notin DOMAIN table /\ closer[s]["tgt"].pc # "release"
  /\ open[s].pc \in {"release", "reject", "refused"} =>
       s \notin DOMAIN table /\ \A d \in Side : closer[s][d].pc # "release"
  /\ open[s].pc \in {"insert", "notify", "rollback"} /\ open[s].face = "poll" /\ Src[s] \notin Quic =>
       Untold(s)
  /\ open[s].pc \in {"notify", "rollback"} => Src[s] \notin Quic
  /\ open[s].pc = "rollback" => open[s].face = "poll"
  /\ open[s].pc \notin {"done", "refused"} => closer[s]["src"].pc \in {"none", "sent"}
  /\ \A d \in Side : closer[s][d].pc = "sent" => Holder(s, d) \notin Quic
  /\ \A d \in Side : closer[s][d].pc = "release" => s \notin DOMAIN table /\ Holder(s, d) \in Quic
  /\ ~(closer[s]["src"].pc = "release" /\ closer[s]["tgt"].pc = "release")
Stages == \A s \in Stream : Stage(s)

-------------------------------------------------------------------------------
(* Channels.                                                               *)

LEMMA OpensAppend ==
  ASSUME NEW q \in Seq(NoteSet), NEW n \in NoteSet, NEW s \in OpensIn(Append(q, n))
  PROVE  s \in OpensIn(q) \/ n = Note("open", s)
BY DEF OpensIn

LEMMA OpensTail ==
  ASSUME NEW q \in Seq(NoteSet), q # <<>>, NEW s \in OpensIn(Tail(q))
  PROVE  s \in OpensIn(q)
<1>1. PICK i \in 1..Len(Tail(q)) : Tail(q)[i] = Note("open", s)
  BY Zenon DEF OpensIn
<1>2. i + 1 \in 1..Len(q) /\ q[i + 1] = Tail(q)[i]
  BY <1>1
<1> QED BY <1>1, <1>2 DEF OpensIn

LEMMA OpensHead ==
  ASSUME NEW q \in Seq(NoteSet), q # <<>>, Head(q).kind = "open"
  PROVE  Head(q).s \in OpensIn(q)
<1>1. Head(q) = q[1] /\ 1 \in 1..Len(q) /\ Head(q) \in NoteSet
  OBVIOUS
<1>2. Head(q) = Note("open", Head(q).s) /\ Head(q).s \in Stream
  BY <1>1 DEF NoteSet, Note
<1> QED BY <1>1, <1>2 DEF OpensIn

\* Queueing a notification queues no other Open.
LEMMA PostOpens ==
  ASSUME NEW q \in [Agent -> Seq(NoteSet)], NEW a \in Agent, NEW n \in NoteSet,
         NEW b \in Agent, NEW s \in OpensIn(Post(q, a, n)[b])
  PROVE  s \in OpensIn(q[b]) \/ n = Note("open", s)
<1>1. CASE Post(q, a, n)[b] = q[b]
  BY <1>1
<1>2. CASE Post(q, a, n)[b] = Append(q[b], n)
  BY <1>2, OpensAppend
<1> QED BY <1>1, <1>2 DEF Post

LEMMA PostedPost ==
  ASSUME Types, NEW a \in Agent, NEW n \in NoteSet, NEW s \in Stream, Posted(s)',
         \/ ctl' = Post(ctl, a, n) /\ dat' = dat
         \/ dat' = Post(dat, a, n) /\ ctl' = ctl
  PROVE  Posted(s) \/ n = Note("open", s)
<1>1. PICK b \in Agent : s \in OpensIn(ctl'[b]) \/ s \in OpensIn(dat'[b])
  BY DEF Posted, OpensIn
<1>2. ctl \in [Agent -> Seq(NoteSet)] /\ dat \in [Agent -> Seq(NoteSet)]
  BY DEF Types
<1>3. CASE ctl' = Post(ctl, a, n) /\ dat' = dat
  <2>1. s \in OpensIn(ctl'[b]) => s \in OpensIn(ctl[b]) \/ n = Note("open", s)
    BY <1>2, <1>3, PostOpens, Zenon
  <2> QED BY <1>1, <1>3, <2>1 DEF Posted
<1>4. CASE dat' = Post(dat, a, n) /\ ctl' = ctl
  <2>1. s \in OpensIn(dat'[b]) => s \in OpensIn(dat[b]) \/ n = Note("open", s)
    BY <1>2, <1>4, PostOpens, Zenon
  <2> QED BY <1>1, <1>4, <2>1 DEF Posted
<1> QED BY <1>3, <1>4

LEMMA PostedSame ==
  ASSUME NEW s \in Stream, UNCHANGED <<ctl, dat>>
  PROVE  Posted(s)' <=> Posted(s)
BY DEF Posted, OpensIn

LEMMA PostedFresh ==
  ASSUME Types, NEW a \in Agent, FreshChannels(a), NEW s \in Stream, Posted(s)'
  PROVE  Posted(s)
<1>1. PICK b \in Agent : s \in OpensIn(ctl'[b]) \/ s \in OpensIn(dat'[b])
  BY DEF Posted, OpensIn
<1>2. s \notin OpensIn(<<>>)
  BY DEF OpensIn
<1>3. ctl'[b] \in {ctl[b], <<>>} /\ dat'[b] \in {dat[b], <<>>}
  BY DEF FreshChannels, Types
<1> QED BY <1>1, <1>2, <1>3 DEF Posted

-------------------------------------------------------------------------------
(* The stages of a stream.                                                 *)

\* What is left alone keeps its stage.
LEMMA StageFrame ==
  ASSUME NEW s \in Stream, Stage(s),
         open'[s].pc = open[s].pc, open'[s].face = open[s].face, closer'[s] = closer[s],
         tgt[s] = "none" => tgt'[s] = "none", s \in DOMAIN table' => s \in DOMAIN table,
         Posted(s)' => Posted(s)
  PROVE  Stage(s)'
BY DEF Stage, Untold, Holder

\* A step of one stream.
LEMMA StagesOthers ==
  ASSUME Stages, NEW s \in Stream, Stage(s)',
         \A x \in Stream : x # s =>
           /\ open'[x] = open[x] /\ closer'[x] = closer[x] /\ tgt'[x] = tgt[x]
           /\ x \in DOMAIN table' => x \in DOMAIN table
           /\ Posted(x)' => Posted(x)
  PROVE  Stages'
<1> SUFFICES ASSUME NEW x \in Stream PROVE Stage(x)'
  BY DEF Stages
<1>1. CASE x = s
  BY <1>1
<1>2. CASE x # s
  BY <1>2, StageFrame DEF Stages
<1> QED BY <1>1, <1>2

LEMMA StagesInit == Init => Stages
<1> SUFFICES ASSUME Init, NEW s \in Stream PROVE Stage(s)
  BY DEF Stages
<1>1. ~Posted(s)
  BY DEF Init, Posted, OpensIn
<1>2. open[s].pc = "new" /\ \A d \in Side : closer[s][d].pc = "none"
  BY DEF Init, IdleOpen, IdleCloser
<1>3. s \notin DOMAIN table /\ tgt[s] = "none" /\ "src" \in Side /\ "tgt" \in Side
  BY DEF Init, Side
<1> QED BY <1>1, <1>2, <1>3 DEF Stage, Untold

LEMMA StagesOpen ==
  ASSUME Types, Stages, NEW s \in Stream, OpenSend(s) \/ OpenStep(s) \/ Handshake(s)
  PROVE  Stages'
<1> USE DEF Side
<1>0. Stage(s) /\ open \in [Stream -> OpenRec] /\ closer \in [Stream -> [Side -> CloserRec]]
      /\ circ \in [Agent -> Nat]
  BY DEF Stages, Types
<1>1. CASE OpenSend(s)
  <2>1. \A x \in Stream : Posted(x)' => Posted(x)
    BY <1>1, PostedSame DEF OpenSend
  <2>2. /\ \A x \in Stream : x # s => open'[x] = open[x]
        /\ open'[s].pc = "check"
    BY <1>0, <1>1 DEF OpenSend, OpenRec
  <2>3. table' = table /\ closer' = closer /\ tgt' = tgt /\ open[s].pc = "new"
    BY <1>1 DEF OpenSend
  <2>4. Stage(s)'
    BY <1>0, <2>1, <2>2, <2>3 DEF Stage, Untold, Holder
  <2> QED BY <2>1, <2>2, <2>3, <2>4, StagesOthers
<1>2. CASE OpenCheck(s) \/ Admit(s) \/ Refuse(s) \/ ResolvePollFails(s) \/ OpenRelease(s)
  <2>1. \A x \in Stream : Posted(x)' => Posted(x)
    BY <1>2, PostedSame DEF OpenCheck, Admit, Refuse, ResolvePollFails, OpenRelease
  <2>2. table' = table /\ closer' = closer /\ tgt' = tgt
    BY <1>2 DEF OpenCheck, Admit, Refuse, ResolvePollFails, OpenRelease, ends
  <2>3. PICK pc \in {"admit", "resolve", "reject", "release"} :
          /\ OpenTo(s, pc)
          /\ \/ open[s].pc \in {"check", "admit", "resolve"}
             \/ open[s].pc = "release" /\ pc = "reject"
    BY <1>2 DEF OpenCheck, Admit, Refuse, ResolvePollFails, OpenRelease
  <2>4. pc \in OpenPC
    BY DEF OpenPC
  <2>5. open'[s].pc = pc /\ \A x \in Stream : x # s => open'[x] = open[x]
    BY <1>0, <2>3, <2>4, OpenWrite
  <2>6. Stage(s)'
    BY <1>0, <2>1, <2>2, <2>3, <2>5 DEF Stage, Untold, Holder
  <2> QED BY <2>1, <2>2, <2>5, <2>6, StagesOthers
<1>3. CASE ResolveMissing(s) \/ ResolveRelayFails(s)
  <2>1. \A x \in Stream : Posted(x)' => Posted(x)
    BY <1>3, PostedSame DEF ResolveMissing, ResolveRelayFails
  <2>2. table' = table /\ closer' = closer /\ tgt' = tgt /\ open[s].pc = "resolve"
    BY <1>3 DEF ResolveMissing, ResolveRelayFails, ends
  <2>3. /\ open'[s].pc = "release" \/ (open'[s].pc = "insert" /\ open'[s].face = "poll")
        /\ \A x \in Stream : x # s => open'[x] = open[x]
    BY <1>0, <1>3, OpenWrite, ResolvedWrite DEF ResolveMissing, ResolveRelayFails, OpenPC, Face
  <2>4. Stage(s)'
    BY <1>0, <2>1, <2>2, <2>3 DEF Stage, Untold, Holder
  <2> QED BY <2>1, <2>2, <2>3, <2>4, StagesOthers
<1>4. CASE ResolvePoll(s)
  <2>1. /\ \A x \in Stream : x # s => (Posted(x)' => Posted(x))
        /\ Src[s] \notin Quic => (Posted(s)' => Posted(s))
    <3>1. CASE Src[s] \in Quic
      <4>1. dat' = Post(dat, Tgt[s], Note("open", s)) /\ ctl' = ctl
        BY <1>4, <3>1 DEF ResolvePoll
      <4>2. \A x \in Stream : x # s => Note("open", s) # Note("open", x)
        BY DEF Note
      <4> QED BY <3>1, <4>1, <4>2, PostedPost, NoteTyped, Ends
    <3>2. CASE Src[s] \notin Quic
      BY <1>4, <3>2, PostedSame DEF ResolvePoll
    <3> QED BY <3>1, <3>2
  <2>2. table' = table /\ closer' = closer /\ tgt' = tgt /\ open[s].pc = "resolve"
    BY <1>4 DEF ResolvePoll, ends
  <2>3. /\ open'[s].pc = "insert" /\ open'[s].face = "poll"
        /\ \A x \in Stream : x # s => open'[x] = open[x]
    BY <1>0, <1>4, ResolvedWrite DEF ResolvePoll, Face
  <2>4. Stage(s)'
    BY <1>0, <2>1, <2>2, <2>3 DEF Stage, Untold, Holder
  <2> QED BY <2>1, <2>2, <2>3, <2>4, StagesOthers
<1>5. CASE ResolveRelay(s)
  <2>1. \A x \in Stream : Posted(x)' => Posted(x)
    BY <1>5, PostedSame DEF ResolveRelay
  <2>2. /\ table' = table /\ open[s].pc = "resolve"
        /\ \A x \in Stream : x # s => tgt'[x] = tgt[x]
    BY <1>5 DEF ResolveRelay, Types
  <2>3. /\ open'[s].pc = "insert" /\ open'[s].face = "relay"
        /\ \A x \in Stream : x # s => open'[x] = open[x]
    BY <1>0, <1>5, ResolvedWrite DEF ResolveRelay, Face
  <2>4. closer' = closer \/ CloserTo(s, "tgt", "remove")
    BY <1>5 DEF ResolveRelay, CloserTo
  <2>5. /\ \A x \in Stream : x # s => closer'[x] = closer[x]
        /\ closer'[s]["src"] = closer[s]["src"]
        /\ closer'[s]["tgt"].pc \in {"remove", closer[s]["tgt"].pc}
    BY <1>0, <2>4, CloserWrite DEF ClosePC
  <2>6. Stage(s)'
    BY <1>0, <2>1, <2>2, <2>3, <2>5 DEF Stage, Untold, Holder
  <2> QED BY <2>1, <2>2, <2>3, <2>5, <2>6, StagesOthers
<1>6. CASE OpenInsert(s)
  <2>1. \A x \in Stream : Posted(x)' => Posted(x)
    BY <1>6, PostedSame DEF OpenInsert
  <2>2. /\ \A x \in Stream : x # s => (x \in DOMAIN table' => x \in DOMAIN table)
        /\ closer' = closer /\ tgt' = tgt /\ open[s].pc = "insert"
    BY <1>6 DEF OpenInsert, ends
  <2>3. /\ open'[s].pc = IF Src[s] \in Quic THEN "done" ELSE "notify"
        /\ open'[s].face = open[s].face
        /\ \A x \in Stream : x # s => open'[x] = open[x]
    BY <1>0, <1>6, OpenWrite DEF OpenInsert, OpenPC
  <2>4. Stage(s)'
    BY <1>0, <2>1, <2>2, <2>3 DEF Stage, Untold, Holder
  <2> QED BY <2>1, <2>2, <2>3, <2>4, StagesOthers
<1>7. CASE OpenNotify(s)
  <2>1. /\ \A x \in Stream : x # s => (Posted(x)' => Posted(x))
        /\ open'[s].pc # "done" => (Posted(s)' => Posted(s))
    <3>1. CASE ctl' = ctl
      BY <1>7, <3>1, PostedSame DEF OpenNotify
    <3>2. CASE ctl' # ctl
      <4>1. ctl' = Post(ctl, Tgt[s], Note("open", s)) /\ dat' = dat /\ PollPlane(Tgt[s])
        BY <1>7, <3>2 DEF OpenNotify, Post
      <4>2. open'[s].pc = "done"
        BY <1>0, <1>7, <4>1, OpenWrite DEF OpenNotify, OpenPC
      <4>3. \A x \in Stream : x # s => Note("open", s) # Note("open", x)
        BY DEF Note
      <4> QED BY <4>1, <4>2, <4>3, PostedPost, NoteTyped, Ends
    <3> QED BY <3>1, <3>2
  <2>2. table' = table /\ closer' = closer /\ tgt' = tgt /\ open[s].pc = "notify"
    BY <1>7 DEF OpenNotify, ends
  <2>3. /\ open'[s].pc = "done" \/ (open'[s].pc = "rollback" /\ open[s].face # "relay")
        /\ open'[s].face = open[s].face
        /\ \A x \in Stream : x # s => open'[x] = open[x]
    BY <1>0, <1>7, OpenWrite DEF OpenNotify, OpenPC
  <2>4. open[s].face \in {"poll", "relay"}
    BY <1>0 DEF OpenRec, Face
  <2>5. Stage(s)'
    BY <1>0, <2>1, <2>2, <2>3, <2>4 DEF Stage, Untold, Holder
  <2> QED BY <2>1, <2>2, <2>3, <2>5, StagesOthers
<1>8. CASE OpenRollback(s)
  <2>1. \A x \in Stream : Posted(x)' => Posted(x)
    BY <1>8, PostedSame DEF OpenRollback
  <2>2. /\ DOMAIN table' = DOMAIN table \ {s}
        /\ closer' = closer /\ tgt' = tgt /\ open[s].pc = "rollback"
    BY <1>8 DEF OpenRollback, Without, ends
  <2>3. open'[s].pc = "release" /\ \A x \in Stream : x # s => open'[x] = open[x]
    BY <1>0, <1>8, OpenWrite DEF OpenRollback, OpenPC
  <2>4. Stage(s)'
    BY <1>0, <2>1, <2>2, <2>3 DEF Stage, Untold, Holder
  <2> QED BY <2>1, <2>2, <2>3, <2>4, StagesOthers
<1>9. CASE OpenReject(s)
  <2>1. \A x \in Stream : Posted(x)' => Posted(x)
    <3>1. ctl' = Post(ctl, Src[s], Note("reject", s)) /\ dat' = dat
      BY <1>9 DEF OpenReject
    <3>2. \A x \in Stream : Note("reject", s) # Note("open", x)
      BY DEF Note
    <3> QED BY <3>1, <3>2, PostedPost, NoteTyped, Ends
  <2>2. table' = table /\ closer' = closer /\ tgt' = tgt /\ open[s].pc = "reject"
    BY <1>9 DEF OpenReject
  <2>3. open'[s].pc = "refused" /\ \A x \in Stream : x # s => open'[x] = open[x]
    BY <1>0, <1>9, OpenWrite DEF OpenReject, OpenPC
  <2>4. Stage(s)'
    BY <1>0, <2>1, <2>2, <2>3 DEF Stage, Untold, Holder
  <2> QED BY <2>1, <2>2, <2>3, <2>4, StagesOthers
<1>10. CASE Handshake(s)
  <2>1. \A x \in Stream : Posted(x)' => Posted(x)
    BY <1>10, PostedSame DEF Handshake
  <2>2. /\ table' = table /\ closer' = closer /\ open' = open
        /\ tgt[s] # "none" /\ \A x \in Stream : x # s => tgt'[x] = tgt[x]
    BY <1>10 DEF Handshake, Types
  <2>3. Stage(s)'
    BY <1>0, <2>1, <2>2, StageFrame
  <2> QED BY <2>1, <2>2, <2>3, StagesOthers
<1> QED BY <1>1, <1>2, <1>3, <1>4, <1>5, <1>6, <1>7, <1>8, <1>9, <1>10 DEF OpenStep

LEMMA StagesClose ==
  ASSUME Types, Stages, NEW s \in Stream, NEW d \in Side,
         CloseStep(s, d) \/ FrameLost(s, d) \/ EndpointCloses(s, d) \/ DataRejected(s, d) \/ RelayRejected(s, d)
  PROVE  Stages'
<1> USE DEF Side
<1>0. Stage(s) /\ open \in [Stream -> OpenRec] /\ closer \in [Stream -> [Side -> CloserRec]]
  BY DEF Stages, Types
<1>1. CASE CloseRead(s, d)
  <2>1. \A x \in Stream : Posted(x)' => Posted(x)
    BY <1>1, PostedSame, Zenon DEF CloseRead
  <2>2. table' = table /\ open' = open /\ tgt' = tgt /\ closer[s][d].pc = "sent"
    BY <1>1 DEF CloseRead, ends
  <2>3. PICK pc \in {"none", "remove"} : CloserTo(s, d, pc) /\ (pc = "remove" => s \in DOMAIN table)
    BY <1>1 DEF CloseRead
  <2>4. /\ closer'[s][d].pc = pc /\ \A e \in Side : e # d => closer'[s][e] = closer[s][e]
        /\ \A x \in Stream : x # s => closer'[x] = closer[x]
    BY <1>0, <2>3, CloserWrite DEF ClosePC
  <2>5. d = "src" /\ pc = "remove" => open[s].pc \in {"done", "refused"}
    <3>1. Holder(s, d) \notin Quic
      BY <1>0, <2>2 DEF Stage
    <3>2. d = "src" => open[s].pc \in {"new", "check", "done", "refused"}
      BY <1>1, <3>1 DEF CloseRead, ReaderFree, Holder, Circuit
    <3> QED BY <1>0, <2>3, <3>2 DEF Stage
  <2>6. Stage(s)'
    BY <1>0, <2>1, <2>2, <2>3, <2>4, <2>5, Zenon DEF Stage, Untold, Holder
  <2> QED BY <2>1, <2>2, <2>4, <2>6, StagesOthers, Zenon
<1>2. CASE CloseRemove(s, d)
  <2>1. \A x \in Stream : Posted(x)' => Posted(x)
    BY <1>2, PostedSame, Zenon DEF CloseRemove
  <2>2. /\ DOMAIN table' = DOMAIN table \ {s} /\ open' = open /\ tgt' = tgt
        /\ closer[s][d].pc = "remove"
    BY <1>2, Zenon DEF CloseRemove, Without, ends
  <2>3. /\ closer'[s][d].pc = "notify" /\ \A e \in Side : e # d => closer'[s][e] = closer[s][e]
        /\ \A x \in Stream : x # s => closer'[x] = closer[x]
    BY <1>0, <1>2, CloserWrite, Zenon DEF CloseRemove, ClosePC
  <2>4. Stage(s)'
    BY <1>0, <2>1, <2>2, <2>3, Zenon DEF Stage, Untold, Holder
  <2> QED BY <2>1, <2>2, <2>3, <2>4, StagesOthers, Zenon
<1>3. CASE Teardown(s, d)
  <2>1. \A x \in Stream : Posted(x)' => Posted(x)
    BY <1>3, PostedSame DEF Teardown
  <2>2. /\ DOMAIN table' = DOMAIN table \ {s} /\ open' = open /\ tgt' = tgt
        /\ closer[s][d].pc = "remove" /\ Holder(s, d) \in Quic
    BY <1>3 DEF Teardown, Without, ends
  <2>3. PICK r \in CloserRec : /\ closer' = [closer EXCEPT ![s][d] = r]
                               /\ r.pc = IF s \in DOMAIN table THEN "release" ELSE "none"
    BY <1>3, TeardownRecord
  <2>4. /\ closer'[s][d] = r /\ \A e \in Side : e # d => closer'[s][e] = closer[s][e]
        /\ \A x \in Stream : x # s => closer'[x] = closer[x]
    BY <1>0, <2>3, CloserSet
  <2>5. Stage(s)'
    BY <1>0, <2>1, <2>2, <2>3, <2>4, Zenon DEF Stage, Untold, Holder
  <2> QED BY <2>1, <2>2, <2>4, <2>5, StagesOthers, Zenon
<1>4. CASE TeardownRelease(s, d)
  <2>1. \A x \in Stream : Posted(x)' => Posted(x)
    BY <1>4, PostedSame, Zenon DEF TeardownRelease
  <2>2. table' = table /\ open' = open /\ tgt' = tgt /\ closer[s][d].pc = "release"
    BY <1>4, Zenon DEF TeardownRelease, ends
  <2>3. /\ closer'[s][d].pc \in {"notify", "none"}
        /\ \A e \in Side : e # d => closer'[s][e] = closer[s][e]
        /\ \A x \in Stream : x # s => closer'[x] = closer[x]
    BY <1>0, <1>4, CloserWrite DEF TeardownRelease, ClosePC
  <2>4. Stage(s)'
    BY <1>0, <2>1, <2>2, <2>3, Zenon DEF Stage, Untold, Holder
  <2> QED BY <2>1, <2>2, <2>3, <2>4, StagesOthers, Zenon
<1>5. CASE CloseNotify(s, d)
  <2>1. \A x \in Stream : Posted(x)' => Posted(x)
    <3>1. \E a \in Agent : \/ ctl' = Post(ctl, a, Note("close", s)) /\ dat' = dat
                           \/ dat' = Post(dat, a, Note("close", s)) /\ ctl' = ctl
      BY <1>5, Ends DEF CloseNotify
    <3>2. \A x \in Stream : Note("close", s) # Note("open", x)
      BY DEF Note
    <3> QED BY <3>1, <3>2, PostedPost, NoteTyped
  <2>2. table' = table /\ open' = open /\ tgt' = tgt /\ closer[s][d].pc = "notify"
    BY <1>5 DEF CloseNotify, ends
  <2>3. /\ closer'[s][d].pc = "none" /\ \A e \in Side : e # d => closer'[s][e] = closer[s][e]
        /\ \A x \in Stream : x # s => closer'[x] = closer[x]
    BY <1>0, <1>5, CloserWrite, Zenon DEF CloseNotify, ClosePC
  <2>4. Stage(s)'
    BY <1>0, <2>1, <2>2, <2>3, Zenon DEF Stage, Untold, Holder
  <2> QED BY <2>1, <2>2, <2>3, <2>4, StagesOthers
<1>6. CASE RelayWriterEnds(s, d)
  <2>1. \A x \in Stream : Posted(x)' => Posted(x)
    BY <1>6, PostedSame, Zenon DEF RelayWriterEnds
  <2>2. /\ table' = table /\ open' = open /\ closer' = closer
        /\ \A x \in Stream : x # s => tgt'[x] = tgt[x]
        /\ tgt[s] = "none" => tgt'[s] = "none"
    BY <1>6 DEF RelayWriterEnds, EndHere, Holds, Types
  <2>3. Stage(s)'
    BY <1>0, <2>1, <2>2, StageFrame, Zenon
  <2> QED BY <2>1, <2>2, <2>3, StagesOthers, Zenon
<1>7. CASE RelayEof(s, d) \/ EndpointCloses(s, d) \/ RelayRejected(s, d)
  <2>1. \A x \in Stream : Posted(x)' => Posted(x)
    BY <1>7, PostedSame DEF RelayEof, EndpointCloses, RelayRejected
  <2>2. /\ table' = table /\ open' = open /\ closer[s][d].pc = "none" /\ Heard(s, d)
        /\ d = "tgt" => tgt[s] # "none"
    BY <1>7 DEF RelayEof, EndpointCloses, RelayRejected, Holds
  <2>3. /\ \A x \in Stream : x # s => tgt'[x] = tgt[x]
        /\ tgt[s] = "none" => tgt'[s] = "none"
    BY <1>7 DEF RelayEof, EndpointCloses, RelayRejected, EndHere, Holds, Types, ends
  <2>4. PICK pc \in {"sent", "remove"} : CloserTo(s, d, pc) /\ (pc = "sent" => Holder(s, d) \notin Quic)
    BY <1>7 DEF RelayEof, EndpointCloses, RelayRejected, CloserTo
  <2>5. /\ closer'[s][d].pc = pc /\ \A e \in Side : e # d => closer'[s][e] = closer[s][e]
        /\ \A x \in Stream : x # s => closer'[x] = closer[x]
    BY <1>0, <2>4, CloserWrite DEF ClosePC
  <2>6. Stage(s)'
    BY <1>0, <2>1, <2>2, <2>3, <2>4, <2>5, Zenon DEF Stage, Untold, Holder, Heard
  <2> QED BY <2>1, <2>2, <2>3, <2>5, <2>6, StagesOthers, Zenon
<1>8. CASE FrameLost(s, d)
  <2>1. \A x \in Stream : Posted(x)' => Posted(x)
    BY <1>8, PostedSame DEF FrameLost
  <2>2. table' = table /\ tgt' = tgt
    BY <1>8 DEF FrameLost, ends
  <2>3. CASE open[s].pc = "check" /\ OpenTo(s, "refused") /\ closer' = closer
    <3>1. open'[s].pc = "refused" /\ \A x \in Stream : x # s => open'[x] = open[x]
      BY <1>0, <2>3, OpenWrite DEF OpenPC
    <3>2. Stage(s)'
      BY <1>0, <2>1, <2>2, <2>3, <3>1, Zenon DEF Stage, Untold, Holder
    <3> QED BY <2>1, <2>2, <2>3, <3>1, <3>2, StagesOthers
  <2>4. CASE closer[s][d].pc = "sent" /\ CloserTo(s, d, "none") /\ open' = open
    <3>1. /\ closer'[s][d].pc = "none" /\ \A e \in Side : e # d => closer'[s][e] = closer[s][e]
          /\ \A x \in Stream : x # s => closer'[x] = closer[x]
      BY <1>0, <2>4, CloserWrite DEF ClosePC
    <3>2. Stage(s)'
      BY <1>0, <2>1, <2>2, <2>4, <3>1, Zenon DEF Stage, Untold, Holder
    <3> QED BY <2>1, <2>2, <2>4, <3>1, <3>2, StagesOthers, Zenon
  <2> QED BY <1>8, <2>3, <2>4 DEF FrameLost, CloserTo
<1>9. CASE DataRejected(s, d)
  <2>1. \A x \in Stream : Posted(x)' => Posted(x)
    <3>1. ctl' = Post(ctl, Holder(s, d), Note("reject", s)) /\ dat' = dat
      BY <1>9 DEF DataRejected
    <3>2. \A x \in Stream : Note("reject", s) # Note("open", x)
      BY DEF Note
    <3> QED BY <3>1, <3>2, PostedPost, NoteTyped, Ends, Zenon
  <2>2. table' = table /\ open' = open /\ closer' = closer /\ tgt' = tgt
    BY <1>9, Zenon DEF DataRejected, ends
  <2>3. Stage(s)'
    BY <1>0, <2>1, <2>2, StageFrame, Zenon
  <2> QED BY <2>1, <2>2, <2>3, StagesOthers
<1> QED BY <1>1, <1>2, <1>3, <1>4, <1>5, <1>6, <1>7, <1>8, <1>9 DEF CloseStep

\* A notification is delivered: an Open makes the target hold the stream, a
\* Close or a rejection ends it.
LEMMA StagesDeliver ==
  ASSUME Types, Stages, NEW a \in Agent, Deliver(a)
  PROVE  Stages'
<1> USE DEF Side
<1> DEFINE q == IF ctl[a] # <<>> THEN ctl[a] ELSE dat[a]
           n == Head(q)
<1>1. /\ q \in Seq(NoteSet) /\ q # <<>>
      /\ closer \in [Stream -> [Side -> CloserRec]] /\ open \in [Stream -> OpenRec]
  BY Zenon DEF Deliver, Types
<1>2. n \in NoteSet
  BY <1>1
<1>3. PICK s \in Stream : s = n.s
  BY <1>2 DEF NoteSet
<1>4. Stage(s)
  BY <1>3 DEF Stages
<1>5. \A x \in Stream : Posted(x)' => Posted(x)
  <2> SUFFICES ASSUME NEW x \in Stream, Posted(x)' PROVE Posted(x)
    OBVIOUS
  <2>1. PICK b \in Agent : x \in OpensIn(ctl'[b]) \/ x \in OpensIn(dat'[b])
    BY DEF Posted, OpensIn
  <2>2. /\ ctl'[b] = ctl[b] \/ (ctl[b] # <<>> /\ ctl'[b] = Tail(ctl[b]))
        /\ dat'[b] = dat[b] \/ (dat[b] # <<>> /\ dat'[b] = Tail(dat[b]))
    <3>1. \/ ctl[a] # <<>> /\ ctl' = [ctl EXCEPT ![a] = Tail(@)] /\ dat' = dat
          \/ dat[a] # <<>> /\ dat' = [dat EXCEPT ![a] = Tail(@)] /\ ctl' = ctl
      BY Zenon DEF Deliver
    <3> QED BY <3>1, Zenon DEF Types
  <2>3. ctl[b] \in Seq(NoteSet) /\ dat[b] \in Seq(NoteSet)
    BY DEF Types
  <2> QED BY <2>1, <2>2, <2>3, OpensTail DEF Posted
<1>6. n.kind = "open" => Posted(s)
  <2>1. n.kind = "open" => s \in OpensIn(q)
    BY <1>1, <1>3, OpensHead
  <2> QED BY <2>1 DEF Posted
<1>7. UNCHANGED <<table, open>> /\ a \notin Quic
  BY Zenon DEF Deliver
<1>8. CASE n.kind = "open"
  <2>1. tgt' = [tgt EXCEPT ![s] = "opened"] /\ closer' = closer
    BY <1>3, <1>8 DEF Deliver
  <2>2. Posted(s)
    BY <1>6, <1>8
  <2>3. Stage(s)'
    BY <1>4, <1>7, <2>1, <2>2, Zenon DEF Stage, Untold, Holder
  <2>4. \A x \in Stream : x # s => tgt'[x] = tgt[x]
    BY <2>1 DEF Types
  <2> QED BY <1>5, <1>7, <2>1, <2>3, <2>4, StagesOthers
<1>9. CASE n.kind # "open"
  <2>1. /\ tgt' = tgt \/ (tgt' = [tgt EXCEPT ![s] = "done"] /\ tgt[s] # "none")
        /\ \/ closer' = closer
           \/ \E e \in Side : CloserTo(s, e, "sent") /\ Holder(s, e) = a /\ (e = "tgt" => tgt[s] # "none")
    BY <1>3, <1>9, Zenon DEF Deliver, CloserTo, Holder, Holds
  <2>2. /\ \A x \in Stream : x # s => tgt'[x] = tgt[x]
        /\ tgt[s] = "none" => tgt'[s] = "none"
    BY <2>1 DEF Types
  <2>3. CASE closer' = closer
    <3>1. Stage(s)'
      BY <1>4, <1>5, <1>7, <2>2, <2>3, StageFrame
    <3> QED BY <1>5, <1>7, <2>2, <2>3, <3>1, StagesOthers
  <2>4. ASSUME NEW e \in Side, CloserTo(s, e, "sent"), Holder(s, e) = a, e = "tgt" => tgt[s] # "none"
        PROVE  Stages'
    <3>1. /\ closer'[s][e].pc = "sent" /\ \A d \in Side : d # e => closer'[s][d] = closer[s][d]
          /\ \A x \in Stream : x # s => closer'[x] = closer[x]
      BY <1>1, <2>4, CloserWrite DEF ClosePC
    <3>2. Stage(s)'
      <4>1. CASE e = "tgt"
        BY <1>4, <1>5, <1>7, <2>2, <2>4, <3>1, <4>1 DEF Stage, Untold, Holder
      <4>2. CASE e = "src"
        BY <1>4, <1>5, <1>7, <2>2, <2>4, <3>1, <4>2 DEF Stage, Untold, Holder
      <4> QED BY <4>1, <4>2
    <3> QED BY <1>5, <1>7, <2>2, <3>1, <3>2, StagesOthers
  <2> QED BY <2>1, <2>3, <2>4
<1> QED BY <1>8, <1>9

LEMMA StagesStep == Types /\ Stages /\ [Next]_vars => Stages'
<1> SUFFICES ASSUME Types, Stages, [Next]_vars PROVE Stages'
  OBVIOUS
<1>1. ASSUME open' = open, closer' = closer, tgt' = tgt, DOMAIN table' \subseteq DOMAIN table,
             \A x \in Stream : Posted(x)' => Posted(x)
      PROVE  Stages'
  BY <1>1, StageFrame DEF Stages
<1>2. ASSUME NEW a \in Agent, Disconnect(a) PROVE Stages'
  BY <1>1, <1>2, PostedSame DEF Disconnect, ends
<1>3. ASSUME NEW a \in Agent, Connect(a) \/ Evict(a) \/ Reinsert(a) PROVE Stages'
  <2>1. FreshChannels(a) /\ UNCHANGED <<table, open, closer, ends>>
    BY <1>3 DEF Connect, Evict, Reinsert
  <2> QED BY <1>1, <2>1, PostedFresh DEF ends
<1>4. ASSUME NEW k \in Sweeper, SweepStep(k) \/ SweepDropped(k) PROVE Stages'
  <2>1. open' = open /\ closer' = closer /\ tgt' = tgt /\ DOMAIN table' \subseteq DOMAIN table
    BY <1>4, Zenon DEF SweepStep, SweepRetain, SweepReset, SweepNotify, SweepDropped, Without, ends
  <2>2. \A x \in Stream : Posted(x)' => Posted(x)
    <3>1. CASE ctl' = ctl
      BY <1>4, <3>1, PostedSame, Zenon DEF SweepStep, SweepRetain, SweepReset, SweepNotify, SweepDropped
    <3>2. CASE ctl' # ctl
      <4>1. SweepNotify(k) /\ sweep[k] \in SweepRec
        BY <1>4, <3>2, Zenon DEF SweepStep, SweepRetain, SweepReset, SweepDropped, Types
      <4>2. PICK s \in sweep[k].peers : ctl' = Post(ctl, Peer(k, s), Note("close", s)) /\ dat' = dat
        BY <3>2, <4>1 DEF SweepNotify
      <4>3. s \in Stream /\ Peer(k, s) \in Agent
        BY <4>1, Ends DEF SweepRec, Peer
      <4>4. \A x \in Stream : Note("close", s) # Note("open", x)
        BY DEF Note
      <4> QED BY <4>2, <4>3, <4>4, PostedPost, NoteTyped
    <3> QED BY <3>1, <3>2
  <2> QED BY <1>1, <2>1, <2>2
<1>5. CASE UNCHANGED vars
  BY <1>1, <1>5, PostedSame DEF vars
<1> QED BY <1>2, <1>3, <1>4, <1>5, StagesOpen, StagesClose, StagesDeliver DEF Next

===============================================================================
