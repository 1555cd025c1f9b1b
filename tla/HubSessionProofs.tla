--------------------------- MODULE HubSessionProofs ---------------------------
(* Proofs about HubSession, for every number of connections, Arcs, requests  *)
(* and signals, and every bound.                                             *)
EXTENDS HubSession, TLAPS

\* TypeOK read off for one slot, one session.
LEMMA PollTyped ==
  ASSUME TypeOK, NEW p \in Poll
  PROVE  /\ poll[p] \in PollSlot
         /\ poll[p].pc # "idle" => poll[p].conn \in H2Conn
         /\ poll[p].pc \notin {"idle", "sent", "implicit"} =>
              poll[p].sess \in DOMAIN sess /\ poll[p].sess # None
<1>1. poll[p] \in PollSlot
  BY DEF TypeOK
<1>2. poll[p].conn \in H2Conn \cup {None} /\ poll[p].sess \in DOMAIN sess \cup {None}
  BY <1>1 DEF PollSlot, Arc
<1> QED
  BY <1>1, <1>2 DEF TypeOK

LEMMA SessTyped ==
  ASSUME TypeOK, NEW s \in DOMAIN sess
  PROVE  /\ sess[s] \in Session /\ sess[s].circ \in Conn /\ sess[s].gen \in Nat
         /\ sess[s].chan \in Nat /\ sess[s].rx \in OptNat /\ sess[s].ctrl \in OptNat
         /\ s # None
<1>1. sess[s] \in Session
  BY DEF TypeOK
<1> QED
  BY <1>1, Distinct DEF TypeOK, Session

\* agents.insert frees nothing that is still in use.
LEMMA InsertFrees ==
  ASSUME TypeOK, NEW s, NEW x \in Session, Insert(s, x)
  PROVE  /\ s \in DOMAIN sess' /\ DOMAIN sess' \subseteq Sess
         /\ sess' \in [DOMAIN sess' -> Session]
         /\ s # None /\ entry' = s /\ s \notin Refs
         /\ Refs \subseteq Arc /\ Refs \subseteq Arc'
         /\ \A t \in DOMAIN sess' : t # s => t \in DOMAIN sess /\ sess'[t] = sess[t]
         /\ sess'[s] = x
<1>1. Refs \subseteq Arc
  BY DEF TypeOK, Refs, Arc, PollSlot, UpSlot, QuicSlot, SignalSlot
<1>2. s \in Sess \ Refs /\ entry' = s
  BY DEF Insert
<1>3. DOMAIN sess' = (DOMAIN sess \cap Refs) \cup {s}
  BY DEF Insert
<1>4. \A t \in DOMAIN sess' : sess'[t] = IF t = s THEN x ELSE sess[t]
  BY DEF Insert
<1>5. sess' = [t \in DOMAIN sess' |-> sess'[t]]
  BY DEF Insert
<1> HIDE DEF Insert
<1>6. \A t \in DOMAIN sess' : sess'[t] \in Session
  BY <1>3, <1>4 DEF TypeOK
<1>7. sess' \in [DOMAIN sess' -> Session]
  BY <1>5, <1>6
<1>8. Refs \subseteq Arc'
  BY <1>1, <1>3 DEF Arc
<1> QED
  BY <1>1, <1>2, <1>3, <1>4, <1>7, <1>8, Distinct DEF TypeOK, Conn

\* The slots of every task keep their type when an Arc is inserted.
LEMMA InsertKeepsSlots ==
  ASSUME TypeOK, NEW s, NEW x \in Session, Insert(s, x)
  PROVE  /\ hb \in Arc'
         /\ \A p \in Poll : poll[p] \in PollSlot'
         /\ \A u \in Up : up[u] \in UpSlot'
         /\ \A c \in QuicConn : quic[c] \in QuicSlot'
         /\ \A k \in Signal : signal[k] \in SignalSlot'
<1>1. Refs \subseteq Arc'
  BY InsertFrees
<1>2. /\ hb \in Arc' /\ \A p \in Poll : poll[p].sess \in Arc'
      /\ \A u \in Up : up[u].sess \in Arc'
      /\ \A c \in QuicConn : quic[c].sess \in Arc'
      /\ \A k \in Signal : signal[k].sess \in Arc'
  BY <1>1 DEF Refs
<1> QED
  BY <1>2 DEF TypeOK, PollSlot, UpSlot, QuicSlot, SignalSlot

\* The operations of AgentSession yield sessions.
LEMMA SessionOps ==
  ASSUME NEW x \in Session, NEW c \in Conn, NEW q \in Conn \cup {None}
  PROVE  /\ NewSession(c, q) \in Session /\ InstallChannels(x, c, q) \in Session
         /\ Terminate(x) \in Session /\ RecreateChannels(x) \in Session
         /\ Nudged(x) \in Session
<1>1. NewSession(c, q) \in Session
  BY DEF NewSession, Session, OptNat
<1>2. InstallChannels(x, c, q) \in Session
  BY DEF InstallChannels, Session, OptNat
<1>3. x.gen + 1 \in Nat
  BY DEF Session
<1>4. ASSUME NEW n \in Nat
      PROVE  /\ [x EXCEPT !.rx = None, !.ctrl = None, !.gen = n, !.lease = None] \in Session
             /\ [x EXCEPT !.gen = n, !.chan = n, !.rx = None, !.ctrl = None] \in Session
             /\ [x EXCEPT !.ctrl = None, !.gen = n] \in Session
  BY Zenon DEF Session, OptNat
<1>5. Terminate(x) \in Session
  BY <1>3, <1>4, Zenon DEF Terminate
<1>6. RecreateChannels(x) \in Session
  BY <1>3, <1>4, Zenon DEF RecreateChannels
<1>7. Nudged(x) \in Session
  BY <1>3, <1>4, Zenon DEF Nudged
<1> QED BY <1>1, <1>2, <1>5, <1>6, <1>7

\* A write to one session keeps the others and the set of Arcs.
LEMMA SessUpdated ==
  ASSUME TypeOK, NEW s \in DOMAIN sess, NEW x \in Session, sess' = [sess EXCEPT ![s] = x]
  PROVE  /\ sess' \in [DOMAIN sess -> Session] /\ DOMAIN sess' = DOMAIN sess
         /\ sess'[s] = x /\ \A t \in DOMAIN sess : t # s => sess'[t] = sess[t]
  BY DEF TypeOK

\* While the set of Arcs stays the same, so do the types of the slots.
LEMMA SameArcs ==
  ASSUME DOMAIN sess' = DOMAIN sess
  PROVE  /\ Arc' = Arc /\ PollSlot' = PollSlot /\ UpSlot' = UpSlot /\ QuicSlot' = QuicSlot
         /\ SignalSlot' = SignalSlot
  BY DEF Arc, PollSlot, UpSlot, QuicSlot, SignalSlot

\* One poll slot moves; sessions keep their domain.
LEMMA PollSlotTyping ==
  ASSUME TypeOK, NEW p \in Poll, NEW r \in PollSlot,
         poll' = [poll EXCEPT ![p] = r],
         r.pc # "idle" => r.conn # None,
         r.pc \notin {"idle", "sent", "implicit"} => r.sess # None,
         sess' \in [DOMAIN sess -> Session], DOMAIN sess' = DOMAIN sess,
         UNCHANGED <<active, reg, entry, up, hb, quic, stalls>>,
         signal' \in [Signal -> SignalSlot],
         \A k \in Signal : signal'[k].pc \in {"fire", "sever"} => signal'[k].sess # None
  PROVE  TypeOK'
<1>1. Arc' = Arc /\ PollSlot' = PollSlot /\ UpSlot' = UpSlot /\ QuicSlot' = QuicSlot
      /\ SignalSlot' = SignalSlot
  BY DEF Arc, PollSlot, UpSlot, QuicSlot, SignalSlot
<1> QED
  BY <1>1 DEF TypeOK

\* One upload slot moves; sessions keep their domain.
LEMMA UpSlotTyping ==
  ASSUME TypeOK, NEW u \in Up, NEW r \in UpSlot,
         up' = [up EXCEPT ![u] = r],
         r.pc # "idle" => r.conn # None,
         r.pc \notin {"idle", "sent", "implicit"} => r.sess # None,
         sess' \in [DOMAIN sess -> Session], DOMAIN sess' = DOMAIN sess,
         UNCHANGED <<active, reg, entry, poll, hb, quic, signal, stalls>>
  PROVE  TypeOK'
  BY SameArcs DEF TypeOK

\* One session is written, nothing else but the outage count moves.
LEMMA SessWriteTyping ==
  ASSUME TypeOK, NEW s \in DOMAIN sess, NEW x \in Session, sess' = [sess EXCEPT ![s] = x],
         UNCHANGED <<active, reg, entry, poll, up, hb, quic, signal>>, stalls' \in Nat
  PROVE  TypeOK'
  BY SessUpdated, SameArcs DEF TypeOK

LEMMA SignalWrite ==
  ASSUME TypeOK, NEW k \in Signal, NEW r \in SignalSlot,
         r.pc \in {"fire", "sever"} => r.sess # None,
         signal' = [signal EXCEPT ![k] = r]
  PROVE  /\ signal' \in [Signal -> SignalSlot]
         /\ \A j \in Signal : signal'[j].pc \in {"fire", "sever"} => signal'[j].sess # None
  BY DEF TypeOK

\* Every handler, supervisor and signal step keeps the shape of the state.
THEOREM Typing == Spec => []TypeOK
<1>1. Init => TypeOK
  BY Distinct DEF Init, TypeOK, IdlePoll, IdleUp, IdleQuic, IdleSignal, Arc,
     PollSlot, UpSlot, QuicSlot, SignalSlot, PollPC, UpPC, SignalPC, Kind, RegPhase, Conn
<1>2. TypeOK /\ [Next]_vars => TypeOK'
  <2> SUFFICES ASSUME TypeOK, [Next]_vars PROVE TypeOK'
    OBVIOUS
  <2>1. ASSUME NEW c \in Conn, Dial(c) PROVE TypeOK'
    BY <2>1 DEF TypeOK, Dial, RegPhase, Arc, PollSlot, UpSlot, QuicSlot, SignalSlot
  <2>2. ASSUME NEW c \in Conn, Disconnect(c) PROVE TypeOK'
    BY <2>2 DEF TypeOK, Disconnect, Arc, PollSlot, UpSlot, QuicSlot, SignalSlot
  <2>3. ASSUME NEW c \in H2Conn, Register(c) PROVE TypeOK'
    <3>1. CASE entry = None
      <4>1. PICK s \in Sess : Insert(s, NewSession(c, None))
        BY <2>3, <3>1 DEF Register, Enter
      <4>2. NewSession(c, None) \in Session
        BY DEF NewSession, Session, OptNat, Conn
      <4>3. reg' \in [Conn -> RegPhase] /\ \A d \in QuicConn : reg'[d] = reg[d]
        BY <2>3, Distinct DEF Register, TypeOK, RegPhase, Conn
      <4> QED
        BY <2>3, <4>1, <4>2, <4>3, InsertFrees, InsertKeepsSlots DEF Register, TypeOK, Arc
    <3>2. CASE entry # None
      <4>1. sess' = [sess EXCEPT ![entry] = InstallChannels(sess[entry], c, None)]
            /\ UNCHANGED entry
        BY <2>3, <3>2 DEF Register, Enter
      <4>2. InstallChannels(sess[entry], c, None) \in Session
        BY <3>2 DEF InstallChannels, Session, OptNat, Conn, TypeOK, Arc
      <4>3. reg' \in [Conn -> RegPhase] /\ \A d \in QuicConn : reg'[d] = reg[d]
        BY <2>3, Distinct DEF Register, TypeOK, RegPhase, Conn
      <4> QED
        BY <2>3, <4>1, <4>2, <4>3, Zenon DEF Register, TypeOK, Arc, PollSlot, UpSlot, QuicSlot, SignalSlot
    <3> QED BY <3>1, <3>2
  <2>4. ASSUME NEW p \in Poll, NEW c \in H2Conn, PollSend(p, c) PROVE TypeOK'
    <3>1. [IdlePoll EXCEPT !.pc = "sent", !.conn = c] \in PollSlot
      BY Zenon DEF IdlePoll, PollSlot, PollPC, Arc
    <3>2. c # None
      BY Distinct DEF Conn
    <3> QED BY <2>4, <3>1, <3>2, PollSlotTyping, Zenon DEF PollSend, IdlePoll, TypeOK
  <2>5. ASSUME NEW p \in Poll, PollStep(p) PROVE TypeOK'
    <3>1. ASSUME PollLookup(p) PROVE TypeOK'
      <4> DEFINE r == [poll[p] EXCEPT !.pc = IF entry = None THEN "implicit" ELSE "check",
                                      !.sess = entry]
      <4>1. poll' = [poll EXCEPT ![p] = r]
        BY <3>1, Zenon DEF PollLookup, TypeOK
      <4>2. /\ r \in PollSlot /\ r.conn # None
            /\ r.pc \notin {"idle", "sent", "implicit"} => r.sess # None
        BY <3>1, Zenon DEF PollLookup, TypeOK, PollSlot, PollPC, Arc
      <4> HIDE DEF r
      <4> QED BY <3>1, <4>1, <4>2, PollSlotTyping, Zenon DEF PollLookup, TypeOK
    <3>2. ASSUME PollImplicit(p) PROVE TypeOK'
      <4>1. PICK s \in Sess : /\ Insert(s, NewSession(poll[p].conn, None))
                              /\ poll' = [poll EXCEPT ![p].pc = "check", ![p].sess = s]
        BY <3>2, Zenon DEF PollImplicit, Reinsert
      <4>2. poll[p].conn \in H2Conn
        BY <3>2 DEF PollImplicit, TypeOK, PollSlot
      <4>3. NewSession(poll[p].conn, None) \in Session
        BY <4>2 DEF NewSession, Session, OptNat, Conn
      <4>4. /\ entry' \in Arc' /\ hb' \in Arc' /\ s \in Arc' /\ s # None
            /\ DOMAIN sess' \subseteq Sess /\ sess' \in [DOMAIN sess' -> Session]
            /\ up' \in [Up -> UpSlot'] /\ quic' \in [QuicConn -> QuicSlot']
            /\ signal' \in [Signal -> SignalSlot']
        BY <3>2, <4>1, <4>3, InsertFrees, InsertKeepsSlots DEF PollImplicit, TypeOK, Arc
      <4>5. poll' \in [Poll -> PollSlot']
        <5>1. \A q \in Poll : poll[q] \in PollSlot'
          BY <4>1, <4>3, InsertKeepsSlots
        <5> DEFINE r == [poll[p] EXCEPT !.pc = "check", !.sess = s]
        <5>2. r \in PollSlot'
          BY <4>4, <5>1, Zenon DEF PollSlot, PollPC
        <5>3. poll' = [poll EXCEPT ![p] = r]
          BY <4>1, Zenon DEF TypeOK
        <5> HIDE DEF r
        <5> QED BY <5>1, <5>2, <5>3 DEF TypeOK
      <4>6. \A q \in Poll : q # p => poll'[q] = poll[q]
        BY <4>1 DEF TypeOK
      <4>7. poll'[p].conn # None /\ poll'[p].sess # None
        BY <3>2, <4>1, <4>4 DEF PollImplicit, TypeOK, PollSlot
      <4> QED BY <3>2, <4>4, <4>5, <4>6, <4>7 DEF PollImplicit, TypeOK
    <3>3. ASSUME PollCheck(p) PROVE TypeOK'
      <4> DEFINE r == IF sess[poll[p].sess].circ = poll[p].conn
                      THEN [poll[p] EXCEPT !.pc = "take"] ELSE IdlePoll
      <4>1. poll' = [poll EXCEPT ![p] = r]
        BY <3>3 DEF PollCheck, TypeOK
      <4>2. [poll[p] EXCEPT !.pc = "take"] \in PollSlot /\ IdlePoll \in PollSlot
        BY PollTyped DEF PollSlot, PollPC, IdlePoll, Arc
      <4>3. (r.pc # "idle" => r.conn # None)
            /\ (r.pc \notin {"idle", "sent", "implicit"} => r.sess # None)
        BY <3>3, PollTyped, Distinct DEF PollCheck, PollSlot, IdlePoll, Conn
      <4>4. UNCHANGED <<active, reg, entry, sess, up, hb, quic, signal, stalls>>
        BY <3>3 DEF PollCheck
      <4>5. r \in PollSlot
        BY <4>2
      <4> HIDE DEF r
      <4>6. /\ sess' \in [DOMAIN sess -> Session] /\ DOMAIN sess' = DOMAIN sess
            /\ signal' \in [Signal -> SignalSlot]
            /\ \A k \in Signal : signal'[k].pc \in {"fire", "sever"} => signal'[k].sess # None
        BY <4>4 DEF TypeOK
      <4> QED BY <4>1, <4>3, <4>4, <4>5, <4>6, PollSlotTyping, Zenon
    <3>4. ASSUME PollTakeParked(p) PROVE TypeOK'
      <4> DEFINE s == poll[p].sess
                 r == IF sess[s].ctrl = None THEN IdlePoll
                      ELSE [poll[p] EXCEPT !.pc = "body", !.gen = sess[s].gen, !.chan = sess[s].rx]
      <4>1. s \in DOMAIN sess /\ sess[s] \in Session /\ poll[p].conn # None /\ s # None
        BY <3>4 DEF PollTakeParked, TypeOK, PollSlot, Arc
      <4>2. poll' = [poll EXCEPT ![p] = r]
        BY <3>4 DEF PollTakeParked
      <4>3. /\ r \in PollSlot /\ (r.pc # "idle" => r.conn # None)
            /\ r.pc \notin {"idle", "sent", "implicit"} => r.sess # None
        BY <3>4, <4>1, Zenon DEF PollTakeParked, IdlePoll, TypeOK, PollSlot, PollPC, Arc, Session, OptNat
      <4>4. sess' \in [DOMAIN sess -> Session] /\ DOMAIN sess' = DOMAIN sess
        BY <3>4, <4>1 DEF PollTakeParked, TypeOK, Session, OptNat
      <4>5. /\ UNCHANGED <<active, reg, entry, up, hb, quic, stalls>>
            /\ signal' \in [Signal -> SignalSlot]
            /\ \A k \in Signal : signal'[k].pc \in {"fire", "sever"} => signal'[k].sess # None
        BY <3>4 DEF PollTakeParked, TypeOK
      <4> HIDE DEF r, s
      <4> QED BY <4>2, <4>3, <4>4, <4>5, PollSlotTyping, Zenon
    <3>5. ASSUME PollRecreate(p) PROVE TypeOK'
      <4> DEFINE s == poll[p].sess
                 n == sess[s].gen + 1
                 r == [poll[p] EXCEPT !.pc = "body", !.gen = n, !.chan = n]
      <4>1. s \in DOMAIN sess /\ sess[s] \in Session /\ poll[p].conn # None /\ s # None
        BY <3>5, PollTyped, SessTyped, Distinct DEF PollRecreate, Conn
      <4>2. poll' = [poll EXCEPT ![p] = r]
        BY <3>5, Zenon DEF PollRecreate, TypeOK
      <4>3. n \in Nat
        BY <4>1, SessTyped
      <4>4. sess[s].circ \in Conn
        BY <4>1, SessTyped
      <4>5. sess' \in [DOMAIN sess -> Session] /\ DOMAIN sess' = DOMAIN sess
        <5>1. RecreateChannels(sess[s]) \in Session
          BY <4>1, <4>4, SessionOps
        <5> QED BY <3>5, <4>1, <5>1, SessUpdated, Zenon DEF PollRecreate
      <4>6. /\ UNCHANGED <<active, reg, entry, up, hb, quic, stalls>>
            /\ signal' \in [Signal -> SignalSlot]
            /\ \A k \in Signal : signal'[k].pc \in {"fire", "sever"} => signal'[k].sess # None
        BY <3>5 DEF PollRecreate, TypeOK
      <4> HIDE DEF n
      <4>7. /\ r \in PollSlot /\ (r.pc # "idle" => r.conn # None)
            /\ r.pc \notin {"idle", "sent", "implicit"} => r.sess # None
        BY <4>1, <4>3, PollTyped, Zenon DEF PollSlot, PollPC
      <4> HIDE DEF r, s
      <4> QED BY <4>2, <4>5, <4>6, <4>7, PollSlotTyping, Zenon
    <3>6. ASSUME PollBusy(p) \/ PollAborted(p) \/ BodyStale(p) PROVE TypeOK'
      <4>1. /\ poll' = [poll EXCEPT ![p] = IdlePoll]
            /\ UNCHANGED <<active, reg, entry, sess, up, hb, quic, signal, stalls>>
        BY <3>6 DEF PollBusy, PollAborted, BodyStale
      <4>2. IdlePoll \in PollSlot /\ IdlePoll.pc = "idle"
        BY DEF IdlePoll, PollSlot, PollPC, Arc
      <4>3. /\ sess' \in [DOMAIN sess -> Session] /\ DOMAIN sess' = DOMAIN sess
            /\ signal' \in [Signal -> SignalSlot]
            /\ \A k \in Signal : signal'[k].pc \in {"fire", "sever"} => signal'[k].sess # None
        BY <4>1 DEF TypeOK
      <4> QED BY <4>1, <4>2, <4>3, PollSlotTyping, Zenon
    <3>7. ASSUME BodyDropped(p) PROVE TypeOK'
      BY <3>7, PollSlotTyping, Zenon DEF BodyDropped, TypeOK, PollSlot, PollPC, Arc
    <3>8. ASSUME ReturnReceivers(p) PROVE TypeOK'
      <4> DEFINE s == poll[p].sess
                 r == [poll[p] EXCEPT !.pc = "grace"]
      <4>1. s \in DOMAIN sess /\ sess[s] \in Session /\ poll[p].conn # None /\ s # None
            /\ poll[p].chan \in Nat
        BY <3>8 DEF ReturnReceivers, TypeOK, PollSlot, Arc
      <4>2. poll' = [poll EXCEPT ![p] = r]
        BY <3>8 DEF ReturnReceivers, TypeOK
      <4>3. /\ r \in PollSlot /\ (r.pc # "idle" => r.conn # None)
            /\ r.pc \notin {"idle", "sent", "implicit"} => r.sess # None
        BY <4>1 DEF TypeOK, PollSlot, PollPC
      <4>4. sess' \in [DOMAIN sess -> Session] /\ DOMAIN sess' = DOMAIN sess
        BY <3>8, <4>1 DEF ReturnReceivers, TypeOK, Session, OptNat
      <4>5. /\ UNCHANGED <<active, reg, entry, up, hb, quic, stalls>>
            /\ signal' \in [Signal -> SignalSlot]
            /\ \A k \in Signal : signal'[k].pc \in {"fire", "sever"} => signal'[k].sess # None
        BY <3>8 DEF ReturnReceivers, TypeOK
      <4> HIDE DEF r, s
      <4> QED BY <4>2, <4>3, <4>4, <4>5, PollSlotTyping, Zenon
    <3>9. ASSUME NEW k \in Signal, GraceExpires(p, k) PROVE TypeOK'
      <4>1. poll[p].sess \in Arc /\ poll[p].sess # None /\ poll[p].conn \in Conn
        BY <3>9 DEF GraceExpires, TypeOK, PollSlot, Conn
      <4>2. /\ signal' \in [Signal -> SignalSlot]
            /\ \A j \in Signal : signal'[j].pc \in {"fire", "sever"} => signal'[j].sess # None
        <5> DEFINE x == [pc |-> "fire", kind |-> "grace", sess |-> poll[p].sess,
                         circ |-> poll[p].conn, about |-> poll[p].conn]
        <5>1. signal' = [signal EXCEPT ![k] = x] \/ signal' = signal
          BY <3>9 DEF GraceExpires, Fire
        <5>2. x \in SignalSlot /\ x.sess # None
          BY <4>1 DEF SignalSlot, SignalPC, Kind
        <5> HIDE DEF x
        <5> QED BY <5>1, <5>2 DEF TypeOK
      <4>3. IdlePoll \in PollSlot /\ IdlePoll.pc = "idle"
        BY DEF IdlePoll, PollSlot, PollPC, Arc
      <4> QED BY <3>9, <4>2, <4>3, PollSlotTyping, Zenon DEF GraceExpires, TypeOK
    <3> QED BY <2>5, <3>1, <3>2, <3>3, <3>4, <3>5, <3>6, <3>7, <3>8, <3>9 DEF PollStep
  <2>6. ASSUME NEW u \in Up, NEW c \in H2Conn, UpSend(u, c) PROVE TypeOK'
    <3>1. [IdleUp EXCEPT !.pc = "sent", !.conn = c] \in UpSlot
      BY Zenon DEF IdleUp, UpSlot, UpPC, Arc
    <3>2. c # None
      BY Distinct DEF Conn
    <3> QED BY <2>6, <3>1, <3>2, UpSlotTyping, Zenon DEF UpSend, IdleUp, TypeOK
  <2>7. ASSUME NEW u \in Up, UpStep(u) PROVE TypeOK'
    <3>1. ASSUME UpLookup(u) PROVE TypeOK'
      <4> DEFINE r == [up[u] EXCEPT !.pc = IF entry = None THEN "implicit" ELSE "check",
                                    !.sess = entry]
      <4>1. up' = [up EXCEPT ![u] = r]
        BY <3>1, Zenon DEF UpLookup, TypeOK
      <4>2. /\ r \in UpSlot /\ r.conn # None
            /\ r.pc \notin {"idle", "sent", "implicit"} => r.sess # None
        BY <3>1, Zenon DEF UpLookup, TypeOK, UpSlot, UpPC, Arc
      <4> HIDE DEF r
      <4> QED BY <3>1, <4>1, <4>2, UpSlotTyping, Zenon DEF UpLookup, TypeOK
    <3>2. ASSUME UpImplicit(u) PROVE TypeOK'
      <4>1. PICK s \in Sess : /\ Insert(s, NewSession(up[u].conn, None))
                              /\ up' = [up EXCEPT ![u].pc = "check", ![u].sess = s]
        BY <3>2, Zenon DEF UpImplicit, Reinsert
      <4>2. up[u].conn \in H2Conn
        BY <3>2 DEF UpImplicit, TypeOK, UpSlot
      <4>3. NewSession(up[u].conn, None) \in Session
        BY <4>2 DEF NewSession, Session, OptNat, Conn
      <4>4. /\ entry' \in Arc' /\ hb' \in Arc' /\ s \in Arc' /\ s # None
            /\ DOMAIN sess' \subseteq Sess /\ sess' \in [DOMAIN sess' -> Session]
            /\ poll' \in [Poll -> PollSlot'] /\ quic' \in [QuicConn -> QuicSlot']
            /\ signal' \in [Signal -> SignalSlot']
        BY <3>2, <4>1, <4>3, InsertFrees, InsertKeepsSlots DEF UpImplicit, TypeOK, Arc
      <4>5. up' \in [Up -> UpSlot']
        <5>1. \A v \in Up : up[v] \in UpSlot'
          BY <4>1, <4>3, InsertKeepsSlots
        <5> QED BY <4>1, <4>4, <5>1, Zenon DEF TypeOK, UpSlot, UpPC
      <4>6. \A v \in Up : v # u => up'[v] = up[v]
        BY <4>1 DEF TypeOK
      <4>7. up'[u].conn # None /\ up'[u].sess # None
        BY <3>2, <4>1, <4>4 DEF UpImplicit, TypeOK, UpSlot
      <4> QED BY <3>2, <4>4, <4>5, <4>6, <4>7 DEF UpImplicit, TypeOK
    <3>3. ASSUME UpCheck(u) PROVE TypeOK'
      BY <3>3, UpSlotTyping, Zenon DEF UpCheck, IdleUp, TypeOK, UpSlot, UpPC, Arc
    <3>4. ASSUME UpLease(u) PROVE TypeOK'
      <4> DEFINE s == up[u].sess
                 r == IF sess[s].lease = None THEN [up[u] EXCEPT !.pc = "reading"] ELSE IdleUp
      <4>1. s \in DOMAIN sess /\ sess[s] \in Session /\ up[u].conn # None /\ s # None
        BY <3>4 DEF UpLease, TypeOK, UpSlot, Arc
      <4>2. up' = [up EXCEPT ![u] = r]
        BY <3>4 DEF UpLease, TypeOK
      <4>3. /\ r \in UpSlot /\ (r.pc # "idle" => r.conn # None)
            /\ r.pc \notin {"idle", "sent", "implicit"} => r.sess # None
        BY <4>1 DEF IdleUp, TypeOK, UpSlot, UpPC, Arc
      <4>4. sess' \in [DOMAIN sess -> Session] /\ DOMAIN sess' = DOMAIN sess
        <5>1. [sess[s] EXCEPT !.lease = u] \in Session
          BY <4>1 DEF Session
        <5>2. sess' = sess \/ sess' = [sess EXCEPT ![s] = [sess[s] EXCEPT !.lease = u]]
          BY <3>4 DEF UpLease
        <5> QED BY <4>1, <5>1, <5>2, SessUpdated DEF TypeOK
      <4>5. UNCHANGED <<active, reg, entry, poll, hb, quic, signal, stalls>>
        BY <3>4 DEF UpLease
      <4> HIDE DEF r, s
      <4> QED BY <4>2, <4>3, <4>4, <4>5, UpSlotTyping, Zenon
    <3>5. ASSUME UpEnds(u) PROVE TypeOK'
      <4>1. up[u].sess \in DOMAIN sess /\ sess[up[u].sess] \in Session
        BY <3>5 DEF UpEnds, TypeOK, UpSlot, Arc
      <4>2. [sess[up[u].sess] EXCEPT !.lease = None] \in Session
        BY <4>1 DEF Session
      <4>3. sess' = sess \/ sess' = [sess EXCEPT ![up[u].sess] = [sess[up[u].sess] EXCEPT !.lease = None]]
        BY <3>5 DEF UpEnds
      <4>4. sess' \in [DOMAIN sess -> Session] /\ DOMAIN sess' = DOMAIN sess
        BY <4>1, <4>2, <4>3, SessUpdated DEF TypeOK
      <4>5. IdleUp \in UpSlot /\ IdleUp.pc = "idle"
        BY DEF IdleUp, UpSlot, UpPC, Arc
      <4> QED BY <3>5, <4>4, <4>5, UpSlotTyping, Zenon DEF UpEnds
    <3>6. ASSUME UpAborted(u) PROVE TypeOK'
      <4>1. IdleUp \in UpSlot /\ IdleUp.pc = "idle"
        BY DEF IdleUp, UpSlot, UpPC, Arc
      <4> QED BY <3>6, <4>1, UpSlotTyping, Zenon DEF UpAborted, TypeOK
    <3> QED BY <2>7, <3>1, <3>2, <3>3, <3>4, <3>5, <3>6 DEF UpStep
  <2>8. ASSUME NEW u \in Up, UpPong(u) PROVE TypeOK'
    <3>1. entry \in DOMAIN sess /\ [sess[entry] EXCEPT !.aged = FALSE] \in Session
      BY <2>8, Zenon DEF UpPong, TypeOK, Arc, Session
    <3>2. /\ sess' = [sess EXCEPT ![entry] = [sess[entry] EXCEPT !.aged = FALSE]]
          /\ UNCHANGED <<active, reg, entry, poll, up, hb, quic, signal>> /\ stalls' \in Nat
      BY <2>8 DEF UpPong, TypeOK
    <3> QED BY <3>1, <3>2, SessWriteTyping, Zenon
  <2>9. ASSUME NEW s \in Sess, PongAges(s) PROVE TypeOK'
    <3>1. s \in DOMAIN sess /\ [sess[s] EXCEPT !.aged = TRUE] \in Session /\ stalls' \in Nat
      <4>1. s \in DOMAIN sess /\ stalls' \in Nat
        BY <2>9 DEF PongAges, TypeOK
      <4> QED BY <4>1, SessTyped, Zenon DEF Session
    <3> QED BY <2>9, <3>1, SessWriteTyping, Zenon DEF PongAges
  <2>10. ASSUME HbSnapshot PROVE TypeOK'
    BY <2>10, SameArcs DEF HbSnapshot, TypeOK
  <2>11. ASSUME NEW k \in Signal, HbVisit(k) PROVE TypeOK'
    <3>1. hb \in DOMAIN sess /\ sess[hb].circ \in Conn /\ hb # None
      BY <2>11, SessTyped DEF HbVisit, TypeOK, Arc
    <3>2. /\ signal' \in [Signal -> SignalSlot]
          /\ \A j \in Signal : signal'[j].pc \in {"fire", "sever"} => signal'[j].sess # None
      <4> DEFINE r == [pc |-> "fire", kind |-> "heartbeat", sess |-> hb,
                       circ |-> sess[hb].circ, about |-> sess[hb].circ]
      <4>1. r \in SignalSlot /\ r.sess # None
        BY <3>1 DEF SignalSlot, SignalPC, Kind, Arc
      <4>2. signal' = signal \/ signal' = [signal EXCEPT ![k] = r]
        BY <2>11 DEF HbVisit, Fire
      <4> HIDE DEF r
      <4> QED BY <4>1, <4>2, SignalWrite DEF TypeOK
    <3> QED BY <2>11, <3>2, SameArcs DEF HbVisit, TypeOK, Arc
  <2>12. ASSUME Nudge PROVE TypeOK'
    <3>1. entry \in DOMAIN sess /\ stalls' \in Nat
      BY <2>12 DEF Nudge, TypeOK, Arc
    <3>2. Nudged(sess[entry]) \in Session
      BY <3>1, SessTyped, SessionOps
    <3> QED BY <2>12, <3>1, <3>2, SessWriteTyping, Zenon DEF Nudge
  <2>13. ASSUME NEW k \in Signal, SendTimeout(k) PROVE TypeOK'
    <3>1. PICK c \in {sess[s].circ : s \in {x \in {entry} : sess[x].rx # None}}
                \cup {poll[p].conn : p \in {q \in Poll : poll[q].pc \in Holding}} :
            signal' = [signal EXCEPT ![k] = [IdleSignal EXCEPT
                         !.pc = "resolve", !.kind = "send_timeout", !.about = c]]
      BY <2>13, Zenon DEF SendTimeout
    <3>2. c \in Conn
      <4>1. sess[entry].circ \in Conn
        BY <2>13, SessTyped DEF SendTimeout, TypeOK, Arc
      <4>2. \A p \in Poll : poll[p].pc \in Holding => poll[p].conn \in H2Conn
        BY PollTyped DEF Holding
      <4> QED BY <3>1, <4>1, <4>2 DEF Conn
    <3>3. signal' \in [Signal -> SignalSlot]
      BY <3>1, <3>2, Zenon DEF TypeOK, IdleSignal, SignalSlot, SignalPC, Kind, Arc
    <3>4. \A j \in Signal : signal'[j].pc \in {"fire", "sever"} => signal'[j].sess # None
      BY <3>1 DEF TypeOK, IdleSignal
    <3> QED BY <2>13, <3>3, <3>4, SameArcs DEF SendTimeout, TypeOK
  <2>14. ASSUME NEW k \in Signal, EvictById(k) PROVE TypeOK'
    <3>1. entry # None => sess[entry].circ \in Conn
      BY SessTyped DEF TypeOK, Arc
    <3>2. /\ signal' \in [Signal -> SignalSlot]
          /\ \A j \in Signal : signal'[j].pc \in {"fire", "sever"} => signal'[j].sess # None
      <4> DEFINE r == IF entry = None THEN IdleSignal
                      ELSE [signal[k] EXCEPT !.pc = "fire", !.sess = entry,
                                             !.circ = sess[entry].circ]
      <4>1. signal' = [signal EXCEPT ![k] = r]
        BY <2>14 DEF EvictById
      <4>2. r \in SignalSlot
        <5>1. IdleSignal \in SignalSlot
          BY DEF IdleSignal, SignalSlot, SignalPC, Kind, Arc
        <5>2. signal[k] \in SignalSlot /\ entry \in Arc
          BY DEF TypeOK
        <5> QED BY <3>1, <5>1, <5>2, Zenon DEF SignalSlot, SignalPC
      <4>3. r.pc \in {"fire", "sever"} => r.sess # None
        <5>1. IdleSignal.pc = "idle"
          BY DEF IdleSignal
        <5>2. signal[k] \in SignalSlot
          BY DEF TypeOK
        <5> QED BY <5>1, <5>2 DEF SignalSlot
      <4> HIDE DEF r
      <4> QED BY <4>1, <4>2, <4>3, SignalWrite, Zenon
    <3> QED BY <2>14, <3>2, SameArcs DEF EvictById, TypeOK
  <2>15. ASSUME NEW k \in Signal, Funnel(k) PROVE TypeOK'
    <3>1. /\ signal' \in [Signal -> SignalSlot]
          /\ \A j \in Signal : signal'[j].pc \in {"fire", "sever"} => signal'[j].sess # None
      <4> DEFINE r == IF entry = signal[k].sess /\ ~Speaks(k) THEN IdleSignal
                      ELSE [signal[k] EXCEPT !.pc = "sever"]
      <4>1. signal' = [signal EXCEPT ![k] = r]
        BY <2>15 DEF Funnel
      <4>2. signal[k] \in SignalSlot /\ signal[k].sess # None
        BY <2>15 DEF Funnel, TypeOK
      <4>3. IdleSignal \in SignalSlot /\ IdleSignal.pc = "idle"
        BY DEF IdleSignal, SignalSlot, SignalPC, Kind, Arc
      <4>4. r \in SignalSlot /\ (r.pc \in {"fire", "sever"} => r.sess # None)
        BY <4>2, <4>3 DEF SignalSlot, SignalPC
      <4> HIDE DEF r
      <4> QED BY <4>1, <4>4, SignalWrite, Zenon
    <3> QED BY <2>15, <3>1, SameArcs DEF Funnel, TypeOK, Arc
  <2>16. ASSUME NEW k \in Signal, Sever(k) PROVE TypeOK'
    <3>1. signal[k].sess \in DOMAIN sess
      BY <2>16 DEF Sever, TypeOK, SignalSlot, Arc
    <3>2. Terminate(sess[signal[k].sess]) \in Session
      BY <3>1, SessTyped, SessionOps
    <3>3. sess' \in [DOMAIN sess -> Session] /\ DOMAIN sess' = DOMAIN sess
      BY <2>16, <3>1, <3>2, SessUpdated, Zenon DEF Sever
    <3>4. IdleSignal \in SignalSlot /\ IdleSignal.pc = "idle"
      BY DEF IdleSignal, SignalSlot, SignalPC, Kind, Arc
    <3> QED BY <2>16, <3>3, <3>4, SameArcs DEF Sever, TypeOK
  <2>17. ASSUME NEW c \in QuicConn, QuicRegister(c) PROVE TypeOK'
    <3>1. /\ reg' \in [Conn -> RegPhase] /\ \A d \in QuicConn : d # c => reg'[d] = reg[d]
          /\ UNCHANGED <<active, poll, up, hb, signal, stalls>> /\ c \in Conn
      BY <2>17 DEF QuicRegister, TypeOK, RegPhase, Conn
    <3>2. PICK s \in Sess : Enter(c, c, s) /\ quic' = [quic EXCEPT ![c].sess = s]
      BY <2>17, Zenon DEF QuicRegister
    <3>3. CASE entry = None
      <4>1. Insert(s, NewSession(c, c))
        BY <3>2, <3>3 DEF Enter
      <4>2. NewSession(c, c) \in Session
        BY <3>1 DEF NewSession, Session, OptNat
      <4>3. /\ s \in Arc' /\ s # None /\ entry' \in Arc' /\ hb \in Arc'
            /\ DOMAIN sess' \subseteq Sess /\ sess' \in [DOMAIN sess' -> Session]
            /\ \A p \in Poll : poll[p] \in PollSlot'
            /\ \A u \in Up : up[u] \in UpSlot'
            /\ \A d \in QuicConn : quic[d] \in QuicSlot'
            /\ \A k \in Signal : signal[k] \in SignalSlot'
        BY <4>1, <4>2, InsertFrees, InsertKeepsSlots DEF Arc
      <4>4. /\ quic' \in [QuicConn -> QuicSlot'] /\ quic'[c].sess # None
            /\ \A d \in QuicConn : d # c => quic'[d] = quic[d]
        BY <3>2, <4>3 DEF TypeOK, QuicSlot
      <4> QED BY <3>1, <4>3, <4>4 DEF TypeOK
    <3>4. CASE entry # None
      <4>1. /\ sess' = [sess EXCEPT ![entry] = InstallChannels(sess[entry], c, c)]
            /\ UNCHANGED entry /\ s = entry /\ entry \in DOMAIN sess
        BY <3>2, <3>4 DEF Enter, TypeOK, Arc
      <4>2. InstallChannels(sess[entry], c, c) \in Session
        BY <3>1, <4>1, SessTyped, SessionOps, Zenon
      <4>3. sess' \in [DOMAIN sess -> Session] /\ DOMAIN sess' = DOMAIN sess
        BY <4>1, <4>2, SessUpdated, Zenon
      <4>4. /\ quic' \in [QuicConn -> QuicSlot] /\ quic'[c].sess # None
            /\ \A d \in QuicConn : d # c => quic'[d] = quic[d]
        BY <3>2, <3>4, <4>1 DEF TypeOK, QuicSlot, Arc
      <4> QED BY <3>1, <4>1, <4>3, <4>4, SameArcs DEF TypeOK
    <3> QED BY <3>3, <3>4
  <2>18. ASSUME NEW c \in QuicConn, QuicStep(c) PROVE TypeOK'
    <3>1. quic[c] \in QuicSlot /\ (reg[c] \notin {"new", "sent"} => quic[c].sess \in DOMAIN sess)
      BY DEF TypeOK, QuicSlot, Arc
    <3>2. ASSUME QuicAck(c) PROVE TypeOK'
      <4>1. [quic[c] EXCEPT !.beat = TRUE] \in QuicSlot
        BY <3>1, Zenon DEF QuicSlot
      <4> QED BY <3>1, <3>2, <4>1, SameArcs, Zenon DEF QuicAck, TypeOK, RegPhase, Conn, QuicSlot
    <3>3. ASSUME QuicAckFails(c) PROVE TypeOK'
      BY <3>3, SameArcs DEF QuicAckFails, TypeOK, RegPhase, Conn
    <3>4. ASSUME QuicArm(c) PROVE TypeOK'
      <4>1. [quic[c] EXCEPT !.armed = sess[quic[c].sess].circ] \in QuicSlot
        BY <3>1, <3>4, SessTyped DEF QuicSlot, QuicArm
      <4> QED BY <3>1, <3>4, <4>1, SameArcs, Zenon DEF QuicArm, TypeOK, RegPhase, Conn, QuicSlot
    <3>5. ASSUME QuicTick(c) PROVE TypeOK'
      <4>1. quic[c].sess \in DOMAIN sess
        BY <3>5 DEF QuicTick, TypeOK, QuicSlot, Arc
      <4>2. [quic[c] EXCEPT !.tick = sess[quic[c].sess].circ] \in QuicSlot
        BY <3>1, <4>1, SessTyped DEF QuicSlot
      <4> QED BY <3>1, <3>5, <4>2, SameArcs, Zenon DEF QuicTick, TypeOK, QuicSlot
    <3>6. ASSUME NEW k \in Signal, QuicClosed(c, k) PROVE TypeOK'
      <4> DEFINE r == [pc |-> "fire", kind |-> "watcher", sess |-> quic[c].sess,
                       circ |-> quic[c].armed, about |-> c]
      <4>1. r \in SignalSlot /\ r.sess # None
        BY <3>1, <3>6 DEF QuicClosed, QuicSlot, SignalSlot, SignalPC, Kind, Conn, TypeOK
      <4>2. signal' = [signal EXCEPT ![k] = r]
        BY <3>6 DEF QuicClosed, Fire
      <4>3. /\ signal' \in [Signal -> SignalSlot]
            /\ \A j \in Signal : signal'[j].pc \in {"fire", "sever"} => signal'[j].sess # None
        BY <4>1, <4>2, SignalWrite, Zenon
      <4>4. [quic[c] EXCEPT !.beat = FALSE] \in QuicSlot
        BY <3>1, Zenon DEF QuicSlot
      <4> QED BY <3>1, <3>6, <4>3, <4>4, SameArcs, Zenon DEF QuicClosed, TypeOK, RegPhase, Conn, QuicSlot
    <3>7. ASSUME NEW k \in Signal, QuicJudge(c, k) PROVE TypeOK'
      <4> DEFINE r == [pc |-> "fire", kind |-> "quic_heartbeat", sess |-> quic[c].sess,
                       circ |-> quic[c].tick, about |-> quic[c].tick]
      <4>1. r \in SignalSlot /\ r.sess # None
        BY <3>1, <3>7 DEF QuicJudge, QuicSlot, SignalSlot, SignalPC, Kind, TypeOK
      <4>2. signal' = signal \/ signal' = [signal EXCEPT ![k] = r]
        BY <3>7 DEF QuicJudge, Fire
      <4> HIDE DEF r
      <4>3. /\ signal' \in [Signal -> SignalSlot]
            /\ \A j \in Signal : signal'[j].pc \in {"fire", "sever"} => signal'[j].sess # None
        BY <4>1, <4>2, SignalWrite DEF TypeOK
      <4>4. active' \subseteq Conn
        BY <3>7 DEF QuicJudge, TypeOK
      <4>5. /\ quic' \in [QuicConn -> QuicSlot]
            /\ \A d \in QuicConn : /\ quic'[d].sess = quic[d].sess
                                   /\ (quic'[d].beat => quic[d].beat)
                                   /\ quic'[d].tick # None => quic[d].tick # None
        <5>1. PICK b \in BOOLEAN :
                /\ quic' = [quic EXCEPT ![c] = [quic[c] EXCEPT !.tick = None, !.beat = b]]
                /\ b => quic[c].beat
          <6>1. CASE sess[quic[c].sess].aged
            BY <3>1, <3>7, <6>1, Zenon DEF QuicJudge, TypeOK
          <6>2. CASE ~sess[quic[c].sess].aged
            <7>1. [quic[c] EXCEPT !.tick = None] = [quic[c] EXCEPT !.tick = None, !.beat = quic[c].beat]
              BY <3>1, Zenon DEF QuicSlot
            <7>2. quic[c].beat \in BOOLEAN
              BY <3>1 DEF QuicSlot
            <7> QED BY <3>7, <6>2, <7>1, <7>2, Zenon DEF QuicJudge
          <6> QED BY <6>1, <6>2, Zenon
        <5>2. [quic[c] EXCEPT !.tick = None, !.beat = b] \in QuicSlot
          BY <3>1, Zenon DEF QuicSlot
        <5> QED BY <3>1, <5>1, <5>2 DEF TypeOK, QuicSlot
      <4> QED BY <3>7, <4>3, <4>4, <4>5, SameArcs DEF QuicJudge, TypeOK
    <3> QED BY <2>17, <2>18, <3>2, <3>3, <3>4, <3>5, <3>6, <3>7 DEF QuicStep
  <2>19. ASSUME NEW c \in QuicConn, QuicPong(c) PROVE TypeOK'
    <3>1. quic[c].sess \in DOMAIN sess
      BY <2>19 DEF QuicPong, TypeOK, QuicSlot, Arc
    <3>2. [sess[quic[c].sess] EXCEPT !.aged = FALSE] \in Session
      BY <3>1, SessTyped, Zenon DEF Session
    <3>3. stalls' \in Nat
      BY <2>19 DEF QuicPong, TypeOK
    <3> QED BY <2>19, <3>1, <3>2, <3>3, SessWriteTyping, Zenon DEF QuicPong
  <2>20. CASE UNCHANGED vars
    BY <2>20, SameArcs DEF vars, TypeOK
  <2> QED
    BY <2>1, <2>2, <2>3, <2>4, <2>5, <2>6, <2>7, <2>8, <2>9, <2>10, <2>11, <2>12,
       <2>13, <2>14, <2>15, <2>16, <2>18, <2>19, <2>20 DEF Next, HbStep, SignalStep
<1> QED BY <1>1, <1>2, PTL DEF Spec

-------------------------------------------------------------------------------
(* Channels.  A held receiver's generation never runs ahead of its session's, *)
(* so a generation bump retires every holder at once: this is what makes      *)
(* ReceiverMatchesSender and SingleConsumer inductive.                        *)

Fresh == \A p \in Poll : poll[p].pc \in Holding => poll[p].gen <= sess[poll[p].sess].gen

ChannelInv == Fresh /\ ReceiverMatchesSender /\ SingleConsumer

LEMMA HolderTyped ==
  ASSUME TypeOK, NEW p \in Poll, poll[p].pc \in Holding
  PROVE  /\ poll[p].sess \in DOMAIN sess /\ poll[p].gen \in Nat /\ poll[p].chan \in Nat
         /\ sess[poll[p].sess].gen \in Nat /\ sess[poll[p].sess].chan \in Nat
<1>1. poll[p] \in PollSlot /\ poll[p].sess \in DOMAIN sess
  BY PollTyped DEF Holding
<1> QED BY <1>1, SessTyped DEF PollSlot

\* A write that leaves the channels alone, or advances the generation.
LEMMA WriteKeepsChannels ==
  ASSUME TypeOK, ChannelInv, NEW s \in DOMAIN sess, NEW x \in Session,
         sess' = [sess EXCEPT ![s] = x], poll' = poll,
         \/ x.gen = sess[s].gen /\ x.chan = sess[s].chan /\ x.rx = sess[s].rx
         \/ x.gen = sess[s].gen + 1,
         x.rx # None => x.rx = x.chan, x.ctrl # None => x.ctrl = x.chan
  PROVE  ChannelInv'
<1>1. /\ DOMAIN sess' = DOMAIN sess /\ sess'[s] = x
      /\ \A t \in DOMAIN sess : t # s => sess'[t] = sess[t]
  BY SessUpdated
<1>2. sess[s].gen \in Nat
  BY SessTyped
<1>3. Fresh'
  BY <1>1, <1>2, HolderTyped DEF ChannelInv, Fresh
<1>4. ReceiverMatchesSender'
  BY <1>1 DEF ChannelInv, ReceiverMatchesSender
<1>5. \A p \in Poll : Current(p)' => Current(p) /\ sess'[poll[p].sess].chan = sess[poll[p].sess].chan
                                   /\ sess'[poll[p].sess].rx = sess[poll[p].sess].rx
  BY <1>1, <1>2, HolderTyped DEF ChannelInv, Fresh, Current
<1>6. SingleConsumer'
  BY <1>5 DEF ChannelInv, SingleConsumer
<1> QED BY <1>3, <1>4, <1>6 DEF ChannelInv

\* agents.insert of a session with both receivers parked.
LEMMA InsertKeepsChannels ==
  ASSUME TypeOK, ChannelInv, NEW s, NEW x \in Session, Insert(s, x),
         x.rx = x.chan, x.ctrl = x.chan,
         \A p \in Poll : poll'[p] = poll[p] \/ poll'[p].pc \notin Holding
  PROVE  ChannelInv'
<1>1. \A p \in Poll : poll'[p].pc \in Holding =>
        /\ poll'[p] = poll[p] /\ poll[p].sess \in DOMAIN sess'
        /\ sess'[poll[p].sess] = sess[poll[p].sess]
  <2> SUFFICES ASSUME NEW p \in Poll, poll'[p].pc \in Holding
               PROVE  /\ poll'[p] = poll[p] /\ poll[p].sess \in DOMAIN sess'
                      /\ sess'[poll[p].sess] = sess[poll[p].sess]
    OBVIOUS
  <2>1. poll'[p] = poll[p] /\ poll[p].sess \in Refs
    BY DEF Refs
  <2>2. poll[p].sess # None /\ poll[p].sess # s
    BY <2>1, HolderTyped, SessTyped, InsertFrees
  <2>3. poll[p].sess \in DOMAIN sess'
    BY <2>1, <2>2, InsertFrees DEF Arc
  <2> QED BY <2>1, <2>2, <2>3, InsertFrees
<1>2. Fresh'
  BY <1>1 DEF ChannelInv, Fresh
<1>3. ReceiverMatchesSender'
  BY InsertFrees DEF ChannelInv, ReceiverMatchesSender
<1>4. \A p \in Poll : Current(p)' => Current(p) /\ poll'[p] = poll[p]
                                   /\ sess'[poll[p].sess] = sess[poll[p].sess]
  BY <1>1 DEF Current
<1>5. SingleConsumer'
  BY <1>4 DEF ChannelInv, SingleConsumer
<1> QED BY <1>2, <1>3, <1>5 DEF ChannelInv

\* Nothing happens to the sessions, and no poll starts to hold receivers.
LEMMA PollMoveKeepsChannels ==
  ASSUME TypeOK, ChannelInv, sess' = sess,
         \A p \in Poll : \/ poll'[p].pc \notin Holding
                         \/ /\ poll[p].pc \in Holding /\ poll'[p].sess = poll[p].sess
                            /\ poll'[p].gen = poll[p].gen /\ poll'[p].chan = poll[p].chan
  PROVE  ChannelInv'
<1>1. Fresh' /\ ReceiverMatchesSender'
  BY DEF ChannelInv, Fresh, ReceiverMatchesSender
<1>2. \A p \in Poll : Current(p)' => /\ Current(p) /\ poll'[p].sess = poll[p].sess
                                    /\ poll'[p].chan = poll[p].chan
  BY DEF Current
<1>3. SingleConsumer'
  BY <1>2 DEF ChannelInv, SingleConsumer
<1> QED BY <1>1, <1>3 DEF ChannelInv

LEMMA TakeKeepsChannels ==
  ASSUME TypeOK, ChannelInv, NEW p \in Poll, PollTakeParked(p)
  PROVE  ChannelInv'
<1> DEFINE s == poll[p].sess
<1>1. /\ poll[p].pc = "take" /\ sess[s].rx # None
      /\ sess' = [sess EXCEPT ![s] = [sess[s] EXCEPT !.rx = None, !.ctrl = None]]
  BY Zenon DEF PollTakeParked, TypeOK
<1>2. s \in DOMAIN sess /\ sess[s] \in Session /\ sess[s].gen \in Nat /\ sess[s].rx = sess[s].chan
  BY <1>1, PollTyped, SessTyped DEF ChannelInv, ReceiverMatchesSender
<1>3. /\ DOMAIN sess' = DOMAIN sess /\ \A t \in DOMAIN sess : t # s => sess'[t] = sess[t]
      /\ sess'[s].gen = sess[s].gen /\ sess'[s].chan = sess[s].chan
      /\ sess'[s].rx = None /\ sess'[s].ctrl = None
  BY <1>1, <1>2, Zenon DEF TypeOK, Session
<1>4. \A q \in Poll : q # p => poll'[q] = poll[q]
  BY DEF PollTakeParked, TypeOK
<1>5. poll'[p].pc \in Holding =>
        /\ poll'[p].sess = s /\ poll'[p].gen = sess[s].gen /\ poll'[p].chan = sess[s].chan
  BY <1>2, PollTyped DEF PollTakeParked, TypeOK, IdlePoll, Holding, PollSlot
<1> HIDE DEF s
<1>6. \A q \in Poll : Current(q) => poll[q].sess # s
  BY <1>1, <1>2 DEF ChannelInv, SingleConsumer
<1>7. Fresh'
  BY <1>2, <1>3, <1>4, <1>5, HolderTyped DEF ChannelInv, Fresh
<1>8. ReceiverMatchesSender'
  BY <1>3 DEF ChannelInv, ReceiverMatchesSender
<1>9. \A q \in Poll : q # p /\ Current(q)' => /\ Current(q) /\ poll'[q] = poll[q] /\ poll[q].sess # s
                                             /\ sess'[poll[q].sess] = sess[poll[q].sess]
  BY <1>3, <1>4, <1>6, HolderTyped DEF Current
<1>10. Current(p)' => poll'[p].sess = s /\ poll'[p].chan = sess'[s].chan /\ sess'[s].rx = None
  BY <1>3, <1>5 DEF Current
<1>11. SingleConsumer'
  BY <1>9, <1>10 DEF ChannelInv, SingleConsumer
<1> QED BY <1>7, <1>8, <1>11 DEF ChannelInv

LEMMA RecreateKeepsChannels ==
  ASSUME TypeOK, ChannelInv, NEW p \in Poll, PollRecreate(p)
  PROVE  ChannelInv'
<1> DEFINE s == poll[p].sess
           n == sess[s].gen + 1
<1>1. poll[p].pc = "take" /\ sess' = [sess EXCEPT ![s] = RecreateChannels(sess[s])]
  BY DEF PollRecreate
<1>2. s \in DOMAIN sess /\ sess[s] \in Session /\ sess[s].gen \in Nat /\ n \in Nat
  BY <1>1, PollTyped, SessTyped
<1>3. RecreateChannels(sess[s]) \in Session
  BY <1>2, SessTyped, SessionOps
<1>4. /\ RecreateChannels(sess[s]).gen = n /\ RecreateChannels(sess[s]).chan = n
      /\ RecreateChannels(sess[s]).rx = None /\ RecreateChannels(sess[s]).ctrl = None
  BY <1>2 DEF RecreateChannels, Session
<1>5. /\ DOMAIN sess' = DOMAIN sess /\ \A t \in DOMAIN sess : t # s => sess'[t] = sess[t]
      /\ sess'[s].gen = n /\ sess'[s].chan = n /\ sess'[s].rx = None /\ sess'[s].ctrl = None
  BY <1>1, <1>2, <1>3, <1>4, SessUpdated
<1>6. \A q \in Poll : q # p => poll'[q] = poll[q]
  BY DEF PollRecreate, TypeOK
<1>7. poll'[p].sess = s /\ poll'[p].gen = n /\ poll'[p].chan = n
  BY PollTyped DEF PollRecreate, TypeOK, PollSlot
<1>8. \A q \in Poll : poll[q].pc \in Holding /\ poll[q].sess = s => poll[q].gen < n
  BY <1>2, HolderTyped DEF ChannelInv, Fresh
<1> HIDE DEF s, n
<1>9. Fresh'
  BY <1>2, <1>5, <1>6, <1>7, <1>8, HolderTyped DEF ChannelInv, Fresh
<1>10. ReceiverMatchesSender'
  BY <1>5 DEF ChannelInv, ReceiverMatchesSender
<1>11. \A q \in Poll : q # p /\ Current(q)' => /\ Current(q) /\ poll'[q] = poll[q] /\ poll[q].sess # s
                                              /\ sess'[poll[q].sess] = sess[poll[q].sess]
  BY <1>2, <1>5, <1>6, <1>8, HolderTyped DEF Current
<1>12. SingleConsumer'
  BY <1>5, <1>7, <1>11 DEF ChannelInv, SingleConsumer
<1> QED BY <1>9, <1>10, <1>12 DEF ChannelInv

LEMMA ReturnKeepsChannels ==
  ASSUME TypeOK, ChannelInv, NEW p \in Poll, ReturnReceivers(p)
  PROVE  ChannelInv'
<1> DEFINE s == poll[p].sess
<1>1. poll[p].pc = "dropped" /\ poll[p].pc \in Holding
  BY DEF ReturnReceivers, Holding
<1>2. s \in DOMAIN sess /\ sess[s] \in Session /\ poll[p].chan \in Nat
  BY <1>1, HolderTyped, SessTyped
<1>3. poll'[p].pc \notin Holding /\ \A q \in Poll : q # p => poll'[q] = poll[q]
  BY <1>2, PollTyped DEF ReturnReceivers, TypeOK, Holding, PollSlot
<1>4. CASE poll[p].gen = sess[s].gen /\ sess[s].rx = None
  <2>1. poll[p].chan = sess[s].chan
    BY <1>1, <1>4 DEF ChannelInv, SingleConsumer, Current
  <2>2. \A q \in Poll : q # p /\ Current(q) => poll[q].sess # s
    BY <1>1, <1>4 DEF ChannelInv, SingleConsumer, Current
  <2>3. sess' = [sess EXCEPT ![s] = [sess[s] EXCEPT !.rx = poll[p].chan, !.ctrl = poll[p].chan]]
    BY <1>4, Zenon DEF ReturnReceivers, TypeOK
  <2>4. /\ DOMAIN sess' = DOMAIN sess /\ \A t \in DOMAIN sess : t # s => sess'[t] = sess[t]
        /\ sess'[s].gen = sess[s].gen /\ sess'[s].chan = sess[s].chan
        /\ sess'[s].rx = poll[p].chan /\ sess'[s].ctrl = poll[p].chan
    BY <1>2, <2>3, Zenon DEF TypeOK, Session
  <2> HIDE DEF s
  <2>5. Fresh'
    BY <1>3, <2>4, HolderTyped DEF ChannelInv, Fresh
  <2>6. ReceiverMatchesSender'
    BY <2>1, <2>4 DEF ChannelInv, ReceiverMatchesSender
  <2>7. \A q \in Poll : Current(q)' => /\ q # p /\ Current(q) /\ poll'[q] = poll[q]
                                      /\ sess'[poll[q].sess] = sess[poll[q].sess]
    BY <1>3, <2>2, <2>4, HolderTyped DEF Current
  <2>8. SingleConsumer'
    BY <2>7 DEF ChannelInv, SingleConsumer
  <2> QED BY <2>5, <2>6, <2>8 DEF ChannelInv
<1>5. CASE ~(poll[p].gen = sess[s].gen /\ sess[s].rx = None)
  <2>1. sess' = sess
    BY <1>5 DEF ReturnReceivers
  <2> QED BY <1>3, <2>1, PollMoveKeepsChannels
<1> QED BY <1>4, <1>5

\* The receivers parked in a session belong to the channel its senders feed,
\* and one poll body at most passes the generation self-check and drains it:
\* handle_poll, RxStream::drop, install_channels, terminate and the backlog
\* nudge keep this whatever their interleaving.
THEOREM Channels == Spec => []ChannelsSound
<1>1. Init => ChannelInv
  BY DEF Init, ChannelInv, Fresh, ReceiverMatchesSender, SingleConsumer, Current, Holding, IdlePoll
<1>2. TypeOK /\ ChannelInv /\ [Next]_vars => ChannelInv'
  <2> SUFFICES ASSUME TypeOK, ChannelInv, [Next]_vars PROVE ChannelInv'
    OBVIOUS
  <2>1. ASSUME NEW c \in Conn, NEW q \in Conn \cup {None}, NEW s \in Sess, Enter(c, q, s), poll' = poll
        PROVE  ChannelInv'
    <3>1. CASE entry = None
      <4>1. Insert(s, NewSession(c, q))
        BY <2>1, <3>1 DEF Enter
      <4>2. NewSession(c, q) \in Session
        BY DEF NewSession, Session, OptNat
      <4>3. NewSession(c, q).rx = NewSession(c, q).chan /\ NewSession(c, q).ctrl = NewSession(c, q).chan
        BY DEF NewSession
      <4> QED BY <2>1, <4>1, <4>2, <4>3, InsertKeepsChannels
    <3>2. CASE entry # None
      <4> DEFINE x == InstallChannels(sess[entry], c, q)
      <4>1. entry \in DOMAIN sess /\ sess' = [sess EXCEPT ![entry] = x]
        BY <2>1, <3>2 DEF Enter, TypeOK, Arc
      <4>2. x \in Session
        BY <4>1, SessTyped, SessionOps
      <4>3. x.gen = sess[entry].gen + 1 /\ x.rx = x.chan /\ x.ctrl = x.chan
        BY DEF InstallChannels
      <4> HIDE DEF x
      <4> QED BY <2>1, <4>1, <4>2, <4>3, WriteKeepsChannels, Zenon
    <3> QED BY <3>1, <3>2
  <2>2. ASSUME NEW c \in H2Conn, Register(c) PROVE ChannelInv'
    BY <2>1, <2>2 DEF Register, Conn
  <2>3. ASSUME NEW c \in QuicConn, QuicRegister(c) PROVE ChannelInv'
    BY <2>1, <2>3 DEF QuicRegister, Conn
  <2>4. ASSUME NEW c \in Conn, NEW s \in Sess, Reinsert(c, s),
               \A p \in Poll : poll'[p] = poll[p] \/ poll'[p].pc \notin Holding
        PROVE  ChannelInv'
    <3>1. NewSession(c, None) \in Session
      BY DEF NewSession, Session, OptNat
    <3>2. NewSession(c, None).rx = NewSession(c, None).chan /\ NewSession(c, None).ctrl = NewSession(c, None).chan
      BY DEF NewSession
    <3> QED BY <2>4, <3>1, <3>2, InsertKeepsChannels DEF Reinsert
  <2>5. ASSUME NEW p \in Poll, PollImplicit(p) PROVE ChannelInv'
    <3>1. poll[p].conn \in Conn
      BY <2>5, PollTyped DEF PollImplicit, Conn
    <3>2. \A q \in Poll : poll'[q] = poll[q] \/ poll'[q].pc \notin Holding
      BY <2>5, PollTyped DEF PollImplicit, TypeOK, Holding, PollSlot
    <3> QED BY <2>4, <2>5, <3>1, <3>2, Zenon DEF PollImplicit
  <2>6. ASSUME NEW u \in Up, UpImplicit(u) PROVE ChannelInv'
    <3>1. up[u].conn \in Conn /\ poll' = poll
      BY <2>6 DEF UpImplicit, TypeOK, UpSlot, Conn
    <3> QED BY <2>4, <2>6, <3>1 DEF UpImplicit
  <2>7. ASSUME NEW p \in Poll, NEW c \in H2Conn, PollSend(p, c) PROVE ChannelInv'
    BY <2>7, PollMoveKeepsChannels DEF PollSend, TypeOK, IdlePoll, Holding
  <2>8. ASSUME NEW p \in Poll,
               \/ PollLookup(p) \/ PollCheck(p) \/ PollBusy(p) \/ PollAborted(p)
               \/ BodyStale(p) \/ BodyDropped(p) \/ \E k \in Signal : GraceExpires(p, k)
        PROVE  ChannelInv'
    <3>1. sess' = sess /\ \A q \in Poll : q # p => poll'[q] = poll[q]
      BY <2>8 DEF PollLookup, PollCheck, PollBusy, PollAborted, BodyStale, BodyDropped, GraceExpires, TypeOK
    <3>2. \/ poll'[p].pc \notin Holding
          \/ /\ poll[p].pc \in Holding /\ poll'[p].sess = poll[p].sess
             /\ poll'[p].gen = poll[p].gen /\ poll'[p].chan = poll[p].chan
      BY <2>8, PollTyped DEF PollLookup, PollCheck, PollBusy, PollAborted, BodyStale, BodyDropped,
         GraceExpires, TypeOK, Holding, IdlePoll, PollSlot
    <3> QED BY <3>1, <3>2, PollMoveKeepsChannels
  <2>9. ASSUME NEW s \in DOMAIN sess, NEW x \in Session, sess' = [sess EXCEPT ![s] = x], poll' = poll,
               x.gen = sess[s].gen /\ x.chan = sess[s].chan /\ x.rx = sess[s].rx /\ x.ctrl = sess[s].ctrl
        PROVE  ChannelInv'
    BY <2>9, WriteKeepsChannels, Zenon DEF ChannelInv, ReceiverMatchesSender
  <2>10. ASSUME sess' = sess, poll' = poll PROVE ChannelInv'
    BY <2>10, PollMoveKeepsChannels
  <2>11. ASSUME NEW s \in DOMAIN sess, NEW b \in BOOLEAN, poll' = poll,
                sess' = [sess EXCEPT ![s] = [sess[s] EXCEPT !.aged = b]]
         PROVE  ChannelInv'
    <3>1. sess[s] \in Session
      BY SessTyped
    <3> DEFINE x == [sess[s] EXCEPT !.aged = b]
    <3>2. x \in Session /\ x.gen = sess[s].gen /\ x.chan = sess[s].chan /\ x.rx = sess[s].rx
          /\ x.ctrl = sess[s].ctrl
      BY <3>1 DEF Session
    <3> HIDE DEF x
    <3>3. sess' = [sess EXCEPT ![s] = x]
      BY <2>11 DEF x
    <3> QED BY <2>9, <2>11, <3>2, <3>3, Zenon
  <2>12. ASSUME NEW s \in DOMAIN sess, NEW l \in Up \cup {None}, poll' = poll,
                sess' = [sess EXCEPT ![s] = [sess[s] EXCEPT !.lease = l]]
         PROVE  ChannelInv'
    <3>1. sess[s] \in Session
      BY SessTyped
    <3> DEFINE x == [sess[s] EXCEPT !.lease = l]
    <3>2. x \in Session /\ x.gen = sess[s].gen /\ x.chan = sess[s].chan /\ x.rx = sess[s].rx
          /\ x.ctrl = sess[s].ctrl
      BY <3>1 DEF Session
    <3> HIDE DEF x
    <3>3. sess' = [sess EXCEPT ![s] = x]
      BY <2>12 DEF x
    <3> QED BY <2>9, <2>12, <3>2, <3>3, Zenon
  <2>13. ASSUME NEW u \in Up, UpLease(u) \/ UpEnds(u) PROVE ChannelInv'
    <3>1. up[u].sess \in DOMAIN sess /\ poll' = poll
      BY <2>13 DEF UpLease, UpEnds, TypeOK, UpSlot, Arc
    <3>2. \/ sess' = sess
          \/ \E l \in Up \cup {None} :
               sess' = [sess EXCEPT ![up[u].sess] = [sess[up[u].sess] EXCEPT !.lease = l]]
      BY <2>13 DEF UpLease, UpEnds
    <3> QED BY <2>10, <2>12, <3>1, <3>2, Zenon
  <2>14. ASSUME NEW u \in Up, UpPong(u) PROVE ChannelInv'
    BY <2>11, <2>14, Zenon DEF UpPong, TypeOK, Arc
  <2>15. ASSUME NEW c \in QuicConn, QuicPong(c) PROVE ChannelInv'
    <3>1. quic[c].sess \in DOMAIN sess
      BY <2>15 DEF QuicPong, TypeOK, QuicSlot, Arc
    <3> QED BY <2>11, <2>15, <3>1, Zenon DEF QuicPong
  <2>16. ASSUME NEW s \in Sess, PongAges(s) PROVE ChannelInv'
    BY <2>11, <2>16, Zenon DEF PongAges
  <2>17. ASSUME NEW s \in DOMAIN sess, poll' = poll,
                \/ sess' = [sess EXCEPT ![s] = Terminate(sess[s])]
                \/ sess' = [sess EXCEPT ![s] = Nudged(sess[s])]
         PROVE  ChannelInv'
    <3>1. sess[s] \in Session /\ Terminate(sess[s]) \in Session /\ Nudged(sess[s]) \in Session
      BY SessTyped, SessionOps
    <3>2. /\ Terminate(sess[s]).gen = sess[s].gen + 1
          /\ Terminate(sess[s]).rx = None /\ Terminate(sess[s]).ctrl = None
      BY <3>1 DEF Terminate, Session
    <3>3. /\ Nudged(sess[s]).gen = sess[s].gen + 1 /\ Nudged(sess[s]).chan = sess[s].chan
          /\ Nudged(sess[s]).rx = sess[s].rx /\ Nudged(sess[s]).ctrl = None
      BY <3>1 DEF Nudged, Session
    <3>4. sess[s].rx # None => sess[s].rx = sess[s].chan
      BY DEF ChannelInv, ReceiverMatchesSender
    <3> QED BY <2>17, <3>1, <3>2, <3>3, <3>4, WriteKeepsChannels
  <2>18. ASSUME NEW k \in Signal, Sever(k) PROVE ChannelInv'
    <3>1. signal[k].sess \in DOMAIN sess
      BY <2>18 DEF Sever, TypeOK, SignalSlot, Arc
    <3> QED BY <2>17, <2>18, <3>1, Zenon DEF Sever
  <2>19. ASSUME Nudge PROVE ChannelInv'
    BY <2>17, <2>19, Zenon DEF Nudge, TypeOK, Arc
  <2>20. ASSUME NEW p \in Poll, PollStep(p) PROVE ChannelInv'
    BY <2>5, <2>8, <2>20, TakeKeepsChannels, RecreateKeepsChannels, ReturnKeepsChannels DEF PollStep
  <2>21. ASSUME NEW u \in Up, UpStep(u) PROVE ChannelInv'
    <3>1. UpLookup(u) \/ UpCheck(u) \/ UpAborted(u) => sess' = sess /\ poll' = poll
      BY DEF UpLookup, UpCheck, UpAborted
    <3> QED BY <2>6, <2>10, <2>13, <2>21, <3>1 DEF UpStep
  <2>22. ASSUME NEW u \in Up, NEW c \in H2Conn, UpSend(u, c) PROVE ChannelInv'
    BY <2>10, <2>22 DEF UpSend
  <2>23. ASSUME NEW c \in Conn, Dial(c) \/ Disconnect(c) PROVE ChannelInv'
    BY <2>10, <2>23 DEF Dial, Disconnect
  <2>24. ASSUME HbStep PROVE ChannelInv'
    BY <2>10, <2>24 DEF HbStep, HbSnapshot, HbVisit
  <2>25. ASSUME NEW k \in Signal, SignalStep(k) \/ SendTimeout(k) PROVE ChannelInv'
    <3>1. EvictById(k) \/ Funnel(k) \/ SendTimeout(k) => sess' = sess /\ poll' = poll
      BY Zenon DEF EvictById, Funnel, SendTimeout
    <3> QED BY <2>10, <2>18, <2>25, <3>1 DEF SignalStep
  <2>26. ASSUME NEW c \in QuicConn, QuicStep(c) PROVE ChannelInv'
    <3>1. \/ QuicAck(c) \/ QuicAckFails(c) \/ QuicArm(c) \/ QuicTick(c)
          \/ \E k \in Signal : QuicClosed(c, k) \/ QuicJudge(c, k)
          => sess' = sess /\ poll' = poll
      BY DEF QuicAck, QuicAckFails, QuicArm, QuicTick, QuicClosed, QuicJudge
    <3> QED BY <2>3, <2>10, <2>26, <3>1 DEF QuicStep
  <2>27. CASE UNCHANGED vars
    BY <2>10, <2>27 DEF vars
  <2> QED
    BY <2>2, <2>7, <2>14, <2>15, <2>16, <2>19, <2>20, <2>21, <2>22, <2>23, <2>24, <2>25,
       <2>26, <2>27 DEF Next
<1>3. ChannelInv => ChannelsSound
  BY DEF ChannelInv, ChannelsSound
<1> QED BY <1>1, <1>2, <1>3, Typing, PTL DEF Spec

-------------------------------------------------------------------------------
(* The death signals.  A witness is only as good as the circuit it carries:  *)
(* the invariant says whose circuit that is while the signal waits.          *)

OwnDeath == {"grace", "heartbeat", "quic_heartbeat"}

SignalInv ==
  /\ \A p \in Poll : poll[p].conn # None => reg[poll[p].conn] # "new"
  /\ \A p \in Poll : poll[p].pc \in {"dropped", "grace"} => poll[p].conn \notin active
  /\ \A k \in Signal : signal[k].pc = "fire" =>
       /\ signal[k].kind \in OwnDeath => signal[k].circ = signal[k].about
       /\ signal[k].kind = "grace" => /\ signal[k].about \in Conn \ active
                                      /\ reg[signal[k].about] # "new"
  /\ \A k \in Signal : signal[k].pc = "resolve" => signal[k].kind = "send_timeout"
  /\ \A k \in Signal : signal[k].pc = "sever" => signal[k].sess # entry

\* A step that changes neither polls nor signals, dials nothing and takes no
\* registration back keeps the invariant, provided it registers no condemned Arc.
LEMMA QuietKeepsSignals ==
  ASSUME TypeOK, SignalInv, poll' = poll, signal' = signal, active' \subseteq active,
         \A c \in Conn : reg'[c] = reg[c] \/ reg'[c] # "new",
         \A k \in Signal : signal[k].pc = "sever" => signal[k].sess # entry'
  PROVE  SignalInv'
<1>1. \A p \in Poll : poll[p].conn \in Conn \cup {None}
  BY DEF TypeOK, PollSlot, Conn
<1> QED BY <1>1 DEF SignalInv

\* A fresh Arc is never a condemned one: it is not referenced at all.
LEMMA EnterSparesCondemned ==
  ASSUME TypeOK, SignalInv, NEW s \in Sess, NEW c, NEW q,
         Enter(c, q, s) \/ Reinsert(c, s)
  PROVE  \A k \in Signal : signal[k].pc = "sever" => signal[k].sess # entry'
<1>1. \A k \in Signal : signal[k].sess \in Refs
  BY DEF Refs
<1>2. entry' \notin Refs \/ entry' = entry
  BY DEF Enter, Reinsert, Insert
<1> QED BY <1>1, <1>2 DEF SignalInv

\* A poll slot may move on its own, as long as a body is dropped only once
\* its connection is abandoned.
LEMMA PollMoveKeepsSignals ==
  ASSUME TypeOK, SignalInv, NEW p \in Poll, signal' = signal, active' = active, reg' = reg,
         \A k \in Signal : signal[k].pc = "sever" => signal[k].sess # entry',
         \A q \in Poll : q # p => poll'[q] = poll[q],
         poll'[p].conn \in {poll[p].conn, None},
         poll'[p].pc \in {"dropped", "grace"} => /\ poll'[p].conn = poll[p].conn
                                                /\ poll[p].conn \notin active
  PROVE  SignalInv'
BY DEF SignalInv

\* A signal enters the funnel with the circuit its death is about.
LEMMA FireKeepsSignals ==
  ASSUME TypeOK, SignalInv, NEW k \in Signal, NEW kind, NEW s, NEW c, NEW about,
         Fire(k, kind, s, c, about), poll' = poll, entry' = entry, active' \subseteq active,
         \A d \in Conn : reg'[d] = reg[d] \/ reg'[d] # "new",
         kind \in OwnDeath => c = about,
         kind = "grace" => about \in Conn \ active /\ reg[about] # "new"
  PROVE  SignalInv'
<1>1. \A p \in Poll : poll[p].conn \in Conn \cup {None}
  BY DEF TypeOK, PollSlot, Conn
<1>2. signal' = [signal EXCEPT ![k] =
                  [pc |-> "fire", kind |-> kind, sess |-> s, circ |-> c, about |-> about]]
  BY DEF Fire
<1>3. \A j \in Signal : j # k => signal'[j] = signal[j]
  BY <1>2 DEF TypeOK
<1>4. signal'[k] = [pc |-> "fire", kind |-> kind, sess |-> s, circ |-> c, about |-> about]
  BY <1>2 DEF TypeOK
<1> QED BY <1>1, <1>3, <1>4 DEF SignalInv

LEMMA SignalStepInv ==
  TypeOK /\ SignalInv /\ [Next]_vars => SignalInv'
<1> SUFFICES ASSUME TypeOK, SignalInv, [Next]_vars PROVE SignalInv'
  OBVIOUS
<1>0. \A k \in Signal : signal[k].pc = "sever" => signal[k].sess # entry
  BY DEF SignalInv
<1>1. ASSUME NEW c \in Conn, Dial(c) PROVE SignalInv'
  BY <1>1 DEF Dial, SignalInv, TypeOK, PollSlot, Conn
<1>2. ASSUME NEW c \in Conn, Disconnect(c) PROVE SignalInv'
  BY <1>0, <1>2, QuietKeepsSignals DEF Disconnect
<1>3. ASSUME NEW c \in H2Conn, Register(c) PROVE SignalInv'
  <2>1. \A d \in Conn : reg'[d] = reg[d] \/ reg'[d] # "new"
    BY <1>3 DEF Register, TypeOK
  <2> QED BY <1>3, <2>1, QuietKeepsSignals, EnterSparesCondemned DEF Register
<1>4. ASSUME NEW c \in QuicConn, QuicStep(c) PROVE SignalInv'
  <2>1. \A d \in Conn : reg'[d] = reg[d] \/ reg'[d] # "new"
    BY <1>4 DEF QuicStep, QuicRegister, QuicAck, QuicAckFails, QuicArm, QuicTick, QuicClosed,
       QuicJudge, TypeOK
  <2>2. CASE QuicRegister(c)
    BY <2>1, <2>2, QuietKeepsSignals, EnterSparesCondemned DEF QuicRegister
  <2>3. CASE QuicAck(c) \/ QuicAckFails(c) \/ QuicArm(c) \/ QuicTick(c)
    BY <1>0, <2>1, <2>3, QuietKeepsSignals DEF QuicAck, QuicAckFails, QuicArm, QuicTick
  <2>4. ASSUME NEW k \in Signal, QuicClosed(c, k) PROVE SignalInv'
    BY <2>1, <2>4, FireKeepsSignals DEF QuicClosed, OwnDeath
  <2>5. ASSUME NEW k \in Signal, QuicJudge(c, k) PROVE SignalInv'
    <3>1. CASE sess[quic[c].sess].aged
      BY <2>1, <2>5, <3>1, FireKeepsSignals DEF QuicJudge
    <3>2. CASE ~sess[quic[c].sess].aged
      BY <1>0, <2>1, <2>5, <3>2, QuietKeepsSignals DEF QuicJudge
    <3> QED BY <3>1, <3>2
  <2> QED BY <1>4, <2>2, <2>3, <2>4, <2>5 DEF QuicStep
<1>5. ASSUME NEW p \in Poll, NEW c \in H2Conn, PollSend(p, c) PROVE SignalInv'
  <2>1. /\ \A q \in Poll : q # p => poll'[q] = poll[q]
        /\ poll'[p].conn = c /\ poll'[p].pc = "sent"
    BY <1>5 DEF PollSend, TypeOK, IdlePoll
  <2> QED BY <1>5, <2>1 DEF PollSend, SignalInv
<1>6. ASSUME NEW p \in Poll, PollImplicit(p) PROVE SignalInv'
  <2>1. \A k \in Signal : signal[k].pc = "sever" => signal[k].sess # entry'
    BY <1>6, EnterSparesCondemned DEF PollImplicit
  <2>2. /\ \A q \in Poll : q # p => poll'[q] = poll[q]
        /\ poll'[p].conn = poll[p].conn /\ poll'[p].pc = "check"
    BY <1>6, PollTyped DEF PollImplicit, TypeOK, PollSlot
  <2> QED BY <1>6, <2>1, <2>2, PollMoveKeepsSignals, Zenon DEF PollImplicit
<1>7. ASSUME NEW p \in Poll,
             \/ PollLookup(p) \/ PollCheck(p) \/ PollTakeParked(p) \/ PollRecreate(p)
             \/ PollBusy(p) \/ PollAborted(p) \/ BodyStale(p) \/ BodyDropped(p)
             \/ ReturnReceivers(p)
      PROVE  SignalInv'
  <2>1. signal' = signal /\ active' = active /\ reg' = reg /\ entry' = entry
    BY Zenon, <1>7 DEF PollLookup, PollCheck, PollTakeParked, PollRecreate, PollBusy, PollAborted,
       BodyStale, BodyDropped, ReturnReceivers
  <2>2. \A q \in Poll : q # p => poll'[q] = poll[q]
    BY <1>7 DEF PollLookup, PollCheck, PollTakeParked, PollRecreate, PollBusy, PollAborted,
       BodyStale, BodyDropped, ReturnReceivers, TypeOK
  <2>3. CASE PollLookup(p) \/ PollCheck(p) \/ PollRecreate(p) \/ PollBusy(p)
             \/ PollAborted(p) \/ BodyStale(p)
    <3>1. poll'[p].conn \in {poll[p].conn, None} /\ poll'[p].pc \notin {"dropped", "grace"}
      <4>1. CASE PollLookup(p)
        BY <4>1, PollTyped DEF PollLookup, TypeOK, PollSlot
      <4>2. CASE PollCheck(p)
        BY <4>2, PollTyped DEF PollCheck, TypeOK, IdlePoll, PollSlot
      <4>3. CASE PollRecreate(p)
        BY <4>3, PollTyped DEF PollRecreate, TypeOK, PollSlot
      <4>4. CASE PollBusy(p) \/ PollAborted(p) \/ BodyStale(p)
        BY <4>4 DEF PollBusy, PollAborted, BodyStale, TypeOK, IdlePoll
      <4> QED BY <2>3, <4>1, <4>2, <4>3, <4>4
    <3> QED BY <1>0, <2>1, <2>2, <3>1, PollMoveKeepsSignals
  <2>4. CASE PollTakeParked(p)
    <3>1. poll'[p].conn \in {poll[p].conn, None} /\ poll'[p].pc \notin {"dropped", "grace"}
      BY <2>4, PollTyped DEF PollTakeParked, TypeOK, IdlePoll, PollSlot
    <3> QED BY <1>0, <2>1, <2>2, <3>1, PollMoveKeepsSignals
  <2>5. CASE BodyDropped(p) \/ ReturnReceivers(p)
    <3>1. poll'[p].conn = poll[p].conn /\ poll[p].conn \notin active
      BY <2>5, PollTyped DEF BodyDropped, ReturnReceivers, TypeOK, PollSlot, SignalInv
    <3> QED BY <1>0, <2>1, <2>2, <3>1, PollMoveKeepsSignals
  <2> QED BY <1>7, <2>3, <2>4, <2>5
<1>8. ASSUME NEW p \in Poll, NEW k \in Signal, GraceExpires(p, k) PROVE SignalInv'
  <2>1. /\ \A q \in Poll : q # p => poll'[q] = poll[q]
        /\ poll'[p].conn = None /\ poll'[p].pc = "idle"
    BY <1>8 DEF GraceExpires, TypeOK, IdlePoll
  <2>2. poll[p].conn \in Conn \ active /\ reg[poll[p].conn] # "new"
    BY <1>8, PollTyped DEF GraceExpires, SignalInv, TypeOK, Conn
  <2>3. CASE StillIdle(p)
    <3>1. /\ \A j \in Signal : j # k => signal'[j] = signal[j]
          /\ signal'[k].pc = "fire" /\ signal'[k].circ = poll[p].conn
          /\ signal'[k].about = poll[p].conn
      BY <1>8, <2>3 DEF GraceExpires, Fire, TypeOK
    <3>2. active' = active /\ reg' = reg /\ entry' = entry
      BY <1>8 DEF GraceExpires
    <3>3. /\ \A q \in Poll : poll'[q].conn # None => reg'[poll'[q].conn] # "new"
          /\ \A q \in Poll : poll'[q].pc \in {"dropped", "grace"} => poll'[q].conn \notin active'
      BY <2>1, <3>2 DEF SignalInv
    <3>4. ASSUME NEW j \in Signal
          PROVE  /\ signal'[j].pc = "fire" =>
                      (/\ (signal'[j].kind \in OwnDeath => signal'[j].circ = signal'[j].about)
                       /\ (signal'[j].kind = "grace" => /\ signal'[j].about \in Conn \ active'
                                                       /\ reg'[signal'[j].about] # "new"))
                 /\ signal'[j].pc = "resolve" => signal'[j].kind = "send_timeout"
                 /\ signal'[j].pc = "sever" => signal'[j].sess # entry'
      <4>1. CASE j = k
        BY <2>2, <3>1, <3>2, <4>1
      <4>2. CASE j # k
        BY <3>1, <3>2, <4>2 DEF SignalInv
      <4> QED BY <4>1, <4>2
    <3> QED BY <3>3, <3>4 DEF SignalInv
  <2>4. CASE ~StillIdle(p)
    BY <1>0, <1>8, <2>1, <2>4, PollMoveKeepsSignals DEF GraceExpires
  <2> QED BY <2>3, <2>4
<1>9. ASSUME NEW u \in Up, UpStep(u) PROVE SignalInv'
  <2>1. CASE UpImplicit(u)
    BY <2>1, QuietKeepsSignals, EnterSparesCondemned DEF UpImplicit
  <2>2. CASE ~UpImplicit(u)
    BY <1>0, <1>9, <2>2, QuietKeepsSignals DEF UpStep, UpLookup, UpCheck, UpLease, UpEnds, UpAborted
  <2> QED BY <2>1, <2>2
<1>10. ASSUME NEW k \in Signal, HbVisit(k) PROVE SignalInv'
  <2>1. CASE sess[hb].quic = None /\ sess[hb].aged
    BY <1>10, <2>1, FireKeepsSignals DEF HbVisit
  <2>2. CASE ~(sess[hb].quic = None /\ sess[hb].aged)
    BY <1>0, <1>10, <2>2, QuietKeepsSignals DEF HbVisit
  <2> QED BY <2>1, <2>2
<1>11. ASSUME NEW k \in Signal, SendTimeout(k) \/ EvictById(k) \/ Sever(k) PROVE SignalInv'
  <2>1. \A j \in Signal : j # k => signal'[j] = signal[j]
    BY <1>11, Zenon DEF SendTimeout, EvictById, Sever, TypeOK
  <2>2. poll' = poll /\ active' = active /\ reg' = reg /\ entry' = entry
    BY <1>11, Zenon DEF SendTimeout, EvictById, Sever
  <2>3. \/ signal'[k].pc = "idle"
        \/ signal'[k].pc \in {"fire", "resolve"} /\ signal'[k].kind = "send_timeout"
    <3>1. CASE SendTimeout(k)
      <4>1. PICK c : signal' = [signal EXCEPT ![k] = [IdleSignal EXCEPT
                        !.pc = "resolve", !.kind = "send_timeout", !.about = c]]
        BY <3>1, Zenon DEF SendTimeout
      <4>2. signal'[k] = [IdleSignal EXCEPT !.pc = "resolve", !.kind = "send_timeout", !.about = c]
        BY <4>1 DEF TypeOK
      <4> QED BY <4>2 DEF IdleSignal
    <3>2. CASE EvictById(k)
      <4>1. signal[k] \in SignalSlot /\ signal[k].kind = "send_timeout"
        BY <3>2 DEF EvictById, TypeOK, SignalInv
      <4>2. \/ signal'[k] = IdleSignal
            \/ signal'[k] = [signal[k] EXCEPT !.pc = "fire", !.sess = entry, !.circ = sess[entry].circ]
        BY <3>2 DEF EvictById, TypeOK
      <4>3. ASSUME NEW x \in SignalSlot, NEW y, NEW s, NEW c,
                   y = [x EXCEPT !.pc = "fire", !.sess = s, !.circ = c]
            PROVE  y.pc = "fire" /\ y.kind = x.kind
        BY <4>3 DEF SignalSlot
      <4>4. CASE signal'[k] = IdleSignal
        BY <4>4 DEF IdleSignal
      <4>5. CASE signal'[k] # IdleSignal
        <5>1. signal'[k].pc = "fire" /\ signal'[k].kind = signal[k].kind
          <6> DEFINE y == signal'[k]
                     d == sess[entry].circ
          <6>1. y = [signal[k] EXCEPT !.pc = "fire", !.sess = entry, !.circ = d]
            BY <4>2, <4>5
          <6> HIDE DEF y, d
          <6>2. y.pc = "fire" /\ y.kind = signal[k].kind
            BY <4>1, <4>3, <6>1, Zenon
          <6> QED BY <6>2 DEF y
        <5> QED BY <4>1, <5>1
      <4> QED BY <4>4, <4>5
    <3>3. CASE Sever(k)
      BY <3>3 DEF Sever, TypeOK, IdleSignal
    <3> QED BY <1>11, <3>1, <3>2, <3>3
  <2> QED BY <2>1, <2>2, <2>3 DEF SignalInv, OwnDeath
<1>12. ASSUME NEW k \in Signal, Funnel(k) PROVE SignalInv'
  <2>1. /\ \A j \in Signal : j # k => signal'[j] = signal[j]
        /\ signal'[k].pc = "sever" => /\ signal'[k].sess = signal[k].sess
                                      /\ entry # signal[k].sess \/ Speaks(k)
        /\ signal'[k].pc \in {"idle", "sever"}
    BY <1>12 DEF Funnel, TypeOK, SignalSlot, IdleSignal
  <2>2. \A j \in Signal : signal[j].pc \in {"fire", "sever"} => signal[j].sess # None
    BY DEF TypeOK
  <2>3. entry' = IF Speaks(k) THEN None ELSE entry
    BY <1>12 DEF Funnel
  <2>4. \A j \in Signal : signal'[j].pc = "sever" => signal'[j].sess # entry'
    BY <1>0, <1>12, <2>1, <2>2, <2>3 DEF Funnel
  <2> QED BY <1>12, <2>1, <2>4 DEF Funnel, SignalInv
<1>13. ASSUME NEW s \in Sess, PongAges(s) PROVE SignalInv'
  BY <1>0, <1>13, QuietKeepsSignals DEF PongAges
<1>14. CASE \/ HbSnapshot \/ Nudge \/ UNCHANGED vars
            \/ \E u \in Up : UpPong(u) \/ \E c \in H2Conn : UpSend(u, c)
            \/ \E c \in QuicConn : QuicPong(c)
  BY <1>0, <1>14, QuietKeepsSignals, Zenon DEF HbSnapshot, Nudge, UpPong, UpSend, QuicPong, vars
<1> QED
  BY <1>1, <1>2, <1>3, <1>4, <1>5, <1>6, <1>7, <1>8, <1>9, <1>10, <1>11, <1>12, <1>13, <1>14
  DEF Next, PollStep, HbStep, SignalStep

\* Only the funnel turns a waiting signal into a removal.
LEMMA OnlyFunnelRemoves ==
  ASSUME TypeOK, [Next]_vars, NEW k \in Signal, signal[k].pc = "fire", signal'[k].pc = "sever"
  PROVE  Funnel(k)
<1>1. signal' # signal
  OBVIOUS
<1>2. ASSUME NEW j \in Signal, signal[j].pc = "idle", \A i \in Signal : i # j => signal'[i] = signal[i]
      PROVE  FALSE
  BY <1>2
<1>3. ASSUME NEW j \in Signal, NEW kind, NEW s, NEW c, NEW about, Fire(j, kind, s, c, about)
      PROVE  FALSE
  BY <1>2, <1>3 DEF Fire, TypeOK
<1>4. ASSUME NEW j \in Signal, SendTimeout(j) PROVE FALSE
  BY <1>2, <1>4 DEF SendTimeout, TypeOK
<1>5. ASSUME NEW j \in Signal, EvictById(j) \/ Sever(j) PROVE FALSE
  BY <1>5 DEF EvictById, Sever, TypeOK
<1>6. ASSUME NEW j \in Signal, Funnel(j) PROVE Funnel(k)
  BY <1>6, Zenon DEF Funnel, TypeOK
<1>7. ASSUME NEW p \in Poll, PollStep(p) PROVE FALSE
  BY Zenon, <1>1, <1>3, <1>7 DEF PollStep, PollLookup, PollImplicit, PollCheck, PollTakeParked,
     PollRecreate, PollBusy, PollAborted, BodyStale, BodyDropped, ReturnReceivers, GraceExpires
<1>8. ASSUME NEW u \in Up, UpStep(u) PROVE FALSE
  BY <1>1, <1>8 DEF UpStep, UpLookup, UpImplicit, UpCheck, UpLease, UpEnds, UpAborted
<1>9. ASSUME NEW c \in QuicConn, QuicStep(c) PROVE FALSE
  BY <1>1, <1>3, <1>9 DEF QuicStep, QuicRegister, QuicAck, QuicAckFails, QuicArm, QuicTick,
     QuicClosed, QuicJudge
<1>10. HbStep => FALSE
  BY <1>1, <1>3 DEF HbStep, HbSnapshot, HbVisit
<1> QED
  BY Zenon, <1>1, <1>4, <1>5, <1>6, <1>7, <1>8, <1>9, <1>10 DEF Next, SignalStep, Dial, Disconnect,
     Register, PollSend, UpPong, UpSend, PongAges, Nudge, QuicPong, vars

\* A removal decided by the poll-grace timer or a heartbeat never hits the
\* registration that replaced the one it is about, and the session section of
\* remove_agent_if_current never terminates a registered session, for any
\* number of connections, polls, uploads and pending death signals.
THEOREM Removals == Spec => RemovalsSound
<1>1. Init => SignalInv
  BY DEF Init, SignalInv, IdlePoll, IdleSignal
<1>2. TypeOK /\ SignalInv /\ [Next]_vars => [SparesSuccessor]_vars
  <2> SUFFICES ASSUME TypeOK, SignalInv, [Next]_vars, NEW k \in Signal, Evicting(k)
               PROVE  /\ signal[k].kind = "grace" => sess[entry].circ \notin active
                      /\ signal[k].kind \in OwnDeath => sess[entry].circ = signal[k].about
    BY DEF SparesSuccessor, OwnDeath
  <2>1. Funnel(k)
    BY OnlyFunnelRemoves DEF Evicting
  <2>2. Speaks(k)
    <3>1. signal[k].sess # None
      BY DEF Evicting, TypeOK
    <3> QED BY <2>1, <3>1 DEF Funnel, Evicting
  <2>3. sess[entry].circ = signal[k].circ
    BY <2>2 DEF Speaks, Evicting
  <2> QED BY <2>3 DEF SignalInv, Evicting, OwnDeath
<1>3. SignalInv => SparesEntry
  BY DEF SignalInv, SparesEntry
<1> QED
  BY <1>1, <1>2, <1>3, SignalStepInv, Typing, PTL DEF Spec, RemovalsSound, SuccessorSpared, SeverSparesEntry

-------------------------------------------------------------------------------
(* The upload lease.                                                         *)

\* Leases are only taken back, and no reader moves.
LEMMA LeasesShrink ==
  ASSUME LeaseHeldByReader,
         \A s \in DOMAIN sess' : \/ sess'[s].lease = None
                                 \/ s \in DOMAIN sess /\ sess'[s].lease = sess[s].lease,
         \A u \in Up : up[u].pc = "reading" => up'[u] = up[u]
  PROVE  LeaseHeldByReader'
<1> SUFFICES ASSUME NEW s \in DOMAIN sess', NEW u \in Up, sess'[s].lease = u
             PROVE  up'[u].pc = "reading" /\ up'[u].sess = s
  BY DEF LeaseHeldByReader
<1>1. s \in DOMAIN sess /\ sess[s].lease = u
  BY Distinct
<1> QED BY <1>1 DEF LeaseHeldByReader

\* One session is written and its lease stays or goes.
LEMMA WriteKeepsLeases ==
  ASSUME TypeOK, LeaseHeldByReader, NEW s \in DOMAIN sess, NEW x,
         sess' = [sess EXCEPT ![s] = x], x.lease \in {sess[s].lease, None},
         \A u \in Up : up[u].pc = "reading" => up'[u] = up[u]
  PROVE  LeaseHeldByReader'
<1>1. \A t \in DOMAIN sess' : t \in DOMAIN sess /\ (t # s => sess'[t] = sess[t])
  BY DEF TypeOK
<1>2. sess'[s] = x
  BY DEF TypeOK
<1> QED BY <1>1, <1>2, LeasesShrink

\* agents.insert of a session nobody uploads to yet.
LEMMA InsertKeepsLeases ==
  ASSUME TypeOK, LeaseHeldByReader, NEW c \in Conn, NEW q \in Conn \cup {None}, NEW s,
         Insert(s, NewSession(c, q)),
         \A u \in Up : up[u].pc = "reading" => up'[u] = up[u]
  PROVE  LeaseHeldByReader'
<1>1. NewSession(c, q) \in Session /\ NewSession(c, q).lease = None
  BY DEF NewSession, Session, OptNat
<1>2. /\ \A t \in DOMAIN sess' : t # s => t \in DOMAIN sess /\ sess'[t] = sess[t]
      /\ sess'[s] = NewSession(c, q)
  BY <1>1, InsertFrees
<1> QED BY <1>1, <1>2, LeasesShrink

\* The reader of a lease is the request it was granted to.
LEMMA LeaseGranted ==
  ASSUME TypeOK, LeaseHeldByReader, NEW u \in Up, UpLease(u)
  PROVE  LeaseHeldByReader'
<1>1. up[u] \in UpSlot /\ up[u].sess \in DOMAIN sess /\ up[u].pc = "lease"
  BY DEF UpLease, TypeOK, UpSlot, Arc
<1>2. \A v \in Up : v # u => up'[v] = up[v]
  BY DEF UpLease, TypeOK
<1>3. CASE sess[up[u].sess].lease = None
  <2>1. /\ sess' = [sess EXCEPT ![up[u].sess] = [sess[up[u].sess] EXCEPT !.lease = u]]
        /\ up' = [up EXCEPT ![u] = [up[u] EXCEPT !.pc = "reading"]]
    BY <1>3 DEF UpLease
  <2>2. up'[u].pc = "reading" /\ up'[u].sess = up[u].sess
    BY <1>1, <2>1 DEF TypeOK, UpSlot
  <2>3. sess[up[u].sess] \in Session
    BY <1>1, SessTyped
  <2>4. /\ DOMAIN sess' = DOMAIN sess /\ sess'[up[u].sess].lease = u
        /\ \A t \in DOMAIN sess : t # up[u].sess => sess'[t] = sess[t]
    BY <1>1, <2>1, <2>3 DEF TypeOK, Session
  <2>5. \A t \in DOMAIN sess : sess[t].lease # u
    BY <1>1 DEF LeaseHeldByReader
  <2> QED BY <1>2, <2>2, <2>4, <2>5 DEF LeaseHeldByReader
<1>4. CASE sess[up[u].sess].lease # None
  BY <1>1, <1>2, <1>4, LeasesShrink DEF UpLease
<1> QED BY <1>3, <1>4

\* The reader that ends gives its own lease back, and no other.
LEMMA LeaseReturned ==
  ASSUME TypeOK, LeaseHeldByReader, NEW u \in Up, UpEnds(u)
  PROVE  LeaseHeldByReader'
<1>1. up[u].sess \in DOMAIN sess
  BY DEF UpEnds, TypeOK, UpSlot, Arc
<1>2. \A v \in Up : v # u => up'[v] = up[v]
  BY DEF UpEnds, TypeOK
<1>3. \A t \in DOMAIN sess : t # up[u].sess => sess[t].lease # u
  BY DEF LeaseHeldByReader
<1>4. CASE sess[up[u].sess].lease = u
  <2>1. sess' = [sess EXCEPT ![up[u].sess] = [sess[up[u].sess] EXCEPT !.lease = None]]
    BY <1>4 DEF UpEnds
  <2>2. sess[up[u].sess] \in Session
    BY <1>1, SessTyped
  <2>3. /\ DOMAIN sess' = DOMAIN sess /\ sess'[up[u].sess].lease = None
        /\ \A t \in DOMAIN sess : t # up[u].sess => sess'[t] = sess[t]
    BY <1>1, <2>1, <2>2 DEF TypeOK, Session
  <2> QED BY <1>2, <1>3, <2>3, Distinct DEF LeaseHeldByReader
<1>5. CASE sess[up[u].sess].lease # u
  <2>1. sess' = sess
    BY <1>5 DEF UpEnds
  <2> QED BY <1>2, <1>3, <1>5, <2>1 DEF LeaseHeldByReader
<1> QED BY <1>4, <1>5

\* An upload lease never outlives its reader, for any number of connections,
\* requests, Arcs and generations: 409 Upload busy is answered only while the
\* earlier /stream/up body is still being read.
THEOREM Leases == Spec => []LeaseHeldByReader
<1>1. Init => LeaseHeldByReader
  BY DEF Init, LeaseHeldByReader
<1>2. TypeOK /\ LeaseHeldByReader /\ [Next]_vars => LeaseHeldByReader'
  <2> SUFFICES ASSUME TypeOK, LeaseHeldByReader, [Next]_vars PROVE LeaseHeldByReader'
    OBVIOUS
  <2>1. ASSUME sess' = sess, \A u \in Up : up[u].pc = "reading" => up'[u] = up[u]
        PROVE  LeaseHeldByReader'
    BY <2>1, LeasesShrink
  <2>2. ASSUME NEW c \in Conn, NEW q \in Conn \cup {None}, NEW s \in Sess, Enter(c, q, s), up' = up
        PROVE  LeaseHeldByReader'
    <3>1. CASE entry = None
      BY <2>2, <3>1, InsertKeepsLeases DEF Enter
    <3>2. CASE entry # None
      <4> DEFINE x == InstallChannels(sess[entry], c, q)
      <4>1. entry \in DOMAIN sess /\ sess' = [sess EXCEPT ![entry] = x]
        BY <2>2, <3>2 DEF Enter, TypeOK, Arc
      <4>2. x.lease = None
        BY DEF InstallChannels
      <4> HIDE DEF x
      <4> QED BY <2>2, <4>1, <4>2, WriteKeepsLeases, Zenon
    <3> QED BY <3>1, <3>2
  <2>3. ASSUME NEW c \in H2Conn, Register(c) PROVE LeaseHeldByReader'
    BY <2>2, <2>3 DEF Register, Conn
  <2>4. ASSUME NEW c \in QuicConn, QuicRegister(c) PROVE LeaseHeldByReader'
    BY <2>2, <2>4 DEF QuicRegister, Conn
  <2>5. ASSUME NEW s \in DOMAIN sess, NEW b \in BOOLEAN, up' = up,
               sess' = [sess EXCEPT ![s] = [sess[s] EXCEPT !.aged = b]]
        PROVE  LeaseHeldByReader'
    <3> DEFINE x == [sess[s] EXCEPT !.aged = b]
    <3>1. x.lease = sess[s].lease
      BY SessTyped DEF Session
    <3>2. sess' = [sess EXCEPT ![s] = x]
      BY <2>5
    <3> HIDE DEF x
    <3> QED BY <2>5, <3>1, <3>2, WriteKeepsLeases, Zenon
  <2>6. ASSUME NEW p \in Poll, PollImplicit(p) PROVE LeaseHeldByReader'
    <3>1. poll[p].conn \in Conn /\ up' = up
      BY <2>6, PollTyped DEF PollImplicit, Conn
    <3> QED BY <2>6, <3>1, InsertKeepsLeases DEF PollImplicit, Reinsert
  <2>7. ASSUME NEW u \in Up, UpImplicit(u) PROVE LeaseHeldByReader'
    <3>1. up[u].conn \in Conn
      BY <2>7 DEF UpImplicit, TypeOK, UpSlot, Conn
    <3>2. \A v \in Up : up[v].pc = "reading" => up'[v] = up[v]
      BY <2>7 DEF UpImplicit, TypeOK
    <3> QED BY <2>7, <3>1, <3>2, InsertKeepsLeases, Zenon DEF UpImplicit, Reinsert
  <2>8. ASSUME NEW s \in DOMAIN sess, NEW n \in OptNat, up' = up,
               sess' = [sess EXCEPT ![s] = [sess[s] EXCEPT !.rx = n, !.ctrl = n]]
        PROVE  LeaseHeldByReader'
    <3> DEFINE x == [sess[s] EXCEPT !.rx = n, !.ctrl = n]
    <3>1. x.lease = sess[s].lease
      BY SessTyped DEF Session
    <3>2. sess' = [sess EXCEPT ![s] = x]
      BY <2>8
    <3> HIDE DEF x
    <3> QED BY <2>8, <3>1, <3>2, WriteKeepsLeases, Zenon
  <2>9. ASSUME NEW p \in Poll, PollTakeParked(p) \/ ReturnReceivers(p) PROVE LeaseHeldByReader'
    <3>0. poll[p].pc \in {"take", "dropped"} /\ up' = up
      BY <2>9, Zenon DEF PollTakeParked, ReturnReceivers
    <3>1. poll[p].sess \in DOMAIN sess /\ poll[p].chan \in OptNat /\ None \in OptNat
      BY <3>0, PollTyped DEF PollSlot, OptNat
    <3>2. \/ sess' = sess
          \/ \E n \in OptNat : sess' = [sess EXCEPT ![poll[p].sess] =
                                          [sess[poll[p].sess] EXCEPT !.rx = n, !.ctrl = n]]
      BY <2>9, <3>1, Zenon DEF PollTakeParked, ReturnReceivers
    <3> QED BY <2>1, <2>8, <3>0, <3>1, <3>2, Zenon
  <2>10. ASSUME NEW s \in DOMAIN sess, up' = up,
                \/ sess' = [sess EXCEPT ![s] = Terminate(sess[s])]
                \/ sess' = [sess EXCEPT ![s] = Nudged(sess[s])]
                \/ sess' = [sess EXCEPT ![s] = RecreateChannels(sess[s])]
         PROVE  LeaseHeldByReader'
    <3>1. /\ Terminate(sess[s]).lease = None /\ Nudged(sess[s]).lease = sess[s].lease
          /\ RecreateChannels(sess[s]).lease = sess[s].lease
      BY SessTyped DEF Terminate, Nudged, RecreateChannels, Session
    <3> QED BY <2>10, <3>1, WriteKeepsLeases
  <2>11. ASSUME NEW p \in Poll, PollRecreate(p) PROVE LeaseHeldByReader'
    <3>1. poll[p].sess \in DOMAIN sess
      BY <2>11, PollTyped DEF PollRecreate
    <3> QED BY <2>10, <2>11, <3>1, Zenon DEF PollRecreate
  <2>12. ASSUME NEW p \in Poll, PollStep(p) PROVE LeaseHeldByReader'
    <3>1. \/ PollLookup(p) \/ PollCheck(p) \/ PollBusy(p) \/ PollAborted(p)
          \/ BodyStale(p) \/ BodyDropped(p) \/ \E k \in Signal : GraceExpires(p, k)
          => sess' = sess /\ up' = up
      BY DEF PollLookup, PollCheck, PollBusy, PollAborted, BodyStale, BodyDropped, GraceExpires
    <3> QED BY <2>1, <2>6, <2>9, <2>11, <2>12, <3>1 DEF PollStep
  <2>13. ASSUME NEW u \in Up, UpStep(u) PROVE LeaseHeldByReader'
    <3>1. UpLookup(u) \/ UpCheck(u) \/ UpAborted(u) =>
            sess' = sess /\ \A v \in Up : up[v].pc = "reading" => up'[v] = up[v]
      BY DEF UpLookup, UpCheck, UpAborted, TypeOK
    <3> QED BY <2>1, <2>7, <2>13, <3>1, LeaseGranted, LeaseReturned DEF UpStep
  <2>14. ASSUME NEW u \in Up, NEW c \in H2Conn, UpSend(u, c) PROVE LeaseHeldByReader'
    BY <2>1, <2>14 DEF UpSend, TypeOK
  <2>15. ASSUME NEW u \in Up, UpPong(u) PROVE LeaseHeldByReader'
    BY <2>5, <2>15, Zenon DEF UpPong, TypeOK, Arc
  <2>16. ASSUME NEW c \in QuicConn, QuicPong(c) PROVE LeaseHeldByReader'
    <3>1. quic[c].sess \in DOMAIN sess
      BY <2>16 DEF QuicPong, TypeOK, QuicSlot, Arc
    <3> QED BY <2>5, <2>16, <3>1, Zenon DEF QuicPong
  <2>17. ASSUME NEW s \in Sess, PongAges(s) PROVE LeaseHeldByReader'
    BY <2>5, <2>17, Zenon DEF PongAges
  <2>18. ASSUME NEW k \in Signal, SignalStep(k) \/ SendTimeout(k) PROVE LeaseHeldByReader'
    <3>1. EvictById(k) \/ Funnel(k) \/ SendTimeout(k) => sess' = sess /\ up' = up
      BY Zenon DEF EvictById, Funnel, SendTimeout
    <3>2. ASSUME Sever(k) PROVE LeaseHeldByReader'
      <4>1. signal[k].sess \in DOMAIN sess
        BY <3>2 DEF Sever, TypeOK, SignalSlot, Arc
      <4> QED BY <2>10, <3>2, <4>1, Zenon DEF Sever
    <3> QED BY <2>1, <2>18, <3>1, <3>2 DEF SignalStep
  <2>19. ASSUME Nudge PROVE LeaseHeldByReader'
    <3>1. entry \in DOMAIN sess
      BY <2>19, Zenon DEF Nudge, TypeOK, Arc
    <3> QED BY <2>10, <2>19, <3>1, Zenon DEF Nudge
  <2>20. ASSUME NEW c \in QuicConn, QuicStep(c) PROVE LeaseHeldByReader'
    <3>1. \/ QuicAck(c) \/ QuicAckFails(c) \/ QuicArm(c) \/ QuicTick(c)
          \/ \E k \in Signal : QuicClosed(c, k) \/ QuicJudge(c, k)
          => sess' = sess /\ up' = up
      BY DEF QuicAck, QuicAckFails, QuicArm, QuicTick, QuicClosed, QuicJudge
    <3> QED BY <2>1, <2>4, <2>20, <3>1 DEF QuicStep
  <2>21. CASE \/ \E c \in Conn : Dial(c) \/ Disconnect(c)
              \/ HbStep \/ \E p \in Poll, c \in H2Conn : PollSend(p, c)
              \/ UNCHANGED vars
    <3>1. sess' = sess /\ up' = up
      BY <2>21, Zenon DEF Dial, Disconnect, HbStep, HbSnapshot, HbVisit, PollSend, vars
    <3> QED BY <2>1, <3>1
  <2> QED
    BY <2>3, <2>12, <2>13, <2>14, <2>15, <2>16, <2>17, <2>18, <2>19, <2>20, <2>21 DEF Next
<1> QED BY <1>1, <1>2, Typing, PTL DEF Spec
===============================================================================
