----------------------------- MODULE AgentProofs -----------------------------
(***************************************************************************)
(* What holds of an agent's ingress and egress for every value of the      *)
(* constants: the reconciler's listeners and the count of incoming         *)
(* streams.                                                                *)
(***************************************************************************)
EXTENDS IngressRules, EgressStreams, FiniteSetTheorems, TLAPS

-----------------------------------------------------------------------------
(* The reconciler.                                                         *)

ListenInv == IngressTypeOK /\ ServedByItsSocket

\* Whatever a bind takes is an address of the rule, and free.
LEMMA TargetsFree ==
  ASSUME IngressTypeOK, NEW n \in Name, Turn(n), NEW a \in BindTargets(n)
  PROVE  a \in Addr /\ Free(a) /\ ig.want[n].addr \in {a, AnyPort}
  <1>1. ig.want[n] \in Rule  BY DEF IngressTypeOK, IngressState, RuleTable, Turn
  <1>2. ig.want[n].addr \in Addr \cup {AnyPort}  BY <1>1 DEF Rule
  <1>3. ig.pin[n] \in Addr \cup {Nothing}  BY DEF IngressTypeOK, IngressState
  <1> QED  BY <1>2, <1>3 DEF BindTargets

\* The step of a rule that is bound anew.
LEMMA BindStep ==
  ASSUME ListenInv, NEW n \in Name, BindOk(n)
  PROVE  ListenInv' /\ ig'.sock[n] # Nothing /\ \A m \in Name : m # n => ig'.sock[m] = ig.sock[m]
  <1> USE IngressAssumption
  <1>1. Turn(n)  BY DEF BindOk, NeedsBind
  <1>2. PICK a \in BindTargets(n) :
          ig' = [ig EXCEPT !.todo = @ \ {n}, !.sock[n] = a, !.pin[n] = a,
                           !.bound[n] = ig.want[n], !.face[n] = "bound"]
    BY Zenon DEF BindOk
  <1>3. a \in Addr /\ Free(a) /\ ig.want[n].addr \in {a, AnyPort}
    BY <1>1, TargetsFree DEF ListenInv
  <1>4. ig.want[n] \in Rule /\ ig.want[n] # Nothing
    BY <1>1 DEF ListenInv, IngressTypeOK, IngressState, RuleTable, Turn
  <1>5. /\ ig'.sock = [ig.sock EXCEPT ![n] = a] /\ ig'.bound = [ig.bound EXCEPT ![n] = ig.want[n]]
        /\ ig.sock \in [Name -> Addr \cup {Nothing}] /\ ig.bound \in RuleTable
    BY <1>2 DEF ListenInv, IngressTypeOK, IngressState
  <1>6. IngressTypeOK'
    <2>1. /\ [ig.sock EXCEPT ![n] = a] \in [Name -> Addr \cup {Nothing}]
          /\ [ig.pin EXCEPT ![n] = a] \in [Name -> Addr \cup {Nothing}]
          /\ [ig.bound EXCEPT ![n] = ig.want[n]] \in RuleTable
          /\ [ig.face EXCEPT ![n] = "bound"] \in [Name -> {"none", "bound", "failed"}]
          /\ ig.todo \ {n} \in SUBSET Name
      BY <1>3, <1>4 DEF ListenInv, IngressTypeOK, IngressState, RuleTable
    <2>2. ig' = [ig EXCEPT !.todo = ig.todo \ {n}, !.sock = [ig.sock EXCEPT ![n] = a],
                           !.pin = [ig.pin EXCEPT ![n] = a],
                           !.bound = [ig.bound EXCEPT ![n] = ig.want[n]],
                           !.face = [ig.face EXCEPT ![n] = "bound"]]
      BY <1>2 DEF ListenInv, IngressTypeOK, IngressState
    <2> QED  BY <2>1, <2>2, Zenon DEF ListenInv, IngressTypeOK, IngressState
  <1>7. \A m \in Name : /\ ig'.sock[m] = IF m = n THEN a ELSE ig.sock[m]
                        /\ ig'.bound[m] = IF m = n THEN ig.want[n] ELSE ig.bound[m]
    BY <1>5 DEF RuleTable
  <1>8. ServedByItsSocket'
    BY <1>3, <1>4, <1>7 DEF ListenInv, ServedByItsSocket, Free
  <1> QED  BY <1>3, <1>6, <1>7, <1>8 DEF ListenInv

\* The step of a listener that stops.
LEMMA StopStep ==
  ASSUME ListenInv, NEW n \in Name, StopGone(n)
  PROVE  ListenInv' /\ \A m \in Name : ig.want[m] # Nothing => ig'.sock[m] = ig.sock[m]
  <1> DEFINE p == IF ig.bound[n] # Nothing THEN Nothing ELSE ig.pin[n]
             f == IF ig.bound[n] # Nothing THEN "none" ELSE ig.face[n]
  <1>1. /\ ig'.sock = [ig.sock EXCEPT ![n] = Nothing]
        /\ ig'.bound = [ig.bound EXCEPT ![n] = Nothing]
        /\ ig.sock \in [Name -> Addr \cup {Nothing}] /\ ig.bound \in RuleTable
        /\ ig.want[n] = Nothing
    BY DEF ListenInv, IngressTypeOK, IngressState, StopGone, Gone
  <1>2. IngressTypeOK'
    <2>1. /\ [ig.sock EXCEPT ![n] = Nothing] \in [Name -> Addr \cup {Nothing}]
          /\ [ig.pin EXCEPT ![n] = p] \in [Name -> Addr \cup {Nothing}]
          /\ [ig.bound EXCEPT ![n] = Nothing] \in RuleTable
          /\ [ig.face EXCEPT ![n] = f] \in [Name -> {"none", "bound", "failed"}]
          /\ ig.todo \ {n} \in SUBSET Name
      BY DEF ListenInv, IngressTypeOK, IngressState, RuleTable
    <2>2. ig' = [ig EXCEPT !.todo = ig.todo \ {n}, !.sock = [ig.sock EXCEPT ![n] = Nothing],
                           !.pin = [ig.pin EXCEPT ![n] = p],
                           !.bound = [ig.bound EXCEPT ![n] = Nothing],
                           !.face = [ig.face EXCEPT ![n] = f]]
      BY Zenon DEF ListenInv, IngressTypeOK, IngressState, StopGone
    <2> HIDE DEF p, f
    <2> QED  BY <2>1, <2>2, Zenon DEF ListenInv, IngressTypeOK, IngressState
  <1>3. \A m \in Name : /\ ig'.sock[m] = IF m = n THEN Nothing ELSE ig.sock[m]
                        /\ ig'.bound[m] = IF m = n THEN Nothing ELSE ig.bound[m]
    BY <1>1 DEF RuleTable
  <1>4. ServedByItsSocket'
    BY <1>3 DEF ListenInv, ServedByItsSocket
  <1> QED  BY <1>1, <1>2, <1>3, <1>4 DEF ListenInv

\* The parameters of a listener that keeps its address.
LEMMA ParamsStep ==
  ASSUME ListenInv, NEW n \in Name, UpdateParams(n)
  PROVE  ListenInv' /\ ig'.sock = ig.sock
  <1>1. /\ ig'.sock = ig.sock /\ ig'.bound = [ig.bound EXCEPT ![n] = ig.want[n]]
        /\ ig.bound \in RuleTable /\ ig.want[n] \in Rule /\ ig.want[n] # Nothing
        /\ ig.bound[n] # Nothing /\ ig.bound[n].addr = ig.want[n].addr
    BY DEF ListenInv, IngressTypeOK, IngressState, RuleTable, UpdateParams, Turn, classify
  <1>2. IngressTypeOK'
    <2>1. /\ [ig.bound EXCEPT ![n] = ig.want[n]] \in RuleTable
          /\ [ig.face EXCEPT ![n] = "bound"] \in [Name -> {"none", "bound", "failed"}]
          /\ ig.todo \ {n} \in SUBSET Name
      BY <1>1 DEF ListenInv, IngressTypeOK, IngressState, RuleTable
    <2>2. ig' = [ig EXCEPT !.todo = ig.todo \ {n},
                           !.bound = [ig.bound EXCEPT ![n] = ig.want[n]],
                           !.face = [ig.face EXCEPT ![n] = "bound"]]
      BY DEF ListenInv, IngressTypeOK, IngressState, UpdateParams
    <2> QED  BY <2>1, <2>2, Zenon DEF ListenInv, IngressTypeOK, IngressState
  <1>3. \A m \in Name : ig'.bound[m] = IF m = n THEN ig.want[n] ELSE ig.bound[m]
    BY <1>1 DEF RuleTable
  <1>4. ServedByItsSocket'
    BY <1>1, <1>3 DEF ListenInv, ServedByItsSocket
  <1> QED  BY <1>1, <1>2, <1>4 DEF ListenInv

\* Steps that touch neither cells nor sockets.
LEMMA ListenersRest ==
  ASSUME ListenInv, ig' \in IngressState, ig'.sock = ig.sock, ig'.bound = ig.bound
  PROVE  ListenInv'
  BY DEF ListenInv, IngressTypeOK, ServedByItsSocket

OtherIngress ==
  \/ \E s \in RuleTable : ReplaceIngress(s)
  \/ \E n \in Name, r \in Rule : HandleAdd(n, r)
  \/ \E n \in Name : HandleRemove(n) \/ Keep(n) \/ BindFails(n)
  \/ SessionStarts \/ Wake \/ PassEnds
  \/ \E a \in Addr : AlienMoves(a)

LEMMA OtherStep ==
  ASSUME ListenInv, OtherIngress
  PROVE  ListenInv' /\ ig'.sock = ig.sock
  <1> USE IngressAssumption DEF IngressTypeOK
  <1>t. ig \in IngressState  BY DEF ListenInv
  <1>0. Empty \in RuleTable  BY DEF Empty, RuleTable
  <1>1. ASSUME NEW s \in RuleTable, ReplaceIngress(s)
        PROVE  ig' \in IngressState /\ ig'.sock = ig.sock /\ ig'.bound = ig.bound
    <2>1. ig.changes + 1 \in 0..MaxChange  BY <1>1, <1>t DEF ReplaceIngress, IngressState
    <2> QED  BY <1>1, <1>t, <2>1, Zenon DEF ReplaceIngress, IngressState
  <1>2. ASSUME NEW n \in Name, NEW r \in Rule \cup {Nothing}, ig.changes < MaxChange,
               ig' = Snapshot([ig EXCEPT !.store[n] = r, !.changes = @ + 1])
        PROVE  ig' \in IngressState /\ ig'.sock = ig.sock /\ ig'.bound = ig.bound
    <2>1. ig.changes + 1 \in 0..MaxChange  BY <1>2, <1>t DEF IngressState
    <2>2. [ig.store EXCEPT ![n] = r] \in RuleTable  BY <1>t DEF IngressState, RuleTable
    <2>3. ig' = [ig EXCEPT !.store = [ig.store EXCEPT ![n] = r], !.changes = ig.changes + 1,
                           !.pass = TRUE, !.want = [ig.store EXCEPT ![n] = r], !.todo = Name]
      BY <1>2, <1>t DEF Snapshot, IngressState
    <2> QED  BY <1>t, <2>1, <2>2, <2>3, Zenon DEF IngressState
  <1>3. ASSUME NEW n \in Name, Keep(n) \/ BindFails(n)
        PROVE  ig' \in IngressState /\ ig'.sock = ig.sock /\ ig'.bound = ig.bound
    <2>1. ig.todo \ {n} \in SUBSET Name /\ ig.face \in [Name -> {"none", "bound", "failed"}]
      BY <1>t DEF IngressState
    <2>2. [ig.face EXCEPT ![n] = "failed"] \in [Name -> {"none", "bound", "failed"}]  BY <2>1
    <2> QED  BY <1>3, <1>t, <2>1, <2>2, Zenon DEF Keep, BindFails, IngressState
  <1>4. CASE SessionStarts \/ Wake
    <2>1. ig' \in IngressState /\ ig'.sock = ig.sock /\ ig'.bound = ig.bound
      <3>1. \/ ig' = [ig EXCEPT !.pass = TRUE, !.want = ig.store, !.todo = Name]
            \/ ig' = [ig EXCEPT !.up = TRUE, !.first = TRUE, !.pass = TRUE, !.want = ig.store,
                               !.todo = Name]
        BY <1>4, <1>t DEF SessionStarts, Wake, Snapshot, IngressState
      <3>2. Name \in SUBSET Name /\ ig.store \in RuleTable  BY <1>t DEF IngressState
      <3>3. CASE ig' = [ig EXCEPT !.pass = TRUE, !.want = ig.store, !.todo = Name]
        BY <1>t, <3>2, <3>3, Zenon DEF IngressState
      <3>4. CASE ig' = [ig EXCEPT !.up = TRUE, !.first = TRUE, !.pass = TRUE, !.want = ig.store,
                                  !.todo = Name]
        BY <1>t, <3>2, <3>4, Zenon DEF IngressState
      <3> QED  BY <3>1, <3>3, <3>4
    <2> QED  BY <2>1, ListenersRest
  <1>5. CASE PassEnds
    <2>1. ig' \in IngressState /\ ig'.sock = ig.sock /\ ig'.bound = ig.bound
      BY <1>5, <1>t, <1>0, Zenon DEF PassEnds, IngressState
    <2> QED  BY <2>1, ListenersRest
  <1>6. ASSUME NEW a \in Addr, AlienMoves(a)
        PROVE  ig' \in IngressState /\ ig'.sock = ig.sock /\ ig'.bound = ig.bound
    BY <1>6, <1>t DEF AlienMoves, IngressState
  <1>7. ASSUME NEW n \in Name, NEW r \in Rule, HandleAdd(n, r)
        PROVE  ig' \in IngressState /\ ig'.sock = ig.sock /\ ig'.bound = ig.bound
    BY <1>2, <1>7, Zenon DEF HandleAdd
  <1>8. ASSUME NEW n \in Name, HandleRemove(n)
        PROVE  ig' \in IngressState /\ ig'.sock = ig.sock /\ ig'.bound = ig.bound
    BY <1>2, <1>8, Zenon DEF HandleRemove
  <1> QED  BY <1>1, <1>3, <1>4, <1>5, <1>6, <1>7, <1>8, ListenersRest DEF OtherIngress

LEMMA LostStep == ASSUME ListenInv, SessionLost PROVE ListenInv' /\ ~ig'.up
  <1> USE IngressAssumption
  <1>1. ig \in IngressState /\ Empty \in RuleTable /\ Empty \in [Name -> Addr \cup {Nothing}]
    BY DEF ListenInv, IngressTypeOK, Empty, RuleTable
  <1>2. ig' \in IngressState /\ ig'.sock = Empty /\ ig'.bound = Empty /\ ~ig'.up
    BY <1>1, Zenon DEF SessionLost, IngressState
  <1> QED  BY <1>2 DEF ListenInv, IngressTypeOK, ServedByItsSocket, Empty

\* No step of a session trades a working listener for a hole.
KeepsListener ==
  \A n \in Name : ig.sock[n] # Nothing /\ ig.want[n] # Nothing /\ ig'.up => ig'.sock[n] # Nothing

LEMMA ListenStep == ASSUME ListenInv, [IngressNext]_ig PROVE ListenInv' /\ KeepsListener
  <1>1. CASE UNCHANGED ig
    BY <1>1 DEF ListenInv, IngressTypeOK, ServedByItsSocket, KeepsListener
  <1>2. CASE OtherIngress  BY <1>2, OtherStep DEF KeepsListener
  <1>3. CASE SessionLost  BY <1>3, LostStep DEF KeepsListener
  <1>4. ASSUME NEW n \in Name, BindOk(n) PROVE ListenInv' /\ KeepsListener
    BY <1>4, BindStep DEF KeepsListener
  <1>5. ASSUME NEW n \in Name, StopGone(n) PROVE ListenInv' /\ KeepsListener
    BY <1>5, StopStep DEF KeepsListener
  <1>6. ASSUME NEW n \in Name, UpdateParams(n) PROVE ListenInv' /\ KeepsListener
    BY <1>6, ParamsStep DEF KeepsListener
  <1>7. IngressNext => \/ OtherIngress \/ SessionLost
                       \/ \E n \in Name : BindOk(n) \/ StopGone(n) \/ UpdateParams(n)
    BY Zenon DEF IngressNext, ReconcileStep, OtherIngress
  <1> QED  BY <1>1, <1>2, <1>3, <1>4, <1>5, <1>6, <1>7, Zenon

LEMMA ListenStart == ASSUME IngressInit PROVE ListenInv
  <1> USE IngressAssumption
  <1>1. PICK s \in FirstRules : ig = IngressStart(s)  BY DEF IngressInit
  <1>2. s \in RuleTable  BY DEF FirstRules
  <1>3. Empty \in RuleTable /\ Empty \in [Name -> Addr \cup {Nothing}]
    BY DEF Empty, RuleTable
  <1>4. IngressTypeOK /\ ig.sock = Empty /\ ig.bound = Empty
    BY <1>1, <1>2, <1>3 DEF IngressTypeOK, IngressState, IngressStart
  <1> QED  BY <1>4 DEF ListenInv, ServedByItsSocket, Empty

\* For any rules, addresses and alien processes: a serving cell and its socket
\* go together, no two listeners share a socket, and the reconciler of a
\* session never trades a working listener for a hole.
THEOREM Rules == IngressSpec => RulesServed
  <1>1. IngressInit => ListenInv  BY ListenStart
  <1>2. ListenInv /\ [IngressNext]_ig => ListenInv'  BY ListenStep
  <1>3. ListenInv /\ [IngressNext]_ig => [KeepsListener]_ig  BY ListenStep
  <1>4. ListenInv => ServedByItsSocket  BY DEF ListenInv
  <1>5. IngressSpec => [][KeepsListener]_ig /\ []ServedByItsSocket
    BY <1>1, <1>2, <1>3, <1>4, PTL DEF IngressSpec
  <1> QED  BY <1>5 DEF RulesServed, NoHole, KeepsListener

-----------------------------------------------------------------------------
(* The count of incoming streams.                                          *)

\* The state, with a count that the next steps do not bound.
EgressFields ==
  [active : Int, cut : BOOLEAN, tcp : [TcpStream -> TcpPoint],
   asc : {"none", "handshake", "identity", "select", "open", "gates", "count",
          "accept", "over", "echo", "gone"},
   cur : SUBSET UdpSession, senders : SUBSET UdpSession, controls : SUBSET UdpSession,
   reader : [UdpSession -> {"none", "read", "sent", "sentOwed", "gone"}],
   back : [UdpSession -> {"none", "dial", "run", "close", "gone"}],
   cmds : Seq(UdpSession), asked : SUBSET UdpSession]

Opening == {"open", "gates", "count", "accept"}

\* A session is opened once: until its Accept it has no reader, and a reader
\* that owes a place has taken its session out of the table for good.
OpenedOnce ==
  /\ IF eg.asc \in Opening THEN \E u \in UdpSession : eg.cur = {u} ELSE eg.cur = {}
  /\ \A u \in eg.cur : /\ u \in eg.asked /\ eg.reader[u] = "none"
                       /\ eg.asc # "accept" => u \notin eg.senders
  /\ \A u \in UdpSession : u \in eg.senders \/ eg.reader[u] # "none" => u \in eg.asked
  /\ \A u \in eg.senders : eg.reader[u] # "sentOwed"

\* What the cap leaves of the count.
CountCapped ==
  MaxIncoming > 0 => /\ eg.active <= MaxIncoming + 1
                     /\ eg.asc = "count" => eg.active <= MaxIncoming

EgressInv == eg \in EgressFields /\ OpenedOnce /\ CountCapped /\ NeverUndercounted

Ended == {"none", "echo", "gone"}

\* Cardinalities of what is alive.
LEMMA LiveCards ==
  ASSUME eg \in EgressFields
  PROVE  /\ IsFiniteSet(LiveTcp) /\ IsFiniteSet(LiveSessions)
         /\ Cardinality(LiveTcp) \in Nat /\ Cardinality(LiveSessions) \in Nat
         /\ LiveAssociation \in {0, 1}
  <1>1. LiveTcp \subseteq TcpStream /\ LiveSessions \subseteq UdpSession
    BY DEF LiveTcp, LiveSessions, EgressFields
  <1>2. IsFiniteSet(LiveTcp) /\ IsFiniteSet(LiveSessions)
    BY <1>1, FS_Subset, EgressAssumption
  <1>3. Cardinality(LiveTcp) \in Nat /\ Cardinality(LiveSessions) \in Nat
    BY <1>2, FS_CardinalityType
  <1> QED  BY <1>2, <1>3 DEF LiveAssociation

\* A step of a TCP forwarder: it is counted when it comes to life and
\* discounted when it ends.
LEMMA TcpMoves ==
  ASSUME EgressInv, NEW s \in TcpStream, NEW p \in TcpPoint, NEW n \in Int,
         eg' = [eg EXCEPT !.active = n, !.tcp[s] = p],
         \/ n = eg.active /\ (p \in Ended <=> eg.tcp[s] \in Ended)
         \/ /\ n = eg.active + 1 /\ eg.tcp[s] \in Ended /\ p \notin Ended
            /\ MaxIncoming > 0 => n <= MaxIncoming
         \/ n = eg.active - 1 /\ eg.tcp[s] \notin Ended /\ p \in Ended
  PROVE  EgressInv'
  <1> USE EgressAssumption
  <1>1. eg \in EgressFields  BY DEF EgressInv
  <1>2. /\ eg'.active = n /\ eg'.tcp = [eg.tcp EXCEPT ![s] = p] /\ eg'.asc = eg.asc
        /\ eg'.cur = eg.cur /\ eg'.senders = eg.senders /\ eg'.reader = eg.reader
        /\ eg'.asked = eg.asked
    BY <1>1 DEF EgressFields
  <1>3. eg' \in EgressFields
    <2>1. [eg.tcp EXCEPT ![s] = p] \in [TcpStream -> TcpPoint]  BY <1>1 DEF EgressFields
    <2>2. eg' = [eg EXCEPT !.active = n, !.tcp = [eg.tcp EXCEPT ![s] = p]]
      BY <1>1 DEF EgressFields
    <2> QED  BY <1>1, <2>1, <2>2, Zenon DEF EgressFields
  <1>4. OpenedOnce'  BY <1>2 DEF EgressInv, OpenedOnce
  <1>5. CountCapped'  BY <1>1, <1>2 DEF EgressInv, CountCapped, EgressFields
  <1>6. LiveSessions' = LiveSessions /\ LiveAssociation' = LiveAssociation
    BY <1>2 DEF LiveSessions, LiveAssociation
  <1>7. \A t \in TcpStream : eg'.tcp[t] = IF t = s THEN p ELSE eg.tcp[t]
    BY <1>1, <1>2 DEF EgressFields
  <1>8. LiveTcp' = IF p \in Ended THEN LiveTcp \ {s} ELSE LiveTcp \cup {s}
    BY <1>7 DEF LiveTcp, Ended
  <1>9. s \in LiveTcp <=> eg.tcp[s] \notin Ended
    BY DEF LiveTcp, Ended
  <1>10. IsFiniteSet(LiveTcp) /\ Cardinality(LiveTcp) \in Nat
    BY <1>1, LiveCards
  <1>11. /\ Cardinality(LiveTcp \ {s}) = IF s \in LiveTcp THEN Cardinality(LiveTcp) - 1
                                         ELSE Cardinality(LiveTcp)
         /\ Cardinality(LiveTcp \cup {s}) = IF s \in LiveTcp THEN Cardinality(LiveTcp)
                                            ELSE Cardinality(LiveTcp) + 1
    BY <1>10, FS_AddElement, FS_RemoveElement, Zenon
  <1>12. n - Cardinality(LiveTcp') >= eg.active - Cardinality(LiveTcp)
    <2>1. eg.active \in Int  BY <1>1 DEF EgressFields
    <2> QED  BY <1>8, <1>9, <1>10, <1>11, <2>1
  <1>13. NeverUndercounted'
    <2>1. eg.active \in Int  BY <1>1 DEF EgressFields
    <2>2. Cardinality(LiveTcp') \in Nat  BY <1>8, <1>9, <1>10, <1>11, FS_CardinalityType, FS_AddElement, FS_RemoveElement
    <2> QED  BY <1>1, <1>2, <1>6, <1>10, <1>12, <2>1, <2>2, LiveCards
           DEF EgressInv, NeverUndercounted, LiveTasks
  <1> QED  BY <1>3, <1>4, <1>5, <1>13 DEF EgressInv

LEMMA TcpSteps ==
  ASSUME EgressInv, NEW s \in TcpStream, TcpIncoming(s) \/ TcpStep(s) \/ PumpEnds(s)
  PROVE  EgressInv'
  <1> USE EgressAssumption
  <1>1. eg \in EgressFields /\ eg.active \in Int /\ eg.tcp[s] \in TcpPoint
    BY DEF EgressInv, EgressFields
  <1>2. \A p : [eg EXCEPT !.tcp[s] = p] = [eg EXCEPT !.active = eg.active, !.tcp[s] = p]
    BY <1>1, Zenon DEF EgressFields
  <1>3. ASSUME NEW p \in TcpPoint, eg' = [eg EXCEPT !.tcp[s] = p],
               p \in Ended <=> eg.tcp[s] \in Ended
        PROVE  EgressInv'
    BY <1>1, <1>2, <1>3, TcpMoves, Zenon
  <1>4. ASSUME eg' = FinishStream(s), eg.tcp[s] \notin Ended PROVE EgressInv'
    <2>1. eg' = [eg EXCEPT !.active = eg.active - 1, !.tcp[s] = "echo"]
      BY <1>1, <1>4 DEF FinishStream, EgressFields
    <2>2. "echo" \in TcpPoint /\ "echo" \in Ended /\ eg.active - 1 \in Int
      BY <1>1 DEF TcpPoint, Ended
    <2> QED  BY <1>4, <2>1, <2>2, TcpMoves, Zenon
  <1>5. ASSUME eg' = [eg EXCEPT !.active = @ + 1, !.tcp[s] = "handshake"], eg.tcp[s] \in Ended,
               ~OverCap(eg.active + 1)
        PROVE  EgressInv'
    <2>1. eg' = [eg EXCEPT !.active = eg.active + 1, !.tcp[s] = "handshake"]
      BY <1>1, <1>5 DEF EgressFields
    <2>2. /\ "handshake" \in TcpPoint /\ "handshake" \notin Ended /\ eg.active + 1 \in Int
          /\ MaxIncoming > 0 => eg.active + 1 <= MaxIncoming
      BY <1>1, <1>5 DEF TcpPoint, Ended, OverCap
    <2> QED  BY <1>5, <2>1, <2>2, TcpMoves, Zenon
  <1>6. CASE TcpIncoming(s)
    BY <1>3, <1>5, <1>6 DEF TcpIncoming, Ended, TcpPoint
  <1>7. CASE Unregistered(s)
    BY <1>3, <1>7 DEF Unregistered, Ended, TcpPoint
  <1>8. CASE InnerHandshake(s)
    BY <1>3, <1>4, <1>8 DEF InnerHandshake, Ended, TcpPoint
  <1>9. CASE ReadHello(s)
    BY <1>3, <1>4, <1>9 DEF ReadHello, Ended, TcpPoint
  <1>10. CASE OpenGates(s)
    BY <1>3, <1>4, <1>10 DEF OpenGates, Ended, TcpPoint
  <1>11. CASE Resolve(s)
    BY <1>3, <1>4, <1>11 DEF Resolve, Ended, TcpPoint
  <1>12. CASE Connect(s)
    BY <1>3, <1>4, <1>12 DEF Connect, Ended, TcpPoint
  <1>13. CASE PumpEnds(s)
    BY <1>4, <1>13 DEF PumpEnds, Ended
  <1> QED  BY <1>6, <1>7, <1>8, <1>9, <1>10, <1>11, <1>12, <1>13 DEF TcpStep

\* A step of the association or of a session: what it adds to the living is
\* counted, what it discounts was alive.
LEMMA UdpMoves ==
  ASSUME EgressInv, eg' \in EgressFields, eg'.tcp = eg.tcp, OpenedOnce', CountCapped',
         Cardinality(LiveSessions') + LiveAssociation' - eg'.active
           <= Cardinality(LiveSessions) + LiveAssociation - eg.active
  PROVE  EgressInv'
  <1>1. eg \in EgressFields /\ eg.active \in Int /\ eg'.active \in Int
    BY DEF EgressInv, EgressFields
  <1>2. LiveTcp' = LiveTcp  BY DEF LiveTcp
  <1>3. LiveAssociation \in {0, 1} /\ LiveAssociation' \in {0, 1}  BY DEF LiveAssociation
  <1>4. Cardinality(LiveTcp) \in Nat /\ Cardinality(LiveSessions) \in Nat  BY <1>1, LiveCards
  <1>5. Cardinality(LiveSessions') \in Nat
    <2>1. LiveSessions' \subseteq UdpSession  BY DEF LiveSessions, EgressFields
    <2> QED  BY <2>1, FS_Subset, FS_CardinalityType, EgressAssumption
  <1>6. NeverUndercounted'
    BY <1>1, <1>2, <1>3, <1>4, <1>5 DEF EgressInv, NeverUndercounted, LiveTasks
  <1> QED  BY <1>6 DEF EgressInv

\* The association before and after its sessions.
LEMMA AssociationTo ==
  ASSUME EgressInv, NEW n \in Int,
         NEW p \in {"handshake", "identity", "select", "over", "echo", "gone"},
         eg' = [eg EXCEPT !.active = n, !.asc = p], eg.asc \notin Opening,
         \/ n = eg.active /\ (p \in Ended <=> eg.asc \in Ended)
         \/ /\ n = eg.active + 1 /\ eg.asc \in Ended /\ p \notin Ended
            /\ MaxIncoming > 0 => n <= MaxIncoming
         \/ n = eg.active - 1 /\ eg.asc \notin Ended /\ p \in Ended
  PROVE  EgressInv'
  <1> USE EgressAssumption
  <1>1. eg \in EgressFields /\ eg.active \in Int  BY DEF EgressInv, EgressFields
  <1>2. /\ eg' \in EgressFields /\ eg'.active = n /\ eg'.asc = p
        /\ eg'.tcp = eg.tcp /\ eg'.cur = eg.cur /\ eg'.senders = eg.senders
        /\ eg'.reader = eg.reader /\ eg'.asked = eg.asked
    BY <1>1, Zenon DEF EgressFields
  <1>3. LiveSessions' = LiveSessions  BY <1>2 DEF LiveSessions
  <1>4. /\ LiveAssociation' = IF p \in Ended THEN 0 ELSE 1
        /\ LiveAssociation = IF eg.asc \in Ended THEN 0 ELSE 1
    BY <1>2 DEF LiveAssociation, Ended
  <1>5. OpenedOnce'  BY <1>2 DEF OpenedOnce, EgressInv, Opening
  <1>6. CountCapped'  BY <1>1, <1>2 DEF CountCapped, EgressInv
  <1>7. Cardinality(LiveSessions) \in Nat  BY <1>1, LiveCards
  <1> QED  BY <1>1, <1>2, <1>3, <1>4, <1>5, <1>6, <1>7, UdpMoves

LEMMA AssociationSteps ==
  ASSUME EgressInv,
         UdpIncoming \/ AcceptInnerQuic \/ CheckIdentity \/ AssociationBreaks \/ AssociationEnds
  PROVE  EgressInv'
  <1> USE EgressAssumption
  <1>1. eg \in EgressFields /\ eg.active \in Int  BY DEF EgressInv, EgressFields
  <1>2. \A p : [eg EXCEPT !.asc = p] = [eg EXCEPT !.active = eg.active, !.asc = p]
    BY <1>1, Zenon DEF EgressFields
  <1>3. ASSUME NEW p \in {"handshake", "identity", "select", "over", "echo", "gone"},
               eg' = [eg EXCEPT !.asc = p], eg.asc \notin Opening,
               p \in Ended <=> eg.asc \in Ended
        PROVE  EgressInv'
    <2>1. eg' = [eg EXCEPT !.active = eg.active, !.asc = p]  BY <1>2, <1>3, Zenon
    <2> QED  BY <1>1, <1>3, <2>1, AssociationTo, Zenon
  <1>4. ASSUME eg' = FinishUdp(eg), eg.asc \notin Ended \cup Opening PROVE EgressInv'
    <2>1. eg' = [eg EXCEPT !.active = eg.active - 1, !.asc = "echo"]
      BY <1>1, <1>4 DEF FinishUdp, EgressFields
    <2>2. "echo" \in Ended /\ eg.active - 1 \in Int  BY <1>1 DEF Ended
    <2> QED  BY <1>4, <2>1, <2>2, AssociationTo, Zenon
  <1>5. ASSUME eg' = [eg EXCEPT !.active = @ + 1, !.asc = "handshake"], eg.asc = "none",
               ~OverCap(eg.active + 1)
        PROVE  EgressInv'
    <2>1. eg' = [eg EXCEPT !.active = eg.active + 1, !.asc = "handshake"]
      BY <1>1, <1>5 DEF EgressFields
    <2>2. /\ "handshake" \notin Ended /\ eg.active + 1 \in Int
          /\ eg.asc \in Ended /\ eg.asc \notin Opening
          /\ MaxIncoming > 0 => eg.active + 1 <= MaxIncoming
      BY <1>1, <1>5 DEF Ended, Opening, OverCap
    <2> QED  BY <1>5, <2>1, <2>2, AssociationTo, Zenon
  <1>6. CASE UdpIncoming
    BY <1>3, <1>5, <1>6 DEF UdpIncoming, Ended, Opening
  <1>7. CASE AcceptInnerQuic
    BY <1>3, <1>4, <1>7 DEF AcceptInnerQuic, Ended, Opening
  <1>8. CASE CheckIdentity
    BY <1>3, <1>4, <1>8 DEF CheckIdentity, Ended, Opening
  <1>9. CASE AssociationBreaks \/ AssociationEnds
    BY <1>3, <1>9 DEF AssociationBreaks, AssociationEnds, Ended, Opening
  <1> QED  BY <1>6, <1>7, <1>8, <1>9

\* Steps that change no count and no table: the cut, backends, commands.
LEMMA QuietSteps ==
  ASSUME EgressInv, eg' \in EgressFields,
         eg'.active = eg.active, eg'.tcp = eg.tcp, eg'.asc = eg.asc, eg'.cur = eg.cur,
         eg'.senders = eg.senders, eg'.reader = eg.reader, eg'.asked = eg.asked
  PROVE  EgressInv'
  BY DEF EgressInv, OpenedOnce, CountCapped, NeverUndercounted, LiveTasks, LiveTcp, LiveSessions,
         LiveAssociation

LEMMA BackendSteps ==
  ASSUME EgressInv,
         EgressCut \/ \E u \in UdpSession : BackendDial(u) \/ BackendEnds(u) \/ BackendCloses(u)
  PROVE  EgressInv'
  <1>1. eg \in EgressFields  BY DEF EgressInv
  <1>2. CASE EgressCut
    BY <1>1, <1>2, QuietSteps, Zenon DEF EgressCut, EgressFields
  <1>3. ASSUME NEW u \in UdpSession, NEW p \in {"run", "close", "gone"},
               eg' = [eg EXCEPT !.back[u] = p]
        PROVE  EgressInv'
    BY <1>1, <1>3, QuietSteps DEF EgressFields
  <1>4. ASSUME NEW u \in UdpSession, BackendDial(u) \/ BackendEnds(u) PROVE EgressInv'
    BY <1>3, <1>4 DEF BackendDial, BackendEnds
  <1>5. ASSUME NEW u \in UdpSession, BackendCloses(u) PROVE EgressInv'
    <2>1. CASE eg' = [eg EXCEPT !.back[u] = "gone"]  BY <1>3, <2>1, Zenon
    <2>2. CASE eg' = [eg EXCEPT !.back[u] = "gone", !.cmds = Append(@, u)]
      <3>1. Append(eg.cmds, u) \in Seq(UdpSession)  BY <1>1 DEF EgressFields
      <3>2. [eg.back EXCEPT ![u] = "gone"] \in [UdpSession -> {"none", "dial", "run", "close", "gone"}]
        BY <1>1 DEF EgressFields
      <3>3. eg' = [eg EXCEPT !.back = [eg.back EXCEPT ![u] = "gone"], !.cmds = Append(eg.cmds, u)]
        BY <1>1, <2>2 DEF EgressFields
      <3> QED  BY <1>1, <3>1, <3>2, <3>3, QuietSteps, Zenon DEF EgressFields
    <2> QED  BY <1>1, <1>5, <2>1, <2>2, Zenon DEF BackendCloses, Told, EgressFields
  <1> QED  BY <1>2, <1>4, <1>5

\* An OPEN is read, refused, or passes the gates.
LEMMA OpenSteps ==
  ASSUME EgressInv,
         \/ OpenRefused \/ OpenRead \/ SessionGates \/ AcceptFails
         \/ \E u \in UdpSession : AcceptControl(u) \/ SessionAccepted(u)
  PROVE  EgressInv'
  <1> USE EgressAssumption
  <1>1. eg \in EgressFields /\ eg.active \in Int /\ OpenedOnce /\ CountCapped
    BY DEF EgressInv, EgressFields
  \* All of them keep count and table; the association stays alive.
  <1>2. ASSUME eg' \in EgressFields, eg'.active = eg.active, eg'.tcp = eg.tcp,
               eg'.senders = eg.senders, eg.asc \notin Ended, eg'.asc \notin Ended,
               OpenedOnce', eg'.asc = "count" => (MaxIncoming > 0 => eg.active <= MaxIncoming),
               \A u \in UdpSession : eg'.reader[u] = "sentOwed" <=> eg.reader[u] = "sentOwed"
        PROVE  EgressInv'
    <2>1. LiveSessions' = LiveSessions /\ LiveAssociation' = LiveAssociation
      BY <1>2 DEF LiveSessions, LiveAssociation, Ended
    <2>2. CountCapped'  BY <1>1, <1>2 DEF CountCapped
    <2>3. Cardinality(LiveSessions) \in Nat /\ LiveAssociation \in {0, 1}  BY <1>1, LiveCards
    <2> QED  BY <1>1, <1>2, <2>1, <2>2, <2>3, UdpMoves
  <1>3. CASE OpenRefused \/ AcceptFails
    <2>1. eg' = [eg EXCEPT !.asc = "select", !.cur = {}] /\ eg.asc \in Opening
      BY <1>3 DEF OpenRefused, AcceptFails, Opening
    <2>2. /\ eg' \in EgressFields /\ eg'.active = eg.active /\ eg'.tcp = eg.tcp
          /\ eg'.senders = eg.senders /\ eg'.reader = eg.reader /\ eg'.asked = eg.asked
          /\ eg'.asc = "select" /\ eg'.cur = {}
      BY <1>1, <2>1, Zenon DEF EgressFields
    <2>3. OpenedOnce'  BY <1>1, <2>2 DEF OpenedOnce, Opening
    <2> QED  BY <1>2, <2>1, <2>2, <2>3 DEF Ended, Opening
  <1>4. CASE OpenRead \/ SessionGates
    <2>1. \/ eg' = [eg EXCEPT !.asc = "gates"] /\ eg.asc = "open"
          \/ /\ eg' = [eg EXCEPT !.asc = "count"] /\ eg.asc = "gates"
             /\ MaxIncoming > 0 => eg.active < MaxIncoming
      BY <1>4 DEF OpenRead, SessionGates
    <2>2. /\ eg' \in EgressFields /\ eg'.active = eg.active /\ eg'.tcp = eg.tcp
          /\ eg'.senders = eg.senders /\ eg'.reader = eg.reader /\ eg'.asked = eg.asked
          /\ eg'.asc \in {"gates", "count"} /\ eg'.cur = eg.cur /\ eg.asc \in {"open", "gates"}
          /\ eg'.asc = "count" => (MaxIncoming > 0 => eg.active < MaxIncoming)
      BY <1>1, <2>1 DEF EgressFields
    <2>3. OpenedOnce'  BY <1>1, <2>2 DEF OpenedOnce, Opening
    <2> QED  BY <1>1, <1>2, <2>2, <2>3 DEF Ended
  <1>5. ASSUME NEW u \in UdpSession, AcceptControl(u) PROVE EgressInv'
    <2>1. /\ eg' \in EgressFields /\ eg'.active = eg.active /\ eg'.tcp = eg.tcp
          /\ eg'.senders = eg.senders /\ eg'.reader = eg.reader /\ eg'.asked = eg.asked \cup {u}
          /\ eg'.asc = "open" /\ eg'.cur = {u} /\ eg.asc = "select" /\ u \notin eg.asked
      BY <1>1, <1>5, Zenon DEF EgressFields, AcceptControl
    <2>2. OpenedOnce'  BY <1>1, <2>1 DEF OpenedOnce, Opening
    <2> QED  BY <1>2, <2>1, <2>2 DEF Ended
  <1>6. ASSUME NEW u \in UdpSession, SessionAccepted(u) PROVE EgressInv'
    <2>1. /\ [eg.reader EXCEPT ![u] = "read"]
               \in [UdpSession -> {"none", "read", "sent", "sentOwed", "gone"}]
          /\ [eg.back EXCEPT ![u] = "dial"] \in [UdpSession -> {"none", "dial", "run", "close", "gone"}]
      BY <1>1 DEF EgressFields
    <2>2. eg' = [eg EXCEPT !.asc = "select", !.cur = {}, !.reader = [eg.reader EXCEPT ![u] = "read"],
                           !.back = [eg.back EXCEPT ![u] = "dial"]]
      BY <1>1, <1>6, Zenon DEF SessionAccepted, EgressFields
    <2>3. /\ eg' \in EgressFields /\ eg'.active = eg.active /\ eg'.tcp = eg.tcp
          /\ eg'.senders = eg.senders /\ eg'.reader = [eg.reader EXCEPT ![u] = "read"]
          /\ eg'.asked = eg.asked /\ eg'.asc = "select" /\ eg'.cur = {}
      BY <1>1, <2>1, <2>2, Zenon DEF EgressFields
    <2>4. eg.asc = "accept" /\ eg.reader[u] = "none" /\ u \in eg.asked
      BY <1>1, <1>6, Zenon DEF SessionAccepted, OpenedOnce
    <2>5. \A v \in UdpSession : eg'.reader[v] = IF v = u THEN "read" ELSE eg.reader[v]
      BY <1>1, <2>3 DEF EgressFields
    <2>6. eg.senders \subseteq UdpSession  BY <1>1 DEF EgressFields
    <2>7. OpenedOnce'  BY <1>1, <2>3, <2>4, <2>5, <2>6 DEF OpenedOnce, Opening
    <2> QED  BY <1>2, <2>3, <2>4, <2>5, <2>7 DEF Ended
  <1> QED  BY <1>3, <1>4, <1>5, <1>6

LEMMA CountedStep == ASSUME EgressInv, SessionCounted PROVE EgressInv'
  <1> USE EgressAssumption
  <1>1. eg \in EgressFields /\ eg.active \in Int /\ OpenedOnce /\ CountCapped
    BY DEF EgressInv, EgressFields
  <1>2. eg.asc = "count"  BY DEF SessionCounted
  <1>3. PICK u \in UdpSession : eg.cur = {u}  BY <1>1, <1>2 DEF OpenedOnce, Opening
  <1>4. u \in eg.asked /\ eg.reader[u] = "none" /\ u \notin eg.senders
    BY <1>1, <1>2, <1>3 DEF OpenedOnce
  <1>5. /\ eg.senders \cup {u} \in SUBSET UdpSession /\ eg.controls \cup {u} \in SUBSET UdpSession
        /\ eg.active + 1 \in Int
    BY <1>1 DEF EgressFields
  <1>6. eg' = [eg EXCEPT !.asc = "accept", !.active = eg.active + 1,
                         !.senders = eg.senders \cup {u}, !.controls = eg.controls \cup {u}]
    BY <1>1, <1>3 DEF SessionCounted, EgressFields
  <1>7. /\ eg' \in EgressFields /\ eg'.active = eg.active + 1 /\ eg'.tcp = eg.tcp
        /\ eg'.senders = eg.senders \cup {u} /\ eg'.reader = eg.reader
        /\ eg'.asked = eg.asked /\ eg'.asc = "accept" /\ eg'.cur = eg.cur
    BY <1>1, <1>5, <1>6, Zenon DEF EgressFields
  <1>8. OpenedOnce'  BY <1>1, <1>3, <1>4, <1>7 DEF OpenedOnce, Opening
  <1>9. CountCapped'  BY <1>1, <1>2, <1>7 DEF CountCapped
  <1>10. LiveSessions' = LiveSessions \cup {u} /\ u \notin LiveSessions
    BY <1>4, <1>7 DEF LiveSessions
  <1>11. IsFiniteSet(LiveSessions) /\ Cardinality(LiveSessions) \in Nat  BY <1>1, LiveCards
  <1>12. Cardinality(LiveSessions') = Cardinality(LiveSessions) + 1
    BY <1>10, <1>11, FS_AddElement, Zenon
  <1>13. LiveAssociation' = 1 /\ LiveAssociation = 1  BY <1>2, <1>7 DEF LiveAssociation
  <1> QED  BY <1>1, <1>7, <1>8, <1>9, <1>11, <1>12, <1>13, UdpMoves

\* The Close command gives a place back when it finds the session, which no
\* reader has taken out then.
LEMMA CommandStep == ASSUME EgressInv, CloseCommand PROVE EgressInv'
  <1> USE EgressAssumption
  <1> DEFINE u == Head(eg.cmds)  n == IF u \in eg.senders THEN eg.active - 1 ELSE eg.active
  <1>1. eg \in EgressFields /\ eg.active \in Int /\ OpenedOnce /\ CountCapped
    BY DEF EgressInv, EgressFields
  <1>2. eg.cmds \in Seq(UdpSession) /\ eg.cmds # <<>> /\ eg.asc = "select"
    BY <1>1 DEF EgressFields, CloseCommand
  <1>3. u \in UdpSession /\ Tail(eg.cmds) \in Seq(UdpSession)  BY <1>2
  <1>4. eg' = [eg EXCEPT !.cmds = Tail(eg.cmds), !.senders = eg.senders \ {u},
                         !.controls = eg.controls \ {u}, !.active = n]
    BY <1>1 DEF CloseCommand, EgressFields
  <1>5. n \in Int /\ n <= eg.active  BY <1>1
  <1> HIDE DEF n
  <1>6. /\ eg' \in EgressFields /\ eg'.active = n /\ eg'.tcp = eg.tcp
        /\ eg'.senders = eg.senders \ {u} /\ eg'.reader = eg.reader
        /\ eg'.asked = eg.asked /\ eg'.asc = "select" /\ eg'.cur = eg.cur
    <2>1. eg.senders \ {u} \in SUBSET UdpSession /\ eg.controls \ {u} \in SUBSET UdpSession
      BY <1>1 DEF EgressFields
    <2> HIDE DEF u
    <2> QED  BY <1>1, <1>2, <1>3, <1>4, <1>5, <2>1, Zenon DEF EgressFields
  <1>7. OpenedOnce'  BY <1>1, <1>2, <1>6 DEF OpenedOnce
  <1>8. CountCapped'  BY <1>1, <1>5, <1>6 DEF CountCapped
  <1>9. LiveSessions' = IF u \in eg.senders THEN LiveSessions \ {u} ELSE LiveSessions
    BY <1>1, <1>6 DEF LiveSessions, OpenedOnce
  <1>10. IsFiniteSet(LiveSessions) /\ Cardinality(LiveSessions) \in Nat  BY <1>1, LiveCards
  <1>11. u \in eg.senders => Cardinality(LiveSessions') = Cardinality(LiveSessions) - 1
    <2>1. u \in eg.senders => u \in LiveSessions  BY DEF LiveSessions
    <2> QED  BY <1>9, <1>10, <2>1, FS_RemoveElement, Zenon
  <1>12. Cardinality(LiveSessions') - n = Cardinality(LiveSessions) - eg.active
    BY <1>1, <1>9, <1>10, <1>11 DEF n
  <1>13. LiveAssociation' = 1 /\ LiveAssociation = 1  BY <1>2, <1>6 DEF LiveAssociation
  <1>14. Cardinality(LiveSessions') \in Int
    BY <1>9, <1>10, <1>11
  <1> QED  BY <1>1, <1>5, <1>6, <1>7, <1>8, <1>10, <1>12, <1>13, <1>14, UdpMoves

LEMMA ClearedStep == ASSUME EgressInv, AssociationCleared PROVE EgressInv'
  <1> USE EgressAssumption
  <1>1. eg \in EgressFields /\ eg.active \in Int /\ OpenedOnce /\ CountCapped
    BY DEF EgressInv, EgressFields
  <1>2. eg' = [eg EXCEPT !.active = eg.active - 1, !.asc = "echo", !.senders = {}, !.controls = {},
                         !.cmds = <<>>] /\ eg.asc = "over"
    BY <1>1 DEF AssociationCleared, FinishUdp, EgressFields
  <1>3. eg.active - 1 \in Int /\ <<>> \in Seq(UdpSession) /\ {} \in SUBSET UdpSession  BY <1>1
  <1>4. /\ eg' \in EgressFields /\ eg'.active = eg.active - 1 /\ eg'.tcp = eg.tcp
        /\ eg'.senders = {} /\ eg'.reader = eg.reader
        /\ eg'.asked = eg.asked /\ eg'.asc = "echo" /\ eg'.cur = eg.cur
    BY <1>1, <1>2, <1>3, Zenon DEF EgressFields
  <1>5. OpenedOnce'  BY <1>1, <1>2, <1>4 DEF OpenedOnce, Opening
  <1>6. CountCapped'  BY <1>1, <1>4 DEF CountCapped
  <1>7. LiveSessions' \subseteq LiveSessions  BY <1>4 DEF LiveSessions
  <1>8. IsFiniteSet(LiveSessions) /\ Cardinality(LiveSessions) \in Nat  BY <1>1, LiveCards
  <1>9. Cardinality(LiveSessions') <= Cardinality(LiveSessions) /\ Cardinality(LiveSessions') \in Nat
    BY <1>7, <1>8, FS_Subset, FS_CardinalityType
  <1>10. LiveAssociation' = 0 /\ LiveAssociation = 1  BY <1>2, <1>4 DEF LiveAssociation
  <1> QED  BY <1>1, <1>4, <1>5, <1>6, <1>8, <1>9, <1>10, UdpMoves

\* The reader takes its session out of the table and owes the place ...
LEMMA ReaderEndsStep ==
  ASSUME EgressInv, NEW u \in UdpSession, ReaderEnds(u) PROVE EgressInv'
  <1> USE EgressAssumption
  <1> DEFINE p == IF u \in eg.senders THEN "sentOwed" ELSE "sent"
  <1>1. eg \in EgressFields /\ eg.active \in Int /\ OpenedOnce /\ CountCapped
    BY DEF EgressInv, EgressFields
  <1>2. eg.reader[u] = "read"  BY DEF ReaderEnds
  <1>3. /\ [eg.reader EXCEPT ![u] = p] \in [UdpSession -> {"none", "read", "sent", "sentOwed", "gone"}]
        /\ eg.senders \ {u} \in SUBSET UdpSession /\ eg.controls \ {u} \in SUBSET UdpSession
        /\ Append(eg.cmds, u) \in Seq(UdpSession) /\ eg.cmds \in Seq(UdpSession)
    BY <1>1 DEF EgressFields
  <1>4. PICK c \in Seq(UdpSession) :
          eg' = [eg EXCEPT !.reader = [eg.reader EXCEPT ![u] = p], !.senders = eg.senders \ {u},
                           !.controls = eg.controls \ {u}, !.cmds = c]
    <2>1. eg' = [eg EXCEPT !.reader = [eg.reader EXCEPT ![u] = p], !.senders = eg.senders \ {u},
                           !.controls = eg.controls \ {u},
                           !.cmds = IF eg.asc \in {"echo", "gone"} THEN eg.cmds ELSE Append(eg.cmds, u)]
      BY <1>1, Zenon DEF ReaderEnds, Told, EgressFields
    <2> HIDE DEF p
    <2> QED  BY <1>3, <2>1, Zenon
  <1>5. p \in {"sent", "sentOwed"} /\ (p = "sentOwed" <=> u \in eg.senders)  OBVIOUS
  <1> HIDE DEF p
  <1>6. /\ eg' \in EgressFields /\ eg'.active = eg.active /\ eg'.tcp = eg.tcp
        /\ eg'.senders = eg.senders \ {u} /\ eg'.reader = [eg.reader EXCEPT ![u] = p]
        /\ eg'.asked = eg.asked /\ eg'.asc = eg.asc /\ eg'.cur = eg.cur
    BY <1>1, <1>3, <1>4, Zenon DEF EgressFields
  <1>7. \A v \in UdpSession : eg'.reader[v] = IF v = u THEN p ELSE eg.reader[v]
    BY <1>1, <1>6 DEF EgressFields
  <1>8. eg.senders \subseteq UdpSession /\ eg.cur \subseteq UdpSession  BY <1>1 DEF EgressFields
  <1>9. OpenedOnce'  BY <1>1, <1>2, <1>5, <1>6, <1>7, <1>8 DEF OpenedOnce
  <1>10. CountCapped'  BY <1>1, <1>6 DEF CountCapped
  <1>11. LiveSessions' = LiveSessions  BY <1>2, <1>5, <1>6, <1>7, <1>8 DEF LiveSessions
  <1>12. LiveAssociation' = LiveAssociation  BY <1>6 DEF LiveAssociation
  <1>13. Cardinality(LiveSessions) \in Nat /\ LiveAssociation \in {0, 1}  BY <1>1, LiveCards
  <1> QED  BY <1>1, <1>6, <1>9, <1>10, <1>11, <1>12, <1>13, UdpMoves

\* ... and gives it back.
LEMMA ReaderGoneStep ==
  ASSUME EgressInv, NEW u \in UdpSession, ReaderGone(u) PROVE EgressInv'
  <1> USE EgressAssumption
  <1> DEFINE n == IF eg.reader[u] = "sentOwed" THEN eg.active - 1 ELSE eg.active
  <1>1. eg \in EgressFields /\ eg.active \in Int /\ OpenedOnce /\ CountCapped
    BY DEF EgressInv, EgressFields
  <1>2. eg.reader[u] \in {"sent", "sentOwed"}  BY DEF ReaderGone
  <1>3. [eg.reader EXCEPT ![u] = "gone"] \in [UdpSession -> {"none", "read", "sent", "sentOwed", "gone"}]
    BY <1>1 DEF EgressFields
  <1>4. eg' = [eg EXCEPT !.reader = [eg.reader EXCEPT ![u] = "gone"], !.active = n]
    BY <1>1 DEF ReaderGone, EgressFields
  <1>5. n \in Int /\ n <= eg.active  BY <1>1
  <1> HIDE DEF n
  <1>6. /\ eg' \in EgressFields /\ eg'.active = n /\ eg'.tcp = eg.tcp
        /\ eg'.senders = eg.senders /\ eg'.reader = [eg.reader EXCEPT ![u] = "gone"]
        /\ eg'.asked = eg.asked /\ eg'.asc = eg.asc /\ eg'.cur = eg.cur
    BY <1>1, <1>3, <1>4, <1>5, Zenon DEF EgressFields
  <1>7. \A v \in UdpSession : eg'.reader[v] = IF v = u THEN "gone" ELSE eg.reader[v]
    BY <1>1, <1>6 DEF EgressFields
  <1>8. eg.senders \subseteq UdpSession /\ eg.cur \subseteq UdpSession  BY <1>1 DEF EgressFields
  <1>9. OpenedOnce'  BY <1>1, <1>2, <1>6, <1>7, <1>8 DEF OpenedOnce
  <1>10. CountCapped'  BY <1>1, <1>5, <1>6 DEF CountCapped
  <1>11. LiveSessions' = IF eg.reader[u] = "sentOwed" THEN LiveSessions \ {u} ELSE LiveSessions
    BY <1>1, <1>6, <1>7, <1>8 DEF LiveSessions, OpenedOnce
  <1>12. LiveAssociation' = LiveAssociation  BY <1>6 DEF LiveAssociation
  <1>13. /\ IsFiniteSet(LiveSessions) /\ Cardinality(LiveSessions) \in Nat
         /\ LiveAssociation \in {0, 1}
    BY <1>1, LiveCards
  <1>14. eg.reader[u] = "sentOwed" => Cardinality(LiveSessions') = Cardinality(LiveSessions) - 1
    <2>1. eg.reader[u] = "sentOwed" => u \in LiveSessions  BY DEF LiveSessions
    <2> QED  BY <1>11, <1>13, <2>1, FS_RemoveElement, Zenon
  <1>15. /\ Cardinality(LiveSessions') - n = Cardinality(LiveSessions) - eg.active
         /\ Cardinality(LiveSessions') \in Int
    BY <1>1, <1>11, <1>13, <1>14 DEF n
  <1> QED  BY <1>1, <1>5, <1>6, <1>9, <1>10, <1>12, <1>13, <1>15, UdpMoves

LEMMA EgressStep == ASSUME EgressInv, [EgressNext]_eg PROVE EgressInv'
  <1>1. CASE UNCHANGED eg
    BY <1>1 DEF EgressInv, OpenedOnce, CountCapped, NeverUndercounted, LiveTasks, LiveTcp,
                LiveSessions, LiveAssociation
  <1>2. CASE EgressNext
    BY <1>2, TcpSteps, AssociationSteps, BackendSteps, OpenSteps, CountedStep, CommandStep,
       ClearedStep, ReaderEndsStep, ReaderGoneStep, Zenon
       DEF EgressNext, AssociationStep, SessionStep
  <1> QED  BY <1>1, <1>2

LEMMA EgressStarts == ASSUME EgressInit PROVE EgressInv
  <1> USE EgressAssumption
  <1>1. eg \in EgressFields /\ OpenedOnce
    BY DEF EgressInit, EgressStart, EgressFields, OpenedOnce, Opening, TcpPoint
  <1>2. CountCapped  BY DEF EgressInit, EgressStart, CountCapped
  <1>3. LiveTcp = {} /\ LiveSessions = {} /\ LiveAssociation = 0 /\ eg.active = 0
    BY DEF EgressInit, EgressStart, LiveTcp, LiveSessions, LiveAssociation
  <1>4. NeverUndercounted  BY <1>3, FS_EmptySet DEF NeverUndercounted, LiveTasks
  <1> QED  BY <1>1, <1>2, <1>4 DEF EgressInv

\* For any number of streams and sessions and any cap: the count of incoming
\* streams never falls below the tasks that run, so `active` cannot wrap, and
\* the tasks exceed `max_incoming` by one at most.
THEOREM IncomingCounted == EgressSpec => []EgressCounted
  <1>1. EgressInit => EgressInv  BY EgressStarts
  <1>2. EgressInv /\ [EgressNext]_eg => EgressInv'  BY EgressStep
  <1>3. EgressInv => EgressCounted
    <2> SUFFICES ASSUME EgressInv PROVE CapOvershoot  BY DEF EgressCounted, EgressInv
    <2>1. eg \in EgressFields /\ eg.active \in Int  BY DEF EgressInv, EgressFields
    <2>2. LiveTasks \in Int  BY <2>1, LiveCards DEF LiveTasks
    <2> QED  BY <2>1, <2>2, EgressAssumption DEF EgressInv, CountCapped, NeverUndercounted, CapOvershoot
  <1> QED  BY <1>1, <1>2, <1>3, PTL DEF EgressSpec
=============================================================================
