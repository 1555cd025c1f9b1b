---------------------------- MODULE EdgeConnProofs ----------------------------
(***************************************************************************)
(* Proofs about the admission of public connections: the counters of       *)
(* ConnTracker are exact, no connection is routed without a place, and the *)
(* whole implements the abstract limit of ConnLimit.                       *)
(***************************************************************************)
EXTENDS EdgeConn, FiniteSetTheorems, TLAPS

-------------------------------------------------------------------------------
(* The inductive invariant.                                                *)

\* Points a task reaches only with its guard, and only without.
Admitted == {"hello", "handshake", "control", "request", "respond", "route", "session", "open",
             "inner", "greet", "pump", "abandon", "freeTotal", "freeIp"}
Outside == {"none", "rate", "total", "perIp", "undo", "deny", "done"}

\* What holds of every task by itself.  The address of a guard does not change:
\* with TLS there is no front, without it the guard comes after the addresses.
Sound(c) ==
  /\ ec.at[c] \in Admitted => c \in ec.guard
  /\ ec.at[c] \in Outside => c \notin ec.guard
  /\ ec.top.tls => ec.ip[c] = ec.peer[c] /\ (ec.at[c] \in {"proxy", "head"} => c \in ec.guard)
  /\ ~ec.top.tls => (ec.at[c] = "proxy" => c \notin ec.guard) /\ ec.at[c] \notin {"hello", "handshake"}
  /\ ec.at[c] = "head" /\ c \notin ec.guard => ec.top.xff # "off" /\ is_trusted(ec.peer[c])
  /\ ec.ip[c] # ec.peer[c] => ec.peer[c] = FrontProxy
  /\ ec.stream[c] # "none" => ec.at[c] \in {"open", "inner", "greet", "pump", "abandon"}

\* The tasks the total counts, and those an address counts.
Counted == {c \in Task : \/ c \in ec.guard /\ ec.at[c] # "freeIp"
                         \/ ec.at[c] \in {"perIp", "undo"}}
Under(i) == {c \in ec.guard : ec.ip[c] = i}

Capped == Total > 0 => ec.total <= Total

EdgeInv ==
  /\ EdgeConnTypeOK
  /\ \A c \in Task : Sound(c)
  /\ TrackerExact
  /\ Capped

-------------------------------------------------------------------------------
(* Facts about the counters.                                               *)

LEMMA TasksFinite == IsFiniteSet(Task)
BY EdgeConnAssumption, FS_Union, Zenon DEF Task

LEMMA CountsFinite ==
  ASSUME EdgeConnTypeOK
  PROVE  /\ IsFiniteSet(Counted)
         /\ \A i : IsFiniteSet(Under(i))
<1>1. Counted \in SUBSET Task
  BY DEF Counted
<1>2. \A i : Under(i) \in SUBSET Task
  BY DEF Under, EdgeConnTypeOK, EdgeConnState
<1> QED BY <1>1, <1>2, TasksFinite, FS_Subset

\* A counted task has a place to give back.
LEMMA PlaceHeld ==
  ASSUME EdgeConnTypeOK, TrackerExact, NEW c \in Task
  PROVE  /\ c \in Counted => ec.total > 0
         /\ c \in ec.guard => ec.perIp[ec.ip[c]] > 0
<1>1. ec.total = Cardinality(Counted) /\ ec.total \in Nat
  BY DEF TrackerExact, Counted, EdgeConnTypeOK, EdgeConnState
<1>2. ec.perIp[ec.ip[c]] = Cardinality(Under(ec.ip[c])) /\ ec.perIp[ec.ip[c]] \in Nat
  BY DEF TrackerExact, Under, EdgeConnTypeOK, EdgeConnState
<1>3. c \in ec.guard => c \in Under(ec.ip[c])
  BY DEF Under
<1>4. IsFiniteSet(Counted) /\ IsFiniteSet(Under(ec.ip[c]))
  BY CountsFinite
<1>5. \A S : IsFiniteSet(S) /\ Cardinality(S) = 0 => S = {}
  BY FS_EmptySet
<1>6. ASSUME c \in Counted PROVE ec.total > 0
  BY <1>1, <1>4, <1>5, <1>6
<1>7. ASSUME c \in ec.guard PROVE ec.perIp[ec.ip[c]] > 0
  BY <1>2, <1>3, <1>4, <1>5, <1>7
<1> QED BY <1>6, <1>7

-------------------------------------------------------------------------------
(* Steps.                                                                  *)

\* A step of c moves c and leaves the other tasks alone.
Frame(c) ==
  /\ ec' \in EdgeConnState
  /\ ec'.top = ec.top
  /\ \A d \in Task : d # c => /\ ec'.at[d] = ec.at[d] /\ ec'.peer[d] = ec.peer[d]
                              /\ ec'.ip[d] = ec.ip[d] /\ ec'.stream[d] = ec.stream[d]
                              /\ d \in ec'.guard <=> d \in ec.guard

\* The shapes a step's assignment takes.
LEMMA PutAt ==
  ASSUME EdgeConnTypeOK, NEW c \in Task, NEW q \in ConnPoint, ec' = [ec EXCEPT !.at[c] = q]
  PROVE  Frame(c)
BY Zenon DEF EdgeConnTypeOK, EdgeConnState, Frame

LEMMA PutPeer ==
  ASSUME EdgeConnTypeOK, NEW c \in Task, NEW q \in ConnPoint, NEW i \in Ip,
         ec' = [ec EXCEPT !.peer[c] = i, !.ip[c] = i, !.at[c] = q]
  PROVE  Frame(c)
BY Zenon DEF EdgeConnTypeOK, EdgeConnState, Frame

LEMMA PutAddr ==
  ASSUME EdgeConnTypeOK, NEW c \in Task, NEW q \in ConnPoint, NEW i \in Ip,
         ec' = [ec EXCEPT !.ip[c] = i, !.at[c] = q]
  PROVE  Frame(c)
BY Zenon DEF EdgeConnTypeOK, EdgeConnState, Frame

LEMMA PutStream ==
  ASSUME EdgeConnTypeOK, NEW c \in Task, NEW q \in ConnPoint,
         NEW v \in {"none", "registered", "open"},
         ec' = [ec EXCEPT !.stream[c] = v, !.at[c] = q]
  PROVE  Frame(c)
BY Zenon DEF EdgeConnTypeOK, EdgeConnState, Frame

LEMMA PutTotal ==
  ASSUME EdgeConnTypeOK, NEW c \in Task, NEW q \in ConnPoint, NEW n \in Nat,
         ec' = [ec EXCEPT !.total = n, !.at[c] = q]
  PROVE  Frame(c)
BY Zenon DEF EdgeConnTypeOK, EdgeConnState, Frame

LEMMA PutTokens ==
  ASSUME EdgeConnTypeOK, NEW c \in Task, NEW q \in ConnPoint, NEW i \in Ip, NEW n \in 0..Quota,
         ec' = [ec EXCEPT !.tokens[i] = n, !.at[c] = q]
  PROVE  Frame(c)
BY Zenon DEF EdgeConnTypeOK, EdgeConnState, Frame

LEMMA PutGuard ==
  ASSUME EdgeConnTypeOK, NEW c \in Task, NEW q \in ConnPoint, NEW i \in Ip, NEW n \in Nat,
         NEW G \in {ec.guard \cup {c}, ec.guard \ {c}},
         ec' = [ec EXCEPT !.perIp[i] = n, !.guard = G, !.at[c] = q]
  PROVE  Frame(c)
BY Zenon DEF EdgeConnTypeOK, EdgeConnState, Frame

\* A preamble names another address only when a trusted front sent it.
LEMMA ProxyReads ==
  ASSUME NEW mode, NEW peer, NEW sent, NEW named
  PROVE  \/ proxy_read(mode, peer, sent, named) \in {{}, {peer}}
         \/ /\ proxy_read(mode, peer, sent, named) = {named}
            /\ mode # "off" /\ is_trusted(peer)
BY DEF proxy_read

\* The two steps that may learn an address, and what they learn.
LEMMA ReadProxyCases ==
  ASSUME NEW c, ReadProxy(c), ec.peer[c] \in Ip
  PROVE  /\ ec.at[c] = "proxy"
         /\ \/ End(c)
            \/ \E a \in Ip, q \in {"head", "rate"} :
                 /\ a = ec.peer[c] \/ (ec.top.proxy # "off" /\ is_trusted(ec.peer[c]))
                 /\ q = "head" <=> c \in ec.guard \/ xff_deferred(c)
                 /\ ec' = [ec EXCEPT !.ip[c] = a, !.at[c] = q]
<1>1. ec.at[c] = "proxy"
  BY Zenon DEF ReadProxy
<1>2. CASE ~End(c)
  <2>1. PICK sent \in Sent, named \in Ip :
          LET r == proxy_read(ec.top.proxy, ec.peer[c], sent, named)
          IN  /\ r = {} => End(c)
              /\ \A a \in r :
                   ec' = [ec EXCEPT !.ip[c] = a,
                                    !.at[c] = IF c \in ec.guard \/ xff_deferred(c)
                                              THEN "head" ELSE "rate"]
    BY <1>2, Zenon DEF ReadProxy
  <2> DEFINE r == proxy_read(ec.top.proxy, ec.peer[c], sent, named)
             q == IF c \in ec.guard \/ xff_deferred(c) THEN "head" ELSE "rate"
  <2>2. /\ r = {} => End(c)
        /\ \A a \in r : ec' = [ec EXCEPT !.ip[c] = a, !.at[c] = q]
    BY <2>1, Zenon
  <2>3. \/ r \in {{}, {ec.peer[c]}}
        \/ r = {named} /\ ec.top.proxy # "off" /\ is_trusted(ec.peer[c])
    BY ProxyReads
  <2>4. q \in {"head", "rate"} /\ (q = "head" <=> c \in ec.guard \/ xff_deferred(c))
    OBVIOUS
  <2> HIDE DEF r, q
  <2>5. r # {}
    BY <1>2, <2>2, Zenon
  <2>6. PICK a \in Ip : /\ a \in r
                        /\ a = ec.peer[c] \/ (ec.top.proxy # "off" /\ is_trusted(ec.peer[c]))
    BY <2>3, <2>5
  <2> QED BY <1>1, <2>2, <2>4, <2>6, Zenon
<1> QED BY <1>1, <1>2, Zenon

LEMMA PeekHeadCases ==
  ASSUME NEW c, PeekHead(c), ec.peer[c] \in Ip
  PROVE  /\ ec.at[c] = "head"
         /\ \/ End(c)
            \/ ~xff_deferred(c) /\ Move(c, "route")
            \/ /\ xff_deferred(c)
               /\ \E a \in Ip : ec' = [ec EXCEPT !.ip[c] = a, !.at[c] = "rate"]
BY Zenon DEF PeekHead, xff_resolve

LEMMA TaskFrame ==
  ASSUME EdgeInv, NEW c \in Task, TaskStep(c)
  PROVE  Frame(c)
<1>0. /\ EdgeConnTypeOK /\ TrackerExact /\ Sound(c)
      /\ ec.ip[c] \in Ip /\ ec.peer[c] \in Ip /\ ec.total \in Nat /\ ec.perIp[ec.ip[c]] \in Nat
  BY DEF EdgeInv, EdgeConnTypeOK, EdgeConnState
<1>1. EndPoint(c) \in ConnPoint /\ DenyPoint(c) \in ConnPoint /\ AdmittedAt(c) \in ConnPoint
  BY DEF EndPoint, DenyPoint, AdmittedAt, ConnPoint
<1>2. \A q \in ConnPoint : Move(c, q) => Frame(c)
  BY <1>0, PutAt DEF Move
<1>3. End(c) => Frame(c)
  BY <1>1, <1>2 DEF End
<1>4. CASE Accept(c)
  BY <1>0, <1>4, PutPeer, Zenon DEF Accept, ConnPoint
<1>5. CASE ReadProxy(c)
  <2>1. \A a \in Ip : \A q \in {"head", "rate"} :
          ec' = [ec EXCEPT !.ip[c] = a, !.at[c] = q] => Frame(c)
    BY <1>0, PutAddr, Zenon DEF ConnPoint
  <2>2. ec.peer[c] \in Ip
    BY <1>0
  <2>3. CASE ~End(c)
    <3>1. PICK a \in Ip, q \in {"head", "rate"} :
            /\ a = ec.peer[c] \/ (ec.top.proxy # "off" /\ is_trusted(ec.peer[c]))
            /\ q = "head" <=> c \in ec.guard \/ xff_deferred(c)
            /\ ec' = [ec EXCEPT !.ip[c] = a, !.at[c] = q]
      BY <1>5, <2>2, <2>3, ReadProxyCases, Zenon
    <3> QED BY <2>1, <3>1, Zenon
  <2> QED BY <1>3, <2>3
<1>6. CASE CheckRate(c)
  <2>1. ec.tokens[ec.ip[c]] > 0 => ec.tokens[ec.ip[c]] - 1 \in 0..Quota
    BY <1>0, EdgeConnAssumption DEF EdgeConnTypeOK, EdgeConnState
  <2> QED BY <1>0, <1>1, <1>2, <1>6, <2>1, PutTokens, Zenon DEF CheckRate, ConnPoint
<1>7. CASE AcquireTotal(c)
  <2>1. ec.total + 1 \in Nat
    BY <1>0
  <2> QED BY <1>0, <1>1, <1>2, <1>7, <2>1, PutTotal, Zenon DEF AcquireTotal, ConnPoint
<1>8. CASE AcquirePerIp(c)
  <2>1. ec.perIp[ec.ip[c]] + 1 \in Nat
    BY <1>0
  <2>2. CASE Move(c, "undo")
    BY <1>2, <2>2 DEF ConnPoint
  <2>3. CASE ~Move(c, "undo")
    <3>1. ec.guard \cup {c} \in {ec.guard \cup {c}, ec.guard \ {c}}
      OBVIOUS
    <3> QED BY <1>0, <1>1, <1>8, <2>1, <2>3, <3>1, PutGuard, Zenon DEF AcquirePerIp
  <2> QED BY <2>2, <2>3
<1>9. CASE AcquireUndo(c)
  <2>1. ec.total - 1 \in Nat
    BY <1>0, <1>9, PlaceHeld DEF AcquireUndo, Counted
  <2> QED BY <1>0, <1>1, <1>9, <2>1, PutTotal, Zenon DEF AcquireUndo
<1>10. CASE ReleaseTotal(c)
  <2>1. ec.total - 1 \in Nat
    BY <1>0, <1>10, PlaceHeld DEF ReleaseTotal, Counted, Sound, Admitted
  <2> QED BY <1>0, <1>10, <2>1, PutTotal, Zenon DEF ReleaseTotal, ConnPoint
<1>11. CASE ReleasePerIp(c)
  <2>1. ec.perIp[ec.ip[c]] - 1 \in Nat
    BY <1>0, <1>11, PlaceHeld DEF ReleasePerIp, Sound, Admitted
  <2> QED BY <1>0, <1>11, <2>1, PutGuard, Zenon DEF ReleasePerIp, ConnPoint
<1>12. CASE PeekHead(c)
  <2>1. \A a \in Ip : ec' = [ec EXCEPT !.ip[c] = a, !.at[c] = "rate"] => Frame(c)
    BY <1>0, PutAddr, Zenon DEF ConnPoint
  <2> QED BY <1>0, <1>2, <1>3, <1>12, <2>1, PeekHeadCases, Zenon DEF ConnPoint
<1>13. CASE RegisterStream(c) \/ SendOpen(c) \/ AbandonStream(c)
  BY <1>0, <1>1, <1>13, PutStream, Zenon DEF RegisterStream, SendOpen, AbandonStream, ConnPoint
<1>14. CASE \/ WriteDeny(c) \/ ReadHello443(c) \/ Handshake443(c) \/ ControlEnds(c)
            \/ read_http01_head(c) \/ write_http01_response(c) \/ LookupRoute(c)
            \/ InnerConnect(c) \/ SendHello(c) \/ PumpOver(c)
  BY <1>2, <1>3, <1>14
     DEF WriteDeny, ReadHello443, Handshake443, ControlEnds, read_http01_head,
         write_http01_response, LookupRoute, InnerConnect, SendHello, PumpOver, ConnPoint
<1> QED BY <1>4, <1>5, <1>6, <1>7, <1>8, <1>9, <1>10, <1>11, <1>12, <1>13, <1>14 DEF TaskStep

LEMMA SoundStep ==
  ASSUME EdgeInv, NEW c \in Task, TaskStep(c)
  PROVE  \A d \in Task : Sound(d)'
<1>0. /\ Frame(c) /\ Sound(c) /\ ec \in EdgeConnState /\ ec.peer[c] \in Ip
      /\ ec.top.tls => ec.top.proxy = "off"
  BY TaskFrame DEF EdgeInv, EdgeConnTypeOK, EdgeConnState, Topology
<1>1. \A d \in Task : d # c => Sound(d)'
  BY <1>0 DEF EdgeInv, Frame, Sound, is_trusted
<1>2. Sound(c)'
  <2> USE <1>0 DEF Sound, Admitted, Outside, EdgeConnState, is_trusted
  <2>1. CASE Accept(c)
    BY <2>1 DEF Accept
  <2>2. CASE ReadProxy(c)
    <3>1. ec.at[c] = "proxy"
      BY <2>2, Zenon DEF ReadProxy
    <3>2. CASE End(c)
      BY <3>1, <3>2 DEF End, EndPoint, Move
    <3>3. ASSUME NEW a \in Ip, NEW q \in {"head", "rate"},
                 a = ec.peer[c] \/ (ec.top.proxy # "off" /\ is_trusted(ec.peer[c])),
                 q = "head" <=> c \in ec.guard \/ xff_deferred(c),
                 ec' = [ec EXCEPT !.ip[c] = a, !.at[c] = q]
          PROVE  Sound(c)'
      BY <3>1, <3>3 DEF xff_deferred
    <3> HIDE <1>0 DEF Sound, Admitted, Outside, EdgeConnState, is_trusted
    <3>4. ec.peer[c] \in Ip
      BY <1>0
    <3>5. CASE ~End(c)
      <4>1. PICK a \in Ip, q \in {"head", "rate"} :
              /\ a = ec.peer[c] \/ (ec.top.proxy # "off" /\ is_trusted(ec.peer[c]))
              /\ q = "head" <=> c \in ec.guard \/ xff_deferred(c)
              /\ ec' = [ec EXCEPT !.ip[c] = a, !.at[c] = q]
        BY <2>2, <3>4, <3>5, ReadProxyCases, Zenon
      <4> QED BY <3>3, <4>1, Zenon
    <3> QED BY <3>2, <3>5
  <2>d. CASE ec.at[c] \in {"rate", "total"} /\ Move(c, DenyPoint(c))
    BY <2>d DEF DenyPoint, EndPoint, Move
  <2>3. CASE CheckRate(c)
    <3>1. CASE ec' = [ec EXCEPT !.tokens[ec.ip[c]] = @ - 1, !.at[c] = "total"]
      BY <2>3, <3>1 DEF CheckRate
    <3> QED BY <2>3, <2>d, <3>1, Zenon DEF CheckRate
  <2>4. CASE AcquireTotal(c)
    <3>1. CASE ec' = [ec EXCEPT !.total = @ + 1, !.at[c] = "perIp"]
      BY <2>4, <3>1 DEF AcquireTotal
    <3> QED BY <2>4, <2>d, <3>1, Zenon DEF AcquireTotal
  <2>5. CASE AcquirePerIp(c)
    <3>1. CASE Move(c, "undo")
      BY <2>5, <3>1 DEF AcquirePerIp, Move
    <3>2. CASE ec' = [ec EXCEPT !.perIp[ec.ip[c]] = @ + 1, !.guard = @ \cup {c},
                                !.at[c] = AdmittedAt(c)]
      BY <2>5, <3>2 DEF AcquirePerIp, AdmittedAt, xff_deferred
    <3> QED BY <2>5, <3>1, <3>2, Zenon DEF AcquirePerIp
  <2>6. CASE AcquireUndo(c)
    BY <2>6 DEF AcquireUndo, DenyPoint, EndPoint
  <2>7. CASE WriteDeny(c)
    BY <2>7 DEF WriteDeny, End, EndPoint, Move
  <2>8. CASE ReleaseTotal(c)
    BY <2>8 DEF ReleaseTotal
  <2>9. CASE ReleasePerIp(c)
    <3>1. ec'.at[c] = "done" /\ c \notin ec'.guard
      BY <2>9 DEF ReleasePerIp
    <3>2. ec'.ip = ec.ip /\ ec'.peer = ec.peer /\ ec'.top = ec.top /\ ec'.stream = ec.stream
      BY <2>9 DEF ReleasePerIp
    <3> QED BY <2>9, <3>1, <3>2 DEF ReleasePerIp
  <2>10. CASE ReadHello443(c)
    BY <2>10 DEF ReadHello443, End, EndPoint, Move
  <2>11. CASE Handshake443(c)
    BY <2>11 DEF Handshake443, End, EndPoint, Move
  <2>12. CASE ControlEnds(c)
    BY <2>12 DEF ControlEnds, End, EndPoint, Move
  <2>13. CASE read_http01_head(c)
    BY <2>13 DEF read_http01_head, End, EndPoint, Move
  <2>14. CASE write_http01_response(c)
    BY <2>14 DEF write_http01_response, End, EndPoint, Move
  <2>15. CASE PeekHead(c)
    <3>1. ec.at[c] = "head"
      BY <2>15, Zenon DEF PeekHead
    <3>2. CASE End(c)
      BY <3>1, <3>2 DEF End, EndPoint, Move
    <3>3. CASE ~xff_deferred(c) /\ Move(c, "route")
      BY <3>1, <3>3 DEF Move, xff_deferred
    <3>4. ASSUME xff_deferred(c), NEW a \in Ip, ec' = [ec EXCEPT !.ip[c] = a, !.at[c] = "rate"]
          PROVE  Sound(c)'
      BY <3>1, <3>4 DEF xff_deferred
    <3> HIDE <1>0 DEF Sound, Admitted, Outside, EdgeConnState, is_trusted
    <3> QED BY <1>0, <2>15, <3>2, <3>3, <3>4, PeekHeadCases, Zenon
  <2>16. CASE LookupRoute(c)
    BY <2>16 DEF LookupRoute, End, EndPoint, Move
  <2>17. CASE RegisterStream(c)
    <3>1. PICK p \in {"open", "abandon"} : ec' = [ec EXCEPT !.stream[c] = "registered", !.at[c] = p]
      BY <2>17, Zenon DEF RegisterStream
    <3> QED BY <2>17, <3>1 DEF RegisterStream
  <2>18. CASE SendOpen(c)
    <3>1. CASE ec' = [ec EXCEPT !.stream[c] = "open", !.at[c] = "inner"]
      BY <2>18, <3>1 DEF SendOpen
    <3>2. CASE ec' = [ec EXCEPT !.stream[c] = "none", !.at[c] = EndPoint(c)]
      BY <2>18, <3>2 DEF SendOpen, EndPoint
    <3> QED BY <2>18, <3>1, <3>2 DEF SendOpen
  <2>19. CASE InnerConnect(c)
    BY <2>19 DEF InnerConnect, Move
  <2>20. CASE SendHello(c)
    BY <2>20 DEF SendHello, Move
  <2>21. CASE PumpOver(c)
    BY <2>21 DEF PumpOver, Move
  <2>22. CASE AbandonStream(c)
    BY <2>22 DEF AbandonStream, EndPoint
  <2> HIDE <1>0 DEF Sound, Admitted, Outside, EdgeConnState, is_trusted
  <2> QED BY <2>1, <2>2, <2>3, <2>4, <2>5, <2>6, <2>7, <2>8, <2>9, <2>10, <2>11, <2>12, <2>13,
    <2>14, <2>15, <2>16, <2>17, <2>18, <2>19, <2>20, <2>21, <2>22, Zenon DEF TaskStep
<1> QED BY <1>1, <1>2

-------------------------------------------------------------------------------
(* What a step does to the limit: it leaves it alone, takes a place in two *)
(* steps, or gives it back in two.                                         *)

Counts(c) == (c \in ec.guard /\ ec.at[c] # "freeIp") \/ ec.at[c] \in {"perIp", "undo"}

Quiet(c) ==
  /\ ec'.guard = ec.guard /\ ec'.total = ec.total /\ ec'.perIp = ec.perIp
  /\ Counts(c)' <=> Counts(c)
  /\ \/ ec'.ip = ec.ip /\ (Stage(c)' = Stage(c) \/ (Stage(c) = "new" /\ Stage(c)' = "out"))
     \/ Stage(c) = "new" /\ Stage(c)' = "new" /\ c \notin ec.guard

TakesTotal(c) ==
  /\ ec'.guard = ec.guard /\ ec'.ip = ec.ip /\ ec'.perIp = ec.perIp
  /\ ec'.total = ec.total + 1 /\ (Total > 0 => ec.total < Total)
  /\ ~Counts(c) /\ Counts(c)' /\ Stage(c)' = Stage(c)

TakesPlace(c) ==
  /\ c \notin ec.guard /\ ec'.guard = ec.guard \cup {c} /\ ec'.ip = ec.ip /\ ec'.total = ec.total
  /\ ec'.perIp = [ec.perIp EXCEPT ![ec.ip[c]] = @ + 1]
  /\ PerIp > 0 => ec.perIp[ec.ip[c]] < PerIp
  /\ Counts(c) /\ Counts(c)' /\ Stage(c) = "new" /\ Stage(c)' = "in"

GivesTotal(c) ==
  /\ ec'.guard = ec.guard /\ ec'.ip = ec.ip /\ ec'.perIp = ec.perIp
  /\ ec'.total = ec.total - 1
  /\ Counts(c) /\ ~Counts(c)'
  /\ \/ Stage(c)' = Stage(c)
     \/ Stage(c) \in {"new", "in"} /\ Stage(c)' = "out"

FreesPlace(c) ==
  /\ c \in ec.guard /\ ec'.guard = ec.guard \ {c} /\ ec'.ip = ec.ip /\ ec'.total = ec.total
  /\ ec'.perIp = [ec.perIp EXCEPT ![ec.ip[c]] = @ - 1]
  /\ ~Counts(c) /\ ~Counts(c)' /\ Stage(c)' = Stage(c)

Kinds(c) == Quiet(c) \/ TakesTotal(c) \/ TakesPlace(c) \/ GivesTotal(c) \/ FreesPlace(c)

\* A step that only moves c, between points where the guard tells whether c counts.
LEMMA QuietWalk ==
  ASSUME EdgeConnTypeOK, NEW c \in Task, NEW q \in ConnPoint,
         ec'.at = [ec.at EXCEPT ![c] = q],
         ec'.guard = ec.guard, ec'.total = ec.total, ec'.perIp = ec.perIp, ec'.ip = ec.ip,
         \/ /\ ec.at[c] \notin {"perIp", "undo", "freeIp", "done"}
            /\ q \notin {"perIp", "undo", "freeIp"} /\ (q = "done" => c \notin ec.guard)
         \/ ec.at[c] \in {"perIp", "undo"} /\ q \in {"perIp", "undo"}
  PROVE  Quiet(c)
<1>1. ec'.at[c] = q
  BY DEF EdgeConnTypeOK, EdgeConnState
<1>2. Counts(c)' <=> Counts(c)
  BY <1>1 DEF Counts
<1>3. Stage(c)' = Stage(c) \/ (Stage(c) = "new" /\ Stage(c)' = "out")
  <2>1. CASE q = "done"
    BY <1>1, <2>1 DEF Stage
  <2>2. CASE q # "done"
    <3>1. ec.at[c] \notin {"freeIp", "done"} /\ q \notin {"freeIp", "done"}
      BY <2>2
    <3>2. Stage(c) = IF c \in ec.guard THEN "in" ELSE "new"
      BY <3>1 DEF Stage
    <3>3. Stage(c)' = IF c \in ec'.guard THEN "in" ELSE "new"
      BY <1>1, <3>1 DEF Stage
    <3> QED BY <3>2, <3>3
  <2> QED BY <2>1, <2>2
<1> QED BY <1>2, <1>3 DEF Quiet

LEMMA TaskKinds ==
  ASSUME EdgeInv, NEW c \in Task, TaskStep(c)
  PROVE  Kinds(c)
<1>0. /\ Sound(c) /\ Sound(c)' /\ ec \in EdgeConnState /\ EdgeConnTypeOK
  BY SoundStep DEF EdgeInv, EdgeConnTypeOK
<1>p. ec.peer[c] \in Ip
  BY <1>0 DEF EdgeConnState
<1>w. \A q \in ConnPoint :
            /\ ec' = [ec EXCEPT !.at[c] = q]
            /\ ec.at[c] \notin {"perIp", "undo", "freeIp", "done"}
            /\ q \notin {"perIp", "undo", "freeIp"}
            /\ q = "done" => c \notin ec.guard
            => Quiet(c)
  <2>1. SUFFICES ASSUME NEW q \in ConnPoint, ec' = [ec EXCEPT !.at[c] = q],
                        ec.at[c] \notin {"perIp", "undo", "freeIp", "done"},
                        q \notin {"perIp", "undo", "freeIp"}, q = "done" => c \notin ec.guard
                 PROVE  Quiet(c)
    OBVIOUS
  <2>2. /\ ec'.at = [ec.at EXCEPT ![c] = q] /\ ec'.guard = ec.guard /\ ec'.total = ec.total
        /\ ec'.perIp = ec.perIp /\ ec'.ip = ec.ip
    BY <1>0, <2>1 DEF EdgeConnState
  <2> QED BY <1>0, <2>1, <2>2, QuietWalk
<1>m. \A q \in ConnPoint : Move(c, q) /\ ec.at[c] \notin {"perIp", "undo", "freeIp", "done"}
              /\ q \notin {"perIp", "undo", "freeIp", "done"} => Quiet(c)
  BY <1>w DEF Move
<1>e. End(c) /\ ec.at[c] \notin {"perIp", "undo", "freeIp", "done"} => Quiet(c)
  BY <1>w, Zenon DEF End, EndPoint, Move, ConnPoint
<1>s. \A v \in {"none", "registered", "open"}, q \in ConnPoint :
               /\ ec' = [ec EXCEPT !.stream[c] = v, !.at[c] = q]
               /\ ec.at[c] \notin {"perIp", "undo", "freeIp", "done"}
               /\ q \notin {"perIp", "undo", "freeIp"}
               /\ q = "done" => c \notin ec.guard
               => Quiet(c)
  <2>1. SUFFICES ASSUME NEW v, NEW q \in ConnPoint, ec' = [ec EXCEPT !.stream[c] = v, !.at[c] = q],
                        ec.at[c] \notin {"perIp", "undo", "freeIp", "done"},
                        q \notin {"perIp", "undo", "freeIp"}, q = "done" => c \notin ec.guard
                 PROVE  Quiet(c)
    BY Zenon
  <2>2. /\ ec'.at = [ec.at EXCEPT ![c] = q] /\ ec'.guard = ec.guard /\ ec'.total = ec.total
        /\ ec'.perIp = ec.perIp /\ ec'.ip = ec.ip
    BY <1>0, <2>1 DEF EdgeConnState
  <2> QED BY <1>0, <2>1, <2>2, QuietWalk
<1>1. CASE Accept(c)
  BY <1>0, <1>1 DEF Kinds, Quiet, Accept, EdgeConnState, Sound, Outside, Counts, Stage
<1>2. CASE ReadProxy(c)
  <2>1. ec.at[c] = "proxy"
    BY <1>2, Zenon DEF ReadProxy
  <2>2. CASE End(c)
    BY <1>e, <2>1, <2>2 DEF Kinds
  <2>3. ASSUME NEW a, NEW q \in {"head", "rate"}, ec' = [ec EXCEPT !.ip[c] = a, !.at[c] = q]
        PROVE  Quiet(c)
    <3>1. /\ ec'.guard = ec.guard /\ ec'.total = ec.total /\ ec'.perIp = ec.perIp
          /\ ec'.at = [ec.at EXCEPT ![c] = q] /\ ec'.ip = [ec.ip EXCEPT ![c] = a]
          /\ ec'.at[c] = q /\ ec'.peer = ec.peer /\ ec'.top = ec.top
      BY <1>0, <2>3 DEF EdgeConnState
    <3>2. CASE c \in ec.guard
      <4>1. ec'.ip[c] = ec.ip[c]
        BY <1>0, <2>1, <3>1, <3>2 DEF Sound
      <4>2. ec'.ip = ec.ip
        BY <1>0, <3>1, <4>1 DEF EdgeConnState
      <4> QED BY <1>0, <2>1, <3>1, <4>2, QuietWalk, Zenon DEF ConnPoint
    <3>3. CASE c \notin ec.guard
      BY <2>1, <3>1, <3>3 DEF Quiet, Counts, Stage
    <3> QED BY <3>2, <3>3
  <2>4. CASE ~End(c)
    <3>1. PICK a \in Ip, q \in {"head", "rate"} :
            /\ a = ec.peer[c] \/ (ec.top.proxy # "off" /\ is_trusted(ec.peer[c]))
            /\ q = "head" <=> c \in ec.guard \/ xff_deferred(c)
            /\ ec' = [ec EXCEPT !.ip[c] = a, !.at[c] = q]
      BY <1>2, <1>p, <2>4, ReadProxyCases, Zenon
    <3> QED BY <2>3, <3>1, Zenon DEF Kinds
  <2> QED BY <2>2, <2>4
<1>d. Move(c, DenyPoint(c)) /\ ec.at[c] \in {"rate", "total"} => Quiet(c)
  BY <1>w, Zenon DEF DenyPoint, EndPoint, Move, ConnPoint
<1>3. CASE CheckRate(c)
  <2>1. CASE ec' = [ec EXCEPT !.tokens[ec.ip[c]] = @ - 1, !.at[c] = "total"]
    <3>1. /\ ec'.at = [ec.at EXCEPT ![c] = "total"] /\ ec'.guard = ec.guard
          /\ ec'.total = ec.total /\ ec'.perIp = ec.perIp /\ ec'.ip = ec.ip
      BY <1>0, <2>1 DEF EdgeConnState
    <3>2. ec.at[c] = "rate"
      BY <1>3 DEF CheckRate
    <3> QED BY <1>0, <3>1, <3>2, QuietWalk, Zenon DEF Kinds, ConnPoint
  <2> QED BY <1>3, <1>d, <2>1 DEF CheckRate, Kinds
<1>4. CASE AcquireTotal(c)
  <2>1. CASE Move(c, DenyPoint(c))
    BY <1>4, <1>d, <2>1 DEF Kinds, AcquireTotal
  <2>2. CASE /\ Total > 0 => ec.total < Total
             /\ ec' = [ec EXCEPT !.total = @ + 1, !.at[c] = "perIp"]
    BY <1>0, <1>4, <2>2, EdgeConnAssumption
       DEF Kinds, TakesTotal, AcquireTotal, EdgeConnState, Sound, Outside, Counts, Stage
  <2> QED BY <1>4, <2>1, <2>2 DEF AcquireTotal
<1>5. CASE AcquirePerIp(c)
  <2>1. CASE Move(c, "undo")
    <3>1. /\ ec'.at = [ec.at EXCEPT ![c] = "undo"] /\ ec'.guard = ec.guard
          /\ ec'.total = ec.total /\ ec'.perIp = ec.perIp /\ ec'.ip = ec.ip
      BY <1>0, <2>1 DEF EdgeConnState, Move
    <3>2. ec.at[c] = "perIp"
      BY <1>5 DEF AcquirePerIp
    <3> QED BY <1>0, <3>1, <3>2, QuietWalk, Zenon DEF Kinds, ConnPoint
  <2>2. CASE /\ PerIp > 0 => ec.perIp[ec.ip[c]] < PerIp
             /\ ec' = [ec EXCEPT !.perIp[ec.ip[c]] = @ + 1, !.guard = @ \cup {c},
                                 !.at[c] = AdmittedAt(c)]
    BY <1>0, <1>5, <2>2, EdgeConnAssumption
       DEF Kinds, TakesPlace, AcquirePerIp, AdmittedAt, EdgeConnState, Sound, Outside, Counts, Stage
  <2> QED BY <1>5, <2>1, <2>2 DEF AcquirePerIp
<1>6. CASE AcquireUndo(c)
  BY <1>0, <1>6
     DEF Kinds, GivesTotal, AcquireUndo, DenyPoint, EndPoint, EdgeConnState, Sound, Outside, Counts, Stage
<1>7. CASE WriteDeny(c)
  BY <1>7, <1>e DEF Kinds, WriteDeny
<1>8. CASE ReleaseTotal(c)
  BY <1>0, <1>8 DEF Kinds, GivesTotal, ReleaseTotal, EdgeConnState, Sound, Admitted, Counts, Stage
<1>9. CASE ReleasePerIp(c)
  BY <1>0, <1>9 DEF Kinds, FreesPlace, ReleasePerIp, EdgeConnState, Sound, Admitted, Counts, Stage
<1>10. CASE ReadHello443(c) \/ Handshake443(c) \/ ControlEnds(c)
  BY <1>10, <1>e, <1>m DEF Kinds, ReadHello443, Handshake443, ControlEnds, ConnPoint
<1>11. CASE read_http01_head(c) \/ write_http01_response(c)
  BY <1>11, <1>e, <1>m DEF Kinds, read_http01_head, write_http01_response, ConnPoint
<1>12. CASE PeekHead(c)
  <2>1. ec.at[c] = "head"
    BY <1>12, Zenon DEF PeekHead
  <2>2. CASE End(c) \/ Move(c, "route")
    BY <1>e, <1>m, <2>1, <2>2 DEF Kinds, ConnPoint
  <2>3. ASSUME xff_deferred(c), NEW a, ec' = [ec EXCEPT !.ip[c] = a, !.at[c] = "rate"]
        PROVE  Quiet(c)
    BY <1>0, <2>1, <2>3 DEF Quiet, xff_deferred, EdgeConnState, Counts, Stage
  <2> QED BY <1>12, <1>p, <2>2, <2>3, PeekHeadCases, Zenon DEF Kinds
<1>13. CASE LookupRoute(c)
  BY <1>13, <1>e, <1>m DEF Kinds, LookupRoute, ConnPoint
<1>14. CASE RegisterStream(c)
  <2>1. PICK p \in {"open", "abandon"} : ec' = [ec EXCEPT !.stream[c] = "registered", !.at[c] = p]
    BY <1>14, Zenon DEF RegisterStream
  <2> QED BY <1>14, <1>s, <2>1, Zenon DEF Kinds, RegisterStream, ConnPoint
<1>15. ec.at[c] \in {"open", "abandon"} /\ ec' = [ec EXCEPT !.stream[c] = "none", !.at[c] = EndPoint(c)]
         => Quiet(c)
  BY <1>s, Zenon DEF EndPoint, ConnPoint
<1>16. CASE SendOpen(c)
  BY <1>15, <1>16, <1>s DEF SendOpen, Kinds, ConnPoint
<1>17. CASE InnerConnect(c) \/ SendHello(c) \/ PumpOver(c)
  BY <1>17, <1>m DEF Kinds, InnerConnect, SendHello, PumpOver, ConnPoint
<1>18. CASE AbandonStream(c)
  BY <1>15, <1>18 DEF AbandonStream, Kinds
<1> QED BY <1>1, <1>2, <1>3, <1>4, <1>5, <1>6, <1>7, <1>8, <1>9, <1>10, <1>11, <1>12, <1>13,
  <1>14, <1>16, <1>17, <1>18 DEF TaskStep

\* The effect on the two sets the counters stand for.
LEMMA SetsStep ==
  ASSUME EdgeConnTypeOK, NEW c \in Task, Frame(c), Kinds(c)
  PROVE  /\ Quiet(c) => Counted' = Counted /\ \A i : Under(i)' = Under(i)
         /\ TakesTotal(c) => Counted' = Counted \cup {c} /\ \A i : Under(i)' = Under(i)
         /\ TakesPlace(c) => /\ Counted' = Counted
                             /\ \A i : Under(i)' = IF i = ec.ip[c] THEN Under(i) \cup {c} ELSE Under(i)
         /\ GivesTotal(c) => Counted' = Counted \ {c} /\ \A i : Under(i)' = Under(i)
         /\ FreesPlace(c) => /\ Counted' = Counted
                             /\ \A i : Under(i)' = IF i = ec.ip[c] THEN Under(i) \ {c} ELSE Under(i)
<1>1. \A d \in Task : d # c => (Counts(d)' <=> Counts(d))
  BY DEF Frame, Counts
<1>2. Counted = {d \in Task : Counts(d)} /\ Counted' = {d \in Task : Counts(d)'}
  BY DEF Counted, Counts
<1>3. ec.guard \subseteq Task
  BY DEF EdgeConnTypeOK, EdgeConnState
<1>4. \A i : /\ Under(i) = {d \in ec.guard : ec.ip[d] = i}
             /\ Under(i)' = {d \in ec'.guard : ec'.ip[d] = i}
  BY DEF Under
<1>5. CASE Quiet(c)
  <2>1. \A d \in ec.guard : ec'.ip[d] = ec.ip[d]
    BY <1>3, <1>5 DEF Quiet, Frame
  <2>2. ~TakesTotal(c) /\ ~TakesPlace(c) /\ ~GivesTotal(c) /\ ~FreesPlace(c)
    BY <1>5 DEF Quiet, TakesTotal, TakesPlace, GivesTotal, FreesPlace
  <2> QED BY <1>1, <1>2, <1>4, <1>5, <2>1, <2>2 DEF Quiet
<1>6. CASE TakesTotal(c)
  <2>1. ~Quiet(c) /\ ~TakesPlace(c) /\ ~GivesTotal(c) /\ ~FreesPlace(c)
    BY <1>6 DEF Quiet, TakesTotal, TakesPlace, GivesTotal, FreesPlace
  <2> QED BY <1>1, <1>2, <1>4, <1>6, <2>1 DEF TakesTotal
<1>7. CASE TakesPlace(c)
  <2>1. ~Quiet(c) /\ ~TakesTotal(c) /\ ~GivesTotal(c) /\ ~FreesPlace(c)
    BY <1>7 DEF Quiet, TakesTotal, TakesPlace, GivesTotal, FreesPlace
  <2> QED BY <1>1, <1>2, <1>4, <1>7, <2>1 DEF TakesPlace
<1>8. CASE GivesTotal(c)
  <2>1. ~Quiet(c) /\ ~TakesTotal(c) /\ ~TakesPlace(c) /\ ~FreesPlace(c)
    BY <1>8 DEF Quiet, TakesTotal, TakesPlace, GivesTotal, FreesPlace
  <2> QED BY <1>1, <1>2, <1>4, <1>8, <2>1 DEF GivesTotal
<1>9. CASE FreesPlace(c)
  <2>1. ~Quiet(c) /\ ~TakesTotal(c) /\ ~TakesPlace(c) /\ ~GivesTotal(c)
    BY <1>9 DEF Quiet, TakesTotal, TakesPlace, GivesTotal, FreesPlace
  <2> QED BY <1>1, <1>2, <1>4, <1>9, <2>1, Zenon DEF FreesPlace
<1> QED BY <1>5, <1>6, <1>7, <1>8, <1>9 DEF Kinds

LEMMA TrackerStep ==
  ASSUME EdgeInv, NEW c \in Task, Frame(c), Kinds(c)
  PROVE  TrackerExact' /\ Capped'
<1>1. /\ EdgeConnTypeOK /\ ec.total = Cardinality(Counted) /\ ec.total \in Nat
      /\ \A i \in Ip : ec.perIp[i] = Cardinality(Under(i)) /\ ec.perIp[i] \in Nat
      /\ ec.perIp \in [Ip -> Nat] /\ ec.ip[c] \in Ip /\ Capped
  BY DEF EdgeInv, TrackerExact, Counted, Under, EdgeConnTypeOK, EdgeConnState
<1>2. IsFiniteSet(Counted) /\ \A i : IsFiniteSet(Under(i))
  BY <1>1, CountsFinite
<1>3. SUFFICES /\ ec'.total = Cardinality(Counted') /\ Capped'
               /\ \A i \in Ip : ec'.perIp[i] = Cardinality(Under(i)')
  BY DEF TrackerExact, Counted, Under
<1>4. c \in Counted <=> Counts(c)
  BY DEF Counted, Counts
<1>5. CASE Quiet(c)
  BY <1>1, <1>5, SetsStep DEF Quiet, Capped
<1>6. CASE TakesTotal(c)
  <2>1. Counted' = Counted \cup {c} /\ \A i : Under(i)' = Under(i)
    BY <1>1, <1>6, SetsStep
  <2>2. Cardinality(Counted \cup {c}) = Cardinality(Counted) + 1
    BY <1>2, <1>4, <1>6, FS_AddElement, Zenon DEF TakesTotal
  <2> QED BY <1>1, <1>6, <2>1, <2>2, EdgeConnAssumption DEF TakesTotal, Capped
<1>7. CASE TakesPlace(c)
  <2>1. /\ Counted' = Counted
        /\ \A i : Under(i)' = IF i = ec.ip[c] THEN Under(i) \cup {c} ELSE Under(i)
    BY <1>1, <1>7, SetsStep
  <2>2. Cardinality(Under(ec.ip[c]) \cup {c}) = Cardinality(Under(ec.ip[c])) + 1
    <3>1. c \notin Under(ec.ip[c])
      BY <1>7 DEF TakesPlace, Under
    <3> QED BY <1>2, <3>1, FS_AddElement, Zenon
  <2> QED BY <1>1, <1>7, <2>1, <2>2 DEF TakesPlace, Capped
<1>8. CASE GivesTotal(c)
  <2>1. Counted' = Counted \ {c} /\ \A i : Under(i)' = Under(i)
    BY <1>1, <1>8, SetsStep
  <2>2. Cardinality(Counted \ {c}) = Cardinality(Counted) - 1
    BY <1>2, <1>4, <1>8, FS_RemoveElement DEF GivesTotal
  <2> QED BY <1>1, <1>8, <2>1, <2>2, EdgeConnAssumption DEF GivesTotal, Capped
<1>9. CASE FreesPlace(c)
  <2>1. /\ Counted' = Counted
        /\ \A i : Under(i)' = IF i = ec.ip[c] THEN Under(i) \ {c} ELSE Under(i)
    BY <1>1, <1>9, SetsStep
  <2>2. Cardinality(Under(ec.ip[c]) \ {c}) = Cardinality(Under(ec.ip[c])) - 1
    <3>1. c \in Under(ec.ip[c])
      BY <1>9 DEF FreesPlace, Under
    <3> QED BY <1>2, <3>1, FS_RemoveElement, Zenon
  <2> QED BY <1>1, <1>9, <2>1, <2>2 DEF FreesPlace, Capped
<1> QED BY <1>5, <1>6, <1>7, <1>8, <1>9 DEF Kinds

-------------------------------------------------------------------------------
(* The abstract limit.                                                     *)

LEMMA LimitStep ==
  ASSUME EdgeInv, NEW c \in Task, Frame(c), Kinds(c)
  PROVE  [Limit!LimitNext]_Limit!limitVars
<1> DEFINE stage == [d \in Task |-> Stage(d)]
<1>1. /\ ec.ip \in [Task -> Ip] /\ ec'.ip \in [Task -> Ip] /\ EdgeConnTypeOK
      /\ ec.total \in Nat /\ ec.total = Cardinality(Counted)
      /\ \A i \in Ip : ec.perIp[i] = Cardinality(Under(i)) /\ ec.perIp[i] \in Nat
      /\ Capped
  BY DEF EdgeInv, TrackerExact, Counted, Under, EdgeConnTypeOK, EdgeConnState, Frame
<1>2. \A d \in Task : d # c => Stage(d)' = Stage(d) /\ ec'.ip[d] = ec.ip[d]
  BY DEF Frame, Stage
<1>3. ASSUME Stage(c)' = Stage(c), ec'.ip = ec.ip
      PROVE  UNCHANGED Limit!limitVars
  BY <1>2, <1>3 DEF Limit!limitVars
<1>4. ASSUME NEW v, Stage(c)' = v
      PROVE  stage' = [stage EXCEPT ![c] = v]
  BY <1>2, <1>4, Zenon
<1>5. CASE Stage(c) = "new" /\ Stage(c)' = "new"
  <2>1. stage' = stage /\ stage[c] = "new"
    BY <1>2, <1>5
  <2>2. ec'.ip = [ec.ip EXCEPT ![c] = ec'.ip[c]] /\ ec'.ip[c] \in Ip
    BY <1>1, <1>2
  <2>3. Limit!Learn(c)
    BY <2>1, <2>2 DEF Limit!Learn
  <2> QED BY <2>3 DEF Limit!LimitNext
<1>6. CASE Stage(c) = "new" /\ Stage(c)' = "out" /\ ec'.ip = ec.ip
  <2>1. Limit!Refuse(c)
    BY <1>4, <1>6 DEF Limit!Refuse
  <2> QED BY <2>1 DEF Limit!LimitNext
<1>7. CASE Stage(c) = "in" /\ Stage(c)' = "out" /\ ec'.ip = ec.ip
  <2>1. Limit!Leave(c)
    BY <1>4, <1>7 DEF Limit!Leave
  <2> QED BY <2>1 DEF Limit!LimitNext
<1>8. CASE TakesPlace(c)
  <2>1. Limit!Inside \subseteq Counted \ {c}
    BY <1>8 DEF Limit!Inside, Counted, Stage, TakesPlace
  <2>2. \A i : Limit!InsideFrom(i) \subseteq Under(i)
    BY DEF Limit!InsideFrom, Limit!Inside, Under, Stage
  <2>3. /\ IsFiniteSet(Counted) /\ IsFiniteSet(Under(ec.ip[c]))
        /\ c \in Counted
    BY <1>1, <1>8, CountsFinite DEF Counted, Counts, TakesPlace
  <2>4. IsFiniteSet(Counted \ {c}) /\ Cardinality(Counted \ {c}) = ec.total - 1
    BY <1>1, <2>3, FS_RemoveElement
  <2>5. Cardinality(Limit!Inside) <= ec.total - 1 /\ Cardinality(Limit!Inside) \in Nat
    BY <2>1, <2>4, FS_Subset, FS_CardinalityType
  <2>6. Cardinality(Limit!InsideFrom(ec.ip[c])) <= ec.perIp[ec.ip[c]]
        /\ Cardinality(Limit!InsideFrom(ec.ip[c])) \in Nat
    BY <1>1, <2>2, <2>3, FS_Subset, FS_CardinalityType
  <2>7. Total > 0 => Cardinality(Limit!Inside) < Total
    BY <1>1, <2>5, EdgeConnAssumption DEF Capped
  <2>8. PerIp > 0 => Cardinality(Limit!InsideFrom(ec.ip[c])) < PerIp
    BY <1>1, <1>8, <2>6, EdgeConnAssumption DEF TakesPlace
  <2>9. stage[c] = "new" /\ stage' = [stage EXCEPT ![c] = "in"] /\ ec'.ip = ec.ip
    BY <1>4, <1>8 DEF TakesPlace
  <2>10. Limit!Admit(c)
    BY <2>7, <2>8, <2>9, Zenon DEF Limit!Admit, Cardinality, Limit!Cardinality
  <2> QED BY <2>10 DEF Limit!LimitNext
<1>9. CASE Quiet(c)
  BY <1>3, <1>5, <1>6, <1>9 DEF Quiet
<1>10. CASE TakesTotal(c) \/ FreesPlace(c)
  BY <1>3, <1>10 DEF TakesTotal, FreesPlace
<1>11. CASE GivesTotal(c)
  BY <1>3, <1>6, <1>7, <1>11 DEF GivesTotal
<1> QED BY <1>8, <1>9, <1>10, <1>11 DEF Kinds

-------------------------------------------------------------------------------
(* The theorems.                                                           *)

LEMMA EdgeInit == EdgeConnInit => EdgeInv /\ Limit!LimitInit
<1> SUFFICES ASSUME NEW t \in Topology, ec = EdgeConnStart(t) PROVE EdgeInv /\ Limit!LimitInit
  BY DEF EdgeConnInit
<1>1. EdgeConnTypeOK
  BY EdgeConnAssumption DEF EdgeConnTypeOK, EdgeConnState, EdgeConnStart, ConnPoint, Ip
<1>2. \A c \in Task : Sound(c) /\ Stage(c) = "new"
  BY DEF Sound, EdgeConnStart, Admitted, Outside, Stage
<1>3. Counted = {} /\ \A i : Under(i) = {}
  BY DEF Counted, Under, EdgeConnStart
<1>4. TrackerExact /\ Capped
  <2>1. ec.total = 0 /\ \A i \in Ip : ec.perIp[i] = 0
    BY DEF EdgeConnStart
  <2>2. ec.total = Cardinality(Counted) /\ \A i \in Ip : ec.perIp[i] = Cardinality(Under(i))
    BY <1>3, <2>1, FS_EmptySet
  <2> QED BY <2>1, <2>2, EdgeConnAssumption DEF TrackerExact, Counted, Under, Capped
<1>5. Limit!LimitInit
  BY <1>1, <1>2 DEF Limit!LimitInit, EdgeConnTypeOK, EdgeConnState
<1> QED BY <1>1, <1>2, <1>4, <1>5 DEF EdgeInv

LEMMA EdgeStep ==
  ASSUME EdgeInv, [EdgeConnNext]_ec
  PROVE  EdgeInv' /\ [Limit!LimitNext]_Limit!limitVars
<1>1. ASSUME NEW c \in Task, TaskStep(c)
      PROVE  EdgeInv' /\ [Limit!LimitNext]_Limit!limitVars
  <2>1. Frame(c) /\ (\A d \in Task : Sound(d)') /\ Kinds(c)
    BY <1>1, TaskFrame, SoundStep, TaskKinds
  <2>2. EdgeConnTypeOK'
    BY <2>1 DEF Frame, EdgeConnTypeOK
  <2> QED BY <2>1, <2>2, TrackerStep, LimitStep DEF EdgeInv
<1>2. ASSUME ec' \in EdgeConnState, ec'.top = ec.top, ec'.at = ec.at, ec'.peer = ec.peer,
             ec'.ip = ec.ip, ec'.guard = ec.guard, ec'.stream = ec.stream, ec'.total = ec.total,
             ec'.perIp = ec.perIp
      PROVE  EdgeInv' /\ UNCHANGED Limit!limitVars
  <2>1. \A d \in Task : Sound(d)' /\ Stage(d)' = Stage(d)
    BY <1>2 DEF EdgeInv, Sound, Stage
  <2>2. EdgeConnTypeOK' /\ TrackerExact' /\ Capped'
    BY <1>2 DEF EdgeInv, EdgeConnTypeOK, TrackerExact, Capped
  <2> QED BY <1>2, <2>1, <2>2 DEF EdgeInv, Limit!limitVars
<1>3. ASSUME NEW i \in Ip, Refill(i)
      PROVE  EdgeInv' /\ UNCHANGED Limit!limitVars
  <2>1. ec \in EdgeConnState /\ ec.tokens[i] + 1 \in 0..Quota
    BY <1>3, EdgeConnAssumption DEF EdgeInv, EdgeConnTypeOK, EdgeConnState, Refill
  <2>2. ec' = [ec EXCEPT !.tokens[i] = ec.tokens[i] + 1]
    BY <1>3 DEF Refill
  <2> QED BY <1>2, <2>1, <2>2 DEF EdgeConnState
<1>4. CASE replace
  <2>1. ec \in EdgeConnState
    BY DEF EdgeInv, EdgeConnTypeOK
  <2>2. PICK routes \in HostLines :
          /\ ec.swaps < MaxSwap
          /\ ec' = [ec EXCEPT !.swaps = @ + 1,
                              !.table = IF routes_to_map(routes) = {} THEN @
                                        ELSE CHOOSE t \in routes_to_map(routes) : TRUE]
    BY <1>4, Zenon DEF replace
  <2>3. ASSUME routes_to_map(routes) # {}
        PROVE  (CHOOSE t \in routes_to_map(routes) : TRUE) \in SUBSET {"h"}
    <3>1. routes \in {<<>>, <<"h">>}
      BY <2>3 DEF HostLines, routes_to_map
    <3>2. \A t \in routes_to_map(routes) : t \in SUBSET {"h"}
      BY <3>1 DEF routes_to_map
    <3> QED BY <2>3, <3>2
  <2>4. PICK T \in SUBSET {"h"} : ec' = [ec EXCEPT !.swaps = ec.swaps + 1, !.table = T]
    BY <2>1, <2>2, <2>3, Zenon DEF EdgeConnState
  <2>5. ec.swaps + 1 \in 0..MaxSwap
    BY <2>1, <2>2, EdgeConnAssumption DEF EdgeConnState
  <2> QED BY <1>2, <2>1, <2>4, <2>5, Zenon DEF EdgeConnState
<1>5. CASE UNCHANGED ec
  BY <1>2, <1>5 DEF EdgeInv, EdgeConnTypeOK
<1> QED BY <1>1, <1>3, <1>4, <1>5, Zenon DEF EdgeConnNext

\* The counters of ConnTracker are exact whatever tasks interleave, at any number of
\* connections and addresses.
THEOREM TrackerIsExact == EdgeConnSpec => [](EdgeConnTypeOK /\ TrackerExact)
<1>1. EdgeInv /\ [EdgeConnNext]_ec => EdgeInv'
  BY EdgeStep
<1>2. EdgeInv => EdgeConnTypeOK /\ TrackerExact
  BY DEF EdgeInv
<1> QED BY EdgeInit, <1>1, <1>2, PTL DEF EdgeConnSpec

\* The counters are exact, and no connection is routed without an admission, under an
\* address nobody vouched for, or ends with a stream registered.
THEOREM ConnectionsAreSound == EdgeConnSpec => []EdgeSound
<1>1. EdgeInv /\ [EdgeConnNext]_ec => EdgeInv'
  BY EdgeStep
<1>2. EdgeInv => RoutedIsAdmitted /\ EffectiveIsVouched /\ StreamsReturned
  BY DEF EdgeInv, Sound, Admitted, RoutedIsAdmitted, EffectiveIsVouched, StreamsReturned, Task
<1>3. EdgeInv => EdgeSound
  BY <1>2 DEF EdgeInv, EdgeSound
<1> QED BY EdgeInit, <1>1, <1>3, PTL DEF EdgeConnSpec

\* The two counters with their roll-back implement an admission in one step.
THEOREM LimitIsImplemented == EdgeConnSpec => LimitImplemented
<1>1. EdgeInv /\ [EdgeConnNext]_ec => EdgeInv'
  BY EdgeStep
<1>2. EdgeInv /\ [EdgeConnNext]_ec => [Limit!LimitNext]_Limit!limitVars
  BY EdgeStep
<1> QED BY EdgeInit, <1>1, <1>2, PTL DEF EdgeConnSpec, LimitImplemented, Limit!LimitSpec
=============================================================================
