--------------------------- MODULE HubChannelProofs ---------------------------
(* Proofs about the control channels of a hub: the revocation lists            *)
(* (CrlChannel), the proposal queue (Proposals) and the signed policy          *)
(* (PolicyChannel), for every number of pushes, submissions, records and       *)
(* publications and every bound.                                               *)
EXTENDS CrlChannel, Proposals, PolicyChannel, FiniteSetTheorems, TLAPS

(* ------------------------ The revocation channel ------------------------- *)

PushAts == {"new", "write", "build", "floor", "current", "plane", "sweep", "evict",
            "done", "refused", "failed"}
PushRecord == [at : PushAts, chosen : Int, victim : Session \cup {Nobody}]

\* Every reload works with a list no weaker than the snapshot, and a sweep's
\* victim carries the leaf a list can name.
ChosenInv ==
  /\ Static <= cr.floor /\ Static <= cr.current /\ Static <= cr.plane
  /\ \A p \in Push : /\ Static <= cr.push[p].chosen
                     /\ PushAt(p, "evict") => cr.push[p].victim.leaf = "old"

\* While every other push has not begun or was refused, what a push has swapped
\* in is still there, and a push that begins finds the live lane empty.
AloneInv ==
  cr.boots = 0 =>
    \A p \in Push :
      (\A q \in Push \ {p} : cr.push[q].at \in {"new", "refused"}) =>
        /\ PushAt(p, "new") => cr.live = -1
        /\ cr.push[p].at \in {"plane", "sweep", "evict", "done"} => cr.current = cr.push[p].chosen
        /\ cr.push[p].at \in {"sweep", "evict", "done"} => cr.plane = cr.push[p].chosen

CrlInv == CrlTypeOK /\ ChosenInv /\ AloneInv

\* A step of the reload of p: its record and the fields it writes.
PushMoved(p, r, l, f, c, n, e) ==
  cr' = [live |-> l, floor |-> f, current |-> c, plane |-> n,
         push |-> [cr.push EXCEPT ![p] = r], entry |-> e, gate |-> cr.gate,
         circuits |-> cr.circuits, boots |-> cr.boots]

LEMMA CrlFields ==
  ASSUME CrlTypeOK
  PROVE  /\ cr.live \in Int /\ cr.floor \in Int /\ cr.current \in Int /\ cr.plane \in Int
         /\ cr.push \in [Push -> PushRecord] /\ cr.entry \in Session \cup {Nobody}
         /\ cr.gate \in Leaf \cup {"none"} /\ cr.circuits \in Nat /\ cr.boots \in Nat
         /\ cr = [live |-> cr.live, floor |-> cr.floor, current |-> cr.current,
                  plane |-> cr.plane, push |-> cr.push, entry |-> cr.entry, gate |-> cr.gate,
                  circuits |-> cr.circuits, boots |-> cr.boots]
  BY DEF CrlTypeOK, CrlState, PushRecord, PushAts

LEMMA MovedRecord ==
  ASSUME CrlTypeOK, NEW p \in Push, NEW s \in PushAts
  PROVE  /\ PushMoves(p, s) \in PushRecord /\ PushMoves(p, s).at = s
         /\ PushMoves(p, s).chosen = cr.push[p].chosen
         /\ PushMoves(p, s).victim = cr.push[p].victim
  BY CrlFields DEF PushRecord, PushMoves

LEMMA PushMovedFields ==
  ASSUME CrlTypeOK, NEW p \in Push, NEW r \in PushRecord, NEW l \in Int, NEW f \in Int,
         NEW c \in Int, NEW n \in Int, NEW e \in Session \cup {Nobody},
         PushMoved(p, r, l, f, c, n, e)
  PROVE  /\ CrlTypeOK' /\ cr'.live = l /\ cr'.floor = f /\ cr'.current = c /\ cr'.plane = n
         /\ cr'.entry = e /\ cr'.boots = cr.boots
         /\ cr'.push[p] = r /\ \A q \in Push : q # p => cr'.push[q] = cr.push[q]
<1>1. [cr.push EXCEPT ![p] = r] \in [Push -> PushRecord]
  BY CrlFields
<1>2. CrlTypeOK'
  BY <1>1, CrlFields DEF PushMoved, CrlTypeOK, CrlState, PushRecord, PushAts
<1> QED BY <1>2, CrlFields DEF PushMoved

\* What one step may do to the floor and to a registration.
FloorStep == cr'.boots = cr.boots => cr'.floor >= cr.floor
SpareStep == cr'.boots = cr.boots /\ cr.entry # Nobody /\ cr.entry.leaf = "fresh"
             => cr'.entry # Nobody
CrlStepOK == CrlInv' /\ FloorStep /\ SpareStep

Quiet(p) == \A q \in Push \ {p} : cr.push[q].at \in {"new", "refused"}

\* A reload moves on: from here on the other pushes are not alone any more.
LEMMA ReloadKeeps ==
  ASSUME CrlInv, NEW p \in Push, NEW r \in PushRecord, NEW l \in Int, NEW f \in Int,
         NEW c \in Int, NEW n \in Int, NEW e \in Session \cup {Nobody},
         PushMoved(p, r, l, f, c, n, e),
         r.at \notin {"new", "refused"},
         cr.floor <= f, Static <= c, Static <= n, Static <= r.chosen,
         r.at = "evict" => r.victim.leaf = "old",
         cr.boots = 0 /\ Quiet(p) =>
           /\ r.at \in {"plane", "sweep", "evict", "done"} => c = r.chosen
           /\ r.at \in {"sweep", "evict", "done"} => n = r.chosen,
         cr.entry # Nobody /\ cr.entry.leaf = "fresh" => e = cr.entry
  PROVE  CrlStepOK
<1>1. /\ CrlTypeOK' /\ cr'.live = l /\ cr'.floor = f /\ cr'.current = c /\ cr'.plane = n
      /\ cr'.entry = e /\ cr'.boots = cr.boots
      /\ cr'.push[p] = r /\ \A q \in Push : q # p => cr'.push[q] = cr.push[q]
  BY PushMovedFields DEF CrlInv
<1>2. FloorStep /\ SpareStep
  BY <1>1, CrlFields DEF FloorStep, SpareStep, CrlInv
<1>3. Static <= cr.floor /\ Static \in Int /\ cr.floor \in Int
  BY CrlFields, CrlAssumption DEF CrlInv, ChosenInv
<1>4. ChosenInv'
  <2>1. Static <= cr'.floor /\ Static <= cr'.current /\ Static <= cr'.plane
    BY <1>1, <1>3
  <2>2. \A q \in Push : Static <= cr'.push[q].chosen
                        /\ (cr'.push[q].at = "evict" => cr'.push[q].victim.leaf = "old")
    BY <1>1 DEF CrlInv, ChosenInv, PushAt
  <2> QED BY <2>1, <2>2 DEF ChosenInv, PushAt
<1>5. AloneInv'
  <2> SUFFICES ASSUME cr.boots = 0, NEW q \in Push,
                      \A o \in Push \ {q} : cr'.push[o].at \in {"new", "refused"}
               PROVE  /\ cr'.push[q].at = "new" => cr'.live = -1
                      /\ cr'.push[q].at \in {"plane", "sweep", "evict", "done"} =>
                           cr'.current = cr'.push[q].chosen
                      /\ cr'.push[q].at \in {"sweep", "evict", "done"} => cr'.plane = cr'.push[q].chosen
    BY <1>1 DEF AloneInv, PushAt
  <2>1. q = p
    BY <1>1
  <2>2. Quiet(p)
    BY <1>1, <2>1 DEF Quiet
  <2> QED BY <1>1, <2>1, <2>2
<1> QED BY <1>1, <1>2, <1>4, <1>5 DEF CrlStepOK, CrlInv

\* PUT /crls: the numbers are checked against the floor.
LEMMA ChecksKeep ==
  ASSUME CrlInv, NEW p \in Push, CrlChecks(p) \/ LaneChecks(p)
  PROVE  CrlStepOK
<1> USE DEF CrlInv
<1>1. PushAt(p, "new")
  BY DEF CrlChecks, LaneChecks
<1>2. PICK s \in {"done", "write", "refused", "build"} :
        /\ cr' = [cr EXCEPT !.push[p] = PushMoves(p, s)]
        /\ s = "done" => Number[p] = cr.live
  BY DEF CrlChecks, LaneChecks
<1>3. PushMoved(p, PushMoves(p, s), cr.live, cr.floor, cr.current, cr.plane, cr.entry)
  BY <1>2, CrlFields, Zenon DEF PushMoved
<1>4. /\ PushMoves(p, s) \in PushRecord /\ PushMoves(p, s).at = s
      /\ PushMoves(p, s).chosen = cr.push[p].chosen
  BY MovedRecord DEF PushAts
<1>5. /\ Static <= cr.floor /\ Static <= cr.current /\ Static <= cr.plane
      /\ Static <= cr.push[p].chosen
  BY DEF ChosenInv
<1>6. cr.boots = 0 /\ Quiet(p) => cr.live = -1
  BY <1>1 DEF AloneInv, Quiet
<1>7. CASE s # "refused"
  <2>1. cr.boots = 0 /\ Quiet(p) => s # "done"
    BY <1>2, <1>6, CrlAssumption
  <2>2. cr.floor <= cr.floor
    BY CrlFields
  <2> QED BY <1>3, <1>4, <1>5, <1>7, <2>1, <2>2, CrlFields, ReloadKeeps
<1>8. CASE s = "refused"
  <2>1. /\ CrlTypeOK' /\ cr'.live = cr.live /\ cr'.floor = cr.floor /\ cr'.current = cr.current
        /\ cr'.plane = cr.plane /\ cr'.entry = cr.entry /\ cr'.boots = cr.boots
        /\ cr'.push[p] = PushMoves(p, s) /\ \A q \in Push : q # p => cr'.push[q] = cr.push[q]
    BY <1>3, <1>4, CrlFields, PushMovedFields
  <2>2. ChosenInv'
    BY <1>4, <1>8, <2>1 DEF ChosenInv, PushAt
  <2>3. AloneInv'
    <3> SUFFICES ASSUME cr.boots = 0, NEW q \in Push,
                        \A o \in Push \ {q} : cr'.push[o].at \in {"new", "refused"}
                 PROVE  /\ cr'.push[q].at = "new" => cr'.live = -1
                        /\ cr'.push[q].at \in {"plane", "sweep", "evict", "done"} =>
                             cr'.current = cr'.push[q].chosen
                        /\ cr'.push[q].at \in {"sweep", "evict", "done"} => cr'.plane = cr'.push[q].chosen
      BY <2>1 DEF AloneInv, PushAt
    <3>1. \A o \in Push \ {q} : cr.push[o].at \in {"new", "refused"}
      BY <1>1, <2>1 DEF PushAt
    <3>2. CASE q = p
      BY <1>4, <1>8, <2>1, <3>2
    <3>3. CASE q # p
      BY <2>1, <3>1, <3>3 DEF AloneInv, PushAt
    <3> QED BY <3>2, <3>3
  <2>4. FloorStep /\ SpareStep
    BY <2>1, CrlFields DEF FloorStep, SpareStep
  <2> QED BY <2>1, <2>2, <2>3, <2>4 DEF CrlStepOK
<1> QED BY <1>7, <1>8

\* The steps of a reload up to the sweep.
LEMMA ReloadSteps ==
  ASSUME CrlInv, NEW p \in Push,
         \/ CrlWrites(p) \/ ReloadBuilds(p) \/ ReloadFails(p) \/ ReloadRaisesFloor(p)
         \/ ReloadSwapsGates(p) \/ ReloadSwapsPlane(p)
  PROVE  CrlStepOK
<1> USE DEF CrlInv
<1>1. /\ Static <= cr.floor /\ Static <= cr.current /\ Static <= cr.plane
      /\ Static <= cr.push[p].chosen /\ cr.push[p].chosen \in Int
  BY CrlFields DEF ChosenInv, PushRecord
<1>2. cr.floor <= cr.floor /\ Number[p] \in Int /\ Static \in Int
  BY CrlFields, CrlAssumption
<1>3. CASE CrlWrites(p)
  <2>1. PushMoved(p, PushMoves(p, "build"), Number[p], cr.floor, cr.current, cr.plane, cr.entry)
    BY <1>3, CrlFields, Zenon DEF CrlWrites, PushMoved
  <2>2. PushMoves(p, "build") \in PushRecord /\ PushMoves(p, "build").at = "build"
        /\ PushMoves(p, "build").chosen = cr.push[p].chosen
    BY MovedRecord DEF PushAts
  <2> QED BY <1>1, <1>2, <2>1, <2>2, CrlFields, ReloadKeeps, Zenon
<1>4. CASE ReloadBuilds(p)
  <2> DEFINE r == [PushMoves(p, "floor") EXCEPT !.chosen = choose_tenant_crls(cr.live)]
  <2>1. PushMoved(p, r, cr.live, cr.floor, cr.current, cr.plane, cr.entry)
    BY <1>4, CrlFields, Zenon DEF ReloadBuilds, PushMoved
  <2>2. choose_tenant_crls(cr.live) \in Int /\ Static <= choose_tenant_crls(cr.live)
    BY <1>2, CrlFields DEF choose_tenant_crls
  <2>3. PushMoves(p, "floor") \in PushRecord /\ PushMoves(p, "floor").at = "floor"
    BY MovedRecord DEF PushAts
  <2>4. r \in PushRecord /\ r.at = "floor" /\ r.chosen = choose_tenant_crls(cr.live)
    BY <2>2, <2>3 DEF PushRecord
  <2> HIDE DEF r
  <2> QED BY <1>1, <1>2, <2>1, <2>2, <2>4, CrlFields, ReloadKeeps, Zenon
<1>5. CASE ReloadFails(p)
  <2>1. PushMoved(p, PushMoves(p, "failed"), cr.live, cr.floor, cr.current, cr.plane, cr.entry)
    BY <1>5, CrlFields, Zenon DEF ReloadFails, PushMoved
  <2>2. PushMoves(p, "failed") \in PushRecord /\ PushMoves(p, "failed").at = "failed"
        /\ PushMoves(p, "failed").chosen = cr.push[p].chosen
    BY MovedRecord DEF PushAts
  <2> QED BY <1>1, <1>2, <2>1, <2>2, CrlFields, ReloadKeeps, Zenon
<1>6. CASE ReloadRaisesFloor(p)
  <2> DEFINE f == IF cr.push[p].chosen > cr.floor THEN cr.push[p].chosen ELSE cr.floor
  <2>1. PushMoved(p, PushMoves(p, "current"), cr.live, f, cr.current, cr.plane, cr.entry)
    BY <1>6, CrlFields, Zenon DEF ReloadRaisesFloor, PushMoved
  <2>2. PushMoves(p, "current") \in PushRecord /\ PushMoves(p, "current").at = "current"
        /\ PushMoves(p, "current").chosen = cr.push[p].chosen
    BY MovedRecord DEF PushAts
  <2>3. f \in Int /\ cr.floor <= f
    BY <1>1, CrlFields
  <2> HIDE DEF f
  <2> QED BY <1>1, <2>1, <2>2, <2>3, CrlFields, ReloadKeeps, Zenon
<1>7. CASE ReloadSwapsGates(p)
  <2>1. PushMoved(p, PushMoves(p, "plane"), cr.live, cr.floor, cr.push[p].chosen, cr.plane, cr.entry)
    BY <1>7, CrlFields, Zenon DEF ReloadSwapsGates, PushMoved
  <2>2. PushMoves(p, "plane") \in PushRecord /\ PushMoves(p, "plane").at = "plane"
        /\ PushMoves(p, "plane").chosen = cr.push[p].chosen
    BY MovedRecord DEF PushAts
  <2> QED BY <1>1, <1>2, <2>1, <2>2, CrlFields, ReloadKeeps, Zenon
<1>8. CASE ReloadSwapsPlane(p)
  <2>1. PushMoved(p, PushMoves(p, "sweep"), cr.live, cr.floor, cr.current, cr.push[p].chosen, cr.entry)
    BY <1>8, CrlFields, Zenon DEF ReloadSwapsPlane, PushMoved
  <2>2. PushMoves(p, "sweep") \in PushRecord /\ PushMoves(p, "sweep").at = "sweep"
        /\ PushMoves(p, "sweep").chosen = cr.push[p].chosen
    BY MovedRecord DEF PushAts
  <2>3. cr.boots = 0 /\ Quiet(p) => cr.current = cr.push[p].chosen
    BY <1>8 DEF ReloadSwapsPlane, AloneInv, Quiet, PushAt
  <2> QED BY <1>1, <1>2, <2>1, <2>2, <2>3, CrlFields, ReloadKeeps, Zenon
<1> QED BY <1>3, <1>4, <1>5, <1>6, <1>7, <1>8

\* evict_revoked_sessions: what it saw, and what it removes.
LEMMA SweepSteps ==
  ASSUME CrlInv, NEW p \in Push, SweepReads(p) \/ SweepEvicts(p)
  PROVE  CrlStepOK
<1> USE DEF CrlInv
<1>1. /\ Static <= cr.floor /\ Static <= cr.current /\ Static <= cr.plane
      /\ Static <= cr.push[p].chosen /\ cr.push[p].chosen \in Int /\ cr.floor <= cr.floor
  BY CrlFields DEF ChosenInv, PushRecord
<1>2. cr.boots = 0 /\ Quiet(p) => cr.current = cr.push[p].chosen /\ cr.plane = cr.push[p].chosen
  BY DEF SweepReads, SweepEvicts, AloneInv, Quiet, PushAt
<1>3. CASE SweepReads(p)
  <2> DEFINE revoked == cr.entry # Nobody /\ Revokes(cr.push[p].chosen, cr.entry.leaf)
             r == IF revoked THEN [PushMoves(p, "evict") EXCEPT !.victim = cr.entry]
                  ELSE PushMoves(p, "done")
  <2>1. PushMoved(p, r, cr.live, cr.floor, cr.current, cr.plane, cr.entry)
    BY <1>3, CrlFields, Zenon DEF SweepReads, PushMoved
  <2>2. /\ PushMoves(p, "evict") \in PushRecord /\ PushMoves(p, "evict").at = "evict"
        /\ PushMoves(p, "evict").chosen = cr.push[p].chosen
        /\ PushMoves(p, "done") \in PushRecord /\ PushMoves(p, "done").at = "done"
        /\ PushMoves(p, "done").chosen = cr.push[p].chosen
    BY MovedRecord DEF PushAts
  <2>3. /\ r \in PushRecord /\ r.chosen = cr.push[p].chosen /\ r.at \in {"evict", "done"}
        /\ r.at = "evict" => r.victim.leaf = "old"
    <3>1. CASE revoked
      BY <2>2, <3>1, CrlFields DEF PushRecord, Revokes
    <3>2. CASE ~revoked
      BY <2>2, <3>2
    <3> QED BY <3>1, <3>2
  <2> HIDE DEF r
  <2> QED BY <1>1, <1>2, <2>1, <2>3, CrlFields, ReloadKeeps
<1>4. CASE SweepEvicts(p)
  <2> DEFINE r == [PushMoves(p, "done") EXCEPT !.victim = Nobody]
             e == IF cr.entry = cr.push[p].victim THEN Nobody ELSE cr.entry
  <2>1. PushMoved(p, r, cr.live, cr.floor, cr.current, cr.plane, e)
    BY <1>4, CrlFields, Zenon DEF SweepEvicts, PushMoved
  <2>2. /\ PushMoves(p, "done") \in PushRecord /\ PushMoves(p, "done").at = "done"
        /\ PushMoves(p, "done").chosen = cr.push[p].chosen
    BY MovedRecord DEF PushAts
  <2>3. r \in PushRecord /\ r.at = "done" /\ r.chosen = cr.push[p].chosen
    BY <2>2 DEF PushRecord
  <2>4. cr.push[p].victim.leaf = "old"
    BY <1>4 DEF SweepEvicts, ChosenInv
  <2>5. e \in Session \cup {Nobody} /\ (cr.entry # Nobody /\ cr.entry.leaf = "fresh" => e = cr.entry)
    BY <2>4, CrlFields
  <2> HIDE DEF r, e
  <2> QED BY <1>1, <1>2, <2>1, <2>3, <2>5, CrlFields, ReloadKeeps
<1> QED BY <1>3, <1>4

\* Registrations and a restart.
LEMMA OtherCrlSteps ==
  ASSUME CrlInv, \/ \E leaf \in Leaf : GatePasses(leaf)
                 \/ Registers \/ CrlRestarts \/ UNCHANGED cr
  PROVE  CrlStepOK
<1> USE DEF CrlInv
<1>1. ASSUME cr'.push = cr.push, cr'.live = cr.live, cr'.floor = cr.floor, cr'.current = cr.current,
             cr'.plane = cr.plane, cr'.boots = cr.boots, CrlTypeOK', SpareStep
      PROVE  CrlStepOK
  <2>1. ChosenInv' /\ AloneInv'
    BY <1>1 DEF ChosenInv, AloneInv, PushAt
  <2>2. FloorStep
    BY <1>1, CrlFields DEF FloorStep
  <2> QED BY <1>1, <2>1, <2>2 DEF CrlStepOK
<1>2. CASE \E leaf \in Leaf : GatePasses(leaf)
  <2>1. PICK leaf \in Leaf : cr' = [cr EXCEPT !.gate = leaf]
    BY <1>2 DEF GatePasses
  <2>2. /\ cr'.push = cr.push /\ cr'.live = cr.live /\ cr'.floor = cr.floor /\ cr'.plane = cr.plane
        /\ cr'.current = cr.current /\ cr'.boots = cr.boots /\ cr'.entry = cr.entry /\ CrlTypeOK'
    BY <2>1 DEF CrlTypeOK, CrlState
  <2> QED BY <1>1, <2>2 DEF SpareStep
<1>3. CASE Registers
  <2> DEFINE x == [leaf |-> cr.gate, circuit |-> cr.circuits + 1]
  <2>1. x \in Session /\ x # Nobody /\ cr.circuits + 1 \in Nat
    BY <1>3, CrlFields DEF Registers, Session, Nobody, Leaf
  <2>2. cr' = [cr EXCEPT !.entry = x, !.gate = "none", !.circuits = @ + 1]
    BY <1>3 DEF Registers
  <2> HIDE DEF x
  <2>3. /\ cr'.push = cr.push /\ cr'.live = cr.live /\ cr'.floor = cr.floor /\ cr'.plane = cr.plane
        /\ cr'.current = cr.current /\ cr'.boots = cr.boots /\ cr'.entry = x /\ CrlTypeOK'
    BY <2>1, <2>2, Zenon DEF CrlTypeOK, CrlState
  <2> QED BY <1>1, <2>1, <2>3 DEF SpareStep
<1>4. CASE CrlRestarts
  <2> DEFINE n == choose_tenant_crls(cr.live)
             dead == [at |-> "failed", chosen |-> Static, victim |-> Nobody]
             g == [p \in Push |-> IF cr.push[p].at \in {"new", "done", "refused", "failed"}
                                  THEN cr.push[p] ELSE dead]
  <2>1. cr' = [cr EXCEPT !.floor = n, !.current = n, !.plane = n, !.entry = Nobody,
                         !.gate = "none", !.boots = @ + 1, !.push = g]
    BY <1>4, Zenon DEF CrlRestarts
  <2>2. n \in Int /\ Static <= n /\ Static \in Int
    BY CrlFields, CrlAssumption DEF choose_tenant_crls
  <2>3. dead \in PushRecord
    BY <2>2 DEF PushRecord, PushAts
  <2>4. g \in [Push -> PushRecord] /\ \A p \in Push : g[p] = cr.push[p] \/ g[p] = dead
    BY <2>3, CrlFields
  <2> HIDE DEF n, g
  <2>5. /\ cr'.push = g /\ cr'.floor = n /\ cr'.current = n /\ cr'.plane = n
        /\ cr'.boots = cr.boots + 1 /\ cr'.entry = Nobody /\ cr'.live = cr.live
    BY <2>1 DEF CrlTypeOK, CrlState
  <2>6. CrlTypeOK'
    <3>1. cr.boots + 1 \in Nat
      BY CrlFields
    <3>2. cr' = [live |-> cr.live, floor |-> n, current |-> n, plane |-> n, push |-> g,
                 entry |-> Nobody, gate |-> "none", circuits |-> cr.circuits,
                 boots |-> cr.boots + 1]
      BY <2>1, CrlFields, Zenon
    <3> QED BY <2>2, <2>4, <3>1, <3>2, CrlFields, SMT
       DEF CrlTypeOK, CrlState, PushRecord, PushAts
  <2>7. \A p \in Push : Static <= g[p].chosen
                        /\ (g[p].at = "evict" => g[p].victim.leaf = "old")
    BY <2>2, <2>4 DEF ChosenInv, PushAt
  <2>8. ChosenInv'
    BY <2>2, <2>5, <2>7 DEF ChosenInv, PushAt
  <2>9. cr'.boots # 0 /\ cr'.boots # cr.boots
    BY <2>5, CrlFields
  <2> QED BY <2>6, <2>8, <2>9 DEF CrlStepOK, AloneInv, FloorStep, SpareStep
<1>5. CASE UNCHANGED cr
  <2>1. CrlTypeOK'
    BY <1>5 DEF CrlTypeOK
  <2> QED BY <1>1, <1>5, <2>1 DEF SpareStep
<1> QED BY <1>2, <1>3, <1>4, <1>5

LEMMA CrlSteps == CrlInv /\ [CrlNext]_cr => CrlStepOK
  BY ChecksKeep, ReloadSteps, SweepSteps, OtherCrlSteps, Zenon DEF CrlNext

LEMMA CrlStarts == CrlInit => CrlInv
<1> SUFFICES ASSUME CrlInit PROVE CrlInv
  OBVIOUS
<1>1. CrlTypeOK
  BY CrlAssumption DEF CrlInit, CrlStart, CrlTypeOK, CrlState
<1>2. ChosenInv /\ AloneInv
  BY CrlAssumption DEF CrlInit, CrlStart, ChosenInv, AloneInv, PushAt
<1> QED BY <1>1, <1>2 DEF CrlInv

\* The floor never falls while the hub runs, a sweep removes only the
\* registration it found revoked, what the gates, the plane and the floor
\* enforce is never weaker than the pack's snapshot, and an answered push that
\* no other overlapped is enforced: for any number of overlapping pushes, lanes
\* and registrations and any numbers on the lists.
THEOREM Revocation == CrlSpec => RevocationSound
<1>1. CrlInv => NeverBelowSnapshot
  BY DEF CrlInv, ChosenInv, NeverBelowSnapshot
<1>2. CrlInv => AnsweredIsEnforced
  BY CrlFields, CrlAssumption DEF CrlInv, AloneInv, AnsweredIsEnforced, PushAt, Revokes
<1>3. CrlInv /\ [CrlNext]_cr => CrlInv'
  BY CrlSteps DEF CrlStepOK
<1>4. CrlInv /\ [CrlNext]_cr => [FloorStep]_cr /\ [SpareStep]_cr
  BY CrlSteps DEF CrlStepOK
<1> QED BY <1>1, <1>2, <1>3, <1>4, CrlStarts, PTL
        DEF CrlSpec, RevocationSound, FloorHolds, SweepSparesRotated, FloorStep, SpareStep

(* --------------------------- The proposal queue --------------------------- *)

\* A table within the caps, of identifiers that were drawn.
Capped(m, drawn) ==
  /\ IsFiniteSet(Held(m)) /\ Held(m) \subseteq drawn
  /\ Cardinality(Pending(m)) <= MaxPendingTotal
  /\ \A r \in Requester : Cardinality(PendingOf(m, r)) <= MaxPendingOwn

\* The file is the table or an earlier one, so a restart respects the caps too,
\* and an identifier that is drawn is in neither.
QueueOK(q) ==
  /\ q \in ProposalState /\ Capped(q.map, q.used) /\ Capped(q.file, q.used)
  /\ q.up /\ q.face /\ ~q.stale => q.file = q.map
QueueInv == QueueOK(pq)

\* What one step may do to a decided record.
FinalStep ==
  \A i \in ProposalId :
    /\ pq.up /\ pq'.up
    /\ pq.map[i] # NoRecord /\ pq'.map[i] # NoRecord
    /\ pq.map[i].status # "pending"
    => pq'.map[i] = pq.map[i]

\* Removing and deciding records keeps a table within the caps.
LEMMA CapsShrink ==
  ASSUME NEW m, NEW n, NEW u, NEW v, Capped(m, u), u \subseteq v,
         Held(n) \subseteq Held(m), Pending(n) \subseteq Pending(m),
         \A r \in Requester : PendingOf(n, r) \subseteq PendingOf(m, r)
  PROVE  Capped(n, v)
<1>1. IsFiniteSet(Held(m)) /\ Held(m) \subseteq u
  BY DEF Capped
<1>2. Pending(m) \subseteq Held(m) /\ \A r \in Requester : PendingOf(m, r) \subseteq Held(m)
  BY DEF Pending, PendingOf
<1>3. IsFiniteSet(Held(n)) /\ Held(n) \subseteq v
  BY <1>1, FS_Subset
<1>4. IsFiniteSet(Pending(m)) /\ \A r \in Requester : IsFiniteSet(PendingOf(m, r))
  BY <1>1, <1>2, FS_Subset
<1>5. /\ Cardinality(Pending(n)) \in Nat /\ Cardinality(Pending(m)) \in Nat
      /\ Cardinality(Pending(n)) <= Cardinality(Pending(m))
  BY <1>4, FS_Subset, FS_CardinalityType
<1>6. ASSUME NEW r \in Requester
      PROVE  /\ Cardinality(PendingOf(n, r)) \in Nat /\ Cardinality(PendingOf(m, r)) \in Nat
             /\ Cardinality(PendingOf(n, r)) <= Cardinality(PendingOf(m, r))
  BY <1>4, FS_Subset, FS_CardinalityType
<1>7. Cardinality(Pending(n)) <= MaxPendingTotal
  BY <1>5, ProposalAssumption DEF Capped
<1>8. \A r \in Requester : Cardinality(PendingOf(n, r)) <= MaxPendingOwn
  BY <1>6, ProposalAssumption DEF Capped
<1> QED BY <1>3, <1>7, <1>8 DEF Capped

\* A pending record under a fresh identifier, entered where both caps have
\* room, keeps a table within the caps.
LEMMA CapsGrow ==
  ASSUME NEW m \in ProposalTable, NEW u, Capped(m, u), NEW rec \in Record,
         rec.status = "pending", Admits(m, rec.by), NEW i \in ProposalId \ u
  PROVE  Capped([m EXCEPT ![i] = rec], u \cup {i})
<1> DEFINE n == [m EXCEPT ![i] = rec]
<1>1. rec # NoRecord
  BY DEF Record, NoRecord
<1>2. /\ n \in [ProposalId -> Record \cup {NoRecord}] /\ n[i] = rec
      /\ \A j \in ProposalId \ {i} : n[j] = m[j]
  BY DEF ProposalTable
<1> HIDE DEF n
<1>3. i \notin Held(m) /\ IsFiniteSet(Held(m)) /\ Held(m) \subseteq u
  BY DEF Capped
<1>4. Held(n) = Held(m) \cup {i}
  BY <1>1, <1>2 DEF Held
<1>5. Pending(n) = Pending(m) \cup {i}
  BY <1>1, <1>2, <1>3, <1>4 DEF Pending, Held
<1>6. PendingOf(n, rec.by) = PendingOf(m, rec.by) \cup {i}
  BY <1>2, <1>3, <1>5 DEF PendingOf, Pending, Held
<1>7. ASSUME NEW r \in Requester, r # rec.by PROVE PendingOf(n, r) = PendingOf(m, r)
  BY <1>2, <1>3, <1>5, <1>7 DEF PendingOf, Pending, Held
<1>8. /\ Pending(m) \subseteq Held(m) /\ PendingOf(m, rec.by) \subseteq Held(m)
      /\ i \notin Pending(m) /\ i \notin PendingOf(m, rec.by)
  BY <1>3 DEF Pending, PendingOf
<1>9. /\ IsFiniteSet(Pending(m)) /\ IsFiniteSet(PendingOf(m, rec.by))
      /\ Cardinality(Pending(m)) \in Nat /\ Cardinality(PendingOf(m, rec.by)) \in Nat
  BY <1>3, <1>8, FS_Subset, FS_CardinalityType
<1>10. /\ Cardinality(Pending(n)) = Cardinality(Pending(m)) + 1
       /\ Cardinality(PendingOf(n, rec.by)) = Cardinality(PendingOf(m, rec.by)) + 1
  BY <1>5, <1>6, <1>8, <1>9, FS_AddElement, Zenon
<1>11. Cardinality(Pending(n)) <= MaxPendingTotal
  BY <1>9, <1>10, ProposalAssumption DEF Admits
<1>12. ASSUME NEW r \in Requester PROVE Cardinality(PendingOf(n, r)) <= MaxPendingOwn
  <2>1. CASE r = rec.by
    BY <1>9, <1>10, <2>1, ProposalAssumption DEF Admits
  <2>2. CASE r # rec.by
    BY <1>7, <2>2 DEF Capped
  <2> QED BY <2>1, <2>2
<1>13. IsFiniteSet(Held(n)) /\ Held(n) \subseteq u \cup {i}
  BY <1>3, <1>4, FS_AddElement
<1>14. Capped(n, u \cup {i})
  BY <1>11, <1>12, <1>13 DEF Capped
<1> QED BY <1>14 DEF n

\* The fields of a queue.
LEMMA QueueFields ==
  ASSUME NEW q \in ProposalState
  PROVE  /\ q.map \in ProposalTable /\ q.file \in ProposalTable
         /\ q.now \in Nat /\ q.used \in SUBSET ProposalId /\ q.losses \in Nat
         /\ q.live \in SUBSET (Requester \X Stream)
         /\ q.work \in [Submission -> {NoSubmission} \cup
                [at : {"funnel", "caps"}, by : Requester, stream : Stream, now : Nat]]
BY DEF ProposalState

\* The outcomes of a change of the table: it is mirrored, or marked stale.
LEMMA PersistFields ==
  ASSUME pq \in ProposalState, NEW m \in ProposalTable, NEW q \in persist(m)
  PROVE  /\ q \in ProposalState /\ q.map = m
         /\ q.used = pq.used /\ q.work = pq.work /\ q.up = pq.up /\ q.face = pq.face
         /\ \/ q.file = m
            \/ q.file = pq.file /\ q.stale
<1>1. pq \in ProposalState
  OBVIOUS
<1>2. CASE q = [pq EXCEPT !.map = m, !.file = m, !.stale = FALSE]
  BY <1>1, <1>2, Zenon DEF ProposalState
<1>3. ASSUME NEW l \in pq.losses .. MaxLoss - 1,
             q = [pq EXCEPT !.map = m, !.stale = TRUE, !.losses = @ + 1]
      PROVE  /\ q \in ProposalState /\ q.map = m
             /\ q.used = pq.used /\ q.work = pq.work /\ q.up = pq.up /\ q.face = pq.face
             /\ q.file = pq.file /\ q.stale
  <2>1. pq.losses + 1 \in Nat
    BY <1>1, QueueFields
  <2> QED BY <1>1, <1>3, <2>1, Zenon DEF ProposalState
<1>4. \/ q = [pq EXCEPT !.map = m, !.file = m, !.stale = FALSE]
      \/ \E l \in pq.losses .. MaxLoss - 1 :
            q = [pq EXCEPT !.map = m, !.stale = TRUE, !.losses = @ + 1]
  BY DEF persist
<1> QED BY <1>2, <1>3, <1>4

\* Removing what expired keeps the table and touches no other record.
LEMMA SweepTable ==
  ASSUME NEW m \in ProposalTable, NEW now \in Nat
  PROVE  /\ sweep_expired(m, now) \in ProposalTable
         /\ \A i \in ProposalId : \/ sweep_expired(m, now)[i] = m[i]
                                  \/ sweep_expired(m, now)[i] = NoRecord
BY DEF sweep_expired, ProposalTable, Live, Held

\* A table some of whose records are gone or decided, by the records.
LEMMA FewerRecords ==
  ASSUME NEW m, NEW n,
         \A i \in ProposalId :
           \/ n[i] = m[i] \/ n[i] = NoRecord
           \/ m[i] # NoRecord /\ n[i].by = m[i].by /\ n[i].status # "pending"
  PROVE  /\ Held(n) \subseteq Held(m) /\ Pending(n) \subseteq Pending(m)
         /\ \A r \in Requester : PendingOf(n, r) \subseteq PendingOf(m, r)
BY DEF Held, Pending, PendingOf

\* Persisting a table with fewer or decided records keeps the invariant.
LEMMA PersistKeeps ==
  ASSUME QueueInv, NEW m \in ProposalTable, NEW q \in persist(m),
         \A i \in ProposalId :
           \/ m[i] = pq.map[i] \/ m[i] = NoRecord
           \/ pq.map[i] # NoRecord /\ m[i].by = pq.map[i].by /\ m[i].status # "pending"
  PROVE  QueueOK(q)
<1>1. /\ q \in ProposalState /\ q.map = m /\ q.used = pq.used
      /\ \/ q.file = m
         \/ q.file = pq.file /\ q.stale
  BY PersistFields DEF QueueInv, QueueOK
<1>2. Capped(m, pq.used)
  <2>1. /\ Held(m) \subseteq Held(pq.map) /\ Pending(m) \subseteq Pending(pq.map)
        /\ \A r \in Requester : PendingOf(m, r) \subseteq PendingOf(pq.map, r)
    BY FewerRecords
  <2> QED BY <2>1, CapsShrink DEF QueueInv, QueueOK
<1>3. Capped(q.file, pq.used)
  BY <1>1, <1>2 DEF QueueInv, QueueOK
<1> QED BY <1>1, <1>2, <1>3 DEF QueueOK

\* A sweep keeps the invariant; the records that are left are as they were.
LEMMA SweptKeeps ==
  ASSUME QueueInv, NEW q \in Swept
  PROVE  /\ QueueOK(q) /\ q.used = pq.used /\ q.work = pq.work /\ q.up = pq.up
         /\ \A i \in ProposalId : q.map[i] = pq.map[i] \/ q.map[i] = NoRecord
<1> DEFINE m == sweep_expired(pq.map, pq.now)
<1>1. pq \in ProposalState /\ pq.map \in ProposalTable /\ pq.now \in Nat
  BY QueueFields DEF QueueInv, QueueOK
<1>2. m \in ProposalTable /\ \A i \in ProposalId : m[i] = pq.map[i] \/ m[i] = NoRecord
  BY <1>1, SweepTable
<1>3. q = pq \/ q \in persist(m)
  BY DEF Swept
<1> HIDE DEF m
<1>4. CASE q = pq
  BY <1>4 DEF QueueInv
<1>5. CASE q \in persist(m)
  <2>1. QueueOK(q)
    BY <1>2, <1>5, PersistKeeps
  <2>2. q.map = m /\ q.used = pq.used /\ q.work = pq.work /\ q.up = pq.up
    BY <1>1, <1>2, <1>5, PersistFields
  <2> QED BY <1>2, <2>1, <2>2
<1> QED BY <1>3, <1>4, <1>5

\* Steps that leave the two tables and the flags of the mirror as they are.
LEMMA QuietKeeps ==
  ASSUME NEW q, QueueOK(q), pq' \in ProposalState,
         pq'.map = q.map, pq'.file = q.file, pq'.used = q.used,
         pq'.up = q.up, pq'.face = q.face, pq'.stale = q.stale
  PROVE  QueueInv'
BY DEF QueueOK, QueueInv

LEMMA SweepStep ==
  ASSUME QueueInv, Sweep
  PROVE  QueueInv' /\ FinalStep
<1>1. pq' \in Swept
  BY DEF Sweep
<1>2. QueueOK(pq') /\ \A i \in ProposalId : pq'.map[i] = pq.map[i] \/ pq'.map[i] = NoRecord
  BY <1>1, SweptKeeps
<1>3. FinalStep
  BY <1>2 DEF FinalStep
<1> QED BY <1>2, <1>3 DEF QueueInv, QueueOK

LEMMA LooksStep ==
  ASSUME QueueInv, NEW w \in Submission, NEW r \in Requester, NEW s \in Stream,
         SubmitLooks(w, r, s)
  PROVE  QueueInv' /\ FinalStep
<1> DEFINE x == [at |-> "funnel", by |-> r, stream |-> s, now |-> pq.now]
<1>1. PICK q \in Swept : pq' = [q EXCEPT !.work[w] = x]
  BY Zenon DEF SubmitLooks
<1>2. /\ QueueOK(q) /\ q.work = pq.work
      /\ \A i \in ProposalId : q.map[i] = pq.map[i] \/ q.map[i] = NoRecord
  BY SweptKeeps
<1>3. pq.now \in Nat
  BY QueueFields DEF QueueInv, QueueOK
<1>4. x \in [at : {"funnel", "caps"}, by : Requester, stream : Stream, now : Nat]
  BY <1>3
<1> HIDE DEF x
<1>5. /\ pq'.map = q.map /\ pq'.file = q.file /\ pq'.used = q.used
      /\ pq'.up = q.up /\ pq'.face = q.face /\ pq'.stale = q.stale
      /\ pq' \in ProposalState
  BY <1>1, <1>2, <1>4 DEF QueueOK, ProposalState
<1>6. FinalStep
  BY <1>2, <1>5 DEF FinalStep
<1> QED BY <1>2, <1>5, <1>6, QuietKeeps

LEMMA FunnelStep ==
  ASSUME QueueInv, NEW w \in Submission, SubmitFunnels(w)
  PROVE  QueueInv' /\ FinalStep
<1>1. pq \in ProposalState /\ QueueOK(pq)
  BY DEF QueueInv, QueueOK
<1>2. pq.work[w] \in [at : {"funnel", "caps"}, by : Requester, stream : Stream, now : Nat]
  BY <1>1 DEF SubmitFunnels, ProposalState
<1>3. [pq.work[w] EXCEPT !.at = "caps"]
         \in [at : {"funnel", "caps"}, by : Requester, stream : Stream, now : Nat]
  BY <1>2
<1>4. PICK x \in {NoSubmission, [pq.work[w] EXCEPT !.at = "caps"]} : pq' = [pq EXCEPT !.work[w] = x]
  BY DEF SubmitFunnels
<1>5. /\ pq'.map = pq.map /\ pq'.file = pq.file /\ pq'.used = pq.used
      /\ pq'.up = pq.up /\ pq'.face = pq.face /\ pq'.stale = pq.stale
      /\ pq' \in ProposalState
  BY <1>1, <1>3, <1>4, Zenon DEF ProposalState
<1>6. FinalStep
  BY <1>5 DEF FinalStep
<1> QED BY <1>1, <1>5, <1>6, QuietKeeps

\* The caps are checked and the record entered in one critical section, so
\* submissions that passed the funnel together cannot exceed them.
LEMMA QueuesStep ==
  ASSUME QueueInv, NEW w \in Submission, SubmitQueues(w)
  PROVE  QueueInv' /\ FinalStep
<1> DEFINE x == pq.work[w]
           rec == [by |-> x.by, stream |-> x.stream, expires |-> x.now + Ttl, status |-> "pending"]
<1>1. pq \in ProposalState /\ QueueOK(pq)
  BY DEF QueueInv, QueueOK
<1>2. x \in [at : {"funnel", "caps"}, by : Requester, stream : Stream, now : Nat]
  BY <1>1, Zenon DEF SubmitQueues, ProposalState
<1>3. rec \in Record /\ rec.by = x.by /\ rec.status = "pending"
  <2>1. x.now + Ttl \in Nat
    BY <1>2, ProposalAssumption
  <2> QED BY <1>2, <2>1 DEF Record, Status
<1>4. CASE ~Admits(pq.map, x.by)
  <2>1. pq' = [pq EXCEPT !.work[w] = NoSubmission]
    BY <1>4 DEF SubmitQueues
  <2>2. /\ pq'.map = pq.map /\ pq'.file = pq.file /\ pq'.used = pq.used
        /\ pq'.up = pq.up /\ pq'.face = pq.face /\ pq'.stale = pq.stale
        /\ pq' \in ProposalState
    BY <1>1, <2>1 DEF ProposalState
  <2>3. FinalStep
    BY <2>2 DEF FinalStep
  <2> QED BY <1>1, <2>2, <2>3, QuietKeeps
<1>5. CASE Admits(pq.map, x.by)
  <2>0. PICK i \in ProposalId \ pq.used : \E q \in persist([pq.map EXCEPT ![i] = rec]) :
           pq' = [q EXCEPT !.used = @ \cup {i}, !.work[w] = NoSubmission]
    BY <1>5, Zenon DEF SubmitQueues
  <2>1. PICK q \in persist([pq.map EXCEPT ![i] = rec]) :
           pq' = [q EXCEPT !.used = @ \cup {i}, !.work[w] = NoSubmission]
    BY <2>0, Zenon
  <2> HIDE DEF x, rec
  <2> DEFINE m == [pq.map EXCEPT ![i] = rec]
  <2>2. pq.map \in ProposalTable /\ pq.file \in ProposalTable /\ pq.used \in SUBSET ProposalId
    BY <1>1, QueueFields
  <2>3. m \in ProposalTable /\ \A j \in ProposalId \ {i} : m[j] = pq.map[j]
    BY <1>3, <2>2 DEF ProposalTable
  <2>4. Capped(m, pq.used \cup {i})
    BY <1>1, <1>3, <1>5, <2>2, CapsGrow, Zenon DEF QueueOK
  <2>5. Capped(pq.file, pq.used \cup {i})
    <3>1. pq.used \subseteq pq.used \cup {i} /\ Capped(pq.file, pq.used)
      BY <1>1 DEF QueueOK
    <3> QED BY <3>1 DEF Capped
  <2>6. pq.map[i] = NoRecord
    BY <1>1, <2>1 DEF QueueOK, Capped, Held
  <2> HIDE DEF m
  <2>7. /\ q \in ProposalState /\ q.map = m /\ q.used = pq.used
        /\ \/ q.file = m
           \/ q.file = pq.file /\ q.stale
    BY <1>1, <2>1, <2>3, PersistFields DEF m
  <2>8. /\ pq' \in ProposalState /\ pq'.map = m /\ pq'.used = pq.used \cup {i}
        /\ pq'.file = q.file /\ pq'.stale = q.stale
    BY <2>1, <2>7, <2>2, Zenon DEF ProposalState
  <2>9. pq'.file = m \/ (pq'.file = pq.file /\ pq'.stale)
    BY <2>7, <2>8
  <2>10. QueueInv'
    BY <2>4, <2>5, <2>8, <2>9 DEF QueueInv, QueueOK
  <2>11. FinalStep
    BY <2>3, <2>6, <2>8 DEF FinalStep
  <2> QED BY <2>10, <2>11
<1> QED BY <1>4, <1>5

LEMMA DecidesStep ==
  ASSUME QueueInv, NEW i \in ProposalId, NEW s \in Status \ {"pending"}, Decides(i, s)
  PROVE  QueueInv' /\ FinalStep
<1> DEFINE m == [pq.map EXCEPT ![i].status = s]
<1>1. pq \in ProposalState /\ pq.map \in ProposalTable
  BY QueueFields DEF QueueInv, QueueOK
<1>2. pq.map[i] \in Record /\ pq.map[i] # NoRecord /\ pq.map[i].status = "pending"
  BY <1>1 DEF Decides, ProposalTable
<1>3. [pq.map[i] EXCEPT !.status = s] \in Record
  BY <1>2 DEF Record
<1>4. /\ m \in ProposalTable /\ m[i].by = pq.map[i].by /\ m[i].status # "pending"
      /\ \A j \in ProposalId \ {i} : m[j] = pq.map[j]
  BY <1>1, <1>2, <1>3 DEF ProposalTable, Record
<1>5. pq' \in persist(m)
  BY DEF Decides
<1> HIDE DEF m
<1>6. QueueOK(pq')
  BY <1>2, <1>4, <1>5, PersistKeeps
<1>7. pq'.map = m
  BY <1>1, <1>4, <1>5, PersistFields
<1>8. FinalStep
  BY <1>2, <1>4, <1>7 DEF FinalStep
<1> QED BY <1>6, <1>8 DEF QueueInv, QueueOK

LEMMA TickStep ==
  ASSUME QueueInv, ProposalTick \/ \E i \in ProposalId : PolicyGains(i)
  PROVE  QueueInv' /\ FinalStep
<1>1. pq \in ProposalState /\ QueueOK(pq)
  BY DEF QueueInv, QueueOK
<1>2. CASE ProposalTick
  <2>1. pq.now + 1 \in Nat
    BY <1>1, QueueFields
  <2>2. /\ pq'.map = pq.map /\ pq'.file = pq.file /\ pq'.used = pq.used
        /\ pq'.up = pq.up /\ pq'.face = pq.face /\ pq'.stale = pq.stale
        /\ pq' \in ProposalState
    BY <1>1, <1>2, <2>1 DEF ProposalTick, ProposalState
  <2>3. FinalStep
    BY <2>2 DEF FinalStep
  <2> QED BY <1>1, <2>2, <2>3, QuietKeeps
<1>3. ASSUME NEW i \in ProposalId, PolicyGains(i) PROVE QueueInv' /\ FinalStep
  <2>1. pq.map[i] \in Record
    BY <1>1, <1>3, QueueFields DEF PolicyGains, ProposalTable
  <2>2. pq.live \cup {<<pq.map[i].by, pq.map[i].stream>>} \in SUBSET (Requester \X Stream)
    BY <1>1, <2>1, QueueFields DEF Record
  <2>3. /\ pq'.map = pq.map /\ pq'.file = pq.file /\ pq'.used = pq.used
        /\ pq'.up = pq.up /\ pq'.face = pq.face /\ pq'.stale = pq.stale
        /\ pq' \in ProposalState
    BY <1>1, <1>3, <2>2 DEF PolicyGains, ProposalState
  <2>4. FinalStep
    BY <2>3 DEF FinalStep
  <2> QED BY <1>1, <2>3, <2>4, QuietKeeps
<1> QED BY <1>2, <1>3

\* An empty table is within any caps.
LEMMA EmptyCapped == ASSUME NEW u PROVE Empty \in ProposalTable /\ Capped(Empty, u)
<1>1. Empty \in ProposalTable
  BY DEF Empty, ProposalTable
<1>2. Held(Empty) = {} /\ Pending(Empty) = {} /\ \A r \in Requester : PendingOf(Empty, r) = {}
  BY DEF Empty, Held, Pending, PendingOf
<1> QED BY <1>1, <1>2, FS_EmptySet, ProposalAssumption DEF Capped

LEMMA RestartStep ==
  ASSUME QueueInv, QueueStops \/ QueueStarts
  PROVE  QueueInv' /\ FinalStep
<1>1. pq \in ProposalState /\ QueueOK(pq)
  BY DEF QueueInv, QueueOK
<1>2. CASE QueueStops
  <2>1. PICK bad \in BOOLEAN :
           pq' = [pq EXCEPT !.up = FALSE, !.losses = @ + 1, !.bad = bad,
                            !.work = [w \in Submission |-> NoSubmission],
                            !.file = IF bad THEN Empty ELSE @,
                            !.map = Empty]
    BY <1>2, Zenon DEF QueueStops
  <2>2. pq.losses + 1 \in Nat
    BY <1>1, QueueFields
  <2>3. PICK f \in {Empty, pq.file} :
           pq' = [pq EXCEPT !.up = FALSE, !.losses = pq.losses + 1, !.bad = bad,
                            !.work = [w \in Submission |-> NoSubmission],
                            !.file = f, !.map = Empty]
    BY <1>1, <2>1, Zenon DEF ProposalState
  <2>4. f \in ProposalTable /\ Capped(f, pq.used)
    BY <1>1, <2>3, EmptyCapped, QueueFields DEF QueueOK
  <2>5. [w \in Submission |-> NoSubmission] \in [Submission -> {NoSubmission} \cup
           [at : {"funnel", "caps"}, by : Requester, stream : Stream, now : Nat]]
    OBVIOUS
  <2>6. pq' \in ProposalState /\ pq'.map = Empty /\ pq'.file = f /\ pq'.used = pq.used /\ ~pq'.up
    BY <1>1, <2>2, <2>3, <2>4, <2>5, EmptyCapped, Zenon DEF ProposalState
  <2> QED BY <2>4, <2>6, EmptyCapped DEF QueueInv, QueueOK, FinalStep
<1>3. CASE QueueStarts
  <2>1. PICK moved \in BOOLEAN :
           pq' = [pq EXCEPT !.up = TRUE, !.face = moved, !.map = pq.file,
                            !.bad = ~moved, !.stale = FALSE]
    BY <1>3, Zenon DEF QueueStarts
  <2>2. /\ pq' \in ProposalState /\ pq'.map = pq.file /\ pq'.file = pq.file
        /\ pq'.used = pq.used
    BY <1>1, <2>1, Zenon DEF ProposalState
  <2>3. ~pq.up
    BY <1>3, Zenon DEF QueueStarts
  <2> QED BY <1>1, <2>2, <2>3 DEF QueueInv, QueueOK, FinalStep
<1> QED BY <1>2, <1>3

LEMMA QueueStep == QueueInv /\ [ProposalNext]_pq => QueueInv' /\ [FinalStep]_pq
<1> SUFFICES ASSUME QueueInv, [ProposalNext]_pq PROVE QueueInv' /\ [FinalStep]_pq
  OBVIOUS
<1>1. CASE UNCHANGED pq
  BY <1>1 DEF QueueInv, QueueOK, Capped
<1>2. ASSUME NEW w \in Submission,
             \/ SubmitFunnels(w) \/ SubmitQueues(w)
             \/ \E r \in Requester, s \in Stream : SubmitLooks(w, r, s)
      PROVE  QueueInv' /\ FinalStep
  BY <1>2, FunnelStep, QueuesStep, LooksStep
<1>3. ASSUME NEW i \in ProposalId, NEW s \in Status \ {"pending"}, Decides(i, s)
      PROVE  QueueInv' /\ FinalStep
  BY <1>3, DecidesStep
<1>4. ASSUME NEW i \in ProposalId, PolicyGains(i) PROVE QueueInv' /\ FinalStep
  BY <1>4, TickStep
<1> QED BY <1>1, <1>2, <1>3, <1>4, SweepStep, TickStep, RestartStep DEF ProposalNext

\* The queue stays under its caps however submissions overlap and whatever
\* restarts, lost writes and corrupt files come between; a decision is final
\* while its record lives; and the mirror follows unless a write failed.
THEOREM Queue == ProposalSpec => QueueSound
<1>1. ProposalInit => QueueInv
  <2>1. [w \in Submission |-> NoSubmission] \in [Submission -> {NoSubmission} \cup
           [at : {"funnel", "caps"}, by : Requester, stream : Stream, now : Nat]]
    OBVIOUS
  <2>2. ProposalInit => pq \in ProposalState
    BY <2>1, EmptyCapped DEF ProposalInit, ProposalStart, ProposalState
  <2> QED BY <2>2, EmptyCapped DEF ProposalInit, ProposalStart, QueueInv, QueueOK
<1>2. QueueInv => QueueCapped /\ MirrorHolds
  BY DEF QueueInv, QueueOK, Capped, QueueCapped, MirrorHolds
<1> QED BY <1>1, <1>2, QueueStep, PTL DEF ProposalSpec, QueueSound, DecisionIsFinal, FinalStep

(* --------------------------- The signed policy --------------------------- *)

\* The stages of a publication before its signature exists anywhere.
Early == {"new", "checked", "refused", "tomltmp", "toml"}
SigOf(p) == [of |-> p, face |-> "sig"]

Unsigned(e, p) ==
    /\ SigOf(p) \notin {e.toml, e.sig, e.tmp, e.atoml, e.asig}
    /\ p \notin {e.cache.of, e.pull.of, e.acl.rules, e.agent.rules, e.agent.got}

\* Unless an operator copied a policy to the agent by hand, no file holds the
\* signature of an early publication and nothing was read from it.
HalfInv ==
    po.drops = 0 =>
        /\ po.copying = Embedded
        /\ \A p \in Publication : po.publ[p] \in Early => Unsigned(po, p)

\* An agent that asks has a watermark, and what it was handed is a publication:
\* the embedded snapshot is never newer.
AgentInv ==
    /\ po.agent.armed => po.agent.seen >= 1
    /\ po.agent.at \in {"pull", "got", "half"} => po.agent.armed
    /\ po.agent.at \in {"got", "half"} => po.agent.got \in Publication

PolicyInv == PolicyTypeOK /\ AgentInv /\ HalfInv

\* What AgentMovesForward says of one step.
ForwardStep ==
    po.agent.armed /\ po'.agent.armed /\ "down" \notin {po.agent.at, po'.agent.at}
       => /\ po'.agent.seen >= po.agent.seen
          /\ po'.agent.rules # po.agent.rules
                => GenerationOf(po'.agent.rules) = po'.agent.seen

PolicyStepOK == PolicyInv' /\ ForwardStep

LEMMA Faces == /\ None \in File /\ Embedded \in Policy /\ Publication \subseteq Policy
               /\ \A p \in Publication : /\ SigOf(p) \in File /\ SigOf(p) # None
                                         /\ [of |-> p, face |-> "toml"] \in File
                                         /\ \A q : SigOf(p) # [of |-> q, face |-> "toml"]
                                         /\ \A q : SigOf(p) = SigOf(q) => p = q
                                         /\ p # Embedded
BY PolicyAssumption, Zenon DEF File, None, Bytes, PolicyFace, Policy, SigOf

LEMMA Generations ==
    /\ \A p \in Publication : GenerationOf(p) = Generation[p]
    /\ \A x \in Policy : GenerationOf(x) \in Nat /\ GenerationOf(x) >= 1
<1>1. \A p \in Publication : GenerationOf(p) = Generation[p]
  BY PolicyAssumption DEF GenerationOf
<1>2. \A p \in Publication : Generation[p] \in Nat /\ Generation[p] >= 1
  BY PolicyAssumption
<1> QED BY <1>1, <1>2 DEF Policy, GenerationOf

\* A pair verifies only with the signature of the publication it yields.
LEMMA Loads == ASSUME NEW t \in File, NEW s \in File
               PROVE /\ Load(t, s) \in Policy
                     /\ \A p \in Publication : s # SigOf(p) => Load(t, s) # p
                     /\ Verifies(t, s) => t.of \in Publication /\ Load(t, s) = t.of
BY PolicyAssumption DEF File, None, Bytes, PolicyFace, Policy, SigOf, Load, Verifies

LEMMA ChecksStep == ASSUME PolicyInv, NEW p \in Publication, PublishChecks(p)
                    PROVE PolicyStepOK
<1>1. po' \in PolicyState
  BY DEF PolicyInv, PolicyTypeOK, PolicyState, PublishChecks
<1>2. AgentInv' /\ ForwardStep
  BY DEF PolicyInv, PolicyTypeOK, AgentInv, ForwardStep, PolicyState, PublishChecks
<1>3. HalfInv'
  BY DEF PolicyInv, PolicyTypeOK, HalfInv, PolicyState, PublishChecks, Early, Unsigned
<1> QED BY <1>1, <1>2, <1>3 DEF PolicyStepOK, PolicyInv, PolicyTypeOK
LEMMA TempTo == ASSUME PolicyInv, NEW p \in Publication, NEW f \in File,
                       NEW s \in {"tomltmp", "sigtmp"},
                       po' = [po EXCEPT !.tmp = f, !.publ[p] = s],
                       s = "tomltmp" => po.publ[p] \in Early,
                       \A q \in Publication : q # p \/ s = "tomltmp" => f # SigOf(q)
                PROVE  PolicyStepOK
<1>1. po' \in PolicyState
  BY Zenon DEF PolicyInv, PolicyTypeOK, PolicyState
<1>2. AgentInv' /\ ForwardStep
  BY DEF PolicyInv, PolicyTypeOK, PolicyState, AgentInv, ForwardStep
<1>3. HalfInv'
  BY DEF PolicyInv, PolicyTypeOK, PolicyState, HalfInv, Early, Unsigned
<1> QED BY <1>1, <1>2, <1>3 DEF PolicyStepOK, PolicyInv, PolicyTypeOK

LEMMA WriteStep == ASSUME PolicyInv, NEW p \in Publication, WriteTemp(p)
                   PROVE  PolicyStepOK
<1> DEFINE f == [of |-> p, face |-> "toml"]
<1>1. f \in File /\ \A q \in Publication : f # SigOf(q)
  BY Faces, Zenon
<1>2. SigOf(p) \in File /\ \A q \in Publication : q # p => SigOf(p) # SigOf(q)
  BY Faces, Zenon
<1>3. \/ po.publ[p] = "checked" /\ po' = [po EXCEPT !.tmp = f, !.publ[p] = "tomltmp"]
      \/ po' = [po EXCEPT !.tmp = SigOf(p), !.publ[p] = "sigtmp"]
  BY DEF WriteTemp, SigOf
<1> HIDE DEF f
<1>4. CASE po.publ[p] = "checked" /\ po' = [po EXCEPT !.tmp = f, !.publ[p] = "tomltmp"]
  <2>1. po.publ[p] \in Early /\ "tomltmp" \in {"tomltmp", "sigtmp"}
    BY <1>4 DEF Early
  <2> QED BY <1>1, <1>4, <2>1, TempTo, Zenon
<1>5. CASE po' = [po EXCEPT !.tmp = SigOf(p), !.publ[p] = "sigtmp"]
  <2>1. "sigtmp" \in {"tomltmp", "sigtmp"} /\ "sigtmp" # "tomltmp"
    OBVIOUS
  <2> QED BY <1>2, <1>5, <2>1, TempTo, Zenon
<1> QED BY <1>3, <1>4, <1>5

LEMMA RenameStep == ASSUME PolicyInv, NEW p \in Publication, RenameTemp(p)
                    PROVE  PolicyStepOK
<1>1. po' \in PolicyState
  BY Faces, Zenon DEF PolicyInv, PolicyTypeOK, PolicyState, RenameTemp
<1>2. AgentInv' /\ ForwardStep
  BY DEF PolicyInv, PolicyTypeOK, PolicyState, AgentInv, ForwardStep, RenameTemp
<1>3. HalfInv'
  <2>1. CASE po' = [po EXCEPT !.publ[p] = "failed"]
    BY <2>1 DEF PolicyInv, PolicyTypeOK, PolicyState, HalfInv, Early, Unsigned
  <2>2. CASE /\ po.publ[p] = "tomltmp"
             /\ po' = [po EXCEPT !.toml = po.tmp, !.tmp = None, !.publ[p] = "toml"]
    <3>1. \A q \in Publication : po'.publ[q] \in Early => po.publ[q] \in Early
      BY <2>2 DEF PolicyInv, PolicyTypeOK, PolicyState, Early
    <3>2. /\ po'.toml = po.tmp /\ po'.tmp = None
          /\ UNCHANGED <<po.sig, po.atoml, po.asig, po.cache, po.pull, po.acl,
                         po.agent, po.drops, po.copying>>
      BY <2>2 DEF PolicyInv, PolicyTypeOK, PolicyState
    <3> QED BY <3>1, <3>2, Faces, Zenon DEF PolicyInv, HalfInv, Unsigned
  <2>3. CASE po' = [po EXCEPT !.sig = po.tmp, !.tmp = None, !.publ[p] = "sig"]
    <3>1. \A q \in Publication : po'.publ[q] \in Early => po.publ[q] \in Early
      BY <2>3 DEF PolicyInv, PolicyTypeOK, PolicyState, Early
    <3>2. /\ po'.sig = po.tmp /\ po'.tmp = None
          /\ UNCHANGED <<po.toml, po.atoml, po.asig, po.cache, po.pull, po.acl,
                         po.agent, po.drops, po.copying>>
      BY <2>3 DEF PolicyInv, PolicyTypeOK, PolicyState
    <3> QED BY <3>1, <3>2, Faces, Zenon DEF PolicyInv, HalfInv, Unsigned
  <2> QED BY <2>1, <2>2, <2>3 DEF RenameTemp
<1> QED BY <1>1, <1>2, <1>3 DEF PolicyStepOK, PolicyInv, PolicyTypeOK

LEMMA StoresStep == ASSUME PolicyInv, NEW p \in Publication, PublishStores(p)
    PROVE  PolicyStepOK
<1>0. Generation[p] \in Nat
  BY PolicyAssumption
<1>1. po' \in PolicyState
  BY <1>0, Faces, Generations, Loads, Zenon
     DEF PolicyInv, PolicyTypeOK, PolicyState, PublishStores
<1>2. AgentInv' /\ ForwardStep
  BY Faces, Generations, Loads
     DEF PolicyInv, PolicyTypeOK, PolicyState, AgentInv, ForwardStep, PublishStores
<1>3. HalfInv'
  BY Faces, Loads
     DEF PolicyInv, PolicyTypeOK, PolicyState, HalfInv, Early, Unsigned, PublishStores
<1> QED BY <1>1, <1>2, <1>3 DEF PolicyStepOK, PolicyInv, PolicyTypeOK

LEMMA CopyStep == ASSUME PolicyInv, NEW p \in Publication, OperatorCopies(p)
    PROVE  PolicyStepOK
<1>0. po.drops + 1 \in Nat /\ po.drops + 1 # 0
  BY DEF PolicyInv, PolicyTypeOK, PolicyState
<1>1. po' \in PolicyState
  BY <1>0, Faces, Generations, Loads, Zenon
     DEF PolicyInv, PolicyTypeOK, PolicyState, OperatorCopies
<1>2. AgentInv' /\ ForwardStep
  BY Faces, Generations, Loads
     DEF PolicyInv, PolicyTypeOK, PolicyState, AgentInv, ForwardStep, OperatorCopies
<1>3. HalfInv'
  BY Faces, Loads
     DEF PolicyInv, PolicyTypeOK, PolicyState, HalfInv, Early, Unsigned, OperatorCopies
<1> QED BY <1>1, <1>2, <1>3 DEF PolicyStepOK, PolicyInv, PolicyTypeOK

AgentRecord ==
    [at : {"down", "tick", "pull", "got", "half"}, armed : BOOLEAN,
     seen : Nat, got : Policy, rules : Policy, stamp : Stamp,
     cached : BOOLEAN, ticked : BOOLEAN, edit : BOOLEAN]

\* An agent may move on to a record that keeps the facts of AgentInv and
\* whose rules are its own or those of a signed publication.
AgentMay(a) ==
    /\ a \in AgentRecord
    /\ a.armed => a.seen >= 1
    /\ a.at \in {"pull", "got", "half"} => a.armed
    /\ a.at \in {"got", "half"} => a.got \in Publication
    /\ po.agent.armed /\ a.armed /\ po.agent.at # "down"
          => /\ a.seen >= po.agent.seen
             /\ a.rules # po.agent.rules => GenerationOf(a.rules) = a.seen
    /\ po.drops = 0 => \A p \in Publication :
                           po.publ[p] \in Early => p \notin {a.rules, a.got}

LEMMA AnswerTo ==
    ASSUME PolicyInv, NEW a, AgentMay(a), NEW f \in Nat,
           NEW c \in [held : BOOLEAN, stamp : Stamp, of : Policy],
           po' = [po EXCEPT !.pull = NoPull, !.agent = a, !.floor = f, !.cache = c],
           po.drops = 0 => \A p \in Publication : po.publ[p] \in Early => p # c.of
    PROVE  PolicyStepOK
<1>0. NoPull \in [at : {"idle", "miss", "loaded"}, read : File, of : Policy]
      /\ NoPull.of = Embedded
  BY Faces DEF NoPull
<1>1. po' \in PolicyState
  BY <1>0, Zenon DEF PolicyInv, PolicyTypeOK, PolicyState, AgentMay, AgentRecord
<1>2. AgentInv' /\ ForwardStep
  BY DEF PolicyInv, PolicyTypeOK, PolicyState, AgentMay, AgentInv, ForwardStep
<1>3. HalfInv'
  BY <1>0, Faces, Zenon DEF PolicyInv, PolicyTypeOK, PolicyState, AgentMay, HalfInv, Unsigned
<1> QED BY <1>1, <1>2, <1>3 DEF PolicyStepOK, PolicyInv, PolicyTypeOK

LEMMA Answering == ASSUME PolicyInv, NEW x \in Policy,
                          NEW c \in [held : BOOLEAN, stamp : Stamp, of : Policy],
                          po' = [Answer(x) EXCEPT !.cache = c],
                          po.drops = 0 => \A p \in Publication :
                              po.publ[p] \in Early => p \notin {x, c.of}
                   PROVE  PolicyStepOK
<1> DEFINE t == [po.agent EXCEPT !.at = "tick"]
           g == [po.agent EXCEPT !.at = "got", !.got = x]
           f == IF po.agent.seen > GenerationOf(x) /\ po.agent.seen > po.floor
                THEN po.agent.seen ELSE po.floor
<1>1. /\ po.agent \in AgentRecord /\ po.floor \in Nat /\ po.agent.seen \in Nat
      /\ po.agent.seen >= po.agent.seen
  BY DEF PolicyInv, PolicyTypeOK, PolicyState, AgentRecord
<1>2. po.drops = 0 => \A p \in Publication : po.publ[p] \in Early =>
          p \notin {po.agent.rules, po.agent.got}
  BY DEF PolicyInv, HalfInv, Unsigned
<1>3. AgentInv
  BY DEF PolicyInv
<1>4. AgentMay(po.agent)
  BY <1>1, <1>2, <1>3 DEF AgentMay, AgentInv
<1>5. AgentMay(t)
  BY <1>1, <1>2, <1>3 DEF AgentMay, AgentRecord, AgentInv
<1>9. po.drops = 0 => \A p \in Publication : po.publ[p] \in Early => p # c.of
  OBVIOUS
<1>6. CASE po.agent.at # "pull"
  <2>1. po' = [po EXCEPT !.pull = NoPull, !.agent = po.agent, !.floor = po.floor, !.cache = c]
    BY <1>6, Zenon DEF Answer, PolicyInv, PolicyTypeOK, PolicyState
  <2> QED BY <1>1, <1>4, <2>1, <1>9, AnswerTo, Zenon
<1>7. CASE po.agent.at = "pull" /\ po.agent.seen >= GenerationOf(x)
  <2>1. f \in Nat
    BY <1>1
  <2>2. po' = [po EXCEPT !.pull = NoPull, !.agent = t, !.floor = f, !.cache = c]
    BY <1>7, Zenon DEF Answer, PolicyInv, PolicyTypeOK, PolicyState
  <2> HIDE DEF t, f
  <2> QED BY <1>5, <2>1, <2>2, <1>9, AnswerTo, Zenon
<1>8. CASE po.agent.at = "pull" /\ ~(po.agent.seen >= GenerationOf(x))
  <2>1. po.agent.armed /\ po.agent.seen >= 1
    BY <1>3, <1>8 DEF AgentInv
  <2>2. GenerationOf(x) # 1
    BY <1>1, <1>8, <2>1
  <2>3. x \in Publication
    BY <2>2 DEF GenerationOf, Policy
  <2>4. po' = [po EXCEPT !.pull = NoPull, !.agent = g, !.floor = po.floor, !.cache = c]
    BY <1>8, Zenon DEF Answer, PolicyInv, PolicyTypeOK, PolicyState
  <2>5. AgentMay(g)
    BY <1>1, <1>2, <1>3, <2>1, <2>3, Zenon DEF AgentMay, AgentRecord
  <2> HIDE DEF g
  <2> QED BY <1>1, <2>4, <2>5, <1>9, AnswerTo, Zenon
<1> QED BY <1>6, <1>7, <1>8

LEMMA HitStep == ASSUME PolicyInv, PullHits PROVE PolicyStepOK
<1>1. /\ po.cache \in [held : BOOLEAN, stamp : Stamp, of : Policy] /\ po.cache.of \in Policy
      /\ Answer(po.cache.of) = [Answer(po.cache.of) EXCEPT !.cache = po.cache]
  BY Zenon DEF PolicyInv, PolicyTypeOK, PolicyState, Answer
<1>2. po.drops = 0 => \A p \in Publication : po.publ[p] \in Early => p # po.cache.of
  BY DEF PolicyInv, HalfInv, Unsigned
<1> QED BY <1>1, <1>2, Answering DEF PullHits

LEMMA MissStep == ASSUME PolicyInv, PullMisses
    PROVE  PolicyStepOK
<1>1. po' \in PolicyState
  BY Faces, Generations, Loads DEF PolicyInv, PolicyTypeOK, PolicyState, PullMisses
<1>2. AgentInv' /\ ForwardStep
  BY Faces, Generations, Loads
     DEF PolicyInv, PolicyTypeOK, PolicyState, AgentInv, ForwardStep, PullMisses
<1>3. HalfInv'
  BY Faces, Loads, Zenon
     DEF PolicyInv, PolicyTypeOK, PolicyState, HalfInv, Early, Unsigned, PullMisses
<1> QED BY <1>1, <1>2, <1>3 DEF PolicyStepOK, PolicyInv, PolicyTypeOK

LEMMA LoadStep == ASSUME PolicyInv, PullLoads PROVE PolicyStepOK
<1> DEFINE l == Load(po.pull.read, po.sig)
<1>0. l \in Policy /\ \A p \in Publication : po.sig # SigOf(p) => l # p
  BY Loads DEF PolicyInv, PolicyTypeOK, PolicyState
<1>a. po' = [po EXCEPT !.pull.at = "loaded", !.pull.of = l]
  BY DEF PullLoads
<1> HIDE DEF l
<1>1. po' \in PolicyState
  BY <1>0, <1>a, Zenon DEF PolicyInv, PolicyTypeOK, PolicyState
<1>2. AgentInv' /\ ForwardStep
  BY <1>a DEF PolicyInv, PolicyTypeOK, PolicyState, AgentInv, ForwardStep
<1>3. HalfInv'
  BY <1>0, <1>a, Faces, Zenon DEF PolicyInv, PolicyTypeOK, PolicyState, HalfInv, Unsigned
<1> QED BY <1>1, <1>2, <1>3 DEF PolicyStepOK, PolicyInv, PolicyTypeOK

LEMMA AnswerStep == ASSUME PolicyInv, PullAnswers PROVE PolicyStepOK
<1> DEFINE c == [held |-> TRUE, stamp |-> HubStamp, of |-> po.pull.of]
<1>1. po.pull.of \in Policy /\ HubStamp \in Stamp
  BY DEF PolicyInv, PolicyTypeOK, PolicyState, HubStamp, Stamp
<1>2. c \in [held : BOOLEAN, stamp : Stamp, of : Policy] /\ c.of = po.pull.of
  BY <1>1
<1>3. po.drops = 0 => \A p \in Publication : po.publ[p] \in Early => p # po.pull.of
  BY DEF PolicyInv, HalfInv, Unsigned
<1>4. po' = [Answer(po.pull.of) EXCEPT !.cache = c]
  BY DEF PullAnswers
<1> HIDE DEF c
<1> QED BY <1>1, <1>2, <1>3, <1>4, Answering

LEMMA HubArmsStep == ASSUME PolicyInv, HubWatcherArms
    PROVE  PolicyStepOK
<1>1. po' \in PolicyState
  BY Faces, Generations, Loads DEF PolicyInv, PolicyTypeOK, PolicyState, HubWatcherArms, HubDisk
<1>2. AgentInv' /\ ForwardStep
  BY Faces, Generations, Loads
     DEF PolicyInv, PolicyTypeOK, PolicyState, AgentInv, ForwardStep, HubWatcherArms, HubDisk
<1>3. HalfInv'
  BY Faces, Loads
     DEF PolicyInv, PolicyTypeOK, PolicyState, HalfInv, Early, Unsigned, HubWatcherArms, HubDisk
<1> QED BY <1>1, <1>2, <1>3 DEF PolicyStepOK, PolicyInv, PolicyTypeOK

LEMMA HubReloadsStep == ASSUME PolicyInv, HubWatcherReloads
    PROVE  PolicyStepOK
<1>1. po' \in PolicyState
  BY Faces, Generations, Loads
     DEF PolicyInv, PolicyTypeOK, PolicyState, HubWatcherReloads, HubDisk, HubStamp, Stamp
<1>2. AgentInv' /\ ForwardStep
  BY Faces, Generations, Loads
     DEF PolicyInv, PolicyTypeOK, PolicyState, AgentInv, ForwardStep, HubWatcherReloads,
         HubDisk, HubStamp, Stamp
<1>3. HalfInv'
  BY Faces, Loads
     DEF PolicyInv, PolicyTypeOK, PolicyState, HalfInv, Early, Unsigned, HubWatcherReloads,
         HubDisk, HubStamp, Stamp
<1> QED BY <1>1, <1>2, <1>3 DEF PolicyStepOK, PolicyInv, PolicyTypeOK

LEMMA HubCrashStep == ASSUME PolicyInv, HubCrashes PROVE PolicyStepOK
<1> DEFINE PublAts == {"new", "checked", "tomltmp", "toml", "sigtmp", "sig", "done",
                       "refused", "failed", "cut"}
           pb == [p \in Publication |->
                     IF po.publ[p] = "sig" THEN "cut"
                     ELSE IF po.publ[p] \in {"checked", "tomltmp", "toml", "sigtmp"}
                     THEN "failed" ELSE po.publ[p]]
           at == IF po.agent.at = "pull" THEN "tick" ELSE po.agent.at
           n == po.faults + 1
<1>p. po.publ \in [Publication -> PublAts]
  BY DEF PolicyInv, PolicyTypeOK, PolicyState
<1>0. /\ pb \in [Publication -> PublAts]
      /\ \A p \in Publication : pb[p] \in Early => po.publ[p] \in Early
  BY <1>p DEF Early
<1>4. /\ n \in Nat
      /\ at \in {"down", "tick", "pull", "got", "half"}
      /\ at # "pull" /\ (at # "tick" => at = po.agent.at)
  BY DEF PolicyInv, PolicyTypeOK, PolicyState
<1>5. /\ NoPull \in [at : {"idle", "miss", "loaded"}, read : File, of : Policy]
      /\ NoPull.of = Embedded
  BY Faces DEF NoPull
<1>6. NoCache \in [held : BOOLEAN, stamp : Stamp, of : Policy] /\ NoCache.of = Embedded
  BY Faces DEF NoCache, Stamp
<1>a. po' = [po EXCEPT !.up = FALSE, !.faults = n, !.cache = NoCache, !.publ = pb,
                       !.pull = NoPull, !.agent.at = at]
  BY DEF HubCrashes, PolicyInv, PolicyTypeOK, PolicyState
<1> HIDE DEF pb, at, n
<1>1. po' \in PolicyState
  BY <1>0, <1>4, <1>5, <1>6, <1>a, Zenon DEF PolicyInv, PolicyTypeOK, PolicyState, PublAts
<1>2. AgentInv' /\ ForwardStep
  BY <1>4, <1>a DEF PolicyInv, PolicyTypeOK, PolicyState, AgentInv, ForwardStep
<1>3. HalfInv'
  <2>1. /\ po'.publ = pb /\ po'.pull.of = Embedded /\ po'.cache.of = Embedded
        /\ po'.agent.rules = po.agent.rules /\ po'.agent.got = po.agent.got
        /\ UNCHANGED <<po.toml, po.sig, po.tmp, po.atoml, po.asig, po.acl, po.drops,
                       po.copying>>
    BY <1>5, <1>6, <1>a DEF PolicyInv, PolicyTypeOK, PolicyState
  <2> QED BY <1>0, <2>1, Faces, Zenon DEF PolicyInv, HalfInv, Unsigned
<1> QED BY <1>1, <1>2, <1>3 DEF PolicyStepOK, PolicyInv, PolicyTypeOK

LEMMA HubStartStep == ASSUME PolicyInv, HubStarts
    PROVE  PolicyStepOK
<1>1. po' \in PolicyState
  BY Faces, Generations, Loads, Zenon
     DEF PolicyInv, PolicyTypeOK, PolicyState, HubStarts, SeededAcl, HubDisk, HubStamp, Stamp
<1>2. AgentInv' /\ ForwardStep
  BY Faces, Generations, Loads
     DEF PolicyInv, PolicyTypeOK, PolicyState, AgentInv, ForwardStep, HubStarts, SeededAcl,
         HubDisk, HubStamp, Stamp
<1>3. HalfInv'
  BY Faces, Loads
     DEF PolicyInv, PolicyTypeOK, PolicyState, HalfInv, Early, Unsigned, HubStarts, SeededAcl,
         HubDisk, HubStamp, Stamp
<1> QED BY <1>1, <1>2, <1>3 DEF PolicyStepOK, PolicyInv, PolicyTypeOK

LEMMA AgentArmsStep == ASSUME PolicyInv, AgentArms
    PROVE  PolicyStepOK
<1>1. po' \in PolicyState
  BY Faces, Generations, Loads, Zenon
     DEF PolicyInv, PolicyTypeOK, PolicyState, AgentArms, AgentDisk
<1>2. AgentInv' /\ ForwardStep
  BY Faces, Generations, Loads
     DEF PolicyInv, PolicyTypeOK, PolicyState, AgentInv, ForwardStep, AgentArms, AgentDisk
<1>3. HalfInv'
  BY Faces, Loads
     DEF PolicyInv, PolicyTypeOK, PolicyState, HalfInv, Early, Unsigned, AgentArms, AgentDisk
<1> QED BY <1>1, <1>2, <1>3 DEF PolicyStepOK, PolicyInv, PolicyTypeOK

LEMMA AgentTo ==
    ASSUME PolicyInv, NEW a, AgentMay(a), NEW n \in Nat, NEW s \in File,
           po' = [po EXCEPT !.agent = a, !.faults = n, !.asig = s],
           po.drops = 0 => \A p \in Publication : po.publ[p] \in Early => s # SigOf(p)
    PROVE  PolicyStepOK
<1>1. po' \in PolicyState
  BY Zenon DEF PolicyInv, PolicyTypeOK, PolicyState, AgentMay, AgentRecord
<1>2. AgentInv' /\ ForwardStep
  BY DEF PolicyInv, PolicyTypeOK, PolicyState, AgentMay, AgentInv, ForwardStep
<1>3. HalfInv'
  BY DEF PolicyInv, PolicyTypeOK, PolicyState, AgentMay, HalfInv, Unsigned
<1> QED BY <1>1, <1>2, <1>3 DEF PolicyStepOK, PolicyInv, PolicyTypeOK

\* A reload raises the watermark or changes nothing.
LEMMA Reloads ==
    ASSUME PolicyInv, NEW t \in File, NEW s \in File
    PROVE  LET r == Reload(po.agent, t, s)
           IN  /\ r \in AgentRecord
               /\ r.at = po.agent.at /\ r.armed = po.agent.armed /\ r.got = po.agent.got
               /\ r.seen >= po.agent.seen
               /\ r.rules # po.agent.rules => GenerationOf(r.rules) = r.seen
               /\ \A p \in Publication : s # SigOf(p) /\ po.agent.rules # p => r.rules # p
<1>0. po.agent \in AgentRecord /\ po.expose \in BOOLEAN
  BY DEF PolicyInv, PolicyTypeOK, PolicyState, AgentRecord
<1>1. CASE Verifies(t, s) /\ NotRollback(t.of, po.agent.seen) /\ Derives(t.of)
  <2>1. /\ t.of \in Publication /\ t.of \in Policy
        /\ \A p \in Publication : s # SigOf(p) => t.of # p
    BY <1>1, Loads, Faces
  <2>2. /\ Generation[t.of] \in Nat /\ Generation[t.of] = GenerationOf(t.of)
        /\ Generation[t.of] >= po.agent.seen
    BY <1>1, <2>1, Generations DEF NotRollback
  <2>3. Reload(po.agent, t, s) = [po.agent EXCEPT !.seen = Generation[t.of], !.rules = t.of,
                                        !.cached = po.expose, !.edit = FALSE]
    BY <1>1 DEF Reload
  <2> QED BY <1>0, <2>1, <2>2, <2>3, Zenon DEF AgentRecord
<1>2. CASE ~(Verifies(t, s) /\ NotRollback(t.of, po.agent.seen) /\ Derives(t.of))
  <2>1. Reload(po.agent, t, s) = po.agent
    BY <1>2 DEF Reload
  <2>2. po.agent.seen >= po.agent.seen
    BY <1>0 DEF AgentRecord
  <2> QED BY <1>0, <2>1, <2>2
<1> QED BY <1>1, <1>2, Zenon

LEMMA TicksStep == ASSUME PolicyInv, AgentTicks PROVE PolicyStepOK
<1> DEFINE r == IF po.agent.stamp = AgentStamp THEN po.agent
                ELSE Reload(po.agent, po.atoml, po.asig)
           a == [r EXCEPT !.at = "pull", !.ticked = TRUE, !.stamp = AgentStamp]
<1>0. /\ po.agent \in AgentRecord /\ AgentStamp \in Stamp /\ po.atoml \in File
      /\ po.asig \in File /\ po.faults \in Nat /\ po.agent.seen >= po.agent.seen
  BY DEF PolicyInv, PolicyTypeOK, PolicyState, AgentRecord, AgentStamp, Stamp
<1>1. /\ r \in AgentRecord
      /\ r.armed = po.agent.armed /\ r.got = po.agent.got
      /\ r.seen >= po.agent.seen
      /\ r.rules # po.agent.rules => GenerationOf(r.rules) = r.seen
      /\ \A p \in Publication : po.asig # SigOf(p) /\ po.agent.rules # p => r.rules # p
  BY <1>0, Reloads
<1>2. po.agent.armed /\ po.agent.seen >= 1
  BY DEF AgentTicks, PolicyInv, AgentInv
<1>3. po.drops = 0 => \A p \in Publication : po.publ[p] \in Early =>
          po.asig # SigOf(p) /\ p \notin {po.agent.rules, po.agent.got}
  BY DEF PolicyInv, HalfInv, Unsigned
<1>4. po' = [po EXCEPT !.agent = a]
  BY DEF AgentTicks
<1>5. po' = [po EXCEPT !.agent = a, !.faults = po.faults, !.asig = po.asig]
  BY <1>4, Zenon DEF PolicyInv, PolicyTypeOK, PolicyState
<1> HIDE DEF r
<1>6. r.seen >= 1
  BY <1>0, <1>1, <1>2 DEF AgentRecord
<1>7. AgentMay(a)
  BY <1>0, <1>1, <1>2, <1>3, <1>6, Zenon DEF AgentMay, AgentRecord
<1> QED BY <1>0, <1>3, <1>5, <1>7, AgentTo, Zenon

LEMMA PullFailsStep == ASSUME PolicyInv, PullFails
    PROVE  PolicyStepOK
<1>0. po.faults + 1 \in Nat
  BY DEF PolicyInv, PolicyTypeOK, PolicyState
<1>1. po' \in PolicyState
  BY <1>0, Faces, Generations, Loads, Zenon
     DEF PolicyInv, PolicyTypeOK, PolicyState, PullFails, Fault
<1>2. AgentInv' /\ ForwardStep
  BY Faces, Generations, Loads
     DEF PolicyInv, PolicyTypeOK, PolicyState, AgentInv, ForwardStep, PullFails, Fault
<1>3. HalfInv'
  BY Faces, Loads
     DEF PolicyInv, PolicyTypeOK, PolicyState, HalfInv, Early, Unsigned, PullFails, Fault
<1> QED BY <1>1, <1>2, <1>3 DEF PolicyStepOK, PolicyInv, PolicyTypeOK

LEMMA PersistStep == ASSUME PolicyInv, PersistPolicy PROVE PolicyStepOK
<1> DEFINE f == [of |-> po.agent.got, face |-> "toml"]
<1>0. po.agent.got \in Publication
  BY DEF PersistPolicy, PolicyInv, AgentInv
<1>4. f \in File /\ \A p \in Publication : SigOf(p) # f
  BY <1>0, Faces, Zenon
<1>a. po' = [po EXCEPT !.atoml = f, !.agent.at = "half"] /\ po.agent.at = "got"
  BY DEF PersistPolicy
<1> HIDE DEF f
<1>1. po' \in PolicyState
  BY <1>4, <1>a, Zenon DEF PolicyInv, PolicyTypeOK, PolicyState
<1>2. AgentInv' /\ ForwardStep
  BY <1>a DEF PolicyInv, PolicyTypeOK, PolicyState, AgentInv, ForwardStep
<1>3. HalfInv'
  BY <1>4, <1>a DEF PolicyInv, PolicyTypeOK, PolicyState, HalfInv, Unsigned
<1> QED BY <1>1, <1>2, <1>3 DEF PolicyStepOK, PolicyInv, PolicyTypeOK

LEMMA PersistSigStep == ASSUME PolicyInv, PersistSignature PROVE PolicyStepOK
<1> DEFINE s == SigOf(po.agent.got)
           r == Reload(po.agent, po.atoml, s)
           a == [r EXCEPT !.at = "tick", !.got = Embedded, !.stamp = <<po.atoml, s>>]
<1>0. /\ po.agent.got \in Publication /\ po.agent.armed /\ po.agent.seen >= 1
  BY DEF PersistSignature, PolicyInv, AgentInv
<1>1. /\ s \in File /\ po.atoml \in File /\ po.faults \in Nat /\ po.agent \in AgentRecord
      /\ \A p \in Publication : p # po.agent.got => s # SigOf(p)
  BY <1>0, Faces, Zenon DEF PolicyInv, PolicyTypeOK, PolicyState, AgentRecord
<1>2. /\ r \in AgentRecord
      /\ r.armed = po.agent.armed
      /\ r.seen >= po.agent.seen
      /\ r.rules # po.agent.rules => GenerationOf(r.rules) = r.seen
      /\ \A p \in Publication : s # SigOf(p) /\ po.agent.rules # p => r.rules # p
  BY <1>1, Reloads, Zenon
<1>3. po.drops = 0 => \A p \in Publication : po.publ[p] \in Early =>
          p \notin {po.agent.rules, po.agent.got}
  BY DEF PolicyInv, HalfInv, Unsigned
<1>4. po' = [po EXCEPT !.asig = s, !.agent = a]
  BY DEF PersistSignature, SigOf
<1>5. po' = [po EXCEPT !.agent = a, !.faults = po.faults, !.asig = s]
  BY <1>4, Zenon DEF PolicyInv, PolicyTypeOK, PolicyState
<1>6. <<po.atoml, s>> \in Stamp
  BY <1>1 DEF Stamp
<1> HIDE DEF r, s
<1>7. r.seen >= 1
  BY <1>0, <1>1, <1>2 DEF AgentRecord
<1>8. AgentMay(a)
  BY <1>0, <1>1, <1>2, <1>3, <1>6, <1>7, Faces, Zenon DEF AgentMay, AgentRecord
<1> QED BY <1>1, <1>3, <1>5, <1>8, AgentTo, Zenon

LEMMA PersistFailsStep == ASSUME PolicyInv, PersistFails PROVE PolicyStepOK
<1> DEFINE a == [po.agent EXCEPT !.at = "tick", !.got = Embedded]
           n == po.faults + 1
<1>1. /\ po.agent \in AgentRecord /\ n \in Nat /\ po.asig \in File
      /\ po.agent.seen >= po.agent.seen
  BY DEF PolicyInv, PolicyTypeOK, PolicyState, AgentRecord
<1>2. po.drops = 0 => \A p \in Publication : po.publ[p] \in Early =>
          po.asig # SigOf(p) /\ p # po.agent.rules
  BY Zenon DEF PolicyInv, HalfInv, Unsigned
<1>3. AgentInv
  BY DEF PolicyInv
<1>4. AgentMay(a)
  BY <1>1, <1>2, <1>3, Faces, Zenon DEF AgentMay, AgentRecord, AgentInv
<1>5. po' = [po EXCEPT !.agent = a, !.faults = n, !.asig = po.asig]
  BY Zenon DEF PersistFails, PolicyInv, PolicyTypeOK, PolicyState
<1> HIDE DEF a, n
<1> QED BY <1>1, <1>2, <1>4, <1>5, AgentTo, Zenon

LEMMA AgentCrashStep == ASSUME PolicyInv, AgentCrashes
    PROVE  PolicyStepOK
<1>0. po.faults + 1 \in Nat
  BY DEF PolicyInv, PolicyTypeOK, PolicyState
<1>1. po' \in PolicyState
  BY <1>0, Faces, Generations, Loads, Zenon
     DEF PolicyInv, PolicyTypeOK, PolicyState, AgentCrashes, NoAgent, Stamp, Fault
<1>2. AgentInv' /\ ForwardStep
  BY Faces, Generations, Loads
     DEF PolicyInv, PolicyTypeOK, PolicyState, AgentInv, ForwardStep, AgentCrashes, NoAgent,
         Stamp, Fault
<1>3. HalfInv'
  BY Faces, Loads, Zenon
     DEF PolicyInv, PolicyTypeOK, PolicyState, HalfInv, Early, Unsigned, AgentCrashes,
         NoAgent, Stamp, Fault
<1> QED BY <1>1, <1>2, <1>3 DEF PolicyStepOK, PolicyInv, PolicyTypeOK

LEMMA CopySigStep == ASSUME PolicyInv, OperatorCopiesSignature PROVE PolicyStepOK
<1> DEFINE s == SigOf(po.copying)
<1>0. s \in File
  BY Faces, Zenon DEF PolicyInv, PolicyTypeOK, PolicyState, OperatorCopiesSignature, Policy
<1>a. po' = [po EXCEPT !.copying = Embedded, !.asig = s]
  BY DEF OperatorCopiesSignature, SigOf
<1>b. po.drops # 0
  BY DEF OperatorCopiesSignature, PolicyInv, HalfInv
<1> HIDE DEF s
<1>1. po' \in PolicyState
  BY <1>0, <1>a, Faces, Zenon DEF PolicyInv, PolicyTypeOK, PolicyState
<1>2. AgentInv' /\ ForwardStep
  BY <1>a DEF PolicyInv, PolicyTypeOK, PolicyState, AgentInv, ForwardStep
<1>3. HalfInv'
  BY <1>a, <1>b DEF PolicyInv, PolicyTypeOK, PolicyState, HalfInv
<1> QED BY <1>1, <1>2, <1>3 DEF PolicyStepOK, PolicyInv, PolicyTypeOK

LEMMA EditStep == ASSUME PolicyInv, AddressEdited
    PROVE  PolicyStepOK
<1>1. po' \in PolicyState
  BY Faces, Generations, Loads, Zenon DEF PolicyInv, PolicyTypeOK, PolicyState, AddressEdited
<1>2. AgentInv' /\ ForwardStep
  BY Faces, Generations, Loads
     DEF PolicyInv, PolicyTypeOK, PolicyState, AgentInv, ForwardStep, AddressEdited
<1>3. HalfInv'
  BY Faces, Loads
     DEF PolicyInv, PolicyTypeOK, PolicyState, HalfInv, Early, Unsigned, AddressEdited
<1> QED BY <1>1, <1>2, <1>3 DEF PolicyStepOK, PolicyInv, PolicyTypeOK

LEMMA AgentStartStep == ASSUME PolicyInv, NEW armed \in BOOLEAN, AgentStarts(armed)
                        PROVE  PolicyStepOK
<1> DEFINE seen == IF armed THEN GenerationOf(AgentDisk) ELSE 0
           n == IF armed THEN po.faults ELSE po.faults + 1
           a == [at |-> "tick", armed |-> armed, seen |-> seen, got |-> Embedded,
                 rules |-> StartupRules, stamp |-> AgentStamp, cached |-> FALSE,
                 ticked |-> FALSE, edit |-> FALSE]
<1>1. po.atoml \in File /\ po.asig \in File /\ po.faults \in Nat
  BY Zenon DEF PolicyInv, PolicyTypeOK, PolicyState
<1>2. n \in Nat
  BY <1>1
<1>3. /\ AgentDisk \in Policy /\ StartupRules \in Policy /\ AgentStamp \in Stamp
      /\ \A p \in Publication : po.asig # SigOf(p) => StartupRules # p
  BY <1>1, Loads, Faces, Zenon DEF AgentDisk, StartupRules, AgentStamp, Stamp
<1>4. seen \in Nat /\ (armed => seen >= 1)
  BY <1>3, Generations, Zenon
<1>5. po.drops = 0 => \A p \in Publication : po.publ[p] \in Early => po.asig # SigOf(p)
  BY Zenon DEF PolicyInv, HalfInv, Unsigned
<1>6. po' = [po EXCEPT !.agent = a, !.faults = n] /\ po.agent.at = "down"
  BY DEF AgentStarts
<1>7. po' = [po EXCEPT !.agent = a, !.faults = n, !.asig = po.asig]
  BY <1>6, Zenon DEF PolicyInv, PolicyTypeOK, PolicyState
<1> HIDE DEF seen, n
<1>8. AgentMay(a)
  BY <1>3, <1>4, <1>5, <1>6, Faces, Zenon DEF AgentMay, AgentRecord
<1> QED BY <1>1, <1>2, <1>5, <1>7, <1>8, AgentTo, Zenon

LEMMA PolicyStep == PolicyInv /\ [PolicyNext]_po => PolicyInv' /\ [ForwardStep]_po
<1> SUFFICES ASSUME PolicyInv, [PolicyNext]_po PROVE PolicyInv' /\ [ForwardStep]_po
  OBVIOUS
<1>1. CASE UNCHANGED po
  BY <1>1, Zenon DEF PolicyInv, PolicyTypeOK, AgentInv, HalfInv, Unsigned
<1>2. ASSUME NEW p \in Publication,
             \/ PublishChecks(p) \/ WriteTemp(p) \/ RenameTemp(p) \/ PublishStores(p)
             \/ OperatorCopies(p)
      PROVE  PolicyStepOK
  BY <1>2, ChecksStep, WriteStep, RenameStep, StoresStep, CopyStep, Zenon
<1>3. ASSUME PullHits \/ PullMisses \/ PullLoads \/ PullAnswers \/ HubWatcherArms
             \/ HubWatcherReloads \/ HubCrashes \/ HubStarts
      PROVE  PolicyStepOK
  BY <1>3, HitStep, MissStep, LoadStep, AnswerStep, HubArmsStep, HubReloadsStep,
     HubCrashStep, HubStartStep
<1>4. ASSUME \/ \E armed \in BOOLEAN : AgentStarts(armed)
             \/ AgentArms \/ AgentTicks \/ PullFails \/ PersistPolicy \/ PersistSignature
             \/ PersistFails \/ AgentCrashes \/ OperatorCopiesSignature \/ AddressEdited
      PROVE  PolicyStepOK
  BY <1>4, AgentStartStep, AgentArmsStep, TicksStep, PullFailsStep, PersistStep,
     PersistSigStep, PersistFailsStep, AgentCrashStep, CopySigStep, EditStep
<1> QED BY <1>1, <1>2, <1>3, <1>4, Zenon DEF PolicyNext, PolicyStepOK

\* A policy reaches the hub's admission table, the cache or an agent's rules
\* only once its signature has been written, however publishers, readers and
\* crashes interleave; and a running agent applies no policy that is older
\* than its watermark.
THEOREM Policies == PolicySpec => PolicySound
<1>1. PolicyInit => PolicyInv
  <2>1. \A e \in BOOLEAN : PolicyStart(e) \in PolicyState
    BY Faces, Zenon DEF PolicyStart, PolicyState, NoCache, NoPull, NoAgent, Stamp
  <2>2. PolicyInit => AgentInv
    BY DEF PolicyInit, PolicyStart, NoAgent, AgentInv
  <2>3. PolicyInit => HalfInv
    <3>1. PolicyInit =>
             /\ po.copying = Embedded
             /\ {po.toml, po.sig, po.tmp, po.atoml, po.asig} = {None}
             /\ {po.cache.of, po.pull.of, po.acl.rules, po.agent.rules, po.agent.got}
                   = {Embedded}
      BY DEF PolicyInit, PolicyStart, NoCache, NoPull, NoAgent
    <3> QED BY <3>1, Faces, Zenon DEF HalfInv, Unsigned
  <2> QED BY <2>1, <2>2, <2>3 DEF PolicyInit, PolicyInv, PolicyTypeOK
<1>2. PolicyInv => NothingHalfWritten
  BY DEF PolicyInv, HalfInv, Unsigned, Early, NothingHalfWritten
<1> QED BY <1>1, <1>2, PolicyStep, PTL
        DEF PolicySpec, PolicySound, AgentMovesForward, ForwardStep
===============================================================================
