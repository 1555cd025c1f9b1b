----------------------------- MODULE CrlChannel -----------------------------
(***************************************************************************)
(* The revocation channel of a hub, for one issuer.  An accepted push is    *)
(* written to the live lane; the reload that follows chooses between the    *)
(* live file and the static snapshot, raises the floor, replaces the list   *)
(* the registration gates read, replaces the TLS plane and sweeps the       *)
(* registry.  Two pushes may overlap; each step of a reload is a critical   *)
(* section of its own.  An agent registers with the leaf of its connection, *)
(* which the gate reads before the entry is written.                        *)
(*                                                                          *)
(* A list is its number.  A list of at least RevokedAt names the old leaf.  *)
(***************************************************************************)
EXTENDS Integers, FiniteSets

CONSTANTS
    Push,           \* PUT /crls requests and pulls of the renewal lane
    Lane,           \* the latter
    Number,         \* the crl_number each carries
    Static,         \* the number of the snapshot in the pack
    RevokedAt,      \* the first list that names the old leaf
    MaxRegister,    \* registrations of the agent
    MaxBoot         \* restarts of the hub

ASSUME CrlAssumption ==
    /\ Number \in [Push -> Nat]
    /\ Lane \subseteq Push
    /\ {Static, RevokedAt, MaxRegister, MaxBoot} \subseteq Nat

VARIABLE cr

Leaf == {"old", "fresh"}
Nobody == [leaf |-> "none", circuit |-> 0]
Session == [leaf : Leaf, circuit : Nat]

\* An empty live lane has number -1.
CrlState ==
    [live    : Int,             \* state/crls/<stem>.crl.pem
     floor   : Int,
     current : Int,             \* what the registration gates read
     plane   : Int,             \* what new handshakes are checked against
     push    : [Push -> [at : {"new", "write", "build", "floor", "current", "plane",
                               "sweep", "evict", "done", "refused", "failed"},
                         chosen : Int, victim : Session \cup {Nobody}]],
     entry   : Session \cup {Nobody},           \* the registry entry
     gate    : Leaf \cup {"none"},              \* a registration past its gate
     circuits : Nat, boots : Nat]

Revokes(number, leaf) == leaf = "old" /\ number >= RevokedAt

\* The live lane unless it is absent or below the snapshot.
choose_tenant_crls(live) == IF live >= Static THEN live ELSE Static

PushAt(p, s) == cr.push[p].at = s
PushMoves(p, s) == [cr.push[p] EXCEPT !.at = s]

(***************************************************************************)
(* PUT /crls                                                                *)
(***************************************************************************)

\* The lane writes whatever differs from the file it finds.
LaneChecks(p) ==
    /\ p \in Lane /\ PushAt(p, "new")
    /\ cr' = [cr EXCEPT !.push[p] =
                 PushMoves(p, IF Number[p] = cr.live THEN "done" ELSE "write")]

\* The numbers are classified against a copy of the floor.
CrlChecks(p) ==
    /\ p \notin Lane /\ PushAt(p, "new")
    /\ cr' = [cr EXCEPT !.push[p] =
                 PushMoves(p, IF Number[p] < cr.floor THEN "refused"
                       ELSE IF Number[p] = cr.floor THEN "build" ELSE "write")]

CrlWrites(p) ==
    /\ PushAt(p, "write")
    /\ cr' = [cr EXCEPT !.live = Number[p], !.push[p] = PushMoves(p, "build")]

\* reload_tls_plane: the plane is built from the files; a failure keeps the
\* old one and the push is answered with an error.
ReloadBuilds(p) ==
    /\ PushAt(p, "build")
    /\ cr' = [cr EXCEPT !.push[p] = [PushMoves(p, "floor") EXCEPT
                                        !.chosen = choose_tenant_crls(cr.live)]]

ReloadFails(p) ==
    /\ PushAt(p, "build")
    /\ cr' = [cr EXCEPT !.push[p] = PushMoves(p, "failed")]

\* Mutant: the floor is set to what was chosen.
ReloadRaisesFloorPlain(p) ==
    /\ PushAt(p, "floor")
    /\ cr' = [cr EXCEPT !.floor = cr.push[p].chosen, !.push[p] = PushMoves(p, "current")]

ReloadRaisesFloor(p) ==
    /\ PushAt(p, "floor")
    /\ cr' = [cr EXCEPT !.floor = IF cr.push[p].chosen > @ THEN cr.push[p].chosen ELSE @,
                        !.push[p] = PushMoves(p, "current")]

ReloadSwapsGates(p) ==
    /\ PushAt(p, "current")
    /\ cr' = [cr EXCEPT !.current = cr.push[p].chosen, !.push[p] = PushMoves(p, "plane")]

ReloadSwapsPlane(p) ==
    /\ PushAt(p, "plane")
    /\ cr' = [cr EXCEPT !.plane = cr.push[p].chosen, !.push[p] = PushMoves(p, "sweep")]

\* evict_revoked_sessions: the sweep looks at a copy of the registry ...
SweepReads(p) ==
    /\ PushAt(p, "sweep")
    /\ LET revoked == /\ cr.entry # Nobody
                      /\ Revokes(cr.push[p].chosen, cr.entry.leaf)
       IN  cr' = [cr EXCEPT !.push[p] =
                     IF revoked THEN [PushMoves(p, "evict") EXCEPT !.victim = cr.entry]
                     ELSE PushMoves(p, "done")]

\* ... and removes an entry only while it is still the one it saw.
SweepEvicts(p) ==
    /\ PushAt(p, "evict")
    /\ cr' = [cr EXCEPT !.entry = IF @ = cr.push[p].victim THEN Nobody ELSE @,
                        !.push[p] = [PushMoves(p, "done") EXCEPT !.victim = Nobody]]

(***************************************************************************)
(* Registration                                                             *)
(***************************************************************************)

\* The gate of register and of the implicit re-registration.
GatePasses(leaf) ==
    /\ cr.gate = "none" /\ cr.circuits < MaxRegister
    /\ ~Revokes(cr.current, leaf)
    /\ cr' = [cr EXCEPT !.gate = leaf]

\* The entry is replaced under the registry lock, with a circuit of its own.
Registers ==
    /\ cr.gate # "none"
    /\ cr' = [cr EXCEPT !.entry = [leaf |-> cr.gate, circuit |-> cr.circuits + 1],
                        !.gate = "none", !.circuits = @ + 1]

\* A restarted hub seeds the floor and the gates from its files, and nobody is
\* registered.
CrlRestarts ==
    /\ cr.boots < MaxBoot
    /\ LET n == choose_tenant_crls(cr.live)
       IN  cr' = [cr EXCEPT !.floor = n, !.current = n, !.plane = n,
                            !.entry = Nobody, !.gate = "none", !.boots = @ + 1,
                            !.push = [p \in Push |->
                                IF @[p].at \in {"new", "done", "refused", "failed"}
                                THEN @[p]
                                ELSE [at |-> "failed", chosen |-> Static,
                                      victim |-> Nobody]]]

CrlStart ==
    [live |-> -1, floor |-> Static, current |-> Static, plane |-> Static,
     push |-> [p \in Push |-> [at |-> "new", chosen |-> Static, victim |-> Nobody]],
     entry |-> Nobody, gate |-> "none", circuits |-> 0, boots |-> 0]

CrlInit == cr = CrlStart

CrlNext ==
    \/ \E p \in Push :
          \/ CrlChecks(p) \/ LaneChecks(p) \/ CrlWrites(p) \/ ReloadBuilds(p) \/ ReloadFails(p)
          \/ ReloadRaisesFloor(p) \/ ReloadSwapsGates(p) \/ ReloadSwapsPlane(p)
          \/ SweepReads(p) \/ SweepEvicts(p)
    \/ \E leaf \in Leaf : GatePasses(leaf)
    \/ Registers \/ CrlRestarts

CrlSpec == CrlInit /\ [][CrlNext]_cr

(***************************************************************************)
(* Properties                                                               *)
(***************************************************************************)

\* Every field has its type.
CrlTypeOK == cr \in CrlState

\* The floor a push is compared with never falls while the hub runs, although
\* overlapping reloads choose from files that change under them (crl.rs:
\* "monotonic; only advances").
FloorHolds == [][cr'.boots = cr.boots => cr'.floor >= cr.floor]_cr

\* What is enforced is never weaker than the snapshot the pack was rendered
\* with, for the gates, for the plane and for the floor, whatever the lane
\* brings.
NeverBelowSnapshot == Static <= cr.floor /\ Static <= cr.current /\ Static <= cr.plane

\* A sweep removes only the registration it found revoked: an agent that came
\* back with a rotated leaf while the sweep was under way stays.
SweepSparesRotated ==
    [][cr'.boots = cr.boots /\ cr.entry # Nobody /\ cr.entry.leaf = "fresh"
       => cr'.entry # Nobody]_cr

\* A push that no other overlapped and that names a leaf is enforced when it is
\* answered, by the gates and by the plane.
AnsweredIsEnforced ==
    \A p \in Push :
        /\ PushAt(p, "done") /\ cr.push[p].chosen >= RevokedAt /\ cr.boots = 0
        /\ \A q \in Push \ {p} : cr.push[q].at \in {"new", "refused"}
        => Revokes(cr.current, "old") /\ Revokes(cr.plane, "old")

\* The revocation list of a running hub only grows, an answered push is
\* enforced, and the sweep that enforces it spares an agent with a fresh
\* leaf.
RevocationSound ==
  /\ FloorHolds /\ SweepSparesRotated /\ []NeverBelowSnapshot
  /\ []AnsweredIsEnforced
=============================================================================
