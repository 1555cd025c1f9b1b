---------------------------- MODULE OperatorPlan ----------------------------
(***************************************************************************)
(* The operator's commands: plan apply with its gate, the policy-only path  *)
(* and the full render, plan rotate, revoke, and the approval of a          *)
(* proposal.  They work on the manifest, the issuer store, the dist tree    *)
(* and a running hub that may not be reached, may be reinstalled from an    *)
(* older pack, and may hear from another operator.  A command may be cut    *)
(* off between any two steps.                                               *)
(*                                                                          *)
(* The manifest is the version of its identity face and its set of rules.   *)
(* One command runs at a time; the editor works beside it.                  *)
(***************************************************************************)
EXTENDS Integers, FiniteSets, FiniteSetsExt

CONSTANTS
    Rule,           \* rules the editor switches on and off
    Proposed,       \* the rule of the pending proposal
    Foreign,        \* what another operator publishes
    Serial,         \* serials that may be revoked
    Pack,           \* the packs a render writes
    HubPack,        \* the one the hub is installed from
    MaxPlanEdit, MaxPlanFault, MaxRotate, MaxOther

ASSUME PlanAssumption ==
    /\ HubPack \in Pack /\ Proposed \notin Rule /\ Foreign \notin Rule \cup {Proposed}
    /\ {MaxPlanEdit, MaxPlanFault, MaxRotate, MaxOther} \subseteq Nat

VARIABLE op

RuleSet == SUBSET (Rule \cup {Proposed, Foreign})
List == [number : Nat, serials : SUBSET Serial]
NoCrl == [number |-> 0, serials |-> {}]
Unheard == -1

PlanState ==
    [\* the manifest
     ident : Nat, rules : RuleSet,
     \* the issuer store: what was applied last (gen 0: nothing), the deny list
     \* and the CRL file beside it
     applied : [gen : Nat, ident : Nat, rules : RuleSet],
     list : List, file : List,
     \* the dist tree: the bundle, the packs, a staged pack (gen 0: none) and
     \* the highest generation in the state mirrors of the nodes
     bundle : [gen : Nat, rules : RuleSet],
     packs : [Pack -> [gen : Nat, ident : Nat, rules : RuleSet, usable : BOOLEAN,
                       crl : List]],
     staged : Nat, mirror : Nat,
     \* the hub
     hub : [floor : Nat, gen : Nat, rules : RuleSet, crl : List],
     \* the proposal at the hub
     decided : BOOLEAN,
     \* the running command: the manifest it read, what it mints
     at : {"idle", "ask", "mint", "render", "bundle", "publish", "embed", "push",
           "record", "notify", "staged", "denied", "edit"},
     ident0 : Nat, rules0 : RuleSet, gen : Nat, heard : Nat \cup {Unheard},
     again : BOOLEAN, full : BOOLEAN, todo : SUBSET Pack, approves : BOOLEAN,
     revoking : SUBSET Serial,
     verdict : {"none", "noop", "unverified"},
     edits : Nat, faults : Nat, rotates : Nat, others : Nat]

Larger(S) == Max(S \cup {0})
StepMayFail == op.faults < MaxPlanFault
Step(q) == op' = q

\* What a finished command leaves behind.
Finished(q) == [q EXCEPT !.at = "idle", !.gen = 0, !.heard = Unheard, !.again = FALSE,
                         !.full = FALSE, !.todo = {}, !.approves = FALSE,
                         !.ident0 = 0, !.rules0 = {}, !.revoking = {}]

(***************************************************************************)
(* The editor                                                               *)
(***************************************************************************)

EditRule(r) ==
    /\ op.edits < MaxPlanEdit
    /\ Step([op EXCEPT !.rules = IF r \in @ THEN @ \ {r} ELSE @ \cup {r}, !.edits = @ + 1])

EditTheIdentity ==
    /\ op.edits < MaxPlanEdit
    /\ Step([op EXCEPT !.ident = @ + 1, !.edits = @ + 1])

(***************************************************************************)
(* plan apply: the gate                                                     *)
(***************************************************************************)

\* A pack the loader would refuse.
stale_pack_in_tree == \E p \in Pack : ~op.packs[p].usable

\* A serial of the deny list is missing from the snapshot of some pack.
stale_trust_snapshot == \E p \in Pack : ~(op.list.serials \subseteq op.packs[p].crl.serials)

\* What apply does for the manifest as it is now.
Route(ident, rules) ==
    IF \/ op.applied.gen = 0 \/ op.applied.ident # ident
       \/ stale_pack_in_tree \/ stale_trust_snapshot
    THEN "full"
    ELSE IF op.applied.rules # rules THEN "policy" ELSE "ask"

\* The manifest is read once and the route is chosen.
Routed(q, approves) ==
    LET route == Route(q.ident, q.rules)
    IN  [q EXCEPT !.ident0 = q.ident, !.rules0 = q.rules, !.approves = approves,
                  !.verdict = "none", !.heard = Unheard,
                  !.full = (route = "full"), !.at = IF route = "ask" THEN "ask" ELSE "mint"]

ApplyStarts == op.at = "idle" /\ Step(Routed(op, FALSE))

dist_policy_floor == Larger({op.bundle.gen, op.mirror, op.staged}
                            \cup {op.packs[p].gen : p \in Pack})

\* Mutant: what the hub serves is not compared.
policy_no_op_verdictOfFloor(hub) ==
    /\ dist_policy_floor <= op.applied.gen
    /\ hub # Unheard => op.hub.floor = op.applied.gen

\* Every observable watermark agrees with the bookkeeping.
policy_no_op_verdict(hub) ==
    /\ dist_policy_floor <= op.applied.gen
    /\ hub # Unheard => op.hub.floor = op.applied.gen /\ op.hub.gen >= op.applied.gen

\* The hub is asked for its watermarks; it may not answer.
GateAsks ==
    /\ op.at = "ask"
    /\ \E h \in {op.hub.floor} \cup IF StepMayFail THEN {Unheard} ELSE {} :
         LET q == [op EXCEPT !.faults = IF h = Unheard THEN @ + 1 ELSE @]
         IN  Step(IF policy_no_op_verdict(h)
                  THEN IF op.approves
                       THEN [q EXCEPT !.at = "notify", !.gen = op.applied.gen,
                                      !.verdict = IF h = Unheard THEN "unverified" ELSE "noop"]
                       ELSE [Finished(q) EXCEPT
                               !.verdict = IF h = Unheard THEN "unverified" ELSE "noop"]
                  ELSE [q EXCEPT !.at = "mint", !.heard = h])

(***************************************************************************)
(* plan apply: minting, rendering, publishing                               *)
(***************************************************************************)

policy_mint_floor(hub) == Larger({op.applied.gen, dist_policy_floor} \cup
                                 (IF hub = Unheard THEN {} ELSE {hub}))

\* The hub is asked unless the gate did; a silent hub does not count.
ApplyMints ==
    /\ op.at = "mint"
    /\ \E h \in IF op.heard # Unheard THEN {op.heard}
                ELSE {op.hub.floor} \cup IF StepMayFail THEN {Unheard} ELSE {} :
         Step([op EXCEPT !.gen = policy_mint_floor(h) + 1, !.heard = Unheard,
                         !.faults = IF h = Unheard THEN @ + 1 ELSE @,
                         !.todo = IF op.full THEN Pack ELSE {},
                         !.at = IF op.full THEN "render" ELSE "bundle"])

\* A pack is written in place; its snapshot comes later.
PackRendered(p) ==
    /\ op.at = "render" /\ p \in op.todo
    /\ Step([op EXCEPT !.packs[p] = [gen |-> op.gen, ident |-> op.ident0,
                                     rules |-> op.rules0, usable |-> TRUE, crl |-> NoCrl],
                       !.todo = @ \ {p},
                       !.at = IF op.todo = {p} THEN "bundle" ELSE @])

BundleWritten ==
    /\ op.at = "bundle"
    /\ Step([op EXCEPT !.bundle = [gen |-> op.gen, rules |-> op.rules0], !.at = "publish"])

\* Where an attempt ends that is not repeated.
AfterPublish(q) == IF op.full THEN [q EXCEPT !.at = "embed", !.todo = Pack,
                                             !.staged = IF @ < q.gen THEN 0 ELSE @]
                   ELSE [q EXCEPT !.at = "record"]

\* PUT /policy takes what is not below the floor; the answer may be lost.
PublishAccepted ==
    /\ op.at = "publish" /\ op.gen >= op.hub.floor
    /\ \E heard \in BOOLEAN :
          /\ ~heard => StepMayFail
          /\ Step([AfterPublish(op) EXCEPT
                      !.hub.floor = op.gen, !.hub.gen = op.gen, !.hub.rules = op.rules0,
                      !.faults = IF heard THEN @ ELSE @ + 1])

\* The floor moved past the minted generation: once more, above it.
PublishConflicts ==
    /\ op.at = "publish" /\ op.gen < op.hub.floor
    /\ Step(IF op.again THEN AfterPublish(op)
            ELSE [op EXCEPT !.gen = op.hub.floor + 1, !.again = TRUE,
                            !.todo = IF op.full THEN Pack ELSE {},
                            !.at = IF op.full THEN "render" ELSE "bundle"])

\* The hub is not reached: the bundle stands for distribution by hand.
PublishUnreachable ==
    /\ op.at = "publish" /\ StepMayFail
    /\ Step([AfterPublish(op) EXCEPT !.faults = @ + 1])

\* embed_revocation_snapshot: the whole deny list.
SnapshotEmbedded(p) ==
    /\ op.at = "embed" /\ p \in op.todo
    /\ Step([op EXCEPT !.packs[p].crl = op.list, !.todo = @ \ {p},
                       !.at = IF op.todo = {p} THEN "push" ELSE @])

\* The CRL file of the issuer store goes to the hub, which refuses a lower
\* number.
CrlsPushed ==
    /\ op.at = "push"
    /\ \E heard \in BOOLEAN :
          /\ ~heard => StepMayFail
          /\ LET q == [op EXCEPT !.hub.crl = IF heard /\ op.file.number > @.number
                                             THEN op.file ELSE @,
                                 !.faults = IF heard THEN @ ELSE @ + 1]
             IN  Step(IF op.full THEN [q EXCEPT !.at = "record"] ELSE Finished(q))

\* record_applied: what was read, under what was minted.
ApplyRecords ==
    /\ op.at = "record"
    /\ LET q == [op EXCEPT !.applied = [gen |-> op.gen, ident |-> op.ident0,
                                        rules |-> op.rules0]]
       IN  Step(IF op.approves THEN [q EXCEPT !.at = "notify"] ELSE Finished(q))

(***************************************************************************)
(* plan rotate, revoke, approve                                             *)
(***************************************************************************)

\* One node is rendered one generation above the pack it is given, or at 1.
RotateRenders ==
    /\ op.at = "idle" /\ op.rotates < MaxRotate
    /\ \E g \in {0, op.staged} \cup {op.packs[p].gen : p \in Pack} :
          Step([op EXCEPT !.staged = Larger({@, g + 1}), !.gen = g + 1, !.at = "staged",
                          !.ident0 = op.ident, !.rules0 = op.rules, !.rotates = @ + 1])

\* The bookkeeping takes the generation of the new pack.
RotateRecords ==
    /\ op.at = "staged"
    /\ Step(Finished([op EXCEPT !.applied = IF @.gen = 0 THEN @
                                   ELSE [gen |-> op.gen, ident |-> @.ident,
                                         rules |-> op.rules0]]))

\* The serials go on the deny list ...
RevokeRecords(S) ==
    /\ op.at = "idle" /\ S # {} /\ S \cap op.list.serials = {}
    /\ Step([op EXCEPT !.list = [number |-> @.number + Cardinality(S),
                                 serials |-> @.serials \cup S],
                       !.revoking = S, !.at = "denied"])

\* ... and the CRL file is built from them.
RevokeWrites ==
    /\ op.at = "denied"
    /\ Step([op EXCEPT !.file = [number |-> op.list.number, serials |-> op.revoking],
                       !.at = "push"])

\* The proposal and the manifest are read.
ApproveReads ==
    /\ op.at = "idle" /\ ~op.decided
    /\ Step([op EXCEPT !.at = "edit", !.ident0 = op.ident, !.rules0 = op.rules])

\* The file is still the one that was read.
save_manifest == op.ident0 = op.ident /\ op.rules0 = op.rules

\* The edited text is saved, unless the rule is there, and applied.
ApproveSaves ==
    /\ op.at = "edit"
    /\ Step(IF Proposed \in op.rules0 THEN Routed(op, TRUE)
            ELSE IF save_manifest
            THEN Routed([op EXCEPT !.ident = op.ident0,
                                   !.rules = op.rules0 \cup {Proposed}], TRUE)
            ELSE Finished(op))

\* The decision is recorded at the hub; a lost one leaves it pending.
ApproveNotifies ==
    /\ op.at = "notify"
    /\ \E heard \in BOOLEAN : /\ ~heard => StepMayFail
                              /\ Step(Finished([op EXCEPT !.decided = heard,
                                            !.faults = IF heard THEN @ ELSE @ + 1]))

\* The command is cut off; a pack it was writing may be damaged.
CommandStops ==
    /\ op.at # "idle" /\ StepMayFail
    /\ \E D \in SUBSET (IF op.at = "render" THEN op.todo ELSE {}) :
          /\ Cardinality(D) <= 1
          /\ Step(Finished([op EXCEPT
                    !.faults = @ + 1,
                    !.packs = [p \in Pack |-> [@[p] EXCEPT !.usable = @ /\ p \notin D]]]))

(***************************************************************************)
(* The hub and its fleet                                                    *)
(***************************************************************************)

\* The hub is installed again from the pack in the tree.
HubReinstalled ==
    /\ StepMayFail /\ op.packs[HubPack].usable
    /\ Step([op EXCEPT !.hub = [floor |-> op.packs[HubPack].gen, gen |-> op.packs[HubPack].gen,
                                rules |-> op.packs[HubPack].rules,
                                crl |-> op.packs[HubPack].crl],
                       !.faults = @ + 1])

\* A node takes what the hub serves; its watermark raises the hub's floor.
MirrorFollows == /\ op.mirror < op.hub.gen
                 /\ Step([op EXCEPT !.mirror = op.hub.gen])
HubAbsorbs == /\ op.hub.floor < op.mirror
              /\ Step([op EXCEPT !.hub.floor = op.mirror])

\* Another operator publishes from a machine of their own.
OtherPublishes ==
    /\ op.others < MaxOther
    /\ Step([op EXCEPT !.others = @ + 1, !.hub.floor = @ + 1,
                       !.hub.gen = op.hub.floor + 1, !.hub.rules = {Foreign}])

(***************************************************************************)
(* The specification                                                        *)
(***************************************************************************)

\* A first apply has been done.
PlanStart ==
    [ident |-> 1, rules |-> {}, applied |-> [gen |-> 1, ident |-> 1, rules |-> {}],
     list |-> NoCrl, file |-> NoCrl, bundle |-> [gen |-> 1, rules |-> {}],
     packs |-> [p \in Pack |-> [gen |-> 1, ident |-> 1, rules |-> {}, usable |-> TRUE,
                                crl |-> NoCrl]],
     staged |-> 0, mirror |-> 0,
     hub |-> [floor |-> 1, gen |-> 1, rules |-> {}, crl |-> NoCrl],
     decided |-> FALSE, at |-> "idle", ident0 |-> 0, rules0 |-> {}, gen |-> 0,
     heard |-> Unheard, again |-> FALSE, full |-> FALSE, todo |-> {}, approves |-> FALSE,
     revoking |-> {}, verdict |-> "none", edits |-> 0, faults |-> 0, rotates |-> 0, others |-> 0]

PlanInit == op = PlanStart

PlanNext ==
    \/ \E r \in Rule : EditRule(r)
    \/ EditTheIdentity \/ ApplyStarts \/ GateAsks \/ ApplyMints
    \/ \E p \in Pack : PackRendered(p) \/ SnapshotEmbedded(p)
    \/ BundleWritten \/ PublishAccepted \/ PublishConflicts \/ PublishUnreachable
    \/ CrlsPushed \/ ApplyRecords \/ RotateRenders \/ RotateRecords
    \/ \E S \in SUBSET Serial : RevokeRecords(S)
    \/ RevokeWrites \/ ApproveReads \/ ApproveSaves \/ ApproveNotifies \/ CommandStops
    \/ HubReinstalled \/ MirrorFollows \/ HubAbsorbs \/ OtherPublishes

\* A command runs to its end, and the operator applies again and again.
PlanFairness ==
    /\ WF_op(ApplyStarts) /\ WF_op(GateAsks) /\ WF_op(ApplyMints) /\ WF_op(BundleWritten)
    /\ \A p \in Pack : WF_op(PackRendered(p)) /\ WF_op(SnapshotEmbedded(p))
    /\ WF_op(PublishAccepted) /\ WF_op(PublishConflicts) /\ WF_op(CrlsPushed)
    /\ WF_op(ApplyRecords) /\ WF_op(RotateRecords) /\ WF_op(RevokeWrites)
    /\ WF_op(ApproveSaves) /\ WF_op(ApproveNotifies)

PlanSpec == PlanInit /\ [][PlanNext]_op /\ PlanFairness

(***************************************************************************)
(* Properties                                                               *)
(***************************************************************************)

\* Every field has its type.
PlanTypeOK == op \in PlanState

SaysNoOp == op.at = "ask" /\ op'.verdict = "noop"

\* "Already applied" is true of the tree: every pack loads, has the identity
\* face of the manifest and names every revoked serial.
NoOpTreeIsFresh ==
    [][SaysNoOp => \A p \in Pack : /\ op.packs[p].usable /\ op.packs[p].ident = op.ident0
                                   /\ op.list.serials \subseteq op.packs[p].crl.serials]_op

\* "Already applied" is true of the hub: it serves the rules of the manifest
\* that was read, whatever was cut off, lost or reinstalled before.  Rotation
\* and other operators are left out here.
NoOpIsLive ==
    [][SaysNoOp /\ op.rotates = 0 /\ op.others = 0 => op.hub.rules = op.rules0]_op

\* No two sets of rules are signed under one generation by applies.
GenerationNamesRules ==
    op.rotates = 0 /\ op.others = 0 =>
        \A p \in Pack : op.packs[p].gen = op.bundle.gen => op.packs[p].rules = op.bundle.rules

\* A step changes one rule of the manifest at most: an approval does not undo
\* what the editor saved meanwhile.
NoLostEdit ==
    [][Cardinality((op.rules \ op'.rules) \cup (op'.rules \ op.rules)) <= 1
       /\ op'.ident >= op.ident]_op

\* When commands are repeated the hub comes to serve the manifest, and stays.
FleetConverges ==
    <>[](op.rotates + op.others > 0 \/ op.hub.rules = op.rules)

\* What plan and apply say is true of the hub: a no-op is live, a generation
\* names one set of rules, and no edit is lost to a save.
PlanSound == NoOpIsLive /\ NoLostEdit /\ []GenerationNamesRules
=============================================================================
