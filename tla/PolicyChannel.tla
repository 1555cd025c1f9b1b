--------------------------- MODULE PolicyChannel ---------------------------
(***************************************************************************)
(* The signed policy on its way from the operator to an agent.  The hub     *)
(* keeps a pair of files, the policy and its signature, a floor against     *)
(* rollback and a cache of what it serves.  Publishers write the files one  *)
(* after the other through a temporary file whose name they share.  The     *)
(* hub's own watcher reloads the admission table; an agent pulls, persists  *)
(* the pair in its own channel and derives its rules from it.  Either       *)
(* process may stop between any two steps.                                  *)
(*                                                                          *)
(* A file holds the bytes of one publication or, through the shared         *)
(* temporary name, the bytes of the wrong face.  A pair verifies exactly    *)
(* when both faces belong to one publication.                               *)
(***************************************************************************)
EXTENDS Integers, FiniteSets

CONSTANTS
    Publication,    \* policies an operator signs
    Generation,     \* the generation of each, above the embedded one
    Underivable,    \* policies whose rules this agent cannot derive
    Embedded,       \* the snapshot inside the pack, of generation 1
    MaxPolicyFault,       \* crashes, lost pulls and unreadable packs together
    MaxDrop         \* policies an operator copies to the agent by hand

ASSUME PolicyAssumption ==
    /\ Generation \in [Publication -> Nat \ {0, 1}]
    /\ Underivable \subseteq Publication
    /\ Embedded \notin Publication
    /\ {MaxPolicyFault, MaxDrop} \subseteq Nat

VARIABLE po

PolicyFace == {"toml", "sig"}
Bytes == [of : Publication, face : PolicyFace]
None == [of |-> Embedded, face |-> "toml"]      \* no such file
File == Bytes \cup {None}
Policy == Publication \cup {Embedded}
Stamp == File \X File                           \* the fingerprint of a pair

GenerationOf(x) == IF x = Embedded THEN 1 ELSE Generation[x]

PolicyState ==
    [up      : BOOLEAN,                         \* the hub process
     toml    : File, sig : File, tmp : File,    \* its channel directory
     floor   : Nat,
     cache   : [held : BOOLEAN, stamp : Stamp, of : Policy],
     publ    : [Publication -> {"new", "checked", "tomltmp", "toml", "sigtmp",
                                "sig", "done", "refused", "failed", "cut"}],
     pull    : [at : {"idle", "miss", "loaded"}, read : File, of : Policy],
     acl     : [seen : Nat, stamp : Stamp, rules : Policy],
     expose  : BOOLEAN,                         \* the agent's rule face
     agent   : [at : {"down", "tick", "pull", "got", "half"}, armed : BOOLEAN,
                seen : Nat, got : Policy, rules : Policy, stamp : Stamp,
                cached : BOOLEAN, ticked : BOOLEAN, edit : BOOLEAN],
     atoml   : File, asig : File,               \* the agent's channel directory
     copying : Policy, drops : Nat, faults : Nat]

(***************************************************************************)
(* Verification, and what a process loads                                   *)
(***************************************************************************)

\* RuntimePolicy::verify_with_hex_key on the two files of a directory.
Verifies(t, s) == /\ t # None /\ s # None
                  /\ t.face = "toml" /\ s.face = "sig" /\ t.of = s.of

\* The published pair when it verifies, the embedded snapshot otherwise.
Load(t, s) == IF Verifies(t, s) THEN t.of ELSE Embedded

\* policy_egress_rules and its siblings: whether the agent can build its table.
Derives(x) == x \notin Underivable

\* What the pack loader makes of the generation the watcher knows.
NotRollback(x, seen) == GenerationOf(x) >= seen

HubStamp == <<po.toml, po.sig>>
AgentStamp == <<po.atoml, po.asig>>
HubDisk == Load(po.toml, po.sig)
AgentDisk == Load(po.atoml, po.asig)

\* Whether a pull is answered from the cache, and with what otherwise.
CacheHits == po.cache.held /\ po.cache.stamp = HubStamp
HubServes == IF CacheHits THEN po.cache.of ELSE HubDisk

Fault(e) == e.faults < MaxPolicyFault
NoPull == [at |-> "idle", read |-> None, of |-> Embedded]
NoCache == [held |-> FALSE, stamp |-> <<None, None>>, of |-> Embedded]
NoAgent == [at |-> "down", armed |-> FALSE, seen |-> 0, got |-> Embedded,
            rules |-> Embedded, stamp |-> <<None, None>>, cached |-> FALSE,
            ticked |-> FALSE, edit |-> FALSE]

(***************************************************************************)
(* PUT /policy                                                              *)
(***************************************************************************)

PublishChecks(p) ==
    /\ po.up /\ po.publ[p] = "new"
    /\ po' = [po EXCEPT !.publ[p] =
                 IF Generation[p] >= po.floor THEN "checked" ELSE "refused"]

\* write_atomic, first half: both faces use the name policy.tmp.
WriteTemp(p) ==
    /\ po.up
    /\ \/ /\ po.publ[p] = "checked"
          /\ po' = [po EXCEPT !.tmp = [of |-> p, face |-> "toml"],
                              !.publ[p] = "tomltmp"]
       \/ /\ po.publ[p] = "toml"
          /\ po' = [po EXCEPT !.tmp = [of |-> p, face |-> "sig"],
                              !.publ[p] = "sigtmp"]

\* write_atomic, second half: the rename fails when the file is gone.
RenameTemp(p) ==
    /\ po.up /\ po.publ[p] \in {"tomltmp", "sigtmp"}
    /\ po' = IF po.tmp = None
             THEN [po EXCEPT !.publ[p] = "failed"]
             ELSE IF po.publ[p] = "tomltmp"
             THEN [po EXCEPT !.toml = po.tmp, !.tmp = None, !.publ[p] = "toml"]
             ELSE [po EXCEPT !.sig = po.tmp, !.tmp = None, !.publ[p] = "sig"]

\* The floor is stored, not raised.
PublishStores(p) ==
    /\ po.up /\ po.publ[p] = "sig"
    /\ po' = [po EXCEPT !.floor = Generation[p], !.publ[p] = "done"]

(***************************************************************************)
(* serve_cached.  The operator's queries and the proposal funnel call it as *)
(* well; they leave the cache as a pull does.                               *)
(***************************************************************************)

\* The hub's answer to a conditional pull: a watermark above what is served
\* raises the floor; a newer policy is handed over.
Answer(x) ==
    IF po.agent.at # "pull" THEN [po EXCEPT !.pull = NoPull]
    ELSE IF po.agent.seen >= GenerationOf(x)
    THEN [po EXCEPT !.pull = NoPull, !.agent.at = "tick",
                    !.floor = IF po.agent.seen > GenerationOf(x) /\ po.agent.seen > @
                              THEN po.agent.seen ELSE @]
    ELSE [po EXCEPT !.pull = NoPull, !.agent.at = "got", !.agent.got = x]

PullHits ==
    /\ po.up /\ po.agent.at = "pull" /\ po.pull.at = "idle" /\ CacheHits
    /\ po' = Answer(po.cache.of)

PullMisses ==
    /\ po.up /\ po.agent.at = "pull" /\ po.pull.at = "idle" /\ ~CacheHits
    /\ po' = [po EXCEPT !.pull = [at |-> "miss", read |-> po.toml, of |-> Embedded]]

PullLoads ==
    /\ po.up /\ po.pull.at = "miss"
    /\ po' = [po EXCEPT !.pull.at = "loaded",
                        !.pull.of = Load(po.pull.read, po.sig)]

\* The cache entry carries the fingerprint of the files as they are now.
PullAnswers ==
    /\ po.up /\ po.pull.at = "loaded"
    /\ po' = [Answer(po.pull.of) EXCEPT
                 !.cache = [held |-> TRUE, stamp |-> HubStamp, of |-> po.pull.of]]

(***************************************************************************)
(* The hub process and its own watcher                                      *)
(***************************************************************************)

\* A watermark of 0 is one that is not armed yet.
HubWatcherArms ==
    /\ po.up /\ po.acl.seen = 0
    /\ po' = [po EXCEPT !.acl.seen = GenerationOf(HubDisk)]

HubWatcherReloads ==
    /\ po.up /\ po.acl.seen # 0 /\ po.acl.stamp # HubStamp
    /\ po' = [po EXCEPT !.acl =
                 IF Verifies(po.toml, po.sig) /\ NotRollback(HubDisk, @.seen)
                 THEN [seen |-> GenerationOf(HubDisk), stamp |-> HubStamp,
                       rules |-> HubDisk]
                 ELSE [@ EXCEPT !.stamp = HubStamp]]

HubCrashes ==
    /\ po.up /\ Fault(po)
    /\ po' = [po EXCEPT !.up = FALSE, !.faults = @ + 1, !.cache = NoCache,
                        !.publ = [p \in Publication |->
                            IF @[p] = "sig" THEN "cut"
                            ELSE IF @[p] \in {"checked", "tomltmp", "toml", "sigtmp"}
                            THEN "failed" ELSE @[p]],
                        !.pull = NoPull,
                        !.agent.at = IF @ = "pull" THEN "tick" ELSE @]

\* policy_acl: the admission table a hub starts with.
SeededAcl == [seen |-> 0, stamp |-> HubStamp, rules |-> HubDisk]

\* The floor and the admission table are seeded from the pack.
HubStarts ==
    /\ ~po.up
    /\ po' = [po EXCEPT !.up = TRUE, !.floor = GenerationOf(HubDisk),
                        !.acl = SeededAcl]

(***************************************************************************)
(* The agent's watcher                                                      *)
(***************************************************************************)

\* The table an agent starts with.
StartupRules == IF po.expose THEN Embedded ELSE AgentDisk

\* The startup rules of a mesh agent come from the effective policy, and a
\* policy it cannot derive keeps it from starting; an expose agent starts
\* with the table rendered into its pack.
AgentStarts(armed) ==
    /\ po.agent.at = "down"
    /\ ~po.expose => Derives(AgentDisk)
    /\ ~armed => Fault(po)
    /\ po' = [po EXCEPT !.agent =
                 [at |-> "tick", armed |-> armed,
                  seen |-> IF armed THEN GenerationOf(AgentDisk) ELSE 0,
                  got |-> Embedded, rules |-> StartupRules,
                  stamp |-> AgentStamp, cached |-> FALSE,
                  ticked |-> FALSE, edit |-> FALSE],
                        !.faults = IF armed THEN @ ELSE @ + 1]

\* A later tick arms the watcher; only here does the expose face apply the
\* effective policy.
AgentArms ==
    /\ po.agent.at = "tick" /\ ~po.agent.armed
    /\ po' = [po EXCEPT !.agent =
                 IF po.expose /\ Derives(AgentDisk)
                 THEN [@ EXCEPT !.armed = TRUE, !.seen = GenerationOf(AgentDisk),
                                !.rules = AgentDisk, !.cached = TRUE,
                                !.edit = FALSE, !.ticked = TRUE]
                 ELSE [@ EXCEPT !.armed = TRUE, !.seen = GenerationOf(AgentDisk),
                                !.ticked = TRUE]]

\* try_reload: the watermark moves only when rules were derived and applied.
Reload(a, t, s) ==
    IF Verifies(t, s) /\ NotRollback(t.of, a.seen) /\ Derives(t.of)
    THEN [a EXCEPT !.seen = Generation[t.of], !.rules = t.of,
                   !.cached = po.expose, !.edit = FALSE]
    ELSE a

\* The node-local channel first, then a pull.
AgentTicks ==
    /\ po.agent.at = "tick" /\ po.agent.armed /\ po.pull.at = "idle"
    /\ LET a == IF po.agent.stamp = AgentStamp THEN po.agent
                ELSE Reload(po.agent, po.atoml, po.asig)
       IN  po' = [po EXCEPT !.agent = [a EXCEPT !.at = "pull", !.ticked = TRUE,
                                                !.stamp = AgentStamp]]

PullFails ==
    /\ po.agent.at = "pull"
    /\ po.up => Fault(po)
    /\ po' = [po EXCEPT !.agent.at = "tick",
                        !.faults = IF po.up THEN @ + 1 ELSE @]

\* The update is persisted before it is applied, one file after the other.
PersistPolicy ==
    /\ po.agent.at = "got"
    /\ po' = [po EXCEPT !.atoml = [of |-> po.agent.got, face |-> "toml"],
                        !.agent.at = "half"]

\* Mutant: the pair is applied and the watermark is left where it was.
PersistSignatureForgets ==
    /\ po.agent.at = "half"
    /\ LET s == [of |-> po.agent.got, face |-> "sig"]
       IN  po' = [po EXCEPT !.asig = s,
                            !.agent = [Reload(@, po.atoml, s) EXCEPT
                                          !.at = "tick", !.got = Embedded, !.seen = po.agent.seen,
                                          !.stamp = <<po.atoml, s>>]]

PersistSignature ==
    /\ po.agent.at = "half"
    /\ LET s == [of |-> po.agent.got, face |-> "sig"]
       IN  po' = [po EXCEPT !.asig = s,
                            !.agent = [Reload(@, po.atoml, s) EXCEPT
                                          !.at = "tick", !.got = Embedded,
                                          !.stamp = <<po.atoml, s>>]]

PersistFails ==
    /\ po.agent.at \in {"got", "half"} /\ Fault(po)
    /\ po' = [po EXCEPT !.agent.at = "tick", !.agent.got = Embedded, !.faults = @ + 1]

AgentCrashes ==
    /\ po.agent.at # "down" /\ Fault(po)
    /\ po' = [po EXCEPT !.agent = NoAgent, !.faults = @ + 1]

\* The operator copies a pair into the agent's directory.
OperatorCopies(p) ==
    /\ po.copying = Embedded /\ po.drops < MaxDrop
    /\ po' = [po EXCEPT !.copying = p, !.drops = @ + 1,
                        !.atoml = [of |-> p, face |-> "toml"]]

OperatorCopiesSignature ==
    /\ po.copying # Embedded
    /\ po' = [po EXCEPT !.copying = Embedded,
                        !.asig = [of |-> po.copying, face |-> "sig"]]

\* A machine-local address changes; the table is derived again from the
\* policy the watcher has applied, if it has applied one.
AddressEdited ==
    /\ po.expose /\ po.agent.at = "tick"
    /\ po' = [po EXCEPT !.agent.edit = ~po.agent.cached]

(***************************************************************************)
(* The specification                                                        *)
(***************************************************************************)

PolicyStart(expose) ==
    [up |-> TRUE, toml |-> None, sig |-> None, tmp |-> None, floor |-> 1,
     cache |-> NoCache,
     publ |-> [p \in Publication |-> "new"],
     pull |-> NoPull,
     acl |-> [seen |-> 0, stamp |-> <<None, None>>, rules |-> Embedded],
     expose |-> expose,
     agent |-> NoAgent,
     atoml |-> None, asig |-> None, copying |-> Embedded, drops |-> 0, faults |-> 0]

PolicyInit == \E expose \in BOOLEAN : po = PolicyStart(expose)

PolicyNext ==
    \/ \E p \in Publication : \/ PublishChecks(p) \/ WriteTemp(p) \/ RenameTemp(p)
                              \/ PublishStores(p) \/ OperatorCopies(p)
    \/ PullHits \/ PullMisses \/ PullLoads \/ PullAnswers
    \/ HubWatcherArms \/ HubWatcherReloads \/ HubCrashes \/ HubStarts
    \/ \E armed \in BOOLEAN : AgentStarts(armed)
    \/ AgentArms \/ AgentTicks \/ PullFails \/ PersistPolicy \/ PersistSignature
    \/ PersistFails \/ AgentCrashes \/ OperatorCopiesSignature \/ AddressEdited

\* Handlers and watchers run to completion, supervisors restart processes,
\* and the watchers' timers fire for ever.
PolicyFairness ==
    /\ WF_po(\E p \in Publication : WriteTemp(p) \/ RenameTemp(p) \/ PublishStores(p))
    /\ WF_po(PullHits) /\ WF_po(PullMisses) /\ WF_po(PullLoads) /\ WF_po(PullAnswers)
    /\ WF_po(HubWatcherArms) /\ WF_po(HubWatcherReloads)
    /\ WF_po(HubStarts) /\ WF_po(AgentStarts(TRUE))
    /\ WF_po(AgentArms) /\ SF_po(AgentTicks)
    /\ WF_po(PersistPolicy) /\ WF_po(PersistSignature) /\ WF_po(OperatorCopiesSignature)

PolicySpec == PolicyInit /\ [][PolicyNext]_po /\ PolicyFairness

(***************************************************************************)
(* Properties                                                               *)
(***************************************************************************)

\* Every field has its type.
PolicyTypeOK == po \in PolicyState

\* While an agent runs, its watermark never falls, and whatever replaces its
\* rules is the policy of the new watermark, whatever the two channels and the
\* operator's copies bring (policy_watch.rs: seen advances only on a successful
\* apply).  So rules that were not newer than the watermark when it was armed
\* never go back to an older policy.
AgentMovesForward ==
    [][po.agent.armed /\ po'.agent.armed /\ "down" \notin {po.agent.at, po'.agent.at}
       => /\ po'.agent.seen >= po.agent.seen
          /\ po'.agent.rules # po.agent.rules
                => GenerationOf(po'.agent.rules) = po'.agent.seen]_po

\* Neither the hub's admission table nor an agent's rules come from a
\* publication of which the signature was never written, however publishers,
\* readers and crashes interleave with the two renames.
NothingHalfWritten ==
    \A p \in Publication :
        po.publ[p] \in {"new", "checked", "refused", "tomltmp", "toml"} /\ po.drops = 0
        => po.acl.rules # p /\ po.agent.rules # p /\ po.cache.of # p

\* A policy the agent is told about and can derive is applied: in the long run
\* its watermark is not below what the hub serves.
ServedIsApplied ==
    <>[](po.up /\ po.agent.at # "down") =>
        []<>(\/ po.agent.seen >= GenerationOf(HubServes)
             \/ ~Derives(HubServes))

\* The hub's admission table follows the published pair: in the long run it is
\* not older than a pair that verifies.
AdmissionFollows ==
    <>[](po.up) => []<>(Verifies(po.toml, po.sig) => po.acl.rules = HubDisk
                                                 \/ po.acl.seen > GenerationOf(HubDisk))

\* A policy is read whole or not at all, and a running agent applies none that
\* is older than its watermark.
PolicySound == []NothingHalfWritten /\ AgentMovesForward
=============================================================================
