------------------------------ MODULE Renewal ------------------------------
(***************************************************************************)
(* The renewal of short-lived credentials between a node and the registrar. *)
(* A node whose leaf is half spent asks for a new one, stores it, switches  *)
(* its pointer to it and confirms; the registrar holds the rotation pending *)
(* until then and revokes the old serial afterwards.  Requests and answers  *)
(* are lost, the node and the registrar stop between any two steps.         *)
(*                                                                          *)
(* A leaf of a principal is the number of its issue; 0 is the one in the    *)
(* signed pack.  A leaf is fresh until half its life is over, then due,     *)
(* then expired.  A pending rotation lapses before a leaf can become due.   *)
(***************************************************************************)
EXTENDS Integers, Sequences, FiniteSets

CONSTANTS
    Node,
    Stems,          \* the principals of each node, in the order they renew
    Control,        \* those another principal of the node vouches for
    MaxIssue,       \* leaves issued to a principal
    MaxAnswerLoss,        \* lost messages and crashes together
    MaxRevoke       \* revocations by the operator

Of(n) == {Stems[n][i] : i \in DOMAIN Stems[n]}
Principal == UNION {Of(n) : n \in Node}

ASSUME RenewalAssumption ==
    /\ \A n \in Node : Stems[n] \in Seq(Principal) \ {<< >>}
    /\ \A m, n \in Node : m # n => Of(m) \cap Of(n) = {}
    /\ Control \subseteq Principal
    /\ {MaxIssue, MaxAnswerLoss, MaxRevoke} \subseteq Nat

VARIABLE rn

Unknown == -1                          \* a serial the registrar never recorded
NoPending == [new |-> Unknown, old |-> Unknown, lapsed |-> FALSE]
DenyList == [number : Nat, serials : SUBSET (Principal \X Nat)]
NoList == [number |-> 0, serials |-> {}]
NoConfirm == [at |-> "idle", stem |-> Unknown, old |-> Unknown, list |-> NoList]

RenewalState ==
    [\* the registrar's files
     current : [Principal -> Nat \cup {Unknown}],
     pending : [Principal -> [new : Nat \cup {Unknown}, old : Nat \cup {Unknown},
                              lapsed : BOOLEAN]],
     list    : DenyList,
     \* its confirm handlers: the serial to revoke, and the list they loaded
     conf    : [Node -> [at : {"idle", "rotated", "loaded"}, stem : Principal \cup {Unknown},
                         old : Nat \cup {Unknown}, list : DenyList]],
     issued  : [Principal -> Nat],
     \* the nodes
     at      : [Node -> {"run", "ask", "got", "stored", "confirm", "wait", "exit", "dead"}],
     pos     : [Node -> Nat],           \* the stem being renewed
     got     : [Node -> Nat],           \* the leaf just issued
     active  : [Principal -> Nat],      \* the leaf the pointer selects
     disk    : [Principal -> SUBSET Nat],       \* leaves in complete sequences
     phase   : [Principal -> {"fresh", "due", "expired"}],
     boot    : [Principal -> BOOLEAN],  \* the leaf of the pack is still valid
     crl     : [Node -> DenyList],      \* the list a node carries
     losses  : Nat, revokes : Nat]

Stem(n) == Stems[n][rn.pos[n]]
NodeOf(p) == CHOOSE n \in Node : \E i \in DOMAIN Stems[n] : Stems[n][i] = p
Authorizer(n) == Stems[n][1]
Listed(p, k) == <<p, k>> \in rn.list.serials
CanLose == rn.losses < MaxAnswerLoss

(***************************************************************************)
(* The node: renew_all_at                                                   *)
(***************************************************************************)

\* A pass starts when some leaf of the node is due; every stem is renewed.
PassStarts(n) ==
    /\ rn.at[n] = "run"
    /\ \E p \in Of(n) : rn.phase[p] = "due"
    /\ rn' = [rn EXCEPT !.at[n] = "ask", !.pos[n] = 1]

\* What both requests require of the leaf presented.
PeerAccepted(p) == rn.phase[p] # "expired" /\ ~Listed(p, rn.active[p])

\* renew, renew_control: a pending rotation refuses until it lapses.
PendingBlocks(p) == rn.pending[p] # NoPending /\ ~rn.pending[p].lapsed

\* The serial must be the current one, when the registrar knows one.
IsCurrent(p) == rn.current[p] \in {Unknown, rn.active[p]}

renew(p) == PeerAccepted(p) /\ ~PendingBlocks(p) /\ IsCurrent(p)

\* The old serial is named in the request of the authorizer.
renew_control(a, p) == PeerAccepted(a) /\ ~PendingBlocks(p) /\ IsCurrent(p)

\* The principal whose leaf opens the connection: a member its own, a control
\* identity that of the principal that vouches for it.
Presents(n) == IF Stem(n) \in Control THEN Authorizer(n) ELSE Stem(n)

Accepts(n) == IF Stem(n) \in Control THEN renew_control(Presents(n), Stem(n))
              ELSE renew(Presents(n))

\* A refusal, or a request that is lost, fails the pass; it is tried again.
RenewRefused(n) ==
    /\ rn.at[n] = "ask"
    /\ Accepts(n) => CanLose
    /\ rn' = [rn EXCEPT !.at[n] = "run",
                        !.losses = IF Accepts(n) THEN @ + 1 ELSE @]

\* The answer may be lost after the rotation was recorded.
RenewIssued(n) ==
    /\ rn.at[n] = "ask" /\ Accepts(n) /\ rn.issued[Stem(n)] < MaxIssue
    /\ \E heard \in BOOLEAN :
          /\ ~heard => CanLose
          /\ LET p == Stem(n)
                 k == rn.issued[p] + 1
             IN  rn' = [rn EXCEPT
                    !.issued[p] = k,
                    !.pending[p] = [new |-> k, old |-> rn.active[p], lapsed |-> FALSE],
                    !.at[n] = IF heard THEN "got" ELSE "run",
                    !.got[n] = IF heard THEN k ELSE @,
                    !.losses = IF heard THEN @ ELSE @ + 1]

\* ActiveCredentialSet::renew: certificate and key go to a directory of their
\* own ...
SequencePersisted(n) ==
    /\ rn.at[n] = "got"
    /\ rn' = [rn EXCEPT !.disk[Stem(n)] = @ \cup {rn.got[n]}, !.at[n] = "stored"]

\* What is left after the removal of older directories.
prune_old_sequences(p, k) == {k} \cup (rn.disk[p] \cap {rn.active[p]})

\* ... and the pointer is replaced; older directories are removed.
PointerWritten(n) ==
    /\ rn.at[n] = "stored"
    /\ LET p == Stem(n)
       IN  rn' = [rn EXCEPT !.active[p] = rn.got[n], !.phase[p] = "fresh",
                            !.disk[p] = prune_old_sequences(p, rn.got[n]),
                            !.at[n] = "confirm", !.got[n] = 0]

\* The next stem, or the exit that lets the supervisor restart the process.
NextStem(n) == IF rn.pos[n] < Len(Stems[n])
               THEN [rn EXCEPT !.at[n] = "ask", !.pos[n] = @ + 1]
               ELSE [rn EXCEPT !.at[n] = "exit", !.pos[n] = 1]

(***************************************************************************)
(* The registrar: confirm, confirm_control                                  *)
(***************************************************************************)

\* A member confirms over the leaf it activated, which the rotation must name.
confirm(p) == /\ ~Listed(p, rn.active[p])
              /\ rn.pending[p] # NoPending /\ rn.pending[p].new = rn.active[p]

\* The new serial of a control identity is named by its authorizer.
confirm_control(a, p) == /\ ~Listed(a, rn.active[a])
                         /\ rn.pending[p] # NoPending /\ rn.pending[p].new = rn.active[p]

\* Rotation is recorded; the handler goes on to the deny list.
ConfirmRotates(n) ==
    /\ rn.at[n] = "confirm" /\ rn.conf[n].at = "idle"
    /\ LET p == Stem(n) IN
       /\ IF p \in Control THEN confirm_control(Presents(n), p) ELSE confirm(p)
       /\ rn' = [rn EXCEPT !.current[p] = rn.pending[p].new, !.pending[p] = NoPending,
                           !.conf[n] = [at |-> "rotated", stem |-> p,
                                        old |-> rn.pending[p].old, list |-> NoList],
                           !.at[n] = "wait"]

\* A confirmation that is lost or refused fails the pass.  Nothing repeats it:
\* the leaf is fresh.
ConfirmLost(n) ==
    /\ rn.at[n] = "confirm" /\ CanLose
    /\ rn' = [rn EXCEPT !.at[n] = "run", !.losses = @ + 1]

\* The list is loaded ...
ConfirmLoads(n) ==
    /\ rn.conf[n].at = "rotated"
    /\ rn' = [rn EXCEPT !.conf[n].at = "loaded", !.conf[n].list = rn.list]

\* RevocationList::record
WithSerial(list, x) == [number |-> list.number + 1, serials |-> list.serials \cup {x}]

\* ... extended, unless the serial is on it, and saved over what is there.
ConfirmSaves(n) ==
    /\ rn.conf[n].at = "loaded"
    /\ LET x == <<rn.conf[n].stem, rn.conf[n].old>>
           l == IF x \in rn.conf[n].list.serials THEN rn.list
                ELSE WithSerial(rn.conf[n].list, x)
           next == IF rn.at[n] = "wait" THEN NextStem(n) ELSE rn
       IN  rn' = [next EXCEPT !.list = l, !.conf[n] = NoConfirm]

\* The registrar stops: handlers are gone, files stay.
RegistrarStops ==
    /\ CanLose /\ \E n \in Node : rn.conf[n].at # "idle"
    /\ rn' = [rn EXCEPT !.losses = @ + 1,
                        !.conf = [n \in Node |-> NoConfirm],
                        !.at = [n \in Node |-> IF @[n] = "wait" THEN "run" ELSE @[n]]]

\* The operator's revocation of a leaf, in a process of its own.
OperatorRevokes(p) ==
    /\ rn.revokes < MaxRevoke /\ ~Listed(p, rn.active[p])
    /\ rn' = [rn EXCEPT !.list = WithSerial(@, <<p, rn.active[p]>>), !.revokes = @ + 1]

(***************************************************************************)
(* CRL refresh, restarts and time                                           *)
(***************************************************************************)

\* A list of another number replaces the one carried and restarts the node.
CrlRefreshed(n) ==
    /\ rn.at[n] = "run" /\ rn.crl[n].number # rn.list.number
    /\ rn' = [rn EXCEPT !.crl[n] = rn.list, !.at[n] = "exit"]

\* The lists could not be had for the staleness bound: the process ends.
CrlStale(n) ==
    /\ rn.at[n] = "run" /\ CanLose
    /\ rn' = [rn EXCEPT !.at[n] = "exit", !.losses = @ + 1]

NodeCrashes(n) ==
    /\ rn.at[n] \notin {"run", "exit", "dead"} /\ CanLose
    /\ rn' = [rn EXCEPT !.at[n] = "exit", !.got[n] = 0, !.losses = @ + 1]

\* The list in the pack names the leaf.
revoked_by_carried_crl(n, p, k) == <<p, k>> \in rn.crl[n].serials

\* Certificate and key are there, belong together and are not expired.
validate_credential(p) == rn.active[p] \in rn.disk[p] /\ rn.phase[p] # "expired"

\* Mutant: the node's own list is not read at a start.
load_activeUnread(n) == \A p \in Of(n) : validate_credential(p)

\* All stems load, or none does.
load_active(n) == \A p \in Of(n) : /\ validate_credential(p)
                                   /\ ~revoked_by_carried_crl(n, p, rn.active[p])

bootstrap_from(n) == \A p \in Of(n) : rn.boot[p] /\ ~revoked_by_carried_crl(n, p, 0)

\* load_or_bootstrap: the set as a whole, else the leaves of the pack as a
\* whole, else the node does not start.
NodeStarts(n) ==
    /\ rn.at[n] = "exit"
    /\ IF load_active(n)
       THEN rn' = [rn EXCEPT !.at[n] = "run"]
       ELSE IF bootstrap_from(n)
       THEN rn' = [rn EXCEPT !.at[n] = "run",
                 !.active = [p \in Principal |-> IF p \in Of(n) THEN 0 ELSE @[p]],
                 !.disk = [p \in Principal |-> IF p \in Of(n) THEN {0} ELSE @[p]],
                 !.phase = [p \in Principal |-> IF p \in Of(n) THEN "due" ELSE @[p]]]
       ELSE rn' = [rn EXCEPT !.at[n] = "dead"]

PendingLapses(p) ==
    /\ rn.pending[p] # NoPending /\ ~rn.pending[p].lapsed
    /\ rn' = [rn EXCEPT !.pending[p].lapsed = TRUE]

\* Half a life is longer than a pending rotation is kept.  When a renewed leaf
\* is due the one in the pack has expired.
LeafDue(p) ==
    /\ rn.phase[p] = "fresh" /\ rn.at[NodeOf(p)] = "run"
    /\ rn.pending[p] = NoPending \/ rn.pending[p].lapsed
    /\ rn' = [rn EXCEPT !.phase[p] = "due",
                        !.boot[p] = IF rn.active[p] = 0 THEN @ ELSE FALSE]

\* The scheduler ends the process when a leaf has expired.
LeafExpires(p) ==
    /\ rn.phase[p] = "due" /\ rn.at[NodeOf(p)] = "run"
    /\ rn' = [rn EXCEPT !.phase[p] = "expired", !.at[NodeOf(p)] = "exit",
                        !.boot[p] = FALSE]

(***************************************************************************)
(* The specification                                                        *)
(***************************************************************************)

RenewalStart ==
    [current |-> [p \in Principal |-> Unknown],
     pending |-> [p \in Principal |-> NoPending],
     list |-> [number |-> 1, serials |-> {}],
     conf |-> [n \in Node |-> NoConfirm],
     issued |-> [p \in Principal |-> 0],
     at |-> [n \in Node |-> "run"], pos |-> [n \in Node |-> 1], got |-> [n \in Node |-> 0],
     active |-> [p \in Principal |-> 0], disk |-> [p \in Principal |-> {0}],
     phase |-> [p \in Principal |-> "fresh"], boot |-> [p \in Principal |-> TRUE],
     crl |-> [n \in Node |-> [number |-> 1, serials |-> {}]],
     losses |-> 0, revokes |-> 0]

RenewalInit == rn = RenewalStart

RenewalNext ==
    \/ \E n \in Node :
          \/ PassStarts(n) \/ RenewRefused(n) \/ RenewIssued(n) \/ SequencePersisted(n)
          \/ PointerWritten(n) \/ ConfirmRotates(n) \/ ConfirmLost(n) \/ ConfirmLoads(n)
          \/ ConfirmSaves(n) \/ CrlRefreshed(n) \/ CrlStale(n) \/ NodeCrashes(n)
          \/ NodeStarts(n)
    \/ \E p \in Principal : \/ PendingLapses(p) \/ LeafDue(p) \/ LeafExpires(p)
                            \/ OperatorRevokes(p)
    \/ RegistrarStops

\* The scheduler and the supervisor run for ever, the registrar answers, and a
\* pending rotation lapses.  That a leaf gets old is not assumed.
RenewalFairness ==
    /\ \A n \in Node :
          /\ WF_rn(PassStarts(n)) /\ WF_rn(RenewIssued(n)) /\ WF_rn(SequencePersisted(n))
          /\ WF_rn(PointerWritten(n)) /\ WF_rn(ConfirmRotates(n)) /\ WF_rn(ConfirmLoads(n))
          /\ WF_rn(ConfirmSaves(n)) /\ WF_rn(CrlRefreshed(n)) /\ WF_rn(NodeStarts(n))
    /\ \A p \in Principal : WF_rn(PendingLapses(p))

RenewalSpec == RenewalInit /\ [][RenewalNext]_rn /\ RenewalFairness

(***************************************************************************)
(* Properties                                                               *)
(***************************************************************************)

\* Every field has its type.
RenewalTypeOK == rn \in RenewalState

\* Whatever stops where, the pointer selects a certificate whose key is on the
\* disk too (persist_as_sequence before write_pointer).
SwitchIsWhole == \A p \in Principal : rn.active[p] \in rn.disk[p]

\* The registrar never supersedes the leaf a node presents: a serial it revoked
\* by itself is one the node has moved away from.
ActiveNotSuperseded ==
    rn.revokes = 0 => \A p \in Principal : rn.active[p] # 0 => ~Listed(p, rn.active[p])

\* A node that restarts does not go back to a leaf its own list names.
RevokedIsShed ==
    [][\A n \in Node : rn.at[n] = "exit" /\ rn'.at[n] = "run" =>
          \A p \in Of(n) : <<p, rn'.active[p]>> \notin rn.crl[n].serials]_rn

\* An answer that was lost only delays: a due leaf the registrar still takes
\* for current is renewed, or the node stops, or the bound of issues is met.
LostAnswerHeals ==
    \A p \in Principal :
        (rn.phase[p] = "due" /\ IsCurrent(p))
            ~> (rn.phase[p] # "due" \/ rn.at[NodeOf(p)] = "dead"
                \/ \E q \in Of(NodeOf(p)) : rn.issued[q] = MaxIssue \/ ~IsCurrent(q)
                                            \/ Listed(q, rn.active[q]))

\* A node runs on a certificate that is whole on the disk, that the registrar
\* did not retire under it and that its own list does not name.
RenewalSound == []SwitchIsWhole /\ []ActiveNotSuperseded /\ RevokedIsShed
=============================================================================
