----------------------------- MODULE Proposals -----------------------------
(***************************************************************************)
(* The queue of stream proposals: agents submit, the operator decides, the  *)
(* records live until their TTL.  A submission reads the table for a        *)
(* duplicate, runs the funnel against the serving policy without the lock,  *)
(* and takes the lock again to check the caps and insert.  Every change is  *)
(* mirrored to a file, best effort; a restart reads the file and moves a    *)
(* corrupt one aside.                                                       *)
(***************************************************************************)
EXTENDS Integers, FiniteSets

CONSTANTS
    ProposalId,     \* identifiers, drawn at random and never twice
    Requester,
    Stream,         \* the rules they ask for; with its requester, a fingerprint
    Submission,     \* submissions under way
    MaxPendingOwn, MaxPendingTotal, Ttl,
    Horizon,        \* the clock stops here
    MaxLoss         \* failed writes, restarts and corruptions together

ASSUME ProposalAssumption ==
    {MaxPendingOwn, MaxPendingTotal, Ttl, Horizon, MaxLoss} \subseteq Nat

VARIABLE pq

Status == {"pending", "approved1", "approved2", "rejected"}
NoRecord == [by |-> "nobody"]
Record == [by : Requester, stream : Stream, expires : Nat, status : Status]
ProposalTable == [ProposalId -> Record \cup {NoRecord}]
NoSubmission == [at |-> "idle"]

ProposalState ==
    [up    : BOOLEAN,
     face  : BOOLEAN,           \* off when a corrupt file could not be moved
     map   : ProposalTable,             \* the table in memory
     file  : ProposalTable,
     bad   : BOOLEAN,           \* the file does not parse
     stale : BOOLEAN,           \* a write failed and none succeeded since
     work  : [Submission -> {NoSubmission} \cup
                 [at : {"funnel", "caps"}, by : Requester, stream : Stream, now : Nat]],
     live  : SUBSET (Requester \X Stream),      \* streams of the serving policy
     now   : Nat, used : SUBSET ProposalId, losses : Nat]

Empty == [i \in ProposalId |-> NoRecord]
Held(map) == {i \in ProposalId : map[i] # NoRecord}
Live(map, now) == {i \in Held(map) : map[i].expires > now}
Pending(map) == {i \in Held(map) : map[i].status = "pending"}
PendingOf(map, r) == {i \in Pending(map) : map[i].by = r}

(***************************************************************************)
(* Changing the table.  Each handler sweeps first, with one reading of the  *)
(* clock; the mirror may fail.                                              *)
(***************************************************************************)

sweep_expired(map, now) ==
    [i \in ProposalId |-> IF i \in Live(map, now) THEN map[i] ELSE NoRecord]

\* The outcomes of a change: mirrored, or the write failed, was logged and
\* given up.
persist(m) ==
    {[pq EXCEPT !.map = m, !.file = m, !.stale = FALSE]} \cup
    {[pq EXCEPT !.map = m, !.stale = TRUE, !.losses = @ + 1] : l \in pq.losses .. MaxLoss - 1}

\* A sweep that removes nothing writes nothing.
Swept == IF sweep_expired(pq.map, pq.now) = pq.map THEN {pq}
         ELSE persist(sweep_expired(pq.map, pq.now))

Serves == pq.up /\ pq.face

\* The lists, the receipts and the heartbeat tick all sweep.
Sweep == Serves /\ pq' \in Swept

(***************************************************************************)
(* POST /proposals                                                          *)
(***************************************************************************)

\* A live record of the same fingerprint answers; otherwise the funnel.
SubmitLooks(w, r, s) ==
    /\ Serves /\ pq.work[w] = NoSubmission
    /\ \E q \in Swept :
          /\ \A i \in Held(q.map) : ~(q.map[i].by = r /\ q.map[i].stream = s)
          /\ pq' = [q EXCEPT !.work[w] = [at |-> "funnel", by |-> r, stream |-> s,
                                          now |-> pq.now]]

\* The serving policy must not have the stream yet.
SubmitFunnels(w) ==
    /\ pq.up /\ pq.work[w] # NoSubmission /\ pq.work[w].at = "funnel"
    /\ pq' = [pq EXCEPT !.work[w] =
                 IF <<pq.work[w].by, pq.work[w].stream>> \in pq.live
                 THEN NoSubmission ELSE [@ EXCEPT !.at = "caps"]]

Admits(map, r) ==
    /\ Cardinality(Pending(map)) < MaxPendingTotal
    /\ Cardinality(PendingOf(map, r)) < MaxPendingOwn

\* Caps and insertion are one critical section.
SubmitQueues(w) ==
    /\ pq.up /\ pq.work[w] # NoSubmission /\ pq.work[w].at = "caps"
    /\ LET x == pq.work[w] IN
       IF ~Admits(pq.map, x.by)
       THEN pq' = [pq EXCEPT !.work[w] = NoSubmission]
       ELSE \E i \in ProposalId \ pq.used :
             \E q \in persist([pq.map EXCEPT ![i] =
                                 [by |-> x.by, stream |-> x.stream,
                                  expires |-> x.now + Ttl, status |-> "pending"]]) :
                pq' = [q EXCEPT !.used = @ \cup {i}, !.work[w] = NoSubmission]

(***************************************************************************)
(* The operator's decisions                                                 *)
(***************************************************************************)

\* Mutant: a later decision replaces an earlier one.
DecidesAgain(i, s) ==
    /\ Serves /\ pq.map[i] # NoRecord
    /\ pq' \in persist([pq.map EXCEPT ![i].status = s])

\* approve and reject: only a pending record is decided; the same decision
\* again is answered with success and changes nothing.
Decides(i, s) ==
    /\ Serves /\ pq.map[i] # NoRecord /\ pq.map[i].status = "pending"
    /\ pq' \in persist([pq.map EXCEPT ![i].status = s])

\* The approved stream was minted into a policy the hub now serves.
PolicyGains(i) ==
    /\ pq.map[i] # NoRecord /\ pq.map[i].status \in {"approved1", "approved2"}
    /\ pq' = [pq EXCEPT !.live = @ \cup {<<pq.map[i].by, pq.map[i].stream>>}]

(***************************************************************************)
(* Time, restarts, corruption                                               *)
(***************************************************************************)

ProposalTick == pq.now < Horizon /\ pq' = [pq EXCEPT !.now = @ + 1]

QueueStops ==
    /\ pq.up /\ pq.losses < MaxLoss
    /\ \E bad \in BOOLEAN :
          pq' = [pq EXCEPT !.up = FALSE, !.losses = @ + 1, !.bad = bad,
                           !.work = [w \in Submission |-> NoSubmission],
                           !.file = IF bad THEN Empty ELSE @,
                           !.map = Empty]

\* A corrupt file is moved aside and the queue starts empty; if it cannot be
\* moved, the face stays down and the file stays as it is.
QueueStarts ==
    /\ ~pq.up
    /\ \E moved \in BOOLEAN :
          /\ ~moved => pq.bad
          /\ pq' = [pq EXCEPT !.up = TRUE, !.face = moved, !.map = pq.file,
                              !.bad = ~moved, !.stale = FALSE]

ProposalStart ==
    [up |-> TRUE, face |-> TRUE, map |-> Empty, file |-> Empty, bad |-> FALSE,
     stale |-> FALSE, work |-> [w \in Submission |-> NoSubmission], live |-> {},
     now |-> 0, used |-> {}, losses |-> 0]

ProposalInit == pq = ProposalStart

ProposalNext ==
    \/ Sweep \/ ProposalTick \/ QueueStops \/ QueueStarts
    \/ \E w \in Submission :
          \/ SubmitFunnels(w) \/ SubmitQueues(w)
          \/ \E r \in Requester, s \in Stream : SubmitLooks(w, r, s)
    \/ \E i \in ProposalId : \/ PolicyGains(i)
                             \/ \E s \in Status \ {"pending"} : Decides(i, s)

\* The clock runs and the heartbeat sweeps; a supervisor restarts the hub.
ProposalFairness ==
    WF_pq(ProposalTick) /\ WF_pq(Sweep) /\ WF_pq(QueueStarts)

ProposalSpec == ProposalInit /\ [][ProposalNext]_pq /\ ProposalFairness

(***************************************************************************)
(* Properties                                                               *)
(***************************************************************************)

\* Every field has its type.
ProposalTypeOK == pq \in ProposalState

\* A decision is final: while its record lives, neither a second operator nor
\* a retry changes it (approve, reject).
DecisionIsFinal ==
    [][\A i \in ProposalId :
          /\ pq.up /\ pq'.up
          /\ pq.map[i] # NoRecord /\ pq'.map[i] # NoRecord
          /\ pq.map[i].status # "pending"
          => pq'.map[i] = pq.map[i]]_pq

\* Submissions that pass their checks together still do not exceed the caps.
QueueCapped ==
    /\ Cardinality(Pending(pq.map)) <= MaxPendingTotal
    /\ \A r \in Requester : Cardinality(PendingOf(pq.map, r)) <= MaxPendingOwn

\* The file is what the table is unless a write failed: what the operator and
\* the requesters were told survives a restart.
MirrorHolds == pq.up /\ pq.face /\ ~pq.stale => pq.file = pq.map

\* A record does not stay for ever, decided or not: when the clock is past its
\* expiry the tick removes it, unless the face is down.
RecordsExpire ==
    \A i \in ProposalId :
        (pq.map[i] # NoRecord) ~> \/ pq.map[i] = NoRecord
                                  \/ pq.map[i].expires > Horizon

\* The queue of proposals stays under its caps, what was decided stays
\* decided, and the mirror on the disk follows.
QueueSound == DecisionIsFinal /\ []QueueCapped /\ []MirrorHolds
=============================================================================
