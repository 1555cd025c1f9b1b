----------------------------- MODULE IngressRules -----------------------------
(***************************************************************************)
(* The rule store of an agent and the reconciler that drives its listeners *)
(* (mesh/src/agent/{rules,ingress,ingress_addrs,ingress_listeners}.rs).    *)
(* A rule is an address and a parameter; an address stands for a socket    *)
(* address with its protocol, the listener's identity.                     *)
(***************************************************************************)
EXTENDS Naturals, FiniteSets

CONSTANTS Name,       \* rule names
          Addr,       \* concrete listen addresses
          AnyPort,    \* a listen address with port 0
          Nothing,    \* no rule, no address
          MaxChange   \* changes of the store

ASSUME IngressAssumption ==
  AnyPort \notin Addr /\ Nothing \notin Addr \cup {AnyPort} /\ MaxChange \in Nat

VARIABLE ig

Rule == [addr : Addr \cup {AnyPort}, par : {1, 2}]

RuleTable == [Name -> Rule \cup {Nothing}]

IngressState ==
  [store   : RuleTable,                      \* RuleStore, the desired state
   changes : 0..MaxChange,
   up      : BOOLEAN,                    \* a session's handler runs
   pass    : BOOLEAN,                    \* a reconcile is under way
   want    : RuleTable,                      \* the snapshot it works from
   todo    : SUBSET Name,                \* rules it has not looked at yet
   bound   : RuleTable,                      \* the serving cells
   sock    : [Name -> Addr \cup {Nothing}],    \* the sockets of our listeners
   pin     : [Name -> Addr \cup {Nothing}],    \* IngressAddrs
   face    : [Name -> {"none", "bound", "failed"}],  \* IngressListeners
   alien   : SUBSET Addr,                \* addresses other processes hold
   first   : BOOLEAN,                    \* the first pass of a session
   ready   : BOOLEAN]                    \* ingress_ready

Empty == [n \in Name |-> Nothing]

IngressStart(s) ==
  [store |-> s, changes |-> 0, up |-> FALSE, pass |-> FALSE,
   want |-> Empty, todo |-> {}, bound |-> Empty, sock |-> Empty, pin |-> Empty,
   face |-> [n \in Name |-> "none"], alien |-> {}, first |-> FALSE, ready |-> FALSE]

\* The parameters the agent starts with are called 1.
FirstRules == {t \in RuleTable : \A n \in Name : t[n] # Nothing => t[n].par = 1}

IngressInit == \E s \in FirstRules : ig = IngressStart(s)

\* A verified policy replaces the rules under one lock and bumps the version.
ReplaceIngress(s) ==
  /\ ig.changes < MaxChange /\ s # ig.store
  /\ ig' = [ig EXCEPT !.store = s, !.changes = @ + 1]

\* The snapshot a reconcile starts from.
Snapshot(i) == [i EXCEPT !.pass = TRUE, !.want = i.store, !.todo = Name]

\* A new session: nothing is bound, the first reconcile runs at once.
SessionStarts ==
  /\ ~ig.up
  /\ ig' = Snapshot([ig EXCEPT !.up = TRUE, !.first = TRUE])

\* The handler is dropped: its guard aborts the listeners.  The pinned
\* addresses and the listener face outlive it.
SessionLost ==
  /\ ig.up
  /\ ig' = [ig EXCEPT !.up = FALSE, !.pass = FALSE, !.want = Empty, !.todo = {},
                      !.bound = Empty, !.sock = Empty, !.first = FALSE]

\* Idle in its select, the handler hears of a change, or of the tick that may
\* come whether or not there is one.
Wake ==
  /\ ig.up /\ ~ig.pass
  /\ ig' = Snapshot(ig)

\* A control request adds or replaces a rule; the store takes it and the
\* handler reconciles before it answers.
HandleAdd(n, r) ==
  /\ ig.up /\ ~ig.pass /\ ig.changes < MaxChange
  /\ ig' = Snapshot([ig EXCEPT !.store[n] = r, !.changes = @ + 1])

HandleRemove(n) ==
  /\ ig.up /\ ~ig.pass /\ ig.changes < MaxChange /\ ig.store[n] # Nothing
  /\ ig' = Snapshot([ig EXCEPT !.store[n] = Nothing, !.changes = @ + 1])

\* Listeners whose rule is gone are stopped and reaped, before any bind.
Gone(n) == n \in ig.todo /\ ig.want[n] = Nothing

StopGone(n) ==
  /\ ig.pass /\ Gone(n)
  /\ ig' = [ig EXCEPT !.todo = @ \ {n}, !.sock[n] = Nothing, !.bound[n] = Nothing,
                      !.pin[n] = IF ig.bound[n] # Nothing THEN Nothing ELSE @,
                      !.face[n] = IF ig.bound[n] # Nothing THEN "none" ELSE @]

\* A rule's turn comes when the removals are done.
Turn(n) == ig.pass /\ n \in ig.todo /\ ig.want[n] # Nothing /\ \A m \in Name : ~Gone(m)

classify(cur, des) ==
  IF cur = des THEN "NoChange"
  ELSE IF cur.addr = des.addr THEN "UpdateParams" ELSE "Replace"

Keep(n) ==
  /\ Turn(n) /\ ig.bound[n] # Nothing /\ classify(ig.bound[n], ig.want[n]) = "NoChange"
  /\ ig' = [ig EXCEPT !.todo = @ \ {n}]

\* The serving cell is swapped in place.
UpdateParams(n) ==
  /\ Turn(n) /\ ig.bound[n] # Nothing /\ classify(ig.bound[n], ig.want[n]) = "UpdateParams"
  /\ ig' = [ig EXCEPT !.todo = @ \ {n}, !.bound[n] = ig.want[n], !.face[n] = "bound"]

NeedsBind(n) ==
  Turn(n) /\ (ig.bound[n] # Nothing => classify(ig.bound[n], ig.want[n]) = "Replace")

Free(a) == a \notin ig.alien /\ \A n \in Name : ig.sock[n] # a

\* bind_target and the fallback of a pinned address that is taken.
BindTargets(n) ==
  LET conf == ig.want[n].addr IN
  IF conf # AnyPort THEN {a \in {conf} : Free(a)}
  ELSE IF ig.pin[n] # Nothing /\ Free(ig.pin[n]) THEN {ig.pin[n]}
  ELSE {a \in Addr : Free(a)}

\* The new listener is bound, then the old one stops.
BindOk(n) ==
  /\ NeedsBind(n)
  /\ \E a \in BindTargets(n) :
       ig' = [ig EXCEPT !.todo = @ \ {n}, !.sock[n] = a, !.pin[n] = a,
                        !.bound[n] = ig.want[n], !.face[n] = "bound"]

\* Mutant: the old listener stops before the new one is bound.
BindFailsAfterStop(n) ==
  /\ NeedsBind(n) /\ BindTargets(n) = {}
  /\ ig' = [ig EXCEPT !.todo = @ \ {n}, !.sock[n] = Nothing, !.bound[n] = Nothing,
                      !.face[n] = "failed"]

\* A failed bind leaves the previous listener as it is.
BindFails(n) ==
  /\ NeedsBind(n) /\ BindTargets(n) = {}
  /\ ig' = [ig EXCEPT !.todo = @ \ {n}, !.face[n] = "failed"]

\* The end of a pass.  Readiness is decided by the first of a session.
PassEnds ==
  /\ ig.pass /\ ig.todo = {}
  /\ ig' = [ig EXCEPT !.pass = FALSE, !.want = Empty, !.first = FALSE,
                      !.ready = @ \/ (ig.first /\ ig.bound = ig.want)]

\* Other processes take and leave addresses.
AlienMoves(a) ==
  /\ Free(a) \/ a \in ig.alien
  /\ ig' = [ig EXCEPT !.alien = IF a \in @ THEN @ \ {a} ELSE @ \cup {a}]

ReconcileStep ==
  PassEnds \/ \E n \in Name : StopGone(n) \/ Keep(n) \/ UpdateParams(n) \/ BindOk(n) \/ BindFails(n)

IngressNext ==
  \/ \E s \in RuleTable : ReplaceIngress(s)
  \/ \E n \in Name, r \in Rule : HandleAdd(n, r)
  \/ \E n \in Name : HandleRemove(n)
  \/ SessionStarts \/ SessionLost \/ Wake \/ ReconcileStep
  \/ \E a \in Addr : AlienMoves(a)

\* The supervisor reconnects, the tick comes every 15 s, a pass runs through.
IngressFairness == WF_ig(SessionStarts) /\ WF_ig(Wake) /\ WF_ig(ReconcileStep)

IngressSpec == IngressInit /\ [][IngressNext]_ig /\ IngressFairness

\* The rule store, the listeners and the sessions have their types.
IngressTypeOK == ig \in IngressState

\* Cells and sockets go together: a cell is served by a socket of its identity,
\* and no two listeners share a socket, across stops, replacements and failed
\* binds.  A cell without a socket would make the reconciler see no change.
ServedByItsSocket ==
  /\ \A n \in Name : (ig.bound[n] = Nothing) = (ig.sock[n] = Nothing)
  /\ \A n \in Name : ig.bound[n] # Nothing => ig.bound[n].addr \in {ig.sock[n], AnyPort}
  /\ \A m, n \in Name : m # n /\ ig.sock[m] # Nothing => ig.sock[m] # ig.sock[n]

\* Within a session a rule that has a listener and stays in the store keeps a
\* listener: a replacement never trades a working listener for a hole.
NoHole ==
  [][\A n \in Name : ig.sock[n] # Nothing /\ ig.want[n] # Nothing /\ ig'.up
                       => ig'.sock[n] # Nothing]_ig

Served(n) == ig.bound[n] = ig.store[n]

\* What keeps a rule from its address: another process, or another rule's
\* listener.
Taken(n) ==
  /\ ig.store[n] # Nothing
  /\ IF ig.store[n].addr = AnyPort THEN \A a \in Addr : ~Free(a) ELSE ~Free(ig.store[n].addr)

\* Level-triggered convergence: a change that no session saw, a failed bind
\* and a rule added between sessions are all made good, unless the address
\* is taken.
ServedUnlessTaken == \A n \in Name : []<>(Served(n) \/ Taken(n) \/ ~ig.up)

\* The sockets follow the rules: each listener has a socket of its own that
\* is its rule's, and a rule that stays in the store keeps a listener.
RulesServed == []ServedByItsSocket /\ NoHole
=============================================================================
