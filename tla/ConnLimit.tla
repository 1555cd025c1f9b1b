------------------------------ MODULE ConnLimit ------------------------------
(***************************************************************************)
(* What a connection limit promises, whatever its counters and locks are:  *)
(* a connection is admitted in one step, under an address that no longer   *)
(* changes, while fewer than Total connections are in, and fewer than      *)
(* PerIp of its address; it may be refused for any reason; its place is    *)
(* returned once.  A cap of zero is no cap.                                *)
(***************************************************************************)
EXTENDS Naturals, FiniteSets

CONSTANTS Task, Ip, PerIp, Total

VARIABLES stage,    \* of every connection: "new", "in" or "out"
          addr      \* the address it is accounted under

limitVars == <<stage, addr>>

Inside == {c \in Task : stage[c] = "in"}
InsideFrom(i) == {c \in Inside : addr[c] = i}

LimitInit ==
  /\ stage = [c \in Task |-> "new"]
  /\ addr \in [Task -> Ip]

\* An address is learnt before the admission.
Learn(c) ==
  /\ stage[c] = "new"
  /\ \E i \in Ip : addr' = [addr EXCEPT ![c] = i]
  /\ UNCHANGED stage

Admit(c) ==
  /\ stage[c] = "new"
  /\ Total > 0 => Cardinality(Inside) < Total
  /\ PerIp > 0 => Cardinality(InsideFrom(addr[c])) < PerIp
  /\ stage' = [stage EXCEPT ![c] = "in"]
  /\ UNCHANGED addr

Refuse(c) ==
  /\ stage[c] = "new"
  /\ stage' = [stage EXCEPT ![c] = "out"]
  /\ UNCHANGED addr

Leave(c) ==
  /\ stage[c] = "in"
  /\ stage' = [stage EXCEPT ![c] = "out"]
  /\ UNCHANGED addr

LimitNext == \E c \in Task : Learn(c) \/ Admit(c) \/ Refuse(c) \/ Leave(c)

LimitSpec == LimitInit /\ [][LimitNext]_limitVars
=============================================================================
