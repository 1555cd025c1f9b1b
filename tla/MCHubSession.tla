---------------------------- MODULE MCHubSession ----------------------------
(* Instances of HubSession for TLC. *)
EXTENDS HubSession, FiniteSets, TLC

\* Slots, Arcs and request numbers carry no meaning of their own.
Interchangeable ==
  Permutations(Sess) \cup Permutations(Poll) \cup Permutations(Up)
    \cup Permutations(Signal) \cup Permutations(H2Conn) \cup Permutations(QuicConn)

\* A behaviour with a QUIC connection has one h2 connection, one poll at a time
\* and two sessions; one without has all that the constants allow.
OnePlane ==
  \/ \A c \in QuicConn : reg[c] = "new"
  \/ /\ Cardinality({c \in H2Conn : reg[c] # "new"}) <= 1
     /\ Cardinality({p \in Poll : poll[p].pc # "idle"}) <= 1
     /\ Cardinality(DOMAIN sess) <= 2
=============================================================================
