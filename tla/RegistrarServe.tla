--------------------------- MODULE RegistrarServe ---------------------------
(***************************************************************************)
(* The registrar process: its accept loop, and the task that rotates its   *)
(* own TLS certificate.                                                    *)
(*                                                                         *)
(* Time is counted in ticks that are long beside the 60 second pause and   *)
(* the budgets of a connection. A certificate has the ticks it is still    *)
(* good for; a timer fires before the next tick.                           *)
(***************************************************************************)
EXTENDS Naturals

CONSTANTS
    CertTtl,         \* ticks a fresh certificate is good for (LeafTtl::default_ttl)
    Margin,      \* ticks of remaining life at which it is rotated (leaf_ttl / 2)
    Peer,        \* connections that arrive
    MaxServeFault,    \* bound: failed reads, signatures and writes
    MaxServeDeath,    \* bound: deaths of the process
    MaxReissue   \* bound: `interflow-registrar certificate` by the operator

VARIABLE rv

\* How a connection's first bytes look to consume_proxy_header.
Preamble == {"tls", "v1", "v2", "diverges", "v1 too long", "v2 too long", "cut off", "stalls"}

Life == 0..CertTtl

ServeState ==
    [ up      : BOOLEAN,                \* the process runs
      file    : Life,                   \* the certificate on disk
      paired  : BOOLEAN,                \* the key on disk belongs to it
      serving : Life,                   \* the certificate in the acceptor
      rotator : {"check", "sleep", "rotate", "key", "reload", "pause", "stopped"},
      loop    : {"accept", "preamble", "handshake", "drain", "returned"},
      peer    : [Peer -> {"new", "front", "open", "done"}],
      front   : Preamble,               \* what the connection in the loop sent
      remote  : BOOLEAN,                \* it does not come from this host
      token   : BOOLEAN,                \* shutdown was asked for
      late    : BOOLEAN,                \* a tick passed during a failure
      slipped : BOOLEAN,                \* the new certificate never reached the acceptor
      faults  : 0..MaxServeFault,
      deaths  : 0..MaxServeDeath,
      reissues: 0..MaxReissue ]

ServeStart ==
    [ up |-> TRUE, file |-> CertTtl, paired |-> TRUE, serving |-> CertTtl, rotator |-> "check",
      loop |-> "accept", peer |-> [p \in Peer |-> "new"], front |-> "tls", remote |-> FALSE,
      token |-> FALSE, late |-> FALSE, slipped |-> FALSE,
      faults |-> 0, deaths |-> 0, reissues |-> 0 ]

ServeInit == rv = ServeStart

ServeFault == rv.faults < MaxServeFault

-----------------------------------------------------------------------------
(* build_acceptor: certificate and key are read and must belong together. *)
build_acceptor == rv.paired

(* registrar_tls_rotation *)
CheckExpiry ==
    /\ rv.up /\ rv.rotator = "check"
    /\ rv' = [rv EXCEPT !.rotator = IF rv.file = 0 THEN "stopped"
                                    ELSE IF rv.file > Margin THEN "sleep" ELSE "rotate"]

CheckFails ==
    /\ rv.up /\ rv.rotator = "check" /\ ServeFault
    /\ rv' = [rv EXCEPT !.rotator = "stopped", !.faults = @ + 1]

RotatorLeaves ==
    /\ rv.up /\ rv.token /\ rv.rotator \in {"sleep", "pause"}
    /\ rv' = [rv EXCEPT !.rotator = "stopped"]

SleepDue == rv.file <= Margin

SleepOver ==
    /\ rv.up /\ rv.rotator = "sleep" /\ SleepDue
    /\ rv' = [rv EXCEPT !.rotator = "rotate"]

(* rotate_registrar_tls: sign, replace the certificate, then the key. *)
WriteCertificate ==
    /\ rv.up /\ rv.rotator = "rotate"
    /\ rv' = [rv EXCEPT !.file = CertTtl, !.paired = FALSE, !.rotator = "key"]

SigningFails ==
    /\ rv.up /\ rv.rotator = "rotate" /\ ServeFault
    /\ rv' = [rv EXCEPT !.rotator = "pause", !.faults = @ + 1]

WriteKey ==
    /\ rv.up /\ rv.rotator = "key"
    /\ rv' = [rv EXCEPT !.paired = TRUE, !.rotator = "reload"]

WriteKeyFails ==
    /\ rv.up /\ rv.rotator = "key" /\ ServeFault
    /\ rv' = [rv EXCEPT !.rotator = "pause", !.faults = @ + 1, !.slipped = TRUE]

ReloadAcceptor ==
    /\ rv.up /\ rv.rotator = "reload" /\ build_acceptor
    /\ rv' = [rv EXCEPT !.serving = rv.file, !.rotator = "check", !.slipped = FALSE]

ReloadAcceptorFails ==
    /\ rv.up /\ rv.rotator = "reload" /\ ServeFault
    /\ rv' = [rv EXCEPT !.rotator = "pause", !.faults = @ + 1, !.slipped = TRUE]

PauseOver ==
    /\ rv.up /\ rv.rotator = "pause"
    /\ rv' = [rv EXCEPT !.rotator = "check"]

Rotates ==
    \/ CheckExpiry \/ SleepOver \/ WriteCertificate \/ WriteKey \/ ReloadAcceptor \/ PauseOver
    \/ RotatorLeaves

(* Time passes while the task waits, is gone, or the process is down. *)
Waiting ==
    \/ ~rv.up
    \/ rv.rotator \in {"stopped", "pause"}
    \/ rv.rotator = "sleep" /\ ~SleepDue

Older(life) == IF life = 0 THEN 0 ELSE life - 1

Tick ==
    /\ Waiting
    /\ rv.file > 0 \/ rv.serving > 0
    /\ rv' = [rv EXCEPT !.file = Older(@), !.serving = Older(@),
                        !.late = @ \/ ~rv.up \/ rv.rotator \in {"stopped", "pause"}]

-----------------------------------------------------------------------------
(* The accept loop of serve_on handles one connection at a time up to the end of
   its handshake. *)
Accepted(p, front, remote) ==
    /\ rv.up /\ rv.loop = "accept" /\ rv.peer[p] = "new"
    /\ rv' = [rv EXCEPT !.loop = "preamble", !.peer[p] = "front", !.front = front,
                        !.remote = remote]

ShutdownAsked ==
    /\ rv.up /\ ~rv.token
    /\ rv' = [rv EXCEPT !.token = TRUE]

LoopBreaks ==
    /\ rv.up /\ rv.loop = "accept" /\ rv.token
    /\ rv' = [rv EXCEPT !.loop = "drain"]

ListenerFails ==
    /\ rv.up /\ rv.loop = "accept" /\ ServeFault
    /\ rv' = [rv EXCEPT !.loop = "returned", !.up = FALSE, !.faults = @ + 1]

(* consume_proxy_header: a peer of another host is not looked at; a whole preamble
   is eaten; one that announces itself and does not end within the budget, or is
   over the cap, drops the connection; anything else is left to TLS. *)
HandsOver == rv.remote \/ rv.front \in {"tls", "v1", "v2", "diverges"}

GivesUp == ~rv.remote /\ rv.front \in {"v1 too long", "v2 too long", "cut off", "stalls"}

Dropped == [p \in Peer |-> IF rv.peer[p] = "front" THEN "done" ELSE rv.peer[p]]

PreambleEaten ==
    /\ rv.up /\ rv.loop = "preamble" /\ HandsOver
    /\ rv' = [rv EXCEPT !.loop = "handshake"]

PreambleDropped ==
    /\ rv.up /\ rv.loop = "preamble" /\ GivesUp
    /\ rv' = [rv EXCEPT !.loop = "accept", !.peer = Dropped]

(* acceptor.accept has no time limit and does not look at the token. *)
Handshaken ==
    /\ rv.up /\ rv.loop = "handshake"
    /\ rv.front \in {"tls", "v1", "v2"} /\ rv.serving > 0
    /\ rv' = [rv EXCEPT !.loop = "accept",
                        !.peer = [p \in Peer |-> IF @[p] = "front" THEN "open" ELSE @[p]]]

HandshakeFails ==
    /\ rv.up /\ rv.loop = "handshake"
    /\ rv' = [rv EXCEPT !.loop = "accept", !.peer = Dropped]

(* handle answers, or the peer goes away. *)
Answers(p) ==
    /\ rv.up /\ rv.peer[p] = "open"
    /\ rv' = [rv EXCEPT !.peer[p] = "done"]

Return == [rv EXCEPT !.loop = "returned", !.up = FALSE,
                     !.peer = [p \in Peer |-> IF @[p] = "open" THEN "done" ELSE @[p]]]

DrainedAll ==
    /\ rv.up /\ rv.loop = "drain"
    /\ \A p \in Peer : rv.peer[p] # "open"
    /\ rv' = Return

(* CONN_SHUTDOWN_GRACE *)
GraceOver ==
    /\ rv.up /\ rv.loop = "drain"
    /\ rv' = Return

-----------------------------------------------------------------------------
(* The process dies at any point; the files stay as they are. *)
Dies ==
    /\ rv.up /\ rv.deaths < MaxServeDeath
    /\ rv' = [Return EXCEPT !.deaths = @ + 1, !.peer = [p \in Peer |-> "done"],
                            !.slipped = FALSE]

(* A start builds the acceptor before it serves; a pair that does not match, or an
   error, ends it. *)
ProcessStarts ==
    /\ ~rv.up /\ ~rv.token /\ build_acceptor
    /\ rv' = [rv EXCEPT !.up = TRUE, !.serving = rv.file, !.rotator = "check",
                        !.loop = "accept", !.late = (rv.file = 0), !.slipped = FALSE]

(* `interflow-registrar certificate` writes both files anew. *)
Reissue ==
    /\ ~rv.up /\ rv.reissues < MaxReissue
    /\ rv' = [rv EXCEPT !.file = CertTtl, !.paired = TRUE, !.reissues = @ + 1]

ServeNext ==
    \/ Rotates
    \/ CheckFails \/ SigningFails \/ WriteKeyFails \/ ReloadAcceptorFails \/ ListenerFails
    \/ Tick
    \/ \E p \in Peer, front \in Preamble, remote \in BOOLEAN : Accepted(p, front, remote)
    \/ ShutdownAsked \/ LoopBreaks
    \/ PreambleEaten \/ PreambleDropped \/ Handshaken \/ HandshakeFails
    \/ \E p \in Peer : Answers(p)
    \/ DrainedAll \/ GraceOver
    \/ Dies \/ ProcessStarts \/ Reissue

(* The tasks of the process run; a peer owes nothing. *)
ServeFairness ==
    /\ WF_rv(Rotates)
    /\ WF_rv(LoopBreaks)
    /\ WF_rv(PreambleEaten) /\ WF_rv(PreambleDropped)
    /\ WF_rv(DrainedAll) /\ WF_rv(GraceOver)

ServeSpec == ServeInit /\ [][ServeNext]_rv /\ ServeFairness

-----------------------------------------------------------------------------
\* The server, its leaf on disk and its peers have their types.
ServeTypeOK == rv \in ServeState

(* The acceptor's certificate is renewed in time: while the rotation task works and
   no failure was left to age, no handshake is answered with an expired one. *)
NeverServesExpired ==
    rv.up /\ ~rv.late /\ ~rv.slipped => rv.serving > 0

(* Shutdown ends the process whatever the open connections do, unless the loop is in
   a handshake with a peer that says nothing. *)
StopEnds == rv.token ~> (~rv.up \/ rv.loop = "handshake")

=============================================================================
