--------------------------- MODULE EnrollmentCodes ---------------------------
(***************************************************************************)
(* The registrar's enrollment codes and the serials it records.            *)
(*                                                                         *)
(* A code authorises one credential. The codes and the current serials are *)
(* two JSON files of the issuer store. The server process holds a mutex of *)
(* its own from the load of a file to its save. The file lock is taken by  *)
(* load_locked and again by save_locked, and is free in between: that is   *)
(* where another process, the command line's, may write.                   *)
(*                                                                         *)
(* A code names one node here, so a serial is recorded per code. A serial  *)
(* is the number of the credential among those of its code.                *)
(***************************************************************************)
EXTENDS Naturals, FiniteSets

CONSTANTS
    Code,        \* enrollment codes
    Handler,     \* requests the server handles
    Cli,         \* processes of the command line, disjoint from Handler
    MaxSerial,   \* bound: credentials of one code
    MaxEnrollDeath,    \* bound: process deaths
    Unheld

ASSUME EnrollAssumption ==
    /\ Handler \cap Cli = {} /\ Unheld \notin Handler \cup Cli
    /\ Code # {} /\ MaxSerial \in Nat /\ MaxEnrollDeath \in Nat

VARIABLE en

Actor == Handler \cup Cli

EnrollmentRecord == {"absent", "fresh", "used"}

Stages == {"idle", "create", "consume", "spent", "signed", "record", "recorded", "answered"}

EnrollState ==
    [ codes   : [Code -> EnrollmentRecord],       \* enrollments.json
      expired : SUBSET Code,                      \* codes older than ENROLLMENT_TTL
      rotation: [Code -> 0..MaxSerial],           \* rotation-state.json, 0 is none
      enrollments : Handler \cup {Unheld},        \* the server's mutex on the codes
      rotations   : Handler \cup {Unheld},        \* the server's mutex on the serials
      at      : [Actor -> Stages],
      code    : [Actor -> Code],
      serial  : [Actor -> 0..MaxSerial],
      seen    : [Actor -> [Code -> EnrollmentRecord]],   \* what load_locked returned
      known   : [Actor -> [Code -> 0..MaxSerial]],
      issued  : [Code -> 0..MaxSerial],           \* credentials signed so far
      overlap : BOOLEAN,                          \* two processes were between load and save
      deaths  : 0..MaxEnrollDeath ]

None0 == [c \in Code |-> 0]
Blank == [c \in Code |-> "absent"]
AnyCode == CHOOSE c \in Code : TRUE

EnrollStart ==
    [ codes |-> Blank, expired |-> {}, rotation |-> None0,
      enrollments |-> Unheld, rotations |-> Unheld,
      at |-> [a \in Actor |-> "idle"], code |-> [a \in Actor |-> AnyCode],
      serial |-> [a \in Actor |-> 0],
      seen |-> [a \in Actor |-> Blank], known |-> [a \in Actor |-> None0],
      issued |-> None0, overlap |-> FALSE, deaths |-> 0 ]

EnrollInit == en = EnrollStart

-----------------------------------------------------------------------------
(* Another process is between the load and the save of the same file. *)
Across(a, stages) ==
    \E b \in Actor \ {a} : en.at[b] \in stages /\ ~({a, b} \subseteq Handler)

(* The std Mutex around the file's copy: one holder in the server process. The
   command line opens the file for itself, with a mutex nobody else knows. *)
Enters(a, mutex) == a \in Handler => mutex = Unheld
Holds(a, mutex)  == IF a \in Handler THEN a ELSE mutex
Freed(a, mutex)  == IF a \in Handler THEN Unheld ELSE mutex

(* load_locked: the file as it is now, or the default when there is none. *)
LoadCodes(a, c, stage) ==
    /\ en.at[a] = "idle"
    /\ Enters(a, en.enrollments)
    /\ en' = [en EXCEPT !.at[a] = stage, !.code[a] = c, !.seen[a] = en.codes,
                        !.enrollments = Holds(a, @),
                        !.overlap = @ \/ Across(a, {"create", "consume"})]

(* save_locked: the whole copy replaces the file. *)
SaveCodes(a, record, stage) ==
    en' = [en EXCEPT !.codes = [en.seen[a] EXCEPT ![en.code[a]] = record],
                     !.at[a] = stage, !.seen[a] = Blank,
                     !.enrollments = Freed(a, @),
                     !.overlap = @ \/ Across(a, {"create", "consume"})]

(* EnrollmentCodes::create, run by `interflow-registrar code`. The code is new,
   so no other process knows it before this one shows it. *)
Create(a, c) ==
    /\ a \in Cli
    /\ en.codes[c] = "absent"
    /\ en.issued[c] = 0
    /\ \A b \in Actor : en.at[b] = "create" => en.code[b] # c
    /\ c \notin en.expired
    /\ LoadCodes(a, c, "create")

CreateSaves(a) ==
    /\ en.at[a] = "create"
    /\ SaveCodes(a, "fresh", "answered")

(* EnrollmentCodes::consume up to the save. Refusals let the mutex go and leave
   the file alone. *)
Consume(a, c) == LoadCodes(a, c, "consume")

\* Mutant: a used code is not looked at.
RefusesAnyAge(a) == en.seen[a][en.code[a]] = "absent" \/ en.code[a] \in en.expired

Refuses(a) == en.seen[a][en.code[a]] # "fresh" \/ en.code[a] \in en.expired

ConsumeRefused(a) ==
    /\ en.at[a] = "consume"
    /\ Refuses(a)
    /\ en' = [en EXCEPT !.at[a] = "answered", !.seen[a] = Blank,
                        !.enrollments = Freed(a, @)]

ConsumeSaves(a) ==
    /\ en.at[a] = "consume"
    /\ ~Refuses(a)
    /\ SaveCodes(a, "used", "spent")

(* The rest of RegistrarService::enroll: kind, workspace issuer and request are
   checked and the certificate is signed. An error answers the request; the code
   stays used. *)
EnrollSigns(a) ==
    /\ en.at[a] = "spent"
    /\ en.issued[en.code[a]] < MaxSerial
    /\ en' = [en EXCEPT !.at[a] = "signed", !.issued[en.code[a]] = @ + 1,
                        !.serial[a] = en.issued[en.code[a]] + 1]

EnrollFails(a) ==
    /\ en.at[a] = "spent"
    /\ en' = [en EXCEPT !.at[a] = "answered"]

(* set_current: load, replace the principal's entry, save. *)
SetCurrent(a) ==
    /\ en.at[a] = "signed"
    /\ Enters(a, en.rotations)
    /\ en' = [en EXCEPT !.at[a] = "record", !.known[a] = en.rotation,
                        !.rotations = Holds(a, @),
                        !.overlap = @ \/ Across(a, {"record"})]

SetCurrentSaves(a) ==
    /\ en.at[a] = "record"
    /\ en' = [en EXCEPT !.at[a] = "recorded",
                        !.rotation = [en.known[a] EXCEPT ![en.code[a]] = en.serial[a]],
                        !.known[a] = None0,
                        !.rotations = Freed(a, @),
                        !.overlap = @ \/ Across(a, {"record"})]

(* The credential is answered after the entry is on disk. *)
Issued(a) ==
    /\ en.at[a] = "recorded"
    /\ en' = [en EXCEPT !.at[a] = "answered"]

(* A process dies: what its actors held is gone, the files stay. *)
Rest(dead) ==
    [en EXCEPT !.at = [a \in Actor |-> IF a \in dead /\ @[a] # "idle" THEN "answered" ELSE @[a]],
               !.seen = [a \in Actor |-> IF a \in dead THEN Blank ELSE @[a]],
               !.known = [a \in Actor |-> IF a \in dead THEN None0 ELSE @[a]],
               !.enrollments = IF @ \in dead THEN Unheld ELSE @,
               !.rotations = IF @ \in dead THEN Unheld ELSE @,
               !.deaths = @ + 1]

ProcessDies ==
    /\ en.deaths < MaxEnrollDeath
    /\ \E dead \in {Handler} \cup {{a} : a \in Cli} :
          /\ \E a \in dead : en.at[a] \notin {"idle", "answered"}
          /\ en' = Rest(dead)

(* The hour of a code is over. *)
CodeExpires(c) ==
    /\ en.codes[c] # "absent"
    /\ c \notin en.expired
    /\ en' = [en EXCEPT !.expired = @ \cup {c}]

EnrollNext ==
    \/ \E a \in Actor, c \in Code : Create(a, c) \/ Consume(a, c)
    \/ \E a \in Actor :
          \/ CreateSaves(a) \/ ConsumeRefused(a) \/ ConsumeSaves(a)
          \/ EnrollSigns(a) \/ EnrollFails(a)
          \/ SetCurrent(a) \/ SetCurrentSaves(a) \/ Issued(a)
    \/ ProcessDies
    \/ \E c \in Code : CodeExpires(c)

EnrollSpec == EnrollInit /\ [][EnrollNext]_en

-----------------------------------------------------------------------------
\* Codes, credentials and the actors on the two files have their types.
EnrollTypeOK == en \in EnrollState

(* "Durable, single-use": a code yields at most one credential, whatever the
   requests, process deaths and expiries, as long as no two processes worked on a
   file between load_locked and save_locked at once. *)
UsedOnce == ~en.overlap => \A c \in Code : en.issued[c] <= 1

(* An answered credential is the current one of its principal: `renew` accepts no
   other serial, so a lost entry means a node that can never renew. *)
AnsweredIsCurrent ==
    \A a \in Actor :
        en.at[a] = "recorded" /\ ~en.overlap => en.rotation[en.code[a]] >= en.serial[a]

\* A code is spent once, and the credential a node was answered is the one it
\* can renew.
EnrollmentSound == UsedOnce /\ AnsweredIsCurrent
=============================================================================
