--------------------------- MODULE RegistrarProofs ---------------------------
(* Proofs about EnrollmentCodes and Renewal, for every number of codes,        *)
(* requests, command-line processes, nodes and credentials.                    *)
EXTENDS EnrollmentCodes, Renewal, TLAPS

\* Between load_locked and save_locked of the codes.
Editing == {"create", "consume"}

\* The server's mutexes are held by the handler that works on the file.
MutexInv ==
  \A a \in Handler : /\ en.at[a] \in Editing => en.enrollments = a
                     /\ en.at[a] = "record" => en.rotations = a

\* A credential that is signed has a serial of its code.
SerialInv ==
  \A a \in Actor : en.at[a] \in {"signed", "record", "recorded"} =>
                     en.serial[a] \in 1 .. en.issued[en.code[a]]

\* Without overlap a copy between load and save is the file itself ...
CopyInv ==
  ~en.overlap =>
    /\ \A a, b \in Actor : en.at[a] \in Editing /\ en.at[b] \in Editing => a = b
    /\ \A a, b \in Actor : en.at[a] = "record" /\ en.at[b] = "record" => a = b
    /\ \A a \in Actor : /\ en.at[a] \in Editing => en.seen[a] = en.codes
                        /\ en.at[a] = "record" => en.known[a] = en.rotation
                        /\ en.at[a] = "create" => en.codes[en.code[a]] = "absent"

\* ... so a code is spent once: the actor that spent it, or its credential,
\* stands for its use.
SpendInv ==
  ~en.overlap =>
    /\ \A a \in Actor : en.at[a] = "spent" =>
         en.codes[en.code[a]] = "used" /\ en.issued[en.code[a]] = 0
    /\ \A a, b \in Actor : en.at[a] = "spent" /\ en.at[b] = "spent" /\ en.code[a] = en.code[b] => a = b
    /\ \A c \in Code : en.issued[c] <= 1 /\ (en.issued[c] # 0 => en.codes[c] = "used")

EnrollInv == MutexInv /\ SerialInv /\ CopyInv /\ SpendInv /\ AnsweredIsCurrent

-----------------------------------------------------------------------------
(* What each kind of step leaves behind, field by field.                       *)

LEMMA Fields ==
  ASSUME EnrollTypeOK
  PROVE  /\ en.codes \in [Code -> EnrollmentRecord] /\ en.expired \in SUBSET Code
         /\ en.rotation \in [Code -> 0..MaxSerial] /\ en.issued \in [Code -> 0..MaxSerial]
         /\ en.enrollments \in Handler \cup {Unheld} /\ en.rotations \in Handler \cup {Unheld}
         /\ en.at \in [Actor -> Stages] /\ en.code \in [Actor -> Code]
         /\ en.serial \in [Actor -> 0..MaxSerial]
         /\ en.seen \in [Actor -> [Code -> EnrollmentRecord]]
         /\ en.known \in [Actor -> [Code -> 0..MaxSerial]]
         /\ en.overlap \in BOOLEAN /\ en.deaths \in 0..MaxEnrollDeath
  BY DEF EnrollTypeOK, EnrollState

LEMMA LoadStep ==
  ASSUME EnrollTypeOK, NEW a \in Actor, NEW c \in Code, NEW stage \in Stages,
         LoadCodes(a, c, stage)
  PROVE  /\ en'.at = [en.at EXCEPT ![a] = stage] /\ en'.code = [en.code EXCEPT ![a] = c]
         /\ en'.seen = [en.seen EXCEPT ![a] = en.codes]
         /\ en'.enrollments = Holds(a, en.enrollments)
         /\ ~en'.overlap => ~en.overlap /\ ~Across(a, Editing)
         /\ en'.codes = en.codes /\ en'.expired = en.expired /\ en'.rotation = en.rotation
         /\ en'.rotations = en.rotations /\ en'.serial = en.serial /\ en'.known = en.known
         /\ en'.issued = en.issued /\ en'.deaths = en.deaths
         /\ EnrollTypeOK'
<1>1. /\ en'.at = [en.at EXCEPT ![a] = stage] /\ en'.code = [en.code EXCEPT ![a] = c]
         /\ en'.seen = [en.seen EXCEPT ![a] = en.codes]
         /\ en'.enrollments = Holds(a, en.enrollments)
         /\ en'.overlap = (en.overlap \/ Across(a, Editing))
         /\ en'.codes = en.codes /\ en'.expired = en.expired /\ en'.rotation = en.rotation
         /\ en'.rotations = en.rotations /\ en'.serial = en.serial /\ en'.known = en.known
         /\ en'.issued = en.issued /\ en'.deaths = en.deaths
  BY DEF LoadCodes, EnrollTypeOK, EnrollState, Editing
<1>2. Holds(a, en.enrollments) \in Handler \cup {Unheld}
  BY Fields DEF Holds
<1>3. Across(a, Editing) \in BOOLEAN
  BY DEF Across
<1> QED BY <1>1, <1>2, <1>3, Fields, Zenon DEF LoadCodes, EnrollTypeOK, EnrollState

LEMMA SaveStep ==
  ASSUME EnrollTypeOK, NEW a \in Actor, NEW record \in EnrollmentRecord, NEW stage \in Stages,
         SaveCodes(a, record, stage)
  PROVE  /\ en'.codes = [en.seen[a] EXCEPT ![en.code[a]] = record]
         /\ en'.at = [en.at EXCEPT ![a] = stage] /\ en'.seen = [en.seen EXCEPT ![a] = Blank]
         /\ en'.enrollments = Freed(a, en.enrollments)
         /\ ~en'.overlap => ~en.overlap /\ ~Across(a, Editing)
         /\ en'.expired = en.expired /\ en'.rotation = en.rotation
         /\ en'.rotations = en.rotations /\ en'.code = en.code /\ en'.serial = en.serial
         /\ en'.known = en.known /\ en'.issued = en.issued /\ en'.deaths = en.deaths
         /\ EnrollTypeOK'
<1>1. /\ en'.codes = [en.seen[a] EXCEPT ![en.code[a]] = record]
      /\ en'.at = [en.at EXCEPT ![a] = stage] /\ en'.seen = [en.seen EXCEPT ![a] = Blank]
      /\ en'.enrollments = Freed(a, en.enrollments)
      /\ en'.overlap = (en.overlap \/ Across(a, Editing))
      /\ en'.expired = en.expired /\ en'.rotation = en.rotation
      /\ en'.rotations = en.rotations /\ en'.code = en.code /\ en'.serial = en.serial
      /\ en'.known = en.known /\ en'.issued = en.issued /\ en'.deaths = en.deaths
  BY DEF SaveCodes, EnrollTypeOK, EnrollState, Editing
<1>2. Freed(a, en.enrollments) \in Handler \cup {Unheld}
  BY Fields DEF Freed
<1>3. Across(a, Editing) \in BOOLEAN
  BY DEF Across
<1>4. /\ [en.seen[a] EXCEPT ![en.code[a]] = record] \in [Code -> EnrollmentRecord]
      /\ [en.seen EXCEPT ![a] = Blank] \in [Actor -> [Code -> EnrollmentRecord]]
      /\ [en.at EXCEPT ![a] = stage] \in [Actor -> Stages]
  BY Fields DEF Blank, EnrollmentRecord
<1> QED BY <1>1, <1>2, <1>3, <1>4, Fields, Zenon DEF SaveCodes, EnrollTypeOK, EnrollState

\* Another actor of the server between load and save would hold the mutex.
LEMMA AloneOnCodes ==
  ASSUME EnrollTypeOK, EnrollInv, NEW a \in Actor, NEW b \in Actor, a # b,
         ~en.overlap, ~Across(a, Editing), en.at[b] \in Editing,
         a \in Handler => en.enrollments \in {Unheld, a}
  PROVE  FALSE
<1>1. a \in Handler /\ b \in Handler
  BY DEF Across
<1>2. en.enrollments = b
  BY <1>1 DEF EnrollInv, MutexInv
<1> QED BY <1>1, <1>2, EnrollAssumption

LEMMA AloneOnSerials ==
  ASSUME EnrollTypeOK, EnrollInv, NEW a \in Actor, NEW b \in Actor, a # b,
         ~en.overlap, ~Across(a, {"record"}), en.at[b] = "record",
         a \in Handler => en.rotations \in {Unheld, a}
  PROVE  FALSE
<1>1. a \in Handler /\ b \in Handler
  BY DEF Across
<1>2. en.rotations = b
  BY <1>1 DEF EnrollInv, MutexInv
<1> QED BY <1>1, <1>2, EnrollAssumption

\* load_locked on the codes, by a command line or a request.
LEMMA LoadKeeps ==
  ASSUME EnrollTypeOK, EnrollInv, NEW a \in Actor, NEW c \in Code, NEW stage \in Editing,
         LoadCodes(a, c, stage), stage = "create" => en.codes[c] = "absent"
  PROVE  EnrollTypeOK' /\ EnrollInv'
<1>1. stage \in Stages
  BY DEF Editing, Stages
<1>2. /\ en'.at = [en.at EXCEPT ![a] = stage] /\ en'.code = [en.code EXCEPT ![a] = c]
      /\ en'.seen = [en.seen EXCEPT ![a] = en.codes]
      /\ en'.enrollments = Holds(a, en.enrollments)
      /\ en'.codes = en.codes /\ en'.rotation = en.rotation /\ en'.rotations = en.rotations
      /\ en'.serial = en.serial /\ en'.known = en.known /\ en'.issued = en.issued
  BY <1>1, LoadStep
<1>0. EnrollTypeOK' /\ (~en'.overlap => ~en.overlap /\ ~Across(a, Editing))
  BY <1>1, LoadStep, Zenon
<1>3. /\ en'.at[a] = stage /\ \A b \in Actor : b # a => en'.at[b] = en.at[b]
      /\ en'.code[a] = c /\ \A b \in Actor : b # a => en'.code[b] = en.code[b]
      /\ en'.seen[a] = en.codes /\ \A b \in Actor : b # a => en'.seen[b] = en.seen[b]
  BY <1>2, Fields
<1>4. a \in Handler => en.enrollments = Unheld
  BY DEF LoadCodes, Enters
<1>5. ASSUME ~en'.overlap, NEW b \in Actor, b # a PROVE en.at[b] \notin Editing
  BY <1>0, <1>4, <1>5, AloneOnCodes, Zenon
<1>6. MutexInv'
  BY <1>2, <1>3, <1>4, EnrollAssumption DEF EnrollInv, MutexInv, Holds, Editing, Actor
<1>7. SerialInv'
  BY <1>2, <1>3 DEF EnrollInv, SerialInv, Editing
<1>8. CopyInv'
  BY <1>0, <1>2, <1>3, <1>5 DEF EnrollInv, CopyInv, Editing
<1>9. SpendInv'
  BY <1>0, <1>2, <1>3 DEF EnrollInv, SpendInv, Editing
<1>10. AnsweredIsCurrent'
  BY <1>0, <1>2, <1>3 DEF EnrollInv, AnsweredIsCurrent, Editing
<1> QED BY <1>0, <1>6, <1>7, <1>8, <1>9, <1>10 DEF EnrollInv

\* save_locked on the codes: a new code, or the use of a fresh one.
LEMMA SaveKeeps ==
  ASSUME EnrollTypeOK, EnrollInv, NEW a \in Actor, NEW record \in {"fresh", "used"},
         NEW stage \in {"spent", "answered"},
         SaveCodes(a, record, stage), en.at[a] \in Editing,
         \/ record = "fresh" /\ stage = "answered" /\ en.at[a] = "create"
         \/ record = "used" /\ stage = "spent" /\ en.seen[a][en.code[a]] = "fresh"
  PROVE  EnrollTypeOK' /\ EnrollInv'
<1>1. stage \in Stages /\ record \in EnrollmentRecord
  BY DEF Stages, EnrollmentRecord
<1>2. /\ en'.codes = [en.seen[a] EXCEPT ![en.code[a]] = record]
      /\ en'.at = [en.at EXCEPT ![a] = stage] /\ en'.seen = [en.seen EXCEPT ![a] = Blank]
      /\ en'.enrollments = Freed(a, en.enrollments)
      /\ en'.rotation = en.rotation /\ en'.rotations = en.rotations /\ en'.code = en.code
      /\ en'.serial = en.serial /\ en'.known = en.known /\ en'.issued = en.issued
  BY <1>1, SaveStep
<1>3. EnrollTypeOK' /\ (~en'.overlap => ~en.overlap /\ ~Across(a, Editing))
  BY <1>1, SaveStep, Zenon
<1>4. /\ en'.at[a] = stage /\ \A b \in Actor : b # a => en'.at[b] = en.at[b]
      /\ \A b \in Actor : b # a => en'.seen[b] = en.seen[b]
      /\ en'.codes[en.code[a]] = record /\ en.code[a] \in Code
      /\ \A c \in Code : c # en.code[a] => en'.codes[c] = en.seen[a][c]
  BY <1>2, Fields
<1>5. a \in Handler => en.enrollments = a
  BY DEF EnrollInv, MutexInv
<1>6. ASSUME ~en'.overlap, NEW b \in Actor, b # a PROVE en.at[b] \notin Editing
  BY <1>3, <1>5, <1>6, AloneOnCodes, Zenon
<1>7. ~en.overlap => en.seen[a] = en.codes /\ (record = "fresh" => en.codes[en.code[a]] = "absent")
  BY DEF EnrollInv, CopyInv
<1>8. ~en.overlap => en.issued[en.code[a]] = 0
  BY <1>4, <1>7, Fields DEF EnrollInv, SpendInv
<1>9. ~en.overlap => \A b \in Actor : en.at[b] = "spent" => en.code[b] # en.code[a]
  BY <1>7 DEF EnrollInv, SpendInv
<1>10. MutexInv'
  BY <1>2, <1>4, <1>5, EnrollAssumption DEF EnrollInv, MutexInv, Freed, Editing, Actor
<1>11. SerialInv'
  BY <1>2, <1>4 DEF EnrollInv, SerialInv
<1>12. CopyInv'
  BY <1>2, <1>3, <1>4, <1>6 DEF EnrollInv, CopyInv, Editing
<1>13. SpendInv'
  <2> SUFFICES ASSUME ~en'.overlap PROVE SpendInv'
    BY DEF SpendInv
  <2>1. ~en.overlap
    BY <1>3
  <2>2. \A b \in Actor : en'.at[b] = "spent" =>
          en'.codes[en'.code[b]] = "used" /\ en'.issued[en'.code[b]] = 0
    BY <1>2, <1>4, <1>7, <1>8, <1>9, <2>1, Fields DEF EnrollInv, SpendInv
  <2>3. \A b, d \in Actor : en'.at[b] = "spent" /\ en'.at[d] = "spent" /\ en'.code[b] = en'.code[d] => b = d
    BY <1>2, <1>4, <1>9, <2>1 DEF EnrollInv, SpendInv
  <2>4. \A c \in Code : en'.issued[c] <= 1 /\ (en'.issued[c] # 0 => en'.codes[c] = "used")
    BY <1>2, <1>4, <1>7, <1>8, <2>1 DEF EnrollInv, SpendInv
  <2> QED BY <2>2, <2>3, <2>4 DEF SpendInv
<1>14. AnsweredIsCurrent'
  BY <1>2, <1>3, <1>4 DEF EnrollInv, AnsweredIsCurrent
<1> QED BY <1>3, <1>10, <1>11, <1>12, <1>13, <1>14 DEF EnrollInv

\* A step that only moves one actor out of its files, and may let a mutex go.
LEMMA MoveStep ==
  ASSUME EnrollTypeOK, NEW a \in Actor, NEW stage \in Stages, NEW f, NEW m,
         f \in [Actor -> [Code -> EnrollmentRecord]], m \in Handler \cup {Unheld},
         en' = [en EXCEPT !.at[a] = stage, !.seen = f, !.enrollments = m]
  PROVE  /\ en'.at = [en.at EXCEPT ![a] = stage] /\ en'.seen = f /\ en'.enrollments = m
         /\ en'.codes = en.codes /\ en'.rotation = en.rotation /\ en'.rotations = en.rotations
         /\ en'.code = en.code /\ en'.serial = en.serial /\ en'.known = en.known
         /\ en'.issued = en.issued /\ en'.overlap = en.overlap
         /\ EnrollTypeOK'
<1>1. /\ en'.at = [en.at EXCEPT ![a] = stage] /\ en'.seen = f /\ en'.enrollments = m
      /\ en'.codes = en.codes /\ en'.rotation = en.rotation /\ en'.rotations = en.rotations
      /\ en'.code = en.code /\ en'.serial = en.serial /\ en'.known = en.known
      /\ en'.issued = en.issued /\ en'.overlap = en.overlap
  BY DEF EnrollTypeOK, EnrollState
<1>2. [en.at EXCEPT ![a] = stage] \in [Actor -> Stages]
  BY Fields
<1> QED BY <1>1, <1>2, Fields, Zenon DEF EnrollTypeOK, EnrollState

\* A refusal, a failure or the answer: the actor is done with the files.
LEMMA MoveKeeps ==
  ASSUME EnrollTypeOK, EnrollInv, NEW a \in Actor,
         ConsumeRefused(a) \/ EnrollFails(a) \/ Issued(a)
  PROVE  EnrollTypeOK' /\ EnrollInv'
<1>1. PICK f, m :
        /\ f \in [Actor -> [Code -> EnrollmentRecord]] /\ m \in Handler \cup {Unheld}
        /\ en' = [en EXCEPT !.at[a] = "answered", !.seen = f, !.enrollments = m]
        /\ \A b \in Actor : b # a => f[b] = en.seen[b]
        /\ m = en.enrollments \/ (a \in Handler /\ en.at[a] = "consume")
  <2>1. CASE ConsumeRefused(a)
    <3> DEFINE f == [en.seen EXCEPT ![a] = Blank]
               m == Freed(a, en.enrollments)
    <3>1. f \in [Actor -> [Code -> EnrollmentRecord]] /\ \A b \in Actor : b # a => f[b] = en.seen[b]
      BY Fields DEF Blank, EnrollmentRecord
    <3>2. /\ m \in Handler \cup {Unheld}
          /\ m = en.enrollments \/ (a \in Handler /\ en.at[a] = "consume")
      BY <2>1, Fields DEF Freed, ConsumeRefused
    <3>3. en' = [en EXCEPT !.at[a] = "answered", !.seen = f, !.enrollments = m]
      BY <2>1 DEF ConsumeRefused
    <3> QED BY <3>1, <3>2, <3>3, Zenon
  <2>2. CASE EnrollFails(a) \/ Issued(a)
    <3>1. en' = [en EXCEPT !.at[a] = "answered", !.seen = en.seen, !.enrollments = en.enrollments]
      BY <2>2, Zenon DEF EnrollFails, Issued, EnrollTypeOK, EnrollState
    <3> QED BY <3>1, Fields, Zenon
  <2> QED BY <2>1, <2>2, Zenon
<1>2. /\ en'.at = [en.at EXCEPT ![a] = "answered"] /\ en'.seen = f /\ en'.enrollments = m
      /\ en'.codes = en.codes /\ en'.rotation = en.rotation /\ en'.rotations = en.rotations
      /\ en'.code = en.code /\ en'.serial = en.serial /\ en'.known = en.known
      /\ en'.issued = en.issued /\ en'.overlap = en.overlap
      /\ EnrollTypeOK'
  BY <1>1, MoveStep, Zenon DEF Stages
<1>3. /\ en'.at[a] = "answered" /\ \A b \in Actor : b # a => en'.at[b] = en.at[b]
      /\ \A b \in Actor : b # a => en'.seen[b] = en.seen[b]
  BY <1>1, <1>2, Fields
<1>4. \A b \in Handler : b # a /\ en.at[b] \in Editing => en'.enrollments = b
  BY <1>1, <1>2, EnrollAssumption DEF EnrollInv, MutexInv, Editing
<1>5. MutexInv'
  BY <1>2, <1>3, <1>4 DEF EnrollInv, MutexInv, Editing, Actor
<1>6. SerialInv'
  BY <1>2, <1>3 DEF EnrollInv, SerialInv
<1>7. CopyInv'
  BY <1>2, <1>3 DEF EnrollInv, CopyInv, Editing
<1>8. SpendInv'
  BY <1>2, <1>3 DEF EnrollInv, SpendInv
<1>9. AnsweredIsCurrent'
  BY <1>2, <1>3 DEF EnrollInv, AnsweredIsCurrent
<1> QED BY <1>2, <1>5, <1>6, <1>7, <1>8, <1>9 DEF EnrollInv

\* The certificate is signed: the use of the code becomes a credential.
LEMMA SignKeeps ==
  ASSUME EnrollTypeOK, EnrollInv, NEW a \in Actor, EnrollSigns(a)
  PROVE  EnrollTypeOK' /\ EnrollInv'
<1> DEFINE n == en.issued[en.code[a]] + 1
<1>1. n \in 0..MaxSerial /\ n # 0 /\ en.code[a] \in Code /\ en.at[a] = "spent"
  BY Fields, EnrollAssumption DEF EnrollSigns
<1>2. en' = [en EXCEPT !.at[a] = "signed", !.issued[en.code[a]] = n, !.serial[a] = n]
  BY Fields DEF EnrollSigns
<1> HIDE DEF n
<1>3. /\ en'.at = [en.at EXCEPT ![a] = "signed"] /\ en'.issued = [en.issued EXCEPT ![en.code[a]] = n]
      /\ en'.serial = [en.serial EXCEPT ![a] = n]
      /\ en'.codes = en.codes /\ en'.rotation = en.rotation /\ en'.rotations = en.rotations
      /\ en'.enrollments = en.enrollments /\ en'.code = en.code /\ en'.seen = en.seen
      /\ en'.known = en.known /\ en'.overlap = en.overlap
      /\ en'.expired = en.expired /\ en'.deaths = en.deaths
  BY <1>2 DEF EnrollTypeOK, EnrollState
<1>4. /\ [en.at EXCEPT ![a] = "signed"] \in [Actor -> Stages]
      /\ [en.issued EXCEPT ![en.code[a]] = n] \in [Code -> 0..MaxSerial]
      /\ [en.serial EXCEPT ![a] = n] \in [Actor -> 0..MaxSerial]
  BY <1>1, Fields DEF Stages
<1>5. EnrollTypeOK'
  BY <1>2, <1>3, <1>4, Fields, Zenon DEF EnrollTypeOK, EnrollState
<1>6. /\ en'.at[a] = "signed" /\ \A b \in Actor : b # a => en'.at[b] = en.at[b]
      /\ en'.serial[a] = n /\ \A b \in Actor : b # a => en'.serial[b] = en.serial[b]
      /\ en'.issued[en.code[a]] = n /\ \A c \in Code : c # en.code[a] => en'.issued[c] = en.issued[c]
  BY <1>3, <1>1, Fields
<1>7. MutexInv'
  BY <1>3, <1>6 DEF EnrollInv, MutexInv, Editing, Actor
<1>8. n = en.issued[en.code[a]] + 1 /\ en.issued[en.code[a]] \in Nat
  BY <1>1, Fields, EnrollAssumption DEF n
<1>9. SerialInv'
  <2> SUFFICES ASSUME NEW b \in Actor, en'.at[b] \in {"signed", "record", "recorded"}
               PROVE  en'.serial[b] \in 1 .. en'.issued[en'.code[b]]
    BY DEF SerialInv
  <2>1. CASE b = a
    BY <1>1, <1>3, <1>6, <1>8, <2>1
  <2>2. CASE b # a
    <3>1. en.serial[b] \in 1 .. en.issued[en.code[b]] /\ en.issued[en.code[b]] \in Nat
      BY <1>6, <2>2, Fields, EnrollAssumption DEF EnrollInv, SerialInv
    <3> QED BY <1>3, <1>6, <1>8, <2>2, <3>1, Fields
  <2> QED BY <2>1, <2>2
<1>10. CopyInv'
  BY <1>1, <1>3, <1>6 DEF EnrollInv, CopyInv, Editing
<1>11. SpendInv'
  <2> SUFFICES ASSUME ~en'.overlap PROVE SpendInv'
    BY DEF SpendInv
  <2>1. /\ ~en.overlap /\ en.codes[en.code[a]] = "used" /\ en.issued[en.code[a]] = 0
        /\ \A b \in Actor : en.at[b] = "spent" /\ en.code[b] = en.code[a] => b = a
    BY <1>1, <1>3 DEF EnrollInv, SpendInv
  <2>2. \A b \in Actor : en'.at[b] = "spent" =>
          en'.codes[en'.code[b]] = "used" /\ en'.issued[en'.code[b]] = 0
    BY <1>3, <1>6, <2>1, Fields DEF EnrollInv, SpendInv
  <2>3. \A b, d \in Actor : en'.at[b] = "spent" /\ en'.at[d] = "spent" /\ en'.code[b] = en'.code[d] => b = d
    BY <1>3, <1>6, <2>1 DEF EnrollInv, SpendInv
  <2>4. \A c \in Code : en'.issued[c] <= 1 /\ (en'.issued[c] # 0 => en'.codes[c] = "used")
    BY <1>3, <1>6, <1>8, <2>1 DEF EnrollInv, SpendInv
  <2> QED BY <2>2, <2>3, <2>4 DEF SpendInv
<1>12. AnsweredIsCurrent'
  BY <1>3, <1>6 DEF EnrollInv, AnsweredIsCurrent
<1> QED BY <1>5, <1>7, <1>9, <1>10, <1>11, <1>12, Zenon DEF EnrollInv

\* set_current loads the file of serials.
LEMMA SetCurrentKeeps ==
  ASSUME EnrollTypeOK, EnrollInv, NEW a \in Actor, SetCurrent(a)
  PROVE  EnrollTypeOK' /\ EnrollInv'
<1>1. /\ en'.at = [en.at EXCEPT ![a] = "record"] /\ en'.known = [en.known EXCEPT ![a] = en.rotation]
      /\ en'.rotations = Holds(a, en.rotations)
      /\ en'.codes = en.codes /\ en'.rotation = en.rotation /\ en'.issued = en.issued
      /\ en'.enrollments = en.enrollments /\ en'.code = en.code /\ en'.seen = en.seen
      /\ en'.serial = en.serial /\ en'.expired = en.expired /\ en'.deaths = en.deaths
  BY DEF SetCurrent, EnrollTypeOK, EnrollState
<1>2. en'.overlap = (en.overlap \/ Across(a, {"record"}))
  BY DEF SetCurrent, EnrollTypeOK, EnrollState
<1>3. /\ [en.at EXCEPT ![a] = "record"] \in [Actor -> Stages]
      /\ [en.known EXCEPT ![a] = en.rotation] \in [Actor -> [Code -> 0..MaxSerial]]
      /\ Holds(a, en.rotations) \in Handler \cup {Unheld}
  BY Fields DEF Stages, Holds
<1>4. Across(a, {"record"}) \in BOOLEAN
  BY DEF Across
<1>5. EnrollTypeOK'
  BY <1>1, <1>2, <1>3, <1>4, Fields, Zenon DEF SetCurrent, EnrollTypeOK, EnrollState
<1>6. ~en'.overlap => ~en.overlap /\ ~Across(a, {"record"})
  BY <1>2, Zenon
<1>7. en.at[a] = "signed" /\ (a \in Handler => en.rotations = Unheld)
  BY DEF SetCurrent, Enters
<1>8. /\ en'.at[a] = "record" /\ \A b \in Actor : b # a => en'.at[b] = en.at[b]
      /\ en'.known[a] = en.rotation /\ \A b \in Actor : b # a => en'.known[b] = en.known[b]
  BY <1>1, Fields
<1>9. ASSUME ~en'.overlap, NEW b \in Actor, b # a PROVE en.at[b] # "record"
  BY <1>6, <1>7, <1>9, AloneOnSerials, Zenon
<1>10. MutexInv'
  BY <1>1, <1>7, <1>8, EnrollAssumption DEF EnrollInv, MutexInv, Holds, Editing, Actor
<1>11. SerialInv'
  BY <1>1, <1>7, <1>8 DEF EnrollInv, SerialInv
<1>12. CopyInv'
  BY <1>1, <1>6, <1>8, <1>9 DEF EnrollInv, CopyInv, Editing
<1>13. SpendInv'
  BY <1>1, <1>6, <1>8 DEF EnrollInv, SpendInv
<1>14. AnsweredIsCurrent'
  BY <1>1, <1>6, <1>8 DEF EnrollInv, AnsweredIsCurrent
<1> QED BY <1>5, <1>10, <1>11, <1>12, <1>13, <1>14, Zenon DEF EnrollInv

\* set_current saves it with the new serial.
LEMMA SetCurrentSaveKeeps ==
  ASSUME EnrollTypeOK, EnrollInv, NEW a \in Actor, SetCurrentSaves(a)
  PROVE  EnrollTypeOK' /\ EnrollInv'
<1>1. /\ en'.at = [en.at EXCEPT ![a] = "recorded"] /\ en'.known = [en.known EXCEPT ![a] = None0]
      /\ en'.rotations = Freed(a, en.rotations)
      /\ en'.rotation = [en.known[a] EXCEPT ![en.code[a]] = en.serial[a]]
      /\ en'.codes = en.codes /\ en'.issued = en.issued
      /\ en'.enrollments = en.enrollments /\ en'.code = en.code /\ en'.seen = en.seen
      /\ en'.serial = en.serial /\ en'.expired = en.expired /\ en'.deaths = en.deaths
  BY DEF SetCurrentSaves, EnrollTypeOK, EnrollState
<1>2. en'.overlap = (en.overlap \/ Across(a, {"record"}))
  BY DEF SetCurrentSaves, EnrollTypeOK, EnrollState
<1>3. /\ [en.at EXCEPT ![a] = "recorded"] \in [Actor -> Stages]
      /\ [en.known EXCEPT ![a] = None0] \in [Actor -> [Code -> 0..MaxSerial]]
      /\ Freed(a, en.rotations) \in Handler \cup {Unheld}
      /\ [en.known[a] EXCEPT ![en.code[a]] = en.serial[a]] \in [Code -> 0..MaxSerial]
  BY Fields, EnrollAssumption DEF Stages, Freed, None0
<1>4. Across(a, {"record"}) \in BOOLEAN
  BY DEF Across
<1>5. EnrollTypeOK'
  BY <1>1, <1>2, <1>3, <1>4, Fields, Zenon DEF SetCurrentSaves, EnrollTypeOK, EnrollState
<1>6. ~en'.overlap => ~en.overlap /\ ~Across(a, {"record"})
  BY <1>2, Zenon
<1>7. en.at[a] = "record" /\ (a \in Handler => en.rotations = a)
  BY DEF SetCurrentSaves, EnrollInv, MutexInv
<1>8. /\ en'.at[a] = "recorded" /\ \A b \in Actor : b # a => en'.at[b] = en.at[b]
      /\ \A b \in Actor : b # a => en'.known[b] = en.known[b]
      /\ en.code[a] \in Code /\ en'.rotation[en.code[a]] = en.serial[a]
      /\ \A c \in Code : c # en.code[a] => en'.rotation[c] = en.known[a][c]
  BY <1>1, Fields
<1>9. ASSUME ~en'.overlap, NEW b \in Actor, b # a PROVE en.at[b] # "record"
  BY <1>6, <1>7, <1>9, AloneOnSerials, Zenon
<1>10. MutexInv'
  BY <1>1, <1>7, <1>8, EnrollAssumption DEF EnrollInv, MutexInv, Freed, Editing, Actor
<1>11. SerialInv'
  BY <1>1, <1>7, <1>8 DEF EnrollInv, SerialInv
<1>12. CopyInv'
  BY <1>1, <1>6, <1>8, <1>9 DEF EnrollInv, CopyInv, Editing
<1>13. SpendInv'
  BY <1>1, <1>6, <1>8 DEF EnrollInv, SpendInv
<1>14. AnsweredIsCurrent'
  <2> SUFFICES ASSUME NEW b \in Actor, en'.at[b] = "recorded", ~en'.overlap
               PROVE  en'.rotation[en'.code[b]] >= en'.serial[b]
    BY DEF AnsweredIsCurrent
  <2>1. ~en.overlap /\ en.known[a] = en.rotation
    BY <1>6, <1>7 DEF EnrollInv, CopyInv
  <2>2. en.serial[a] \in 1 .. en.issued[en.code[a]] /\ en.issued[en.code[a]] \in Nat
    BY <1>7, <1>8, Fields, EnrollAssumption DEF EnrollInv, SerialInv
  <2>3. CASE en.code[b] = en.code[a]
    <3>1. en.serial[b] \in 1 .. en.issued[en.code[b]]
      BY <1>7, <1>8 DEF EnrollInv, SerialInv
    <3>2. en.issued[en.code[a]] <= 1
      BY <1>8, <2>1 DEF EnrollInv, SpendInv
    <3> QED BY <1>1, <1>8, <2>2, <2>3, <3>1, <3>2
  <2>4. CASE en.code[b] # en.code[a]
    <3>1. en.rotation[en.code[b]] >= en.serial[b]
      BY <1>8, <2>1, <2>4 DEF EnrollInv, AnsweredIsCurrent
    <3> QED BY <1>1, <1>8, <2>1, <2>4, <3>1, Fields
  <2> QED BY <2>3, <2>4
<1> QED BY <1>5, <1>10, <1>11, <1>12, <1>13, <1>14, Zenon DEF EnrollInv

\* A process dies: its actors keep nothing, the files stay.
LEMMA DeathKeeps ==
  ASSUME EnrollTypeOK, EnrollInv, ProcessDies
  PROVE  EnrollTypeOK' /\ EnrollInv'
<1>1. PICK dead \in {Handler} \cup {{a} : a \in Cli} : en' = Rest(dead)
  BY DEF ProcessDies
<1>2. en.deaths + 1 \in 0..MaxEnrollDeath
  BY Fields, EnrollAssumption DEF ProcessDies
<1>3. /\ en'.at = [a \in Actor |-> IF a \in dead /\ en.at[a] # "idle" THEN "answered" ELSE en.at[a]]
      /\ en'.seen = [a \in Actor |-> IF a \in dead THEN Blank ELSE en.seen[a]]
      /\ en'.known = [a \in Actor |-> IF a \in dead THEN None0 ELSE en.known[a]]
      /\ en'.enrollments = (IF en.enrollments \in dead THEN Unheld ELSE en.enrollments)
      /\ en'.rotations = (IF en.rotations \in dead THEN Unheld ELSE en.rotations)
      /\ en'.deaths = en.deaths + 1
      /\ en'.codes = en.codes /\ en'.issued = en.issued /\ en'.rotation = en.rotation
      /\ en'.code = en.code /\ en'.serial = en.serial /\ en'.expired = en.expired
      /\ en'.overlap = en.overlap
  BY <1>1 DEF Rest, EnrollTypeOK, EnrollState
<1>4. /\ en'.at \in [Actor -> Stages] /\ en'.seen \in [Actor -> [Code -> EnrollmentRecord]]
      /\ en'.known \in [Actor -> [Code -> 0..MaxSerial]]
      /\ en'.enrollments \in Handler \cup {Unheld} /\ en'.rotations \in Handler \cup {Unheld}
  BY <1>3, Fields, EnrollAssumption DEF Stages, Blank, None0, EnrollmentRecord
<1>5. EnrollTypeOK'
  BY <1>1, <1>2, <1>3, <1>4, Fields, Zenon DEF Rest, EnrollTypeOK, EnrollState
<1>6. \A a \in Actor :
        \/ en'.at[a] \in {"idle", "answered"}
        \/ en'.at[a] = en.at[a] /\ a \notin dead /\ en'.seen[a] = en.seen[a] /\ en'.known[a] = en.known[a]
  BY <1>3
<1>7. MutexInv'
  BY <1>3, <1>6 DEF EnrollInv, MutexInv, Editing, Actor
<1>8. SerialInv'
  BY <1>3, <1>6 DEF EnrollInv, SerialInv
<1>9. CopyInv'
  BY <1>3, <1>6 DEF EnrollInv, CopyInv, Editing
<1>10. SpendInv'
  BY <1>3, <1>6 DEF EnrollInv, SpendInv
<1>11. AnsweredIsCurrent'
  BY <1>3, <1>6 DEF EnrollInv, AnsweredIsCurrent
<1> QED BY <1>5, <1>7, <1>8, <1>9, <1>10, <1>11, Zenon DEF EnrollInv

LEMMA ExpiryKeeps ==
  ASSUME EnrollTypeOK, EnrollInv, NEW c \in Code, CodeExpires(c)
  PROVE  EnrollTypeOK' /\ EnrollInv'
<1>1. /\ en'.at = en.at /\ en'.seen = en.seen /\ en'.known = en.known
      /\ en'.enrollments = en.enrollments /\ en'.rotations = en.rotations
      /\ en'.codes = en.codes /\ en'.issued = en.issued /\ en'.rotation = en.rotation
      /\ en'.code = en.code /\ en'.serial = en.serial /\ en'.overlap = en.overlap
      /\ EnrollTypeOK'
  BY Zenon DEF CodeExpires, EnrollTypeOK, EnrollState
<1> QED BY <1>1 DEF EnrollInv, MutexInv, SerialInv, CopyInv, SpendInv, AnsweredIsCurrent

LEMMA EnrollStep ==
  ASSUME EnrollTypeOK, EnrollInv, [EnrollNext]_en
  PROVE  EnrollTypeOK' /\ EnrollInv'
<1>1. ASSUME NEW a \in Actor, NEW c \in Code, Create(a, c) PROVE EnrollTypeOK' /\ EnrollInv'
  BY <1>1, LoadKeeps, Zenon DEF Create, Editing
<1>2. ASSUME NEW a \in Actor, NEW c \in Code, Consume(a, c) PROVE EnrollTypeOK' /\ EnrollInv'
  <2>1. "consume" \in Editing /\ "consume" # "create"
    BY DEF Editing
  <2> QED BY <1>2, <2>1, LoadKeeps, Zenon DEF Consume
<1>3. ASSUME NEW a \in Actor, CreateSaves(a) PROVE EnrollTypeOK' /\ EnrollInv'
  BY <1>3, SaveKeeps, Zenon DEF CreateSaves, Editing
<1>4. ASSUME NEW a \in Actor, ConsumeSaves(a) PROVE EnrollTypeOK' /\ EnrollInv'
  BY <1>4, SaveKeeps, Zenon DEF ConsumeSaves, Refuses, Editing
<1>5. CASE UNCHANGED en
  BY <1>5, Zenon
     DEF EnrollTypeOK, EnrollInv, MutexInv, SerialInv, CopyInv, SpendInv, AnsweredIsCurrent
<1> QED
  BY <1>1, <1>2, <1>3, <1>4, <1>5, MoveKeeps, SignKeeps, SetCurrentKeeps, SetCurrentSaveKeeps,
     DeathKeeps, ExpiryKeeps, Zenon DEF EnrollNext

LEMMA EnrollStarts == EnrollInit => EnrollTypeOK /\ EnrollInv
<1> SUFFICES ASSUME EnrollInit PROVE EnrollTypeOK /\ EnrollInv
  OBVIOUS
<1>1. AnyCode \in Code
  BY EnrollAssumption, Zenon DEF AnyCode
<1>2. EnrollTypeOK
  BY <1>1, EnrollAssumption
     DEF EnrollInit, EnrollStart, EnrollTypeOK, EnrollState, Blank, None0, Stages,
         EnrollmentRecord
<1>3. /\ \A a \in Actor : en.at[a] = "idle"
      /\ \A c \in Code : en.issued[c] = 0
  BY DEF EnrollInit, EnrollStart, None0
<1> QED
  BY <1>2, <1>3
     DEF EnrollInv, MutexInv, SerialInv, CopyInv, SpendInv, AnsweredIsCurrent, Editing, Actor

\* A code yields at most one credential, and an answered credential is the
\* current one of its node, for any number of requests and command-line
\* processes, any deaths between their steps and any expiry, as long as no two
\* processes were between load_locked and save_locked of a file at once.
THEOREM Enrollment == EnrollSpec => []EnrollmentSound
<1>1. EnrollInv => EnrollmentSound
  BY DEF EnrollInv, SpendInv, UsedOnce, EnrollmentSound
<1> QED BY <1>1, EnrollStarts, EnrollStep, PTL DEF EnrollSpec

(* ---------------------- The renewal of credentials ----------------------- *)

NodeAts == {"run", "ask", "got", "stored", "confirm", "wait", "exit", "dead"}
PendingRecord == [new : Nat \cup {Unknown}, old : Nat \cup {Unknown}, lapsed : BOOLEAN]
ConfirmRecord ==
    [at : {"idle", "rotated", "loaded"}, stem : Principal \cup {Unknown},
     old : Nat \cup {Unknown}, list : DenyList]

\* Serials the registrar has retired, or is about to: on the list, on a copy a
\* confirm handler loaded, or in the hands of one.
Retired(p, k) ==
    \/ <<p, k>> \in rn.list.serials
    \/ \E m \in Node : \/ <<p, k>> \in rn.conf[m].list.serials
                       \/ rn.conf[m].at # "idle" /\ rn.conf[m].stem = p /\ rn.conf[m].old = k

\* A serial the registrar retired by itself was issued before the leaf in use
\* and before the one a node is about to use.
RetiredInv ==
    rn.revokes = 0 => \A p \in Principal, k \in Nat : Retired(p, k) =>
        /\ k <= rn.issued[p]
        /\ rn.active[p] # 0 => k < rn.active[p]
        /\ \A n \in Node : rn.at[n] \in {"got", "stored"} /\ Stem(n) = p => k < rn.got[n]

\* A rotation leads from an older leaf to a newer one, and both were issued.
LeafInv ==
    \A p \in Principal :
        /\ rn.active[p] <= rn.issued[p]
        /\ rn.pending[p] # NoPending => /\ rn.pending[p].old \in Nat /\ rn.pending[p].new \in Nat
                                        /\ rn.pending[p].old < rn.pending[p].new
                                        /\ rn.pending[p].new <= rn.issued[p]

\* A node works on one of its own stems, and has stored what it will select.
PassInv ==
    \A n \in Node :
        /\ rn.pos[n] \in 1 .. Len(Stems[n])
        /\ rn.at[n] \in {"got", "stored"} => rn.got[n] <= rn.issued[Stem(n)]
        /\ rn.at[n] = "stored" => rn.got[n] \in rn.disk[Stem(n)]
        /\ rn.conf[n].at # "idle" => rn.conf[n].stem \in Principal /\ rn.conf[n].old \in Nat

RenewInv == RenewalTypeOK /\ SwitchIsWhole /\ LeafInv /\ PassInv /\ RetiredInv

\* What RevokedIsShed says of one step.
ShedStep ==
    \A n \in Node : rn.at[n] = "exit" /\ rn'.at[n] = "run" =>
        \A p \in Of(n) : <<p, rn'.active[p]>> \notin rn.crl[n].serials

RenewStepOK == RenewInv' /\ ShedStep

\* No two nodes share a stem.
LEMMA StemsOf ==
    ASSUME NEW n \in Node
    PROVE  /\ Len(Stems[n]) \in Nat /\ Len(Stems[n]) >= 1
           /\ \A i \in 1 .. Len(Stems[n]) :
                 /\ Stems[n][i] \in Principal
                 /\ \A m \in Node : \A j \in 1 .. Len(Stems[m]) :
                       Stems[m][j] = Stems[n][i] => m = n
<1>1. Stems[n] \in Seq(Principal) /\ Stems[n] # << >>
  BY RenewalAssumption
<1>2. \A m \in Node : DOMAIN Stems[m] = 1 .. Len(Stems[m])
  BY RenewalAssumption
<1>3. ASSUME NEW i \in 1 .. Len(Stems[n]), NEW m \in Node, NEW j \in 1 .. Len(Stems[m]),
             Stems[m][j] = Stems[n][i]
      PROVE  m = n
  <2>1. Stems[n][i] \in Of(n) /\ Stems[m][j] \in Of(m)
    BY <1>2 DEF Of
  <2> QED BY <1>3, <2>1, RenewalAssumption
<1>4. Len(Stems[n]) \in Nat /\ Len(Stems[n]) >= 1 /\ \A i \in 1 .. Len(Stems[n]) : Stems[n][i] \in Principal
  BY <1>1
<1> QED BY <1>3, <1>4

LEMMA StemIs ==
    ASSUME PassInv, NEW n \in Node
    PROVE  /\ Stem(n) \in Principal
           /\ \A m \in Node : Stem(m) = Stem(n) => m = n
BY StemsOf DEF PassInv, Stem

LEMMA RenewTypes ==
    RenewalTypeOK <=>
        rn \in [current : [Principal -> Nat \cup {Unknown}],
                pending : [Principal -> PendingRecord], list : DenyList,
                conf : [Node -> ConfirmRecord], issued : [Principal -> Nat],
                at : [Node -> NodeAts], pos : [Node -> Nat], got : [Node -> Nat],
                active : [Principal -> Nat], disk : [Principal -> SUBSET Nat],
                phase : [Principal -> {"fresh", "due", "expired"}],
                boot : [Principal -> BOOLEAN], crl : [Node -> DenyList],
                losses : Nat, revokes : Nat]
BY DEF RenewalTypeOK, RenewalState, PendingRecord, ConfirmRecord, NodeAts

LEMMA PassStartsStep == ASSUME RenewInv, NEW n \in Node, PassStarts(n) PROVE RenewStepOK
<1>0. PassInv
  BY DEF RenewInv
<1>1. RenewalTypeOK'
  BY <1>0, StemIs, StemsOf, Zenon DEF RenewInv, RenewalTypeOK, RenewalState, PassInv, PassStarts
<1>2. SwitchIsWhole'
  BY <1>0, StemIs DEF RenewInv, RenewalTypeOK, RenewalState, SwitchIsWhole, PassStarts
<1>3. LeafInv'
  BY <1>0, StemIs DEF RenewInv, RenewalTypeOK, RenewalState, LeafInv, PassStarts
<1>4. PassInv'
  BY <1>0, StemIs, StemsOf
     DEF RenewInv, RenewalTypeOK, RenewalState, LeafInv, PassInv, Stem, PassStarts
<1>5. RetiredInv'
  BY <1>0, StemIs
     DEF RenewInv, RenewalTypeOK, RenewalState, RetiredInv, Retired, Stem, PassStarts
<1>6. ShedStep
  BY DEF RenewInv, RenewalTypeOK, RenewalState, ShedStep, PassStarts
<1> QED BY <1>1, <1>2, <1>3, <1>4, <1>5, <1>6 DEF RenewStepOK, RenewInv

LEMMA RenewRefusedStep == ASSUME RenewInv, NEW n \in Node, RenewRefused(n) PROVE RenewStepOK
<1>0. PassInv
  BY DEF RenewInv
<1>a. rn.losses + 1 \in Nat /\ rn.losses \in Nat
  BY DEF RenewInv, RenewalTypeOK, RenewalState
<1>1. RenewalTypeOK'
  BY <1>a, Zenon DEF RenewInv, RenewalTypeOK, RenewalState, RenewRefused
<1>2. SwitchIsWhole'
  BY <1>0, StemIs
     DEF RenewInv, RenewalTypeOK, RenewalState, SwitchIsWhole, RenewRefused, CanLose
<1>3. LeafInv'
  BY <1>0, StemIs DEF RenewInv, RenewalTypeOK, RenewalState, LeafInv, RenewRefused, CanLose
<1>4. PassInv'
  BY <1>0, StemIs, StemsOf
     DEF RenewInv, RenewalTypeOK, RenewalState, LeafInv, PassInv, Stem, RenewRefused, CanLose
<1>5. RetiredInv'
  BY <1>0, StemIs
     DEF RenewInv, RenewalTypeOK, RenewalState, RetiredInv, Retired, Stem, RenewRefused, CanLose
<1>6. ShedStep
  BY DEF RenewInv, RenewalTypeOK, RenewalState, ShedStep, RenewRefused, CanLose
<1> QED BY <1>1, <1>2, <1>3, <1>4, <1>5, <1>6 DEF RenewStepOK, RenewInv

LEMMA RenewIssuedStep == ASSUME RenewInv, NEW n \in Node, RenewIssued(n) PROVE RenewStepOK
<1> DEFINE p == Stem(n)
           k == rn.issued[p] + 1
<1>0. PassInv /\ p \in Principal /\ \A m \in Node : Stem(m) = p => m = n
  BY StemIs DEF RenewInv
<1>a. PICK heard \in BOOLEAN :
         rn' = [rn EXCEPT
                    !.issued[p] = k,
                    !.pending[p] = [new |-> k, old |-> rn.active[p], lapsed |-> FALSE],
                    !.at[n] = IF heard THEN "got" ELSE "run",
                    !.got[n] = IF heard THEN k ELSE @,
                    !.losses = IF heard THEN @ ELSE @ + 1]
  BY Zenon DEF RenewIssued
<1> DEFINE is == [rn.issued EXCEPT ![p] = k]
           pe == [rn.pending EXCEPT ![p] = [new |-> k, old |-> rn.active[p], lapsed |-> FALSE]]
           a == [rn.at EXCEPT ![n] = IF heard THEN "got" ELSE "run"]
           g == [rn.got EXCEPT ![n] = IF heard THEN k ELSE rn.got[n]]
           l == IF heard THEN rn.losses ELSE rn.losses + 1
<1>b. rn' = [rn EXCEPT !.issued = is, !.pending = pe, !.at = a, !.got = g, !.losses = l]
  BY <1>a DEF RenewInv, RenewalTypeOK, RenewalState, NodeAts, PendingRecord, ConfirmRecord
<1>c. rn.issued[p] \in Nat /\ rn.active[p] \in Nat /\ rn.losses \in Nat /\ k \in Nat /\ l \in Nat
  BY <1>0 DEF RenewInv, RenewalTypeOK, RenewalState, NodeAts, PendingRecord, ConfirmRecord
<1>d. is \in [Principal -> Nat] /\ g \in [Node -> Nat]
  BY <1>c, Zenon
     DEF RenewInv, RenewalTypeOK, RenewalState, NodeAts, PendingRecord, ConfirmRecord
<1>e. pe \in [Principal -> PendingRecord]
  BY <1>c, Zenon
     DEF RenewInv, RenewalTypeOK, RenewalState, NodeAts, PendingRecord, ConfirmRecord
<1>f. a \in [Node -> NodeAts]
  BY DEF RenewInv, RenewalTypeOK, RenewalState, NodeAts, PendingRecord, ConfirmRecord
<1>g. /\ \A m \in Node : m # n => a[m] = rn.at[m] /\ g[m] = rn.got[m]
      /\ a[n] \in {"got", "run"} /\ (a[n] = "got" => g[n] = k)
      /\ \A q \in Principal : q # p => is[q] = rn.issued[q]
      /\ is[p] = k
  BY <1>0 DEF RenewInv, RenewalTypeOK, RenewalState, NodeAts, PendingRecord, ConfirmRecord
<1>h. \A q \in Principal : rn.issued[q] <= is[q]
  BY <1>c, <1>g DEF RenewInv, RenewalTypeOK, RenewalState, NodeAts, PendingRecord, ConfirmRecord
<1> HIDE DEF is, pe, a, g, l
<1>1. RenewalTypeOK'
  BY <1>b, <1>c, <1>d, <1>e, <1>f, Zenon
     DEF RenewInv, RenewalTypeOK, RenewalState, NodeAts, PendingRecord, ConfirmRecord
<1>i. /\ rn'.issued = is /\ rn'.at = a /\ rn'.got = g
      /\ UNCHANGED <<rn.pos, rn.disk, rn.conf, rn.list, rn.revokes, rn.active, rn.crl>>
  BY <1>b DEF RenewInv, RenewalTypeOK, RenewalState, NodeAts, PendingRecord, ConfirmRecord
<1>2. SwitchIsWhole'
  BY <1>i DEF RenewInv, SwitchIsWhole
<1>3. LeafInv'
  BY <1>0, <1>a
     DEF RenewInv, RenewalTypeOK, RenewalState, NodeAts, PendingRecord, ConfirmRecord, LeafInv
<1>4. PassInv'
  <2>1. \A m \in Node : Stem(m)' = Stem(m)
    BY <1>i DEF Stem
  <2> SUFFICES ASSUME NEW m \in Node
               PROVE  /\ rn'.pos[m] \in 1 .. Len(Stems[m])
                      /\ a[m] \in {"got", "stored"} => g[m] <= is[Stem(m)]
                      /\ a[m] = "stored" => g[m] \in rn'.disk[Stem(m)]
                      /\ rn'.conf[m].at # "idle" =>
                            rn'.conf[m].stem \in Principal /\ rn'.conf[m].old \in Nat
    BY <1>i, <2>1 DEF PassInv
  <2>2. CASE m = n
    BY <1>0, <1>c, <1>g, <1>i, <2>2 DEF PassInv
  <2>3. CASE m # n
    BY <1>0, <1>g, <1>i, <2>3, StemIs DEF PassInv
  <2> QED BY <2>2, <2>3
<1>5. RetiredInv'
  <2> SUFFICES ASSUME rn.revokes = 0, NEW q \in Principal, NEW j \in Nat, Retired(q, j),
                      NEW m \in Node
               PROVE  /\ j <= is[q]
                      /\ rn.active[q] # 0 => j < rn.active[q]
                      /\ a[m] \in {"got", "stored"} /\ Stem(m) = q => j < g[m]
    BY <1>i DEF RetiredInv, Retired, Stem
  <2>1. /\ j <= rn.issued[q] /\ (rn.active[q] # 0 => j < rn.active[q])
        /\ rn.at[m] \in {"got", "stored"} /\ Stem(m) = q => j < rn.got[m]
    BY DEF RenewInv, RetiredInv
  <2>2. rn.issued[q] \in Nat /\ is[q] \in Nat
    BY <1>d DEF RenewInv, RenewalTypeOK, RenewalState, NodeAts, PendingRecord, ConfirmRecord
  <2>3. j <= is[q]
    BY <1>h, <2>1, <2>2
  <2>4. ASSUME a[m] \in {"got", "stored"}, Stem(m) = q PROVE j < g[m]
    <3>1. CASE m = n
      BY <1>c, <1>g, <2>1, <2>4, <3>1
    <3>2. CASE m # n
      BY <1>g, <2>1, <2>4, <3>2
    <3> QED BY <3>1, <3>2
  <2> QED BY <2>1, <2>3, <2>4
<1>6. ShedStep
  BY <1>a
     DEF RenewInv, RenewalTypeOK, RenewalState, NodeAts, PendingRecord, ConfirmRecord,
         ShedStep, RenewIssued
<1> QED BY <1>1, <1>2, <1>3, <1>4, <1>5, <1>6 DEF RenewStepOK, RenewInv

LEMMA SequencePersistedStep == ASSUME RenewInv, NEW n \in Node, SequencePersisted(n)
    PROVE RenewStepOK
<1>0. PassInv
  BY DEF RenewInv
<1>b. Stem(n) \in Principal
  BY <1>0, StemIs
<1>1. RenewalTypeOK'
  <2> DEFINE d == [rn.disk EXCEPT ![Stem(n)] = @ \cup {rn.got[n]}]
             a == [rn.at EXCEPT ![n] = "stored"]
  <2>1. d \in [Principal -> SUBSET Nat]
    BY <1>b DEF RenewInv, RenewalTypeOK, RenewalState, NodeAts, PendingRecord, ConfirmRecord
  <2>2. a \in [Node -> NodeAts]
    BY DEF RenewInv, RenewalTypeOK, RenewalState, NodeAts, PendingRecord, ConfirmRecord
  <2>3. rn' = [rn EXCEPT !.disk = d, !.at = a]
    BY DEF SequencePersisted, RenewInv, RenewalTypeOK, RenewalState
  <2> HIDE DEF d, a
  <2> QED BY <2>1, <2>2, <2>3, Zenon
     DEF RenewInv, RenewalTypeOK, RenewalState, NodeAts, PendingRecord, ConfirmRecord
<1>2. SwitchIsWhole'
  BY <1>0, StemIs
     DEF RenewInv, RenewalTypeOK, RenewalState, NodeAts, PendingRecord, ConfirmRecord,
         SwitchIsWhole, SequencePersisted
<1>3. LeafInv'
  BY <1>0, StemIs
     DEF RenewInv, RenewalTypeOK, RenewalState, NodeAts, PendingRecord, ConfirmRecord,
         LeafInv, SequencePersisted
<1>4. PassInv'
  BY <1>0, StemIs, StemsOf, Zenon
     DEF RenewInv, RenewalTypeOK, RenewalState, NodeAts, PendingRecord, ConfirmRecord,
         LeafInv, PassInv, Stem, SequencePersisted
<1>5. RetiredInv'
  BY <1>0, StemIs
     DEF RenewInv, RenewalTypeOK, RenewalState, NodeAts, PendingRecord, ConfirmRecord,
         RetiredInv, Retired, Stem, SequencePersisted
<1>6. ShedStep
  BY
     DEF RenewInv, RenewalTypeOK, RenewalState, NodeAts, PendingRecord, ConfirmRecord,
         ShedStep, SequencePersisted
<1> QED BY <1>1, <1>2, <1>3, <1>4, <1>5, <1>6 DEF RenewStepOK, RenewInv

LEMMA PointerWrittenStep == ASSUME RenewInv, NEW n \in Node, PointerWritten(n) PROVE RenewStepOK
<1> DEFINE p == Stem(n)
           ac == [rn.active EXCEPT ![p] = rn.got[n]]
           ph == [rn.phase EXCEPT ![p] = "fresh"]
           di == [rn.disk EXCEPT ![p] = prune_old_sequences(p, rn.got[n])]
           a == [rn.at EXCEPT ![n] = "confirm"]
           g == [rn.got EXCEPT ![n] = 0]
<1>0. PassInv /\ p \in Principal /\ \A m \in Node : Stem(m) = p => m = n
  BY StemIs DEF RenewInv
<1>b. rn' = [rn EXCEPT !.active = ac, !.phase = ph, !.disk = di, !.at = a, !.got = g]
  BY
     DEF RenewInv, RenewalTypeOK, RenewalState, NodeAts, PendingRecord, ConfirmRecord,
         PointerWritten
<1>c. /\ ac \in [Principal -> Nat] /\ g \in [Node -> Nat]
      /\ ph \in [Principal -> {"fresh", "due", "expired"}]
  BY <1>0 DEF RenewInv, RenewalTypeOK, RenewalState, NodeAts, PendingRecord, ConfirmRecord
<1>d. di \in [Principal -> SUBSET Nat]
  BY <1>0
     DEF RenewInv, RenewalTypeOK, RenewalState, NodeAts, PendingRecord, ConfirmRecord,
         prune_old_sequences
<1>e. a \in [Node -> NodeAts]
  BY DEF RenewInv, RenewalTypeOK, RenewalState, NodeAts, PendingRecord, ConfirmRecord
<1>f. /\ rn.at[n] = "stored" /\ rn.got[n] <= rn.issued[p]
      /\ ac[p] = rn.got[n] /\ rn.got[n] \in di[p]
      /\ \A q \in Principal : q # p => ac[q] = rn.active[q] /\ di[q] = rn.disk[q]
      /\ a[n] = "confirm" /\ \A m \in Node : m # n => a[m] = rn.at[m] /\ g[m] = rn.got[m]
  BY <1>0
     DEF RenewInv, RenewalTypeOK, RenewalState, NodeAts, PendingRecord, ConfirmRecord,
         PassInv, PointerWritten, prune_old_sequences
<1> HIDE DEF ac, ph, di, a, g
<1>1. RenewalTypeOK'
  BY <1>b, <1>c, <1>d, <1>e, Zenon
     DEF RenewInv, RenewalTypeOK, RenewalState, NodeAts, PendingRecord, ConfirmRecord
<1>i. /\ rn'.active = ac /\ rn'.disk = di /\ rn'.at = a /\ rn'.got = g
      /\ UNCHANGED <<rn.pos, rn.issued, rn.pending, rn.conf, rn.list, rn.revokes, rn.crl>>
  BY <1>b DEF RenewInv, RenewalTypeOK, RenewalState, NodeAts, PendingRecord, ConfirmRecord
<1>2. SwitchIsWhole'
  BY <1>f, <1>i DEF RenewInv, SwitchIsWhole
<1>3. LeafInv'
  BY <1>f, <1>i DEF RenewInv, LeafInv
<1>4. PassInv'
  <2>1. \A m \in Node : Stem(m)' = Stem(m) /\ Stem(m) \in Principal
    BY <1>0, <1>i, StemIs DEF Stem
  <2> SUFFICES ASSUME NEW m \in Node
               PROVE  /\ rn'.pos[m] \in 1 .. Len(Stems[m])
                      /\ a[m] \in {"got", "stored"} => g[m] <= rn.issued[Stem(m)]
                      /\ a[m] = "stored" => g[m] \in di[Stem(m)]
                      /\ rn'.conf[m].at # "idle" =>
                            rn'.conf[m].stem \in Principal /\ rn'.conf[m].old \in Nat
    BY <1>i, <2>1 DEF PassInv
  <2>2. CASE m = n
    BY <1>0, <1>f, <1>i, <2>2 DEF PassInv
  <2>3. CASE m # n
    BY <1>0, <1>f, <1>i, <2>1, <2>3 DEF PassInv
  <2> QED BY <2>2, <2>3
<1>5. RetiredInv'
  <2> SUFFICES ASSUME rn.revokes = 0, NEW q \in Principal, NEW j \in Nat, Retired(q, j)
               PROVE  /\ j <= rn.issued[q]
                      /\ ac[q] # 0 => j < ac[q]
                      /\ \A m \in Node :
                            a[m] \in {"got", "stored"} /\ Stem(m) = q => j < g[m]
    BY <1>i DEF RetiredInv, Retired, Stem
  <2> QED BY <1>0, <1>f DEF RenewInv, RetiredInv
<1>6. ShedStep
  BY <1>f, <1>i DEF ShedStep
<1> QED BY <1>1, <1>2, <1>3, <1>4, <1>5, <1>6 DEF RenewStepOK, RenewInv

LEMMA ConfirmRotatesStep == ASSUME RenewInv, NEW n \in Node, ConfirmRotates(n) PROVE RenewStepOK
<1> DEFINE p == Stem(n)
           r == [at |-> "rotated", stem |-> p, old |-> rn.pending[p].old, list |-> NoList]
           cu == [rn.current EXCEPT ![p] = rn.pending[p].new]
           pe == [rn.pending EXCEPT ![p] = NoPending]
           co == [rn.conf EXCEPT ![n] = r]
           a == [rn.at EXCEPT ![n] = "wait"]
<1>0. PassInv /\ p \in Principal /\ \A m \in Node : Stem(m) = p => m = n
  BY StemIs DEF RenewInv
<1>b. rn' = [rn EXCEPT !.current = cu, !.pending = pe, !.conf = co, !.at = a]
  BY
     DEF RenewInv, RenewalTypeOK, RenewalState, NodeAts, PendingRecord, ConfirmRecord,
         ConfirmRotates
<1>c. /\ rn.at[n] = "confirm" /\ rn.pending[p] # NoPending
      /\ rn.pending[p].new = rn.active[p]
  BY DEF ConfirmRotates, confirm, confirm_control
<1>d. /\ rn.pending[p].old \in Nat /\ rn.pending[p].new \in Nat
      /\ rn.pending[p].old < rn.active[p] /\ rn.active[p] <= rn.issued[p]
      /\ rn.active[p] \in Nat /\ rn.issued[p] \in Nat
  BY <1>0, <1>c
     DEF RenewInv, RenewalTypeOK, RenewalState, NodeAts, PendingRecord, ConfirmRecord, LeafInv
<1>e. cu \in [Principal -> Nat \cup {Unknown}]
  BY <1>d, Zenon
     DEF RenewInv, RenewalTypeOK, RenewalState, NodeAts, PendingRecord, ConfirmRecord
<1>f. pe \in [Principal -> PendingRecord]
  BY Zenon
     DEF RenewInv, RenewalTypeOK, RenewalState, NodeAts, PendingRecord, ConfirmRecord, NoPending
<1>g. r \in ConfirmRecord
      /\ r.stem = p /\ r.old = rn.pending[p].old /\ r.list.serials = {}
  BY <1>0, <1>d DEF NoList, DenyList, ConfirmRecord
<1> HIDE DEF r
<1>h. co \in [Node -> ConfirmRecord]
      /\ co[n] = r /\ \A m \in Node : m # n => co[m] = rn.conf[m]
  BY <1>g DEF RenewInv, RenewalTypeOK, RenewalState, NodeAts, PendingRecord, ConfirmRecord
<1>i. a \in [Node -> NodeAts]
      /\ a[n] = "wait" /\ \A m \in Node : m # n => a[m] = rn.at[m]
  BY DEF RenewInv, RenewalTypeOK, RenewalState, NodeAts, PendingRecord, ConfirmRecord
<1>j. pe[p] = NoPending /\ \A q \in Principal : q # p => pe[q] = rn.pending[q]
  BY <1>0 DEF RenewInv, RenewalTypeOK, RenewalState, NodeAts, PendingRecord, ConfirmRecord
<1> HIDE DEF cu, pe, co, a
<1>1. RenewalTypeOK'
  BY <1>b, <1>e, <1>f, <1>h, <1>i, Zenon
     DEF RenewInv, RenewalTypeOK, RenewalState, NodeAts, PendingRecord, ConfirmRecord
<1>k. /\ rn'.pending = pe /\ rn'.conf = co /\ rn'.at = a
      /\ UNCHANGED <<rn.pos, rn.got, rn.issued, rn.active, rn.disk, rn.list, rn.revokes,
                     rn.crl>>
  BY <1>b DEF RenewInv, RenewalTypeOK, RenewalState, NodeAts, PendingRecord, ConfirmRecord
<1>2. SwitchIsWhole'
  BY <1>k DEF RenewInv, SwitchIsWhole
<1>3. LeafInv'
  BY <1>j, <1>k DEF RenewInv, LeafInv
<1>4. PassInv'
  <2>1. \A m \in Node : Stem(m)' = Stem(m)
    BY <1>k DEF Stem
  <2> SUFFICES ASSUME NEW m \in Node
               PROVE  /\ rn'.pos[m] \in 1 .. Len(Stems[m])
                      /\ a[m] \in {"got", "stored"} => rn.got[m] <= rn.issued[Stem(m)]
                      /\ a[m] = "stored" => rn.got[m] \in rn.disk[Stem(m)]
                      /\ co[m].at # "idle" => co[m].stem \in Principal /\ co[m].old \in Nat
    BY <1>k, <2>1 DEF PassInv
  <2>2. CASE m = n
    BY <1>0, <1>d, <1>g, <1>h, <1>i, <1>k, <2>2 DEF PassInv
  <2>3. CASE m # n
    BY <1>0, <1>h, <1>i, <1>k, <2>3 DEF PassInv
  <2> QED BY <2>2, <2>3
<1>5. RetiredInv'
  <2> SUFFICES ASSUME rn.revokes = 0, NEW q \in Principal, NEW j \in Nat, Retired(q, j)'
               PROVE  /\ j <= rn.issued[q]
                      /\ rn.active[q] # 0 => j < rn.active[q]
                      /\ \A m \in Node :
                            a[m] \in {"got", "stored"} /\ Stem(m) = q => j < rn.got[m]
    BY <1>k DEF RetiredInv, Stem
  <2>1. CASE Retired(q, j)
    BY <1>i, <2>1 DEF RenewInv, RetiredInv
  <2>2. CASE q = p /\ j = rn.pending[p].old
    BY <1>0, <1>d, <1>i, <2>2
  <2>3. Retired(q, j) \/ (q = p /\ j = rn.pending[p].old)
    BY <1>g, <1>h, <1>k DEF Retired
  <2> QED BY <2>1, <2>2, <2>3
<1>6. ShedStep
  BY <1>i, <1>k DEF ShedStep
<1> QED BY <1>1, <1>2, <1>3, <1>4, <1>5, <1>6 DEF RenewStepOK, RenewInv

LEMMA ConfirmLostStep == ASSUME RenewInv, NEW n \in Node, ConfirmLost(n) PROVE RenewStepOK
<1>0. PassInv
  BY DEF RenewInv
<1>a. rn.losses + 1 \in Nat /\ rn.losses \in Nat
  BY DEF RenewInv, RenewalTypeOK, RenewalState
<1>1. RenewalTypeOK'
  BY <1>a, Zenon DEF RenewInv, RenewalTypeOK, RenewalState, ConfirmLost
<1>2. SwitchIsWhole'
  BY <1>0, StemIs DEF RenewInv, RenewalTypeOK, RenewalState, SwitchIsWhole, ConfirmLost, CanLose
<1>3. LeafInv'
  BY <1>0, StemIs DEF RenewInv, RenewalTypeOK, RenewalState, LeafInv, ConfirmLost, CanLose
<1>4. PassInv'
  BY <1>0, StemIs, StemsOf
     DEF RenewInv, RenewalTypeOK, RenewalState, LeafInv, PassInv, Stem, ConfirmLost, CanLose
<1>5. RetiredInv'
  BY <1>0, StemIs
     DEF RenewInv, RenewalTypeOK, RenewalState, RetiredInv, Retired, Stem, ConfirmLost, CanLose
<1>6. ShedStep
  BY DEF RenewInv, RenewalTypeOK, RenewalState, ShedStep, ConfirmLost, CanLose
<1> QED BY <1>1, <1>2, <1>3, <1>4, <1>5, <1>6 DEF RenewStepOK, RenewInv

LEMMA ConfirmLoadsStep == ASSUME RenewInv, NEW n \in Node, ConfirmLoads(n) PROVE RenewStepOK
<1>0. PassInv
  BY DEF RenewInv
<1>1. RenewalTypeOK'
  <2> DEFINE r == [rn.conf[n] EXCEPT !.at = "loaded", !.list = rn.list]
             co == [rn.conf EXCEPT ![n] = r]
  <2>a. rn.conf \in [Node -> ConfirmRecord] /\ rn.list \in DenyList
    BY RenewTypes DEF RenewInv
  <2>b. r \in ConfirmRecord
    BY <2>a, Zenon DEF ConfirmRecord
  <2>c. rn' = [rn EXCEPT !.conf = co]
    BY Zenon DEF ConfirmLoads, RenewInv, RenewalTypeOK, RenewalState
  <2> HIDE DEF r
  <2>1. co \in [Node -> ConfirmRecord]
    BY <2>a, <2>b
  <2> HIDE DEF co
  <2> QED BY <2>1, <2>c, RenewTypes, Zenon
     DEF RenewInv, RenewalTypeOK, RenewalState, NodeAts, PendingRecord, ConfirmRecord
<1>2. SwitchIsWhole'
  BY <1>0, StemIs
     DEF RenewInv, RenewalTypeOK, RenewalState, NodeAts, PendingRecord, ConfirmRecord,
         SwitchIsWhole, ConfirmLoads
<1>3. LeafInv'
  BY <1>0, StemIs
     DEF RenewInv, RenewalTypeOK, RenewalState, NodeAts, PendingRecord, ConfirmRecord,
         LeafInv, ConfirmLoads
<1>4. PassInv'
  BY <1>0, StemIs, StemsOf
     DEF RenewInv, RenewalTypeOK, RenewalState, NodeAts, PendingRecord, ConfirmRecord,
         LeafInv, PassInv, Stem, ConfirmLoads
<1>5. RetiredInv'
  BY <1>0, StemIs
     DEF RenewInv, RenewalTypeOK, RenewalState, NodeAts, PendingRecord, ConfirmRecord,
         RetiredInv, Retired, Stem, ConfirmLoads
<1>6. ShedStep
  BY
     DEF RenewInv, RenewalTypeOK, RenewalState, NodeAts, PendingRecord, ConfirmRecord,
         ShedStep, ConfirmLoads
<1> QED BY <1>1, <1>2, <1>3, <1>4, <1>5, <1>6 DEF RenewStepOK, RenewInv

LEMMA ConfirmSavesStep == ASSUME RenewInv, NEW n \in Node, ConfirmSaves(n) PROVE RenewStepOK
<1>0. PassInv
  BY DEF RenewInv
<1> DEFINE x == <<rn.conf[n].stem, rn.conf[n].old>>
           l == IF x \in rn.conf[n].list.serials THEN rn.list
                ELSE WithSerial(rn.conf[n].list, x)
           co == [rn.conf EXCEPT ![n] = NoConfirm]
           last == ~(rn.pos[n] < Len(Stems[n]))
           a == [rn.at EXCEPT ![n] = IF rn.at[n] # "wait" THEN @
                                     ELSE IF last THEN "exit" ELSE "ask"]
           po == [rn.pos EXCEPT ![n] = IF rn.at[n] # "wait" THEN @
                                       ELSE IF last THEN 1 ELSE rn.pos[n] + 1]
<1>a. rn.conf[n].stem \in Principal /\ rn.conf[n].old \in Nat /\ rn.conf[n].at = "loaded"
  BY <1>0 DEF PassInv, ConfirmSaves
<1>b. rn' = [rn EXCEPT !.list = l, !.conf = co, !.at = a, !.pos = po]
  <2>1. CASE rn.at[n] # "wait"
    <3>1. a = rn.at /\ po = rn.pos
      BY <2>1 DEF RenewInv, RenewalTypeOK, RenewalState
    <3>2. rn' = [rn EXCEPT !.list = l, !.conf = co]
      BY <2>1 DEF ConfirmSaves, RenewInv, RenewalTypeOK, RenewalState
    <3> HIDE DEF l, co, a, po
    <3> QED BY <3>1, <3>2, Zenon DEF RenewInv, RenewalTypeOK, RenewalState
  <2>2. CASE rn.at[n] = "wait" /\ ~last
    BY <2>2, Zenon DEF RenewInv, RenewalTypeOK, RenewalState, ConfirmSaves, NextStem
  <2>3. CASE rn.at[n] = "wait" /\ last
    BY <2>3, Zenon DEF RenewInv, RenewalTypeOK, RenewalState, ConfirmSaves, NextStem
  <2> QED BY <2>1, <2>2, <2>3
<1>c. rn.conf \in [Node -> ConfirmRecord] /\ rn.list \in DenyList
  BY RenewTypes DEF RenewInv
<1>d. rn.conf[n].list \in DenyList
  BY <1>c DEF ConfirmRecord
<1>e. l \in DenyList
  BY <1>a, <1>c, <1>d DEF DenyList, WithSerial
<1>f. co \in [Node -> ConfirmRecord] /\ co[n].at = "idle"
      /\ \A m \in Node : m # n => co[m] = rn.conf[m]
  BY <1>c DEF NoConfirm, NoList, DenyList, ConfirmRecord
<1>g. a \in [Node -> NodeAts] /\ \A m \in Node : m # n => a[m] = rn.at[m]
      /\ (a[n] = rn.at[n] \/ a[n] \in {"exit", "ask"})
  BY DEF RenewInv, RenewalTypeOK, RenewalState, NodeAts
<1>h. po \in [Node -> Nat] /\ po[n] \in 1 .. Len(Stems[n])
      /\ (rn.at[n] # "wait" => a[n] = rn.at[n] /\ po[n] = rn.pos[n])
      /\ \A m \in Node : m # n => po[m] = rn.pos[m]
  BY <1>0, StemsOf DEF RenewInv, RenewalTypeOK, RenewalState, PassInv
<1>i. rn.at[n] = "wait" => a[n] \in {"exit", "ask"}
  BY DEF RenewInv, RenewalTypeOK, RenewalState
<1> HIDE DEF l, co, a, po
<1>1. RenewalTypeOK'
  BY <1>b, <1>e, <1>f, <1>g, <1>h, Zenon
     DEF RenewInv, RenewalTypeOK, RenewalState, NodeAts, ConfirmRecord
<1>2. SwitchIsWhole'
  BY <1>0, StemIs
     DEF RenewInv, RenewalTypeOK, RenewalState, SwitchIsWhole, ConfirmSaves, NextStem,
         NoConfirm, NoList, WithSerial
<1>3. LeafInv'
  BY <1>0, StemIs
     DEF RenewInv, RenewalTypeOK, RenewalState, LeafInv, ConfirmSaves, NextStem, NoConfirm,
         NoList, WithSerial
<1>4. PassInv'
  <2>1. /\ rn'.conf = co /\ rn'.at = a /\ rn'.pos = po
        /\ UNCHANGED <<rn.got, rn.issued, rn.disk>>
    BY <1>b DEF RenewInv, RenewalTypeOK, RenewalState
  <2>2. \A m \in Node : /\ m # n => Stem(m)' = Stem(m)
                        /\ rn.at[m] # "wait" => Stem(m)' = Stem(m)
    BY <1>h, <2>1 DEF Stem
  <2> SUFFICES ASSUME NEW m \in Node
               PROVE  /\ po[m] \in 1 .. Len(Stems[m])
                      /\ a[m] \in {"got", "stored"} => rn.got[m] <= rn.issued[Stem(m)']
                      /\ a[m] = "stored" => rn.got[m] \in rn.disk[Stem(m)']
                      /\ co[m].at # "idle" => co[m].stem \in Principal /\ co[m].old \in Nat
    BY <2>1 DEF PassInv
  <2>3. CASE m = n
    BY <1>0, <1>f, <1>h, <1>i, <2>2, <2>3 DEF PassInv
  <2>4. CASE m # n
    BY <1>0, <1>f, <1>g, <1>h, <2>2, <2>4 DEF PassInv
  <2> QED BY <2>3, <2>4
<1>5. RetiredInv'
  BY <1>0, StemIs
     DEF RenewInv, RenewalTypeOK, RenewalState, RetiredInv, Retired, Stem, ConfirmSaves,
         NextStem, NoConfirm, NoList, WithSerial
<1>6. ShedStep
  BY
     DEF RenewInv, RenewalTypeOK, RenewalState, ShedStep, ConfirmSaves, NextStem, NoConfirm,
         NoList, WithSerial
<1> QED BY <1>1, <1>2, <1>3, <1>4, <1>5, <1>6 DEF RenewStepOK, RenewInv

LEMMA CrlRefreshedStep == ASSUME RenewInv, NEW n \in Node, CrlRefreshed(n) PROVE RenewStepOK
<1>0. PassInv
  BY DEF RenewInv
<1>1. RenewalTypeOK'
  BY <1>0, StemIs, StemsOf, Zenon
     DEF RenewInv, RenewalTypeOK, RenewalState, PassInv, CrlRefreshed
<1>2. SwitchIsWhole'
  BY <1>0, StemIs DEF RenewInv, RenewalTypeOK, RenewalState, SwitchIsWhole, CrlRefreshed
<1>3. LeafInv'
  BY <1>0, StemIs DEF RenewInv, RenewalTypeOK, RenewalState, LeafInv, CrlRefreshed
<1>4. PassInv'
  BY <1>0, StemIs, StemsOf
     DEF RenewInv, RenewalTypeOK, RenewalState, LeafInv, PassInv, Stem, CrlRefreshed
<1>5. RetiredInv'
  BY <1>0, StemIs
     DEF RenewInv, RenewalTypeOK, RenewalState, RetiredInv, Retired, Stem, CrlRefreshed
<1>6. ShedStep
  BY DEF RenewInv, RenewalTypeOK, RenewalState, ShedStep, CrlRefreshed
<1> QED BY <1>1, <1>2, <1>3, <1>4, <1>5, <1>6 DEF RenewStepOK, RenewInv

LEMMA CrlStaleStep == ASSUME RenewInv, NEW n \in Node, CrlStale(n) PROVE RenewStepOK
<1>0. PassInv
  BY DEF RenewInv
<1>a. rn.losses + 1 \in Nat /\ rn.losses \in Nat
  BY DEF RenewInv, RenewalTypeOK, RenewalState
<1>1. RenewalTypeOK'
  BY <1>a, Zenon DEF RenewInv, RenewalTypeOK, RenewalState, CrlStale
<1>2. SwitchIsWhole'
  BY <1>0, StemIs DEF RenewInv, RenewalTypeOK, RenewalState, SwitchIsWhole, CrlStale, CanLose
<1>3. LeafInv'
  BY <1>0, StemIs DEF RenewInv, RenewalTypeOK, RenewalState, LeafInv, CrlStale, CanLose
<1>4. PassInv'
  BY <1>0, StemIs, StemsOf
     DEF RenewInv, RenewalTypeOK, RenewalState, LeafInv, PassInv, Stem, CrlStale, CanLose
<1>5. RetiredInv'
  BY <1>0, StemIs
     DEF RenewInv, RenewalTypeOK, RenewalState, RetiredInv, Retired, Stem, CrlStale, CanLose
<1>6. ShedStep
  BY DEF RenewInv, RenewalTypeOK, RenewalState, ShedStep, CrlStale, CanLose
<1> QED BY <1>1, <1>2, <1>3, <1>4, <1>5, <1>6 DEF RenewStepOK, RenewInv

LEMMA NodeCrashesStep == ASSUME RenewInv, NEW n \in Node, NodeCrashes(n) PROVE RenewStepOK
<1>0. PassInv
  BY DEF RenewInv
<1>a. rn.losses + 1 \in Nat /\ rn.losses \in Nat
  BY DEF RenewInv, RenewalTypeOK, RenewalState
<1>1. RenewalTypeOK'
  BY <1>a, Zenon DEF RenewInv, RenewalTypeOK, RenewalState, NodeCrashes
<1>2. SwitchIsWhole'
  BY <1>0, StemIs DEF RenewInv, RenewalTypeOK, RenewalState, SwitchIsWhole, NodeCrashes, CanLose
<1>3. LeafInv'
  BY <1>0, StemIs DEF RenewInv, RenewalTypeOK, RenewalState, LeafInv, NodeCrashes, CanLose
<1>4. PassInv'
  BY <1>0, StemIs, StemsOf
     DEF RenewInv, RenewalTypeOK, RenewalState, LeafInv, PassInv, Stem, NodeCrashes, CanLose
<1>5. RetiredInv'
  BY <1>0, StemIs
     DEF RenewInv, RenewalTypeOK, RenewalState, RetiredInv, Retired, Stem, NodeCrashes, CanLose
<1>6. ShedStep
  BY DEF RenewInv, RenewalTypeOK, RenewalState, ShedStep, NodeCrashes, CanLose
<1> QED BY <1>1, <1>2, <1>3, <1>4, <1>5, <1>6 DEF RenewStepOK, RenewInv

LEMMA NodeStartsStep == ASSUME RenewInv, NEW n \in Node, NodeStarts(n) PROVE RenewStepOK
<1>0. PassInv /\ rn.at[n] = "exit"
  BY DEF RenewInv, NodeStarts
<1>a. ASSUME NEW s \in {"run", "dead"}, rn' = [rn EXCEPT !.at[n] = s],
             s = "run" => load_active(n)
      PROVE  RenewStepOK
  <2>1. RenewalTypeOK'
    BY <1>a, Zenon DEF RenewInv, RenewalTypeOK, RenewalState
  <2>2. /\ rn'.at[n] = s /\ \A m \in Node : m # n => rn'.at[m] = rn.at[m]
        /\ UNCHANGED <<rn.pending, rn.list, rn.conf, rn.issued, rn.pos, rn.got, rn.active,
                       rn.disk, rn.crl, rn.revokes>>
    BY <1>a DEF RenewInv, RenewalTypeOK, RenewalState
  <2>3. SwitchIsWhole' /\ LeafInv'
    BY <2>2 DEF RenewInv, SwitchIsWhole, LeafInv
  <2>4. PassInv' /\ RetiredInv'
    BY <2>2 DEF RenewInv, PassInv, RetiredInv, Retired, Stem
  <2>5. ShedStep
    BY <1>a, <2>2 DEF ShedStep, load_active, revoked_by_carried_crl
  <2> QED BY <2>1, <2>3, <2>4, <2>5 DEF RenewStepOK, RenewInv
<1> DEFINE a == [rn.at EXCEPT ![n] = "run"]
           ac == [p \in Principal |-> IF p \in Of(n) THEN 0 ELSE rn.active[p]]
           di == [p \in Principal |-> IF p \in Of(n) THEN {0} ELSE rn.disk[p]]
           ph == [p \in Principal |-> IF p \in Of(n) THEN "due" ELSE rn.phase[p]]
<1>b. ASSUME bootstrap_from(n),
             rn' = [rn EXCEPT !.at = a, !.active = ac, !.disk = di, !.phase = ph]
      PROVE  RenewStepOK
  <2>1. a \in [Node -> NodeAts] /\ a[n] = "run" /\ \A m \in Node : m # n => a[m] = rn.at[m]
    BY DEF RenewInv, RenewalTypeOK, RenewalState, NodeAts
  <2>2. ac \in [Principal -> Nat]
    BY DEF RenewInv, RenewalTypeOK, RenewalState
  <2>3. di \in [Principal -> SUBSET Nat]
    BY DEF RenewInv, RenewalTypeOK, RenewalState
  <2>4. ph \in [Principal -> {"fresh", "due", "expired"}]
    BY DEF RenewInv, RenewalTypeOK, RenewalState
  <2>5. \A p \in Principal : /\ p \in Of(n) => ac[p] = 0 /\ di[p] = {0}
                             /\ p \notin Of(n) => ac[p] = rn.active[p] /\ di[p] = rn.disk[p]
    OBVIOUS
  <2>6. Of(n) \subseteq Principal
    BY DEF Principal
  <2>7. \A m \in Node : Stem(m) \in Principal /\ (m # n => Stem(m) \notin Of(n))
    <3>1. ASSUME NEW m \in Node PROVE Stem(m) \in Of(m)
      <4>1. rn.pos[m] \in DOMAIN Stems[m]
        BY <1>0, RenewalAssumption DEF PassInv
      <4> QED BY <4>1 DEF Stem, Of
    <3> QED BY <1>0, <3>1, StemIs, RenewalAssumption
  <2> HIDE DEF a, ac, di, ph
  <2>8. RenewalTypeOK'
    BY <1>b, <2>1, <2>2, <2>3, <2>4, Zenon DEF RenewInv, RenewalTypeOK, RenewalState, NodeAts
  <2>9. /\ rn'.at = a /\ rn'.active = ac /\ rn'.disk = di
        /\ UNCHANGED <<rn.pending, rn.list, rn.conf, rn.issued, rn.pos, rn.got, rn.crl,
                       rn.revokes>>
    BY <1>b DEF RenewInv, RenewalTypeOK, RenewalState
  <2>10. SwitchIsWhole'
    BY <2>5, <2>9 DEF RenewInv, SwitchIsWhole
  <2>11. LeafInv'
    <3>1. \A p \in Principal : rn.issued[p] \in Nat
      BY DEF RenewInv, RenewalTypeOK, RenewalState
    <3> QED BY <2>5, <2>9, <3>1 DEF RenewInv, LeafInv
  <2>12. PassInv'
    <3>1. \A m \in Node : Stem(m)' = Stem(m)
      BY <2>9 DEF Stem
    <3> QED BY <1>0, <2>1, <2>5, <2>7, <2>9, <3>1 DEF PassInv
  <2>13. RetiredInv'
    <3> SUFFICES ASSUME rn.revokes = 0, NEW q \in Principal, NEW j \in Nat, Retired(q, j)
                 PROVE  /\ j <= rn.issued[q]
                        /\ ac[q] # 0 => j < ac[q]
                        /\ \A m \in Node :
                              a[m] \in {"got", "stored"} /\ Stem(m) = q => j < rn.got[m]
      BY <2>9 DEF RetiredInv, Retired, Stem
    <3> QED BY <2>1, <2>5 DEF RenewInv, RetiredInv
  <2>14. ShedStep
    BY <1>b, <2>1, <2>5, <2>6, <2>9 DEF ShedStep, bootstrap_from, revoked_by_carried_crl
  <2> QED BY <2>8, <2>10, <2>11, <2>12, <2>13, <2>14 DEF RenewStepOK, RenewInv
<1>c. CASE load_active(n)
  BY <1>a, <1>c DEF NodeStarts
<1>d. CASE ~load_active(n) /\ bootstrap_from(n)
  <2>1. rn' = [rn EXCEPT !.at = a, !.active = ac, !.disk = di, !.phase = ph]
    BY <1>d DEF NodeStarts, RenewInv, RenewalTypeOK, RenewalState
  <2> HIDE DEF a, ac, di, ph
  <2> QED BY <1>b, <1>d, <2>1
<1>e. CASE ~load_active(n) /\ ~bootstrap_from(n)
  BY <1>a, <1>e DEF NodeStarts
<1> QED BY <1>c, <1>d, <1>e

LEMMA PendingLapsesStep == ASSUME RenewInv, NEW p \in Principal, PendingLapses(p)
    PROVE RenewStepOK
<1>0. PassInv
  BY DEF RenewInv
<1>1. RenewalTypeOK'
  <2> DEFINE r == [rn.pending[p] EXCEPT !.lapsed = TRUE]
             pe == [rn.pending EXCEPT ![p] = r]
  <2>a. rn.pending \in [Principal -> PendingRecord]
    BY RenewTypes DEF RenewInv
  <2>b. r \in PendingRecord
    BY <2>a, Zenon DEF PendingRecord
  <2>c. rn' = [rn EXCEPT !.pending = pe]
    BY DEF PendingLapses, RenewInv, RenewalTypeOK, RenewalState
  <2> HIDE DEF r
  <2>1. pe \in [Principal -> PendingRecord]
    BY <2>a, <2>b
  <2> HIDE DEF pe
  <2> QED BY <2>1, <2>c, Zenon DEF RenewInv, RenewalTypeOK, RenewalState, PendingRecord
<1>2. SwitchIsWhole'
  BY <1>0, StemIs DEF RenewInv, RenewalTypeOK, RenewalState, SwitchIsWhole, PendingLapses
<1>3. LeafInv'
  BY <1>0, StemIs DEF RenewInv, RenewalTypeOK, RenewalState, LeafInv, PendingLapses
<1>4. PassInv'
  BY <1>0, StemIs, StemsOf
     DEF RenewInv, RenewalTypeOK, RenewalState, LeafInv, PassInv, Stem, PendingLapses
<1>5. RetiredInv'
  BY <1>0, StemIs
     DEF RenewInv, RenewalTypeOK, RenewalState, RetiredInv, Retired, Stem, PendingLapses
<1>6. ShedStep
  BY DEF RenewInv, RenewalTypeOK, RenewalState, ShedStep, PendingLapses
<1> QED BY <1>1, <1>2, <1>3, <1>4, <1>5, <1>6 DEF RenewStepOK, RenewInv

LEMMA LeafDueStep == ASSUME RenewInv, NEW p \in Principal, LeafDue(p) PROVE RenewStepOK
<1>0. PassInv
  BY DEF RenewInv
<1>1. RenewalTypeOK'
  BY <1>0, StemIs, StemsOf, Zenon DEF RenewInv, RenewalTypeOK, RenewalState, PassInv, LeafDue
<1>2. SwitchIsWhole'
  BY <1>0, StemIs DEF RenewInv, RenewalTypeOK, RenewalState, SwitchIsWhole, LeafDue
<1>3. LeafInv'
  BY <1>0, StemIs DEF RenewInv, RenewalTypeOK, RenewalState, LeafInv, LeafDue
<1>4. PassInv'
  BY <1>0, StemIs, StemsOf
     DEF RenewInv, RenewalTypeOK, RenewalState, LeafInv, PassInv, Stem, LeafDue
<1>5. RetiredInv'
  BY <1>0, StemIs DEF RenewInv, RenewalTypeOK, RenewalState, RetiredInv, Retired, Stem, LeafDue
<1>6. ShedStep
  BY DEF RenewInv, RenewalTypeOK, RenewalState, ShedStep, LeafDue
<1> QED BY <1>1, <1>2, <1>3, <1>4, <1>5, <1>6 DEF RenewStepOK, RenewInv

LEMMA LeafExpiresStep == ASSUME RenewInv, NEW p \in Principal, LeafExpires(p) PROVE RenewStepOK
<1>0. PassInv
  BY DEF RenewInv
<1>1. RenewalTypeOK'
  BY <1>0, StemIs, StemsOf, Zenon
     DEF RenewInv, RenewalTypeOK, RenewalState, PassInv, LeafExpires
<1>2. SwitchIsWhole'
  BY <1>0, StemIs DEF RenewInv, RenewalTypeOK, RenewalState, SwitchIsWhole, LeafExpires
<1>3. LeafInv'
  BY <1>0, StemIs DEF RenewInv, RenewalTypeOK, RenewalState, LeafInv, LeafExpires
<1>4. PassInv'
  BY <1>0, StemIs, StemsOf
     DEF RenewInv, RenewalTypeOK, RenewalState, LeafInv, PassInv, Stem, LeafExpires
<1>5. RetiredInv'
  BY <1>0, StemIs
     DEF RenewInv, RenewalTypeOK, RenewalState, RetiredInv, Retired, Stem, LeafExpires
<1>6. ShedStep
  BY DEF RenewInv, RenewalTypeOK, RenewalState, ShedStep, LeafExpires
<1> QED BY <1>1, <1>2, <1>3, <1>4, <1>5, <1>6 DEF RenewStepOK, RenewInv

LEMMA OperatorRevokesStep == ASSUME RenewInv, NEW p \in Principal, OperatorRevokes(p)
    PROVE RenewStepOK
<1>0. PassInv
  BY DEF RenewInv
<1>1. RenewalTypeOK'
  <2> DEFINE l == WithSerial(rn.list, <<p, rn.active[p]>>)
             r == rn.revokes + 1
  <2>1. l \in DenyList /\ r \in Nat
    BY DEF RenewInv, RenewalTypeOK, RenewalState, WithSerial, DenyList
  <2>2. rn' = [rn EXCEPT !.list = l, !.revokes = r]
    BY DEF OperatorRevokes
  <2> HIDE DEF l, r
  <2> QED BY <2>1, <2>2, Zenon DEF RenewInv, RenewalTypeOK, RenewalState
<1>2. SwitchIsWhole'
  BY <1>0, StemIs
     DEF RenewInv, RenewalTypeOK, RenewalState, SwitchIsWhole, OperatorRevokes, WithSerial,
         DenyList
<1>3. LeafInv'
  BY <1>0, StemIs
     DEF RenewInv, RenewalTypeOK, RenewalState, LeafInv, OperatorRevokes, WithSerial, DenyList
<1>4. PassInv'
  BY <1>0, StemIs, StemsOf
     DEF RenewInv, RenewalTypeOK, RenewalState, LeafInv, PassInv, Stem, OperatorRevokes,
         WithSerial, DenyList
<1>5. RetiredInv'
  BY <1>0, StemIs
     DEF RenewInv, RenewalTypeOK, RenewalState, RetiredInv, Retired, Stem, OperatorRevokes,
         WithSerial, DenyList
<1>6. ShedStep
  BY DEF RenewInv, RenewalTypeOK, RenewalState, ShedStep, OperatorRevokes, WithSerial, DenyList
<1> QED BY <1>1, <1>2, <1>3, <1>4, <1>5, <1>6 DEF RenewStepOK, RenewInv

LEMMA RegistrarStopsStep == ASSUME RenewInv, RegistrarStops PROVE RenewStepOK
<1>0. PassInv
  BY DEF RenewInv
<1>1. RenewalTypeOK'
  <2> DEFINE co == [n \in Node |-> NoConfirm]
             a == [n \in Node |-> IF rn.at[n] = "wait" THEN "run" ELSE rn.at[n]]
             l == rn.losses + 1
  <2>1. co \in [Node -> ConfirmRecord]
    BY DEF NoConfirm, NoList, DenyList, ConfirmRecord
  <2>2. a \in [Node -> NodeAts]
        /\ l \in Nat
    BY DEF RenewInv, RenewalTypeOK, RenewalState, NodeAts, PendingRecord, ConfirmRecord
  <2>3. rn' = [rn EXCEPT !.losses = l, !.conf = co, !.at = a]
    BY DEF RegistrarStops
  <2> HIDE DEF co, a, l
  <2> QED BY <2>1, <2>2, <2>3, Zenon
     DEF RenewInv, RenewalTypeOK, RenewalState, NodeAts, PendingRecord, ConfirmRecord
<1>2. SwitchIsWhole'
  BY <1>0, StemIs
     DEF RenewInv, RenewalTypeOK, RenewalState, NodeAts, PendingRecord, ConfirmRecord,
         SwitchIsWhole, RegistrarStops, CanLose, NoConfirm, NoList
<1>3. LeafInv'
  BY <1>0, StemIs
     DEF RenewInv, RenewalTypeOK, RenewalState, NodeAts, PendingRecord, ConfirmRecord,
         LeafInv, RegistrarStops, CanLose, NoConfirm, NoList
<1>4. PassInv'
  BY <1>0, StemIs, StemsOf
     DEF RenewInv, RenewalTypeOK, RenewalState, NodeAts, PendingRecord, ConfirmRecord,
         LeafInv, PassInv, Stem, RegistrarStops, CanLose, NoConfirm, NoList
<1>5. RetiredInv'
  BY <1>0, StemIs
     DEF RenewInv, RenewalTypeOK, RenewalState, NodeAts, PendingRecord, ConfirmRecord,
         RetiredInv, Retired, Stem, RegistrarStops, CanLose, NoConfirm, NoList
<1>6. ShedStep
  BY
     DEF RenewInv, RenewalTypeOK, RenewalState, NodeAts, PendingRecord, ConfirmRecord,
         ShedStep, RegistrarStops, CanLose, NoConfirm, NoList
<1> QED BY <1>1, <1>2, <1>3, <1>4, <1>5, <1>6 DEF RenewStepOK, RenewInv

LEMMA RenewStep == RenewInv /\ [RenewalNext]_rn => RenewInv' /\ [ShedStep]_rn
<1> SUFFICES ASSUME RenewInv, [RenewalNext]_rn PROVE RenewInv' /\ [ShedStep]_rn
  OBVIOUS
<1>1. CASE UNCHANGED rn
  BY <1>1
     DEF RenewInv, RenewalTypeOK, SwitchIsWhole, LeafInv, PassInv, RetiredInv, Retired, Stem
<1>2. ASSUME NEW n \in Node,
             \/ PassStarts(n) \/ RenewRefused(n) \/ RenewIssued(n) \/ SequencePersisted(n)
             \/ PointerWritten(n) \/ ConfirmRotates(n) \/ ConfirmLost(n) \/ ConfirmLoads(n)
             \/ ConfirmSaves(n) \/ CrlRefreshed(n) \/ CrlStale(n) \/ NodeCrashes(n)
             \/ NodeStarts(n)
      PROVE  RenewStepOK
  BY <1>2, PassStartsStep, RenewRefusedStep, RenewIssuedStep, SequencePersistedStep,
     PointerWrittenStep, ConfirmRotatesStep, ConfirmLostStep, ConfirmLoadsStep,
     ConfirmSavesStep, CrlRefreshedStep, CrlStaleStep, NodeCrashesStep, NodeStartsStep
<1>3. ASSUME NEW p \in Principal,
             PendingLapses(p) \/ LeafDue(p) \/ LeafExpires(p) \/ OperatorRevokes(p)
      PROVE  RenewStepOK
  BY <1>3, PendingLapsesStep, LeafDueStep, LeafExpiresStep, OperatorRevokesStep
<1> QED BY <1>1, <1>2, <1>3, RegistrarStopsStep DEF RenewalNext, RenewStepOK

\* Wherever a renewal stops, a node runs on a certificate whose key is on the
\* disk; the registrar retires by itself only serials the node has left behind;
\* and a node that restarts does not go back to a leaf its own list names.
THEOREM Renewals == RenewalSpec => RenewalSound
<1>1. RenewalInit => RenewInv
  <2>1. RenewalInit => RenewalTypeOK
    <3> DEFINE cu == [p \in Principal |-> Unknown]
               pe == [p \in Principal |-> NoPending]
               co == [n \in Node |-> NoConfirm]
               zero == [p \in Principal |-> 0]
               at == [n \in Node |-> "run"]
               po == [n \in Node |-> 1]
               go == [n \in Node |-> 0]
               di == [p \in Principal |-> {0}]
               ph == [p \in Principal |-> "fresh"]
               bo == [p \in Principal |-> TRUE]
               li == [number |-> 1, serials |-> {}]
               cr == [n \in Node |-> li]
    <3>1. NoPending \in PendingRecord /\ NoConfirm \in ConfirmRecord /\ li \in DenyList
      BY DEF NoPending, NoConfirm, NoList, DenyList, PendingRecord, ConfirmRecord
    <3>2. RenewalInit =>
            rn = [current |-> cu, pending |-> pe, list |-> li, conf |-> co, issued |-> zero,
                  at |-> at, pos |-> po, got |-> go, active |-> zero, disk |-> di,
                  phase |-> ph, boot |-> bo, crl |-> cr, losses |-> 0, revokes |-> 0]
      BY DEF RenewalInit, RenewalStart
    <3> HIDE DEF li
    <3>3. /\ cu \in [Principal -> Nat \cup {Unknown}] /\ pe \in [Principal -> PendingRecord]
          /\ co \in [Node -> ConfirmRecord] /\ zero \in [Principal -> Nat]
          /\ at \in [Node -> NodeAts] /\ po \in [Node -> Nat] /\ go \in [Node -> Nat]
          /\ di \in [Principal -> SUBSET Nat] /\ cr \in [Node -> DenyList]
          /\ ph \in [Principal -> {"fresh", "due", "expired"}]
          /\ bo \in [Principal -> BOOLEAN]
      BY <3>1 DEF NodeAts
    <3> HIDE DEF cu, pe, co, zero, at, po, go, di, ph, bo, cr
    <3> QED BY <3>1, <3>2, <3>3, RenewTypes
  <2>2. RenewalInit => SwitchIsWhole /\ LeafInv
    BY DEF RenewalInit, RenewalStart, SwitchIsWhole, LeafInv
  <2>3. RenewalInit => PassInv
    BY StemsOf DEF RenewalInit, RenewalStart, PassInv, NoConfirm
  <2>4. RenewalInit => RetiredInv
    BY DEF RenewalInit, RenewalStart, RetiredInv, Retired, NoConfirm, NoList
  <2> QED BY <2>1, <2>2, <2>3, <2>4 DEF RenewInv
<1>2. RenewInv => SwitchIsWhole /\ ActiveNotSuperseded
  BY DEF RenewInv, RenewalTypeOK, RenewalState, RetiredInv, Retired, ActiveNotSuperseded, Listed
<1> QED BY <1>1, <1>2, RenewStep, PTL DEF RenewalSpec, RenewalSound, RevokedIsShed, ShedStep
==============================================================================
