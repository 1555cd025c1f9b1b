---------------------------- MODULE AuditLedger ----------------------------
(***************************************************************************)
(* The audit ledger: producers seal records into a hash chain and queue    *)
(* them, one writer task per process appends them to the active file,      *)
(* rotation renames the active file to a segment, segments are pruned and  *)
(* compressed in the background, and a verifier replays what is on disk.   *)
(* Files are inodes: a writer keeps its handle when the name moves on.     *)
(* A record is its chain (the process that sealed it) and its sequence;    *)
(* its hashes say which record it follows, which is the one of sequence    *)
(* one less.                                                               *)
(***************************************************************************)
EXTENDS Integers, Sequences, SequencesExt, FiniteSetsExt

CONSTANTS
    Proc,         \* processes that open the ledger, each once
    Alone,        \* a process starts only after the one before it ended
    LedgerQueue,     \* capacity of the writer's channel
    MaxSegment,     \* AuditRotation::max_bytes, in records
    Keep,         \* AuditRotation::keep
    SegmentRetention,    \* AuditRotation::retention_days, in ticks of the clock
    MaxRecord,    \* bound: records of a process
    MaxTime,      \* bound: ticks of the clock
    MaxInode,     \* bound: files
    MaxCrash      \* bound: crashes and failed writes

VARIABLE al

Inode == 1 .. MaxInode
RecordOf == [src : Proc, seq : 1 .. MaxRecord, torn : BOOLEAN]

Segment == [t : 0 .. MaxTime, first : 1 .. MaxRecord, bare : 0 .. MaxInode,
            gz : {"none", "part", "whole"}, zip : 0 .. MaxInode]

\* The stem of a segment's file name: seal time and first sequence.
segment_name(s) == <<s.t, s.first>>

ProcState ==
    [st      : {"new", "seal", "open", "run", "close", "rename", "reopen", "disabled", "dead"},
     chain   : 0 .. MaxRecord,                        \* AuditChainState::sequence
     queue   : Seq(0 .. MaxRecord),                   \* 0 is a flush request
     fd      : 0 .. MaxInode,
     first   : 0 .. MaxRecord,
     written : 0 .. MaxInode * MaxRecord,
     synced  : 0 .. MaxInode * MaxRecord,             \* records of the file that are durable
     due     : 0 .. MaxRecord,                        \* newest record accepted when the flush was asked
     flushed : 0 .. MaxRecord,                        \* newest record covered by a receipt
     zip     : SUBSET ((0 .. MaxTime) \X (1 .. MaxRecord))]   \* segments being compressed

LedgerState ==
    [now    : 0 .. MaxTime,
     inode  : [Inode -> Seq(RecordOf)],
     made   : 0 .. MaxInode,
     active : 0 .. MaxInode,
     segs   : SUBSET Segment,
     p      : [Proc -> ProcState],
     crash  : 0 .. MaxCrash,
     hurt   : BOOLEAN,      \* a write failed or a crash cut a file
     tie    : BOOLEAN]      \* two segments got the same seal time

NewProc == [st |-> "new", chain |-> 0, queue |-> <<>>, fd |-> 0, first |-> 0, written |-> 0,
            synced |-> 0, due |-> 0, flushed |-> 0, zip |-> {}]

LedgerStart ==
    [now |-> 0, inode |-> [i \in Inode |-> <<>>], made |-> 0, active |-> 0, segs |-> {},
     p |-> [q \in Proc |-> NewProc], crash |-> 0, hurt |-> FALSE, tie |-> FALSE]

LedgerInit == al = LedgerStart

LedgerOpen(q) == al.p[q].st \notin {"new", "dead"}

LedgerTick ==
    /\ al.now < MaxTime
    /\ al' = [al EXCEPT !.now = @ + 1]

---------------------------------------------------------------------------
\* Segments.

Newer(a, b) == a.t > b.t \/ (a.t = b.t /\ a.first > b.first)

\* Beyond `keep` or too old, and not being compressed by this writer.
Prunable(d, q, s) ==
    /\ Cardinality({x \in d.segs : Newer(x, s)}) >= Keep \/ d.now - s.t > SegmentRetention
    /\ segment_name(s) \notin d.p[q].zip

prune_segments(d, q) == [d EXCEPT !.segs = {s \in @ : ~ Prunable(d, q, s)}]

\* The newest segment that is bare and that this writer does not compress yet.
Compressible(d, q) == {s \in d.segs : s.bare # 0 /\ segment_name(s) \notin d.p[q].zip}

prune_and_compress(d0, q) ==
    LET d == prune_segments(d0, q)
        newest == {s \in Compressible(d, q) : \A x \in Compressible(d, q) : ~ Newer(x, s)} IN
    IF newest = {} THEN d
    ELSE LET s == CHOOSE x \in newest : TRUE IN
         [d EXCEPT !.p[q].zip = @ \cup {segment_name(s)},
                   !.segs = (@ \ {s}) \cup {[s EXCEPT !.gz = "part", !.zip = s.bare]}]

\* rename(2) of the active file replaces a segment of the same name.
Renamed(d, first) ==
    LET same == {s \in d.segs : segment_name(s) = <<d.now, first>>} IN
    [d EXCEPT !.active = 0,
              !.segs = (@ \ same) \cup {[t |-> d.now, first |-> first, bare |-> d.active,
                                         gz |-> IF same = {} THEN "none" ELSE (CHOOSE s \in same : TRUE).gz,
                                         zip |-> IF same = {} THEN 0 ELSE (CHOOSE s \in same : TRUE).zip]},
              !.tie = @ \/ \E s \in d.segs : s.t = d.now]

---------------------------------------------------------------------------
\* The writer.

\* The path is claimed in its process; nothing is known of other processes.
SpawnWriter(q) ==
    /\ al.p[q].st = "new"
    /\ Alone => \A r \in Proc : ~ LedgerOpen(r)
    /\ al' = [al EXCEPT !.p[q].st = "seal"]

\* A ledger that is not empty is sealed under the sequence of its first record.
seal_startup(q) ==
    /\ al.p[q].st = "seal"
    /\ LET d == [al EXCEPT !.p[q].st = "open"] IN
       al' = IF al.active # 0 /\ al.inode[al.active] # <<>>
             THEN prune_and_compress(Renamed(d, Head(al.inode[al.active]).seq), q)
             ELSE d

\* The lock is on the file that the name leads to, not on the name.
LockHeld(d, i, q) == \E r \in Proc \ {q} : LedgerOpen(r) /\ d.p[r].fd = i

OpenedOn(d, q, i) ==
    IF LockHeld(d, i, q) THEN [d EXCEPT !.active = i, !.p[q].st = "disabled"]
    ELSE [d EXCEPT !.active = i, !.p[q].fd = i, !.p[q].st = "run", !.p[q].first = 0, !.p[q].written = 0,
                   !.p[q].synced = Len(d.inode[i])]

open_active(d, q) ==
    IF d.active # 0 THEN OpenedOn(d, q, d.active)
    ELSE OpenedOn([d EXCEPT !.made = @ + 1], q, d.made + 1)

StartupOpens(q) ==
    /\ al.p[q].st = "open" /\ (al.active = 0 => al.made < MaxInode)
    /\ al' = open_active(al, q)

\* Mutant: the sequence of a record that did not fit stays used.
record_rollbackNot(x) == [x EXCEPT !.chain = @ + 1]

\* The record never crossed the channel: sequence and chain head are restored.
record_rollback(x) == x

\* A record is sealed and queued, or the queue is full.  A writer that is gone discards it.
RecordEvent(q) ==
    /\ LedgerOpen(q) /\ al.p[q].chain < MaxRecord
    /\ al' = [al EXCEPT !.p[q] =
                 IF @.st = "disabled" THEN [@ EXCEPT !.chain = @ + 1]
                 ELSE IF Len(@.queue) = LedgerQueue THEN record_rollback(@)
                 ELSE [@ EXCEPT !.chain = @ + 1, !.queue = Append(@, al.p[q].chain + 1)]]

\* A shutdown asks for a receipt; one at a time.
FlushAsked(q) ==
    /\ al.p[q].st = "run" /\ Len(al.p[q].queue) < LedgerQueue /\ 0 \notin Range(al.p[q].queue)
    /\ al.p[q].flushed < al.p[q].chain
    /\ al' = [al EXCEPT !.p[q].queue = Append(@, 0), !.p[q].due = al.p[q].chain]

FlushSyncs(d, q) == [d EXCEPT !.p[q].synced = Len(d.inode[d.p[q].fd])]

WriteFlush(q) ==
    /\ al.p[q].st = "run" /\ al.p[q].queue # <<>> /\ Head(al.p[q].queue) = 0
    /\ al' = [FlushSyncs(al, q) EXCEPT !.p[q].queue = Tail(@), !.p[q].flushed = al.p[q].due, !.p[q].due = 0]

\* A record is appended to the open file; the file may be due for its seal.
WriteRecord(q) ==
    LET n == Head(al.p[q].queue)
        d == [al EXCEPT !.p[q].queue = Tail(@), !.p[q].first = IF @ = 0 THEN n ELSE @] IN
    /\ al.p[q].st = "run" /\ al.p[q].queue # <<>> /\ n # 0
    /\ \/ al' = [d EXCEPT !.inode[al.p[q].fd] = Append(@, [src |-> q, seq |-> n, torn |-> FALSE]),
                          !.p[q].written = @ + 1,
                          !.p[q].st = IF al.p[q].written + 1 >= MaxSegment THEN "close" ELSE "run"]
       \/ /\ al.crash < MaxCrash
          /\ al' = [d EXCEPT !.crash = @ + 1, !.hurt = TRUE]

\* The sync of every so many records or seconds.
PeriodicSync(q) ==
    /\ al.p[q].st = "run" /\ al.p[q].synced < Len(al.inode[al.p[q].fd])
    /\ al' = [al EXCEPT !.p[q].synced = Len(al.inode[al.p[q].fd])]

\* Rotation: sync and close, rename, open a fresh file.
RotateCloses(q) ==
    /\ al.p[q].st = "close"
    /\ al' = [al EXCEPT !.p[q].fd = 0, !.p[q].st = "rename", !.p[q].synced = 0]

RotateRenames(q) ==
    /\ al.p[q].st = "rename"
    /\ al' = [(IF al.active # 0 THEN Renamed(al, al.p[q].first) ELSE al) EXCEPT !.p[q].st = "reopen"]

RotateOpens(q) ==
    /\ al.p[q].st = "reopen" /\ (al.active = 0 => al.made < MaxInode)
    /\ LET d == open_active(al, q) IN
       al' = IF d.p[q].st = "run" THEN prune_and_compress(d, q) ELSE d

---------------------------------------------------------------------------
\* The compression on the blocking pool.

ZipWritten(q) ==
    \E s \in al.segs :
       /\ segment_name(s) \in al.p[q].zip /\ s.gz = "part" /\ s.bare # 0
       /\ al' = [al EXCEPT !.segs = (@ \ {s}) \cup {[s EXCEPT !.gz = "whole", !.zip = s.bare]}]

ZipCleans(q) ==
    \E s \in al.segs :
       /\ segment_name(s) \in al.p[q].zip /\ s.gz = "whole"
       /\ al' = [al EXCEPT !.segs = (@ \ {s}) \cup {[s EXCEPT !.bare = 0]},
                           !.p[q].zip = @ \ {segment_name(s)}]

---------------------------------------------------------------------------
\* The process ends in order, with everything flushed, or it is cut off.

ProcessExits(q) ==
    /\ al.p[q].st = "run" /\ al.p[q].queue = <<>> /\ al.p[q].zip = {}
    /\ al.p[q].synced = Len(al.inode[al.p[q].fd])
    /\ al' = [al EXCEPT !.p[q] = [NewProc EXCEPT !.st = "dead"]]

\* What was not synced may be cut anywhere, also inside a record.
LedgerCrash(q) ==
    /\ LedgerOpen(q) /\ al.crash < MaxCrash
    /\ LET d == [al EXCEPT !.p[q] = [NewProc EXCEPT !.st = "dead"], !.crash = @ + 1]
           i == al.p[q].fd IN
       IF i = 0 THEN al' = d
       ELSE \E n \in al.p[q].synced .. Len(al.inode[i]), torn \in BOOLEAN :
               /\ torn => n > al.p[q].synced
               /\ al' = [d EXCEPT !.hurt = @ \/ torn \/ n < Len(al.inode[i]),
                                  !.inode[i] = IF torn THEN [SubSeq(@, 1, n) EXCEPT ![n].torn = TRUE]
                                               ELSE SubSeq(@, 1, n)]

---------------------------------------------------------------------------
WriterStep(q) ==
    seal_startup(q) \/ StartupOpens(q) \/ WriteFlush(q) \/ WriteRecord(q) \/ RotateCloses(q)
    \/ RotateRenames(q) \/ RotateOpens(q)

LedgerNext ==
    \/ \E q \in Proc : SpawnWriter(q) \/ RecordEvent(q) \/ FlushAsked(q) \/ WriterStep(q) \/ PeriodicSync(q)
                       \/ ZipWritten(q) \/ ZipCleans(q) \/ ProcessExits(q) \/ LedgerCrash(q)
    \/ LedgerTick

LedgerSpec == LedgerInit /\ [][LedgerNext]_al

---------------------------------------------------------------------------
\* The verifier.

\* A compressed file is preferred; one that was cut cannot be read to its end.
SegmentContent(s) ==
    IF s.gz = "none" THEN al.inode[s.bare]
    ELSE IF s.gz = "whole" THEN al.inode[s.zip]
    ELSE <<[src |-> CHOOSE q \in Proc : TRUE, seq |-> 1, torn |-> TRUE]>>

discover_audit_files ==
    SetToSortSeq(al.segs, LAMBDA a, b : Newer(b, a))

LedgerContent ==
    FlattenSeq([i \in DOMAIN discover_audit_files |-> SegmentContent(discover_audit_files[i])])
    \o (IF al.active = 0 THEN <<>> ELSE al.inode[al.active])

\* Within a source the sequence advances by one; another source begins a chain.
Follows(a, b) == IF b.src = a.src THEN b.seq = a.seq + 1 ELSE b.seq = 1

verify_audit_files(c) ==
    \A i \in DOMAIN c : ~ c[i].torn /\ (i > 1 => Follows(c[i - 1], c[i]))

---------------------------------------------------------------------------
\* Types.
LedgerTypeOK == al \in LedgerState

\* The ledger replays: with one process at a time and no damaged file, what is
\* on disk is accepted by the verifier at every moment when no compression is
\* half done.  Records that found the queue full leave no gap.
LedgerReplays ==
    Alone /\ ~ al.hurt /\ ~ al.tie /\ (\A s \in al.segs : s.gz # "part")
       => verify_audit_files(LedgerContent)

\* A receipt means durable: a record that was accepted before a flush was asked
\* for is in a file and survives a crash, unless retention removed its segment.
FlushedIsDurable ==
    \A q \in Proc :
       al.p[q].st = "run" /\ ~ al.hurt /\ al.p[q].first # 0 =>
          \A n \in al.p[q].first .. al.p[q].flushed :
             \E i \in 1 .. al.p[q].synced : al.inode[al.p[q].fd][i].src = q /\ al.inode[al.p[q].fd][i].seq = n

\* The source of a compression is not deleted while it is read.
ZipKeepsSource ==
    \A q \in Proc : \A z \in al.p[q].zip : Alone /\ ~ al.tie => \E s \in al.segs : segment_name(s) = z

\* One active file carries one chain.
OneChainPerFile ==
    Alone => \A i \in Inode : \A a, b \in DOMAIN al.inode[i] : al.inode[i][a].src = al.inode[i][b].src

\* The ledger replays from its files, an answered flush is on the disk,
\* compression loses nothing, and no file carries two chains.
LedgerSound ==
  /\ LedgerReplays /\ FlushedIsDurable /\ ZipKeepsSource /\ OneChainPerFile
=============================================================================
