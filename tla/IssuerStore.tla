---------------------------- MODULE IssuerStore ----------------------------
(***************************************************************************)
(* The issuer store of an operator: the issuer key pairs, the deny list,    *)
(* the bookkeeping database with its binding, and the encrypted, versioned  *)
(* backups that every change writes.  Commands are processes; a command may *)
(* die between any two writes, and the backup target may fail.              *)
(*                                                                          *)
(* A key pair is the pair of the identities of its two files, 0 for a file  *)
(* that is not there.  A version is a copy of the store, sealed to the      *)
(* recipient that was configured when it was taken.                         *)
(***************************************************************************)
EXTENDS Integers, Sequences, FiniteSets, SequencesExt

CONSTANTS
    Command,        \* processes of the operator
    Realm,          \* realms of their manifests
    Unbound,        \* no realm
    Legacy,         \* the realm of a binding.json of an earlier release
    Material,       \* the key pairs an apply ensures, in order
    Dir,            \* directories for backups
    NoDir,          \* backups are not configured
    Retention,      \* versions kept
    MaxMint, MaxStoreEdit, MaxStoreFault, MaxStoreDeath, MaxConfig, MaxBack

ASSUME StoreAssumption ==
    /\ Unbound \notin Realm /\ Legacy \in Realm \cup {Unbound} /\ NoDir \notin Dir
    /\ {Retention, MaxMint, MaxStoreEdit, MaxStoreFault, MaxStoreDeath, MaxConfig, MaxBack} \subseteq Nat
    /\ Retention > 0

VARIABLE st

Pair == [key : 0..MaxMint, cert : 0..MaxMint]
NoPair == [key |-> 0, cert |-> 0]
Whole(p) == p.key # 0 /\ p.cert # 0
Names == Range(Material)

Config == [dir : Dir \cup {NoDir}, key : 0..MaxConfig]
NoConfig == [dir |-> NoDir, key |-> 0]

\* What collect_files finds under the root; gen is the applied state.
Content == [pairs : [Names -> Pair], deny : 0..MaxStoreEdit, crl : 0..MaxStoreEdit,
            db : BOOLEAN, bound : Realm \cup {Unbound}, gen : 0..MaxStoreEdit,
            old : Realm \cup {Unbound}, conf : Config]
NoContent == [pairs |-> [m \in Names |-> NoPair], deny |-> 0, crl |-> 0, db |-> FALSE,
              bound |-> Unbound, gen |-> 0, old |-> Unbound, conf |-> NoConfig]

Version == [dir : Dir, stamp : 0..MaxBack, content : Content]

Resting == [at |-> "idle", then |-> "idle", realm |-> Unbound, todo |-> <<>>,
            soft |-> FALSE, snap |-> NoContent, shows |-> 0, fresh |-> 0]

StoreState ==
    [store : Content,
     versions : Seq(Version),       \* in the order they were written
     clock : 0..MaxBack,            \* second in the names of versions
     cmd : [Command ->
              [at : {"idle", "bind", "bound", "rename", "configure", "ensure", "key", "cert",
                     "record", "crl", "checkpoint", "write"},
               then : {"idle", "configure", "ensure", "done"},
               realm : Realm \cup {Unbound}, todo : Seq(Names), soft : BOOLEAN,
               snap : Content, shows : 0..MaxConfig, fresh : 0..MaxMint]],
     held : SUBSET (1..MaxConfig),  \* recovery identities the operator was shown
     wanted : 0..MaxStoreEdit,           \* the manifest
     restored : 0..MaxMint,         \* no pair minted later was in the backup (0: no restore)
     mints : 0..MaxMint, denies : 0..MaxStoreEdit, faults : 0..MaxStoreFault,
     deaths : 0..MaxStoreDeath, configs : 0..MaxConfig]

At(c) == st.cmd[c].at
CanFail == st.faults < MaxStoreFault
Stop(q, c) == [q EXCEPT !.cmd[c] = Resting]
Go(q, c, at) == [q EXCEPT !.cmd[c].at = at]
Checkpointing(q, c, then, soft) ==
    [q EXCEPT !.cmd[c].at = "checkpoint", !.cmd[c].then = then, !.cmd[c].soft = soft]

(***************************************************************************)
(* The bookkeeping database                                                 *)
(***************************************************************************)

\* The tables are made once, from the files of an earlier release.
create_or_migrate(s) ==
    IF s.db THEN s ELSE [s EXCEPT !.db = TRUE, !.bound = s.old, !.gen = 0]

\* Reading makes no database.
open_existing(s) == IF s.db THEN s.bound ELSE Unbound

\* Both files are set aside after the commit, if this opening made the tables.
rename_legacy(c) ==
    /\ At(c) = "rename"
    /\ st' = Checkpointing([st EXCEPT !.store.old = Unbound], c, "configure", FALSE)

(***************************************************************************)
(* plan apply on the store                                                  *)
(***************************************************************************)

ApplyBegins(c, r) ==
    /\ At(c) = "idle"
    /\ st' = Go([st EXCEPT !.cmd[c].realm = r], c, "bind")

\* enforce_store_binding: the binding is read ...
BindingRead(c) ==
    /\ At(c) = "bind"
    /\ LET bound == open_existing(st.store)
       IN  st' = IF bound \in {Unbound, st.cmd[c].realm} THEN Go(st, c, "bound")
                 ELSE Stop(st, c)

\* ... and recorded, in a transaction of its own.
record_binding(c) ==
    /\ At(c) = "bound"
    /\ LET q == [st EXCEPT !.store = [create_or_migrate(@) EXCEPT !.bound = st.cmd[c].realm]]
       IN  st' = IF st.store.db THEN Checkpointing(q, c, "configure", FALSE)
                 ELSE Go(q, c, "rename")

\* A directory outside the store, and a fresh recipient.
NewConfig(d) == [dir |-> d, key |-> st.configs + 1]

\* The first apply generates an identity and keeps it to show it at the end.
ensure_backup_configured(c) ==
    /\ At(c) = "configure"
    /\ LET q == [st EXCEPT !.cmd[c].todo = Material]
       IN  \/ /\ st.store.conf.dir # NoDir
              /\ st' = Go(q, c, "ensure")
           \/ /\ st.store.conf.dir = NoDir /\ st.configs < MaxConfig
              /\ \E d \in Dir :
                   st' = Go([q EXCEPT !.store.conf = NewConfig(d),
                                      !.configs = @ + 1,
                                      !.cmd[c].shows = st.configs + 1], c, "ensure")
           \/ /\ st.store.conf.dir = NoDir        \* --no-backup
              /\ st' = Go(q, c, "ensure")

\* A pair that is there is loaded, a half is refused, none is made.
ensure(c) ==
    /\ At(c) = "ensure" /\ st.cmd[c].todo # <<>>
    /\ LET pair == st.store.pairs[Head(st.cmd[c].todo)]
       IN  \/ /\ Whole(pair)
              /\ st' = Checkpointing([st EXCEPT !.cmd[c].todo = Tail(@)], c, "ensure", TRUE)
           \/ /\ pair = NoPair /\ st.mints < MaxMint
              /\ st' = Go([st EXCEPT !.cmd[c].fresh = st.mints + 1, !.mints = @ + 1], c, "key")
           \/ /\ ~Whole(pair) /\ (pair = NoPair => st.mints = MaxMint)
              /\ st' = Stop(st, c)

\* The key is written before the certificate.
write_private(c) ==
    /\ At(c) = "key"
    /\ st' = Go([st EXCEPT !.store.pairs[Head(st.cmd[c].todo)].key = st.cmd[c].fresh], c, "cert")

\* The certificate is written and the new pair must reach the backup.
CertWritten(c) ==
    /\ At(c) = "cert"
    /\ st' = Checkpointing([st EXCEPT !.store.pairs[Head(st.cmd[c].todo)].cert = st.cmd[c].fresh,
                                      !.cmd[c].todo = Tail(@), !.cmd[c].fresh = 0],
                           c, "ensure", FALSE)

\* The applied state, in one transaction.
record_applied(c) ==
    /\ At(c) = "ensure" /\ st.cmd[c].todo = <<>> /\ st.restored = 0
    /\ st' = Checkpointing([st EXCEPT !.store = [create_or_migrate(@) EXCEPT !.gen = st.wanted]],
                           c, "done", FALSE)

ManifestEdited == /\ st.wanted < MaxStoreEdit
                  /\ st' = [st EXCEPT !.wanted = @ + 1]

\* revoke: the deny list, then the CRL file, then the backup.
RevokeSaves(c) ==
    /\ At(c) = "idle" /\ st.store.deny < MaxStoreEdit /\ st.denies < MaxStoreEdit
    /\ st' = Go([st EXCEPT !.store.deny = @ + 1, !.denies = @ + 1], c, "crl")
RevokeRegenerates(c) ==
    /\ At(c) = "crl"
    /\ st' = Checkpointing([st EXCEPT !.store.crl = st.store.deny], c, "done", FALSE)

(***************************************************************************)
(* Backups                                                                  *)
(***************************************************************************)

InDir(d) == {i \in DOMAIN st.versions : st.versions[i].dir = d}

\* list_versions: by the second in the name, then by the time of writing.
Before(vs, i, j) == \/ vs[i].stamp < vs[j].stamp
                    \/ vs[i].stamp = vs[j].stamp /\ i < j

Newest(d) == CHOOSE i \in InDir(d) : \A j \in InDir(d) : j = i \/ Before(st.versions, j, i)

\* The newest version has this content; the hash is in its name.
NewestIs(content, d) == InDir(d) # {} /\ st.versions[Newest(d)].content = content

\* Mutant: the newest versions are dropped.
pruneNewest(vs, d) ==
    LET mine == {i \in DOMAIN vs : vs[i].dir = d}
        kept == {i \in mine : Cardinality({j \in mine : Before(vs, j, i)}) < Retention}
        keep == {i \in DOMAIN vs : i \in mine => i \in kept}
    IN  [n \in 1..Cardinality(keep) |->
           vs[CHOOSE i \in keep : Cardinality({j \in keep : j < i}) = n - 1]]

\* Drops the oldest versions of the directory beyond the retention.
prune(vs, d) ==
    LET mine == {i \in DOMAIN vs : vs[i].dir = d}
        kept == {i \in mine : Cardinality({j \in mine : Before(vs, i, j)}) < Retention}
        keep == {i \in DOMAIN vs : i \in mine => i \in kept}
    IN  [n \in 1..Cardinality(keep) |->
           vs[CHOOSE i \in keep : Cardinality({j \in keep : j < i}) = n - 1]]

\* Where a command goes when its checkpoint is done: a finished one shows the
\* identity it generated.
Proceed(q, c) ==
    IF q.cmd[c].then = "done"
    THEN Stop([q EXCEPT !.held = IF q.cmd[c].shows = 0 THEN @ ELSE @ \cup {q.cmd[c].shows}], c)
    ELSE [q EXCEPT !.cmd[c].at = q.cmd[c].then, !.cmd[c].then = "idle", !.cmd[c].soft = FALSE,
                   !.cmd[c].snap = NoContent]

\* A version carries the second it was written in, and the whole store.
Sealed(snap) == [dir |-> snap.conf.dir, stamp |-> st.clock, content |-> snap]

\* The store is read and compared with the newest version.
CheckpointReads(c) ==
    /\ At(c) = "checkpoint"
    /\ st' = IF st.store.conf.dir = NoDir \/ NewestIs(st.store, st.store.conf.dir)
             THEN Proceed(st, c)
             ELSE Go([st EXCEPT !.cmd[c].snap = st.store], c, "write")

\* The version is sealed and put in place, and old ones are dropped.
CheckpointWrites(c) ==
    /\ At(c) = "write"
    /\ LET snap == st.cmd[c].snap
           new  == Sealed(snap)
       IN  st' = Proceed([st EXCEPT !.versions =
                            prune(Append(SelectSeq(@, LAMBDA v : v # new), new), snap.conf.dir)], c)

\* The target fails: an error, or a line in the log where the caller says so.
CheckpointFails(c) ==
    /\ At(c) \in {"checkpoint", "write"} /\ st.store.conf.dir # NoDir /\ CanFail
    /\ st' = LET q == [st EXCEPT !.faults = @ + 1]
             IN  IF st.cmd[c].soft THEN Proceed(q, c) ELSE Stop(q, c)

\* issuer backup now.
BackupNow(c) == /\ At(c) = "idle" /\ st.store.conf.dir # NoDir
                /\ st' = Checkpointing(st, c, "done", FALSE)

\* issuer backup init: the identity is shown when the configuration is there.
configure(c) ==
    /\ At(c) = "idle" /\ st.store.conf.dir = NoDir /\ st.configs < MaxConfig
    /\ \E d \in Dir :
         st' = [st EXCEPT !.store.conf = NewConfig(d),
                          !.configs = @ + 1, !.held = @ \cup {st.configs + 1}]

\* A new recipient, then a version for it, then the identity is shown.
rekey(c) ==
    /\ At(c) = "idle" /\ st.store.conf.dir # NoDir /\ st.configs < MaxConfig
    /\ st' = Checkpointing([st EXCEPT !.store.conf.key = st.configs + 1, !.configs = @ + 1,
                                      !.cmd[c].shows = st.configs + 1], c, "done", FALSE)

relocate(c, d) ==
    /\ At(c) = "idle" /\ st.store.conf.dir \notin {NoDir, d} /\ st.faults < MaxStoreFault
    /\ st' = Checkpointing([st EXCEPT !.store.conf.dir = d, !.faults = @ + 1], c, "done", FALSE)

(***************************************************************************)
(* Faults and restoring                                                     *)
(***************************************************************************)

CommandDies(c) == /\ At(c) # "idle" /\ st.deaths < MaxStoreDeath
                  /\ st' = Stop([st EXCEPT !.deaths = @ + 1], c)

\* The store is lost with the machine; the commands went with it.
StoreLost == /\ CanFail /\ \A c \in Command : At(c) = "idle"
             /\ st.store # NoContent
             /\ st' = [st EXCEPT !.store = NoContent, !.faults = @ + 1]

decrypts(v) == v.content.conf.key \in st.held

\* The files of a version, without the configuration of another machine.
Unpacked(v) == [v.content EXCEPT !.conf = NoConfig]

\* Realm issuer first, then every workspace that is named.
Validated(s) == SelectSeq(Material, LAMBDA m : m = Head(Material) \/ s.pairs[m] # NoPair)

\* A version the operator can open is unpacked into an empty directory, and
\* validated by loading what is there.
restore(c, i) ==
    /\ At(c) = "idle" /\ st.store = NoContent /\ decrypts(st.versions[i])
    /\ LET s == Unpacked(st.versions[i])
       IN  st' = Go([st EXCEPT !.store = s, !.restored = st.mints,
                               !.cmd[c].todo = Validated(s)], c, "ensure")

\* validate_restored is through.
RestoreReports(c) ==
    /\ At(c) = "ensure" /\ st.cmd[c].todo = <<>> /\ st.restored # 0
    /\ st' = Stop([st EXCEPT !.restored = 0], c)

\* The wall clock is set.
ClockSet == /\ CanFail
            /\ \E t \in 0..MaxBack : t # st.clock /\ st' = [st EXCEPT !.clock = t, !.faults = @ + 1]

(***************************************************************************)
(* The specification                                                        *)
(***************************************************************************)

StoreStart ==
    [store |-> [NoContent EXCEPT !.old = Legacy], versions |-> <<>>, clock |-> MaxBack,
     cmd |-> [c \in Command |-> Resting], held |-> {}, wanted |-> 0, restored |-> 0,
     mints |-> 0, denies |-> 0, faults |-> 0, deaths |-> 0,
     configs |-> 0]

StoreInit == st = StoreStart

StoreNext ==
    \/ \E c \in Command :
          \/ \E r \in Realm : ApplyBegins(c, r)
          \/ BindingRead(c) \/ record_binding(c) \/ rename_legacy(c)
          \/ ensure_backup_configured(c) \/ ensure(c) \/ write_private(c) \/ CertWritten(c)
          \/ record_applied(c) \/ RevokeSaves(c) \/ RevokeRegenerates(c)
          \/ CheckpointReads(c) \/ CheckpointWrites(c) \/ CheckpointFails(c)
          \/ BackupNow(c) \/ configure(c) \/ rekey(c) \/ \E d \in Dir : relocate(c, d)
          \/ CommandDies(c) \/ \E i \in DOMAIN st.versions : restore(c, i)
          \/ RestoreReports(c)
    \/ ManifestEdited \/ StoreLost \/ ClockSet

\* A command that runs is run to its end; an operator backs up again and again.
StoreFairness ==
    \A c \in Command :
       /\ WF_st(BindingRead(c)) /\ WF_st(record_binding(c)) /\ WF_st(rename_legacy(c))
       /\ WF_st(ensure_backup_configured(c)) /\ WF_st(ensure(c)) /\ WF_st(write_private(c))
       /\ WF_st(CertWritten(c)) /\ WF_st(record_applied(c)) /\ WF_st(RevokeRegenerates(c))
       /\ WF_st(CheckpointReads(c)) /\ WF_st(CheckpointWrites(c)) /\ WF_st(RestoreReports(c))
       /\ SF_st(BackupNow(c))

StoreSpec == StoreInit /\ [][StoreNext]_st /\ StoreFairness

(***************************************************************************)
(* Properties                                                               *)
(***************************************************************************)

\* Every field has its type.
StoreTypeOK == st \in StoreState

\* A command finished and said so.
Reports(c) == At(c) \in {"checkpoint", "write"} /\ st.cmd[c].then = "done"
              /\ st'.cmd[c].at = "idle" /\ st'.faults = st.faults /\ st'.deaths = st.deaths

\* When a command reports success the newest backup is the store as it is
\* (with one command at a time and a clock that is not set back).
ReportedIsBacked ==
    [][\A c \in Command :
         Reports(c) /\ st.store.conf.dir # NoDir /\ st.clock = MaxBack
           => InDir(st.store.conf.dir)' # {}
              /\ st'.versions[Newest(st.store.conf.dir)'].content = st'.store]_st

\* Opening the store never takes its bookkeeping back.
BookkeepingKept ==
    [][st.store.db /\ st'.store.db => st'.store.gen >= st.store.gen \/ st'.faults > st.faults]_st

\* The next run retries the backup: the newest backup is the store again and
\* again.
BackupCatchesUp ==
    []<>(\/ st.store.conf.dir = NoDir
         \/ /\ InDir(st.store.conf.dir) # {}
            /\ st.versions[Newest(st.store.conf.dir)].content = st.store
         \/ st.clock # MaxBack)

\* A command that reports success left a backup of the store as it is, and no
\* open of the store takes its bookkeeping back.
StoreSound == ReportedIsBacked /\ BookkeepingKept
=============================================================================
