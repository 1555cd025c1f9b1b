---------------------------- MODULE UdpFragments ----------------------------
(***************************************************************************)
(* A UDP datagram crosses the inner QUIC association as fragments          *)
(* (core/src/tunnel/inner_udp.rs: encode_datagram_fragments and            *)
(* DatagramReassembler).  Fragments travel in QUIC DATAGRAM frames, so any *)
(* may be lost, late, out of order or doubled.  A payload is a sequence of *)
(* units, a fragment carries up to Chunk of them.                          *)
(***************************************************************************)
EXTENDS Integers, Sequences, FiniteSets, SequencesExt, FiniteSetsExt

CONSTANTS Datagram, MaxLen, Chunk, MaxFragments, MaxPending, MaxBytes, Ttl, MaxTwice

ASSUME FragmentAssumption ==
  /\ {MaxLen, Chunk, MaxFragments, MaxPending, MaxBytes, Ttl} \subseteq Nat \ {0}
  /\ MaxTwice \in Nat

VARIABLE fr

Fragment ==
  [d : Datagram, index : 0..(MaxFragments - 1), count : 1..MaxFragments, size : 0..Chunk]

FragmentStart ==
  [len     |-> [d \in Datagram |-> -1],  \* what was sent, -1 before
   net     |-> {},
   twice   |-> 0,
   \* The reassembler: what was received of a datagram, in order of arrival;
   \* the queue of keys with their ages; the bytes held.
   pending |-> [d \in {} |-> <<>>],
   order   |-> <<>>,
   bytes   |-> 0,
   out     |-> {}]

-----------------------------------------------------------------------------
(* The sender.                                                             *)

CountOf(len) == IF len = 0 THEN 1 ELSE (len + Chunk - 1) \div Chunk

SizeOf(len, index) == IF len - index * Chunk > Chunk THEN Chunk ELSE len - index * Chunk

\* An empty datagram is one empty fragment; a long one is refused.
encode_datagram_fragments(d, len) ==
  IF len > MaxLen \/ CountOf(len) > MaxFragments THEN {}
  ELSE {[d |-> d, index |-> i, count |-> CountOf(len), size |-> SizeOf(len, i)] :
          i \in 0..(CountOf(len) - 1)}

SendDatagram(d) ==
  /\ fr.len[d] = -1
  /\ \E len \in 0..(MaxLen + 1) :
       /\ encode_datagram_fragments(d, len) # {}
       /\ fr' = [fr EXCEPT !.len[d] = len, !.net = @ \cup encode_datagram_fragments(d, len)]

-----------------------------------------------------------------------------
(* The reassembler: one push is prune, evict, insert, store, complete.     *)

Held(entries) == FoldFunction(+, 0, [k \in DOMAIN entries |-> entries[k].bytes])

Forgetting(r, keys) ==
  [r EXCEPT !.pending = [k \in DOMAIN r.pending \ keys |-> r.pending[k]],
            !.order = SelectSeq(@, LAMBDA o : o.d \notin keys),
            !.bytes = @ - Held([k \in DOMAIN r.pending \cap keys |-> r.pending[k]])]

\* Ages fall from the front of the queue to its end.
prune_expired(r) ==
  Forgetting(r, {r.order[k].d : k \in {k \in 1..Len(r.order) : r.order[k].age >= Ttl}})

Fits(r, size) == Cardinality(DOMAIN r.pending) < MaxPending /\ r.bytes + size <= MaxBytes

Oldest(r, n) == {r.order[k].d : k \in 1..n}

\* As few of the oldest as make room go.
evict_for(r, size) ==
  LET n == Min({k \in 0..Len(r.order) : k = Len(r.order) \/ Fits(Forgetting(r, Oldest(r, k)), size)})
  IN Forgetting(r, Oldest(r, n))

Opened(r, f) ==
  IF f.d \in DOMAIN r.pending THEN r
  ELSE LET e == evict_for(r, f.size) IN
    [e EXCEPT !.pending = [k \in DOMAIN e.pending \cup {f.d} |->
                             IF k = f.d THEN [count |-> f.count, received |-> <<>>, bytes |-> 0]
                             ELSE e.pending[k]],
              !.order = Append(@, [d |-> f.d, age |-> 0])]

Received(entry, index) == \E k \in 1..Len(entry.received) : entry.received[k].index = index

Complete(entry, f) == Len(entry.received) = f.count

\* The units a fragment carries, by their place in the datagram.
UnitsOf(f) == [k \in 1..f.size |-> <<f.d, f.index * Chunk + k>>]

\* Mutant: fragments are put together as they came.
JoinedAsCame(entry) == FlattenSeq([k \in 1..Len(entry.received) |-> UnitsOf(entry.received[k])])

\* Fragments are put together by their index.
Joined(entry) ==
  LET at(i) == CHOOSE k \in 1..Len(entry.received) : entry.received[k].index = i
  IN FlattenSeq([k \in 1..Len(entry.received) |-> UnitsOf(entry.received[at(k - 1)])])

\* DatagramReassembler::push.  A fragment there already changes nothing, and one
\* over the byte limit is refused while its datagram stays.
push(r, f) ==
  LET o == Opened(prune_expired(r), f)
      entry == o.pending[f.d]
      kept == [entry EXCEPT !.received = Append(@, f), !.bytes = @ + f.size]
      stored == [o EXCEPT !.pending[f.d] = kept, !.bytes = @ + f.size]
  IN IF \/ entry.count # f.count \/ Received(entry, f.index) \/ o.bytes + f.size > MaxBytes
     THEN o
     ELSE IF Complete(kept, f)
     THEN [Forgetting(stored, {f.d}) EXCEPT !.out = @ \cup {<<f.d, Joined(kept)>>}]
     ELSE stored

\* A fragment arrives, and may arrive again; a lost one never does.
Arrive(f) ==
  /\ f \in fr.net
  /\ \/ fr' = push([fr EXCEPT !.net = @ \ {f}], f)
     \/ fr.twice < MaxTwice /\ fr' = push([fr EXCEPT !.twice = @ + 1], f)

FragmentTick ==
  /\ \E k \in 1..Len(fr.order) : fr.order[k].age < Ttl
  /\ fr' = [fr EXCEPT !.order = [k \in 1..Len(@) |->
                                   [@[k] EXCEPT !.age = IF @ < Ttl THEN @ + 1 ELSE @]]]

FragmentInit == fr = FragmentStart

FragmentNext ==
  \/ \E d \in Datagram : SendDatagram(d)
  \/ \E f \in fr.net : Arrive(f)
  \/ FragmentTick

FragmentSpec == FragmentInit /\ [][FragmentNext]_fr

-----------------------------------------------------------------------------

\* Fragments are fragments, entries belong to datagrams that were sent.
FragmentTypeOK ==
  /\ fr.net \subseteq Fragment
  /\ \A d \in DOMAIN fr.pending : fr.pending[d].count = CountOf(fr.len[d])
  /\ fr.bytes \in Nat /\ fr.twice \in 0..MaxTwice

\* A datagram that comes out is byte for byte the one that went in, whatever
\* order, delay and doubling its fragments met.
ReassembledIsSent ==
  \A o \in fr.out : o[2] = [k \in 1..fr.len[o[1]] |-> <<o[1], k>>]

\* The queue, the table and the byte count of the reassembler agree after any
\* mix of eviction, expiry and completion, and the limits hold.
AccountExact ==
  /\ Len(fr.order) = Cardinality(DOMAIN fr.pending)
  /\ {fr.order[k].d : k \in 1..Len(fr.order)} = DOMAIN fr.pending
  /\ \A j, k \in 1..Len(fr.order) : j < k => fr.order[j].age >= fr.order[k].age
  /\ fr.bytes = Held(fr.pending)
  /\ Cardinality(DOMAIN fr.pending) <= MaxPending /\ fr.bytes <= MaxBytes

\* A datagram all of whose fragments were kept is handed on, not kept.
NoneKeptWhole ==
  \A d \in DOMAIN fr.pending :
    \E i \in 0..(fr.pending[d].count - 1) :
      \A k \in 1..Len(fr.pending[d].received) : fr.pending[d].received[k].index # i

\* Reassembly gives out what was sent, keeps nothing that is complete, and
\* counts exactly what it keeps.
FragmentsSound == ReassembledIsSent /\ AccountExact /\ NoneKeptWhole
=============================================================================
