---------------------- MODULE AdapterReplicationProofs ----------------------
(***************************************************************************)
(* What the router keeps of one adapter id, for every number of workers,   *)
(* requests, versions, attempts and faults.                                *)
(*                                                                         *)
(* The argument: a mutation owns the busy placement from its first step to *)
(* its completion, so the deferred completion of an earlier one never finds*)
(* its own; and every mutation moves the epoch when it begins and when it  *)
(* ends, so a list that is still fresh was taken with no mutation under way*)
(* at any time since.                                                      *)
(***************************************************************************)
EXTENDS AdapterReplication, FiniteSetTheorems, TLAPS

Mutating(c) == call[c].pc = "broadcast" /\ Mutates(c)
Listing(c) == call[c].pc = "broadcast" /\ ~Mutates(c)

\* What a worker has, or has lost by itself.
Had(b) == store[b] \cup lost[b]

\* The deletion c concerns version v, and may have reached worker b.
Covers(c, v) == call[c].kind = "delete" /\ call[c].version \in {NoVersion, v}
Reached(c, b) == call[c].net[b].st \notin {"sent", "rejected"}

\* A placement has worker b ready for version v, once it is not busy.
Offers(e, v, b) == e.present /\ ~e.deleted /\ b \in ReadyOn(e, v)

\* Placements that are absent know nothing; deleted ones have nothing ready.
Sound(e) ==
  /\ ~e.present => ~e.busy /\ ~e.deleted /\ DOMAIN e.ready = {} /\ e.deletedVersions = {}
  /\ e.deleted => DOMAIN e.ready = {}

\* Who owns a placement has begun; what it replaced is nobody's.
Shape ==
  /\ Sound(entry)
  /\ entry.owner \in Calls => call[entry.owner].pc # "new"
  /\ \A c \in Calls :
       /\ call[c].kind = "upload" => call[c].file \in [Backends -> Versions]
       /\ Mutating(c) => /\ Sound(call[c].previous) /\ ~call[c].previous.busy
                         /\ call[c].previous.owner # c
                         /\ call[c].previous.owner \in Calls
                              => call[call[c].previous.owner].pc # "new"
       /\ Listing(c) => call[c].epoch <= adapterEpoch

\* The busy placement is that of the only mutation under way; an upload has
\* revived it.
Owned ==
  /\ \A c \in Calls : Mutating(c) /\ call[c].kind = "upload" => ~entry.deleted
  /\ entry.busy => entry.owner \in Calls /\ Mutating(entry.owner)
  /\ MutationIsExclusive

\* A list nothing has overtaken.
FreshList(c, b) ==
  /\ ~entry.busy /\ Listing(c) /\ call[c].epoch = adapterEpoch
  /\ call[c].net[b].st = "ok"

\* What is ready was there; so was what a rollback restores, unless the
\* deletion reached the worker; what an upload was told; what a list says.
Real ==
  /\ \A v \in Versions, b \in Backends : b \in ReadyOn(entry, v) => v \in Had(b)
  /\ \A c \in Calls, b \in Backends :
       /\ Mutating(c) /\ (call[c].kind = "upload" \/ ~Reached(c, b)) =>
            \A v \in Versions : b \in ReadyOn(call[c].previous, v) => v \in Had(b)
       /\ Mutating(c) /\ call[c].kind = "upload" /\ call[c].net[b].st = "ok" =>
            call[c].file[b] \in Had(b)
       /\ FreshList(c, b) => call[c].net[b].items \subseteq Had(b)
  /\ \A c \in Calls, v \in Versions :
       Mutating(c) /\ Covers(c, v) => ReadyOn(entry, v) = {}

\* What was acknowledged is there unless a deletion has reached it, ready
\* unless one is under way, and in every fresh list.
Kept ==
  \A v \in Versions, b \in Backends : <<v, b>> \in acked =>
    /\ v \in store[b] \/ \E c \in Calls : Mutating(c) /\ Covers(c, v) /\ Reached(c, b)
    /\ ~entry.busy => Offers(entry, v, b)
    /\ \A c \in Calls : Mutating(c) =>
         Offers(call[c].previous, v, b) /\ (Covers(c, v) \/ Offers(entry, v, b))
    /\ \A c \in Calls : FreshList(c, b) => v \in call[c].net[b].items

\* A version deleted by name is known as such.
Dropped(e, v) == v \in e.deletedVersions /\ v \notin DOMAIN e.ready
Deleted ==
  /\ \A v \in Versions : <<v, FALSE>> \in gone =>
       /\ Dropped(entry, v)
       /\ \A c \in Calls : Mutating(c) => Dropped(call[c].previous, v)
  /\ \A c \in Calls : Mutating(c) /\ call[c].kind = "delete" /\ call[c].version # NoVersion
       => Dropped(entry, call[c].version)

IInv == TypeOK /\ Shape /\ Owned /\ Real /\ Kept /\ Deleted

-----------------------------------------------------------------------------
(* The constants.                                                           *)
LEMMA Constants ==
  /\ Backends \subseteq Nat \ {0} /\ IsFiniteSet(Backends) /\ IsFiniteSet(Versions)
  /\ NoVersion \notin Versions /\ NoCall \notin Calls
  /\ NoVersion \in VersionNames /\ Versions \subseteq VersionNames
<1>1. Cardinality(Backends) \in Nat
  BY ReplicationAssumption, FS_CardinalityType
<1>2. Backends \subseteq Nat \ {0}
  <2>1. \E n \in Nat : Backends = 1..n
    BY <1>1, ReplicationAssumption, Zenon
  <2> QED BY <2>1
<1>3. NoVersion \notin Versions /\ NoCall \notin Calls
  BY ReplicationAssumption DEF NoVersion, NoCall
<1> QED BY <1>2, <1>3, ReplicationAssumption DEF VersionNames

(* The least of the workers that acknowledged is one of them.               *)
LEMMA MinIsMember ==
  ASSUME NEW S \in SUBSET Backends, S # {}
  PROVE  Min(S) \in S
<1>1. S \subseteq Nat
  BY Constants
<1>2. PICK x \in S : \A y \in S : ~(<<y, x>> \in OpToRel(<, Nat))
  BY <1>1, NatLessThanWellFounded, WFMin
<1>3. \A y \in S : x <= y
  <2>1. \A y \in S : ~(y < x)
    BY <1>1, <1>2 DEF OpToRel
  <2> QED BY <1>1, <2>1
<1> QED BY <1>1, <1>3 DEF Min

(* Maps of the workers that are ready.                                      *)
LEMMA ReadyIntro ==
  ASSUME NEW D \in SUBSET Versions, NEW f \in [D -> SUBSET Backends]
  PROVE  f \in ReadyMap
BY DEF ReadyMap

(* A ready map maps versions to sets of workers.                            *)
LEMMA ReadyElim ==
  ASSUME NEW f \in ReadyMap
  PROVE  DOMAIN f \subseteq Versions /\ f \in [DOMAIN f -> SUBSET Backends]
BY DEF ReadyMap

(* The workers a version is ready on are workers.                           *)
LEMMA ReadyOnType ==
  ASSUME NEW e \in PlacementRecord, NEW v
  PROVE  ReadyOn(e, v) \subseteq Backends
<1>1. DOMAIN e.ready \subseteq Versions /\ e.ready \in [DOMAIN e.ready -> SUBSET Backends]
  BY ReadyElim DEF PlacementRecord
<1> QED BY <1>1 DEF ReadyOn

(* No placement, no call.                                                   *)
LEMMA InitialRecords ==
  /\ \A o \in Calls \cup {NoCall} :
       Empty(o) \in PlacementRecord /\ DOMAIN Empty(o).ready = {} /\ Sound(Empty(o))
  /\ NoEntry \in PlacementRecord /\ Sound(NoEntry)
  /\ NewCall \in CallRecord /\ Returned \in CallRecord
<1>1. [v \in {} |-> {}] \in ReadyMap
  BY ReadyIntro, {} \in SUBSET Versions
<1>2. ASSUME NEW o \in Calls \cup {NoCall}
      PROVE  Empty(o) \in PlacementRecord /\ DOMAIN Empty(o).ready = {} /\ Sound(Empty(o))
  BY <1>1, Constants DEF Empty, PlacementRecord, Sound
<1>3. NoEntry \in PlacementRecord /\ Sound(NoEntry)
  BY <1>2 DEF NoEntry, Empty, PlacementRecord, Sound
<1>4. NewCall \in CallRecord
  BY <1>3, Constants DEF NewCall, CallRecord, NetRecord
<1>5. Returned \in CallRecord
  BY <1>4 DEF Returned, NewCall, CallRecord
<1> QED BY <1>2, <1>3, <1>4, <1>5

(* What is left of the invariant of the calls when only call c changes, and *)
(* is under way as before, if it mutates.                                   *)
LEMMA CallMoves ==
  ASSUME IInv, NEW c \in Calls, NEW r \in CallRecord, call' = [call EXCEPT ![c] = r],
         UNCHANGED <<entry, adapterEpoch, store, lost, acked>>, gone' \subseteq gone,
         late' \subseteq Orders, faults' \in Nat,
         r.pc # "new", r.kind = "upload" => r.file \in [Backends -> Versions],
         (r.pc = "broadcast" /\ r.kind \in {"upload", "delete"}) <=> Mutating(c),
         Mutating(c) =>
           /\ r.kind = call[c].kind /\ r.version = call[c].version
           /\ r.file = call[c].file /\ r.previous = call[c].previous
           /\ \A b \in Backends :
                /\ r.net[b].st = "ok" => call[c].net[b].st = "ok"
                /\ Reached(c, b) => r.net[b].st \notin {"sent", "rejected"},
         r.pc = "broadcast" /\ r.kind \notin {"upload", "delete"} =>
           /\ r.epoch <= adapterEpoch
           /\ \A b \in Backends : r.net[b].st = "ok" =>
                /\ Listing(c) /\ r.epoch = call[c].epoch
                /\ call[c].net[b].st = "ok" /\ r.net[b].items = call[c].net[b].items
  PROVE  IInv'
<1>1. /\ call' \in [Calls -> CallRecord] /\ call'[c] = r
      /\ \A d \in Calls : d # c => call'[d] = call[d]
  BY DEF IInv, TypeOK
<1>2. \A d \in Calls :
        /\ (call'[d].pc = "broadcast" /\ call'[d].kind \in {"upload", "delete"}) <=> Mutating(d)
        /\ Mutating(d) => /\ call'[d].kind = call[d].kind /\ call'[d].version = call[d].version
                          /\ call'[d].file = call[d].file
                          /\ call'[d].previous = call[d].previous
                          /\ \A b \in Backends :
                               /\ call'[d].net[b].st = "ok" => call[d].net[b].st = "ok"
                               /\ Reached(d, b) => call'[d].net[b].st \notin {"sent", "rejected"}
  BY <1>1 DEF Mutating, Mutates, Reached
<1>3. \A d \in Calls, b \in Backends : FreshList(d, b)' =>
        FreshList(d, b) /\ call'[d].net[b].items = call[d].net[b].items
  BY <1>1 DEF FreshList, Listing, Mutates
<1>4. TypeOK'
  <2>1. entry.busy => \E d \in Calls : Mutating(d)
    BY DEF IInv, TypeOK, Mutating
  <2>2. entry'.busy => \E d \in Calls : call'[d].pc = "broadcast" /\ Mutates(d)'
    BY <1>2, <2>1 DEF Mutates
  <2> QED BY <1>1, <2>2 DEF IInv, TypeOK
<1>5. Shape'
  <2>1. Sound(entry') /\ (entry'.owner \in Calls => call'[entry'.owner].pc # "new")
    BY <1>1 DEF IInv, Shape
  <2>2. ASSUME NEW d \in Calls
        PROVE  /\ call'[d].kind = "upload" => call'[d].file \in [Backends -> Versions]
               /\ Listing(d)' => call'[d].epoch <= adapterEpoch'
    BY <1>1 DEF IInv, Shape, Listing, Mutates
  <2>3. ASSUME NEW d \in Calls, Mutating(d)'
        PROVE  /\ Sound(call'[d].previous) /\ ~call'[d].previous.busy
               /\ call'[d].previous.owner # d
               /\ call'[d].previous.owner \in Calls => call'[call'[d].previous.owner].pc # "new"
    <3>1. Mutating(d) /\ call'[d].previous = call[d].previous
      BY <1>2, <2>3 DEF Mutating, Mutates
    <3> QED BY <1>1, <3>1 DEF IInv, Shape
  <2> QED BY <2>1, <2>2, <2>3 DEF Shape, Sound
<1>6. Owned'
  BY <1>2 DEF IInv, Owned, MutationIsExclusive, Mutating, Mutates
<1>7. Real'
  <2>1. ASSUME NEW d \in Calls, NEW b \in Backends
        PROVE  /\ Mutating(d)' /\ (call'[d].kind = "upload" \/ ~Reached(d, b)') =>
                    \A v \in Versions : b \in ReadyOn(call'[d].previous, v) => v \in Had(b)
               /\ Mutating(d)' /\ call'[d].kind = "upload" /\ call'[d].net[b].st = "ok" =>
                    call'[d].file[b] \in Had(b)
               /\ FreshList(d, b)' => call'[d].net[b].items \subseteq Had(b)
    BY <1>2, <1>3 DEF IInv, Real, Mutating, Mutates, Reached
  <2>2. ASSUME NEW d \in Calls, NEW v \in Versions, Mutating(d)', Covers(d, v)'
        PROVE  ReadyOn(entry, v) = {}
    BY <1>2, <2>2 DEF IInv, Real, Mutating, Mutates, Covers
  <2> QED BY <2>1, <2>2 DEF IInv, Real, Had, ReadyOn
<1>8. Kept'
  <2> SUFFICES ASSUME NEW v \in Versions, NEW b \in Backends, <<v, b>> \in acked
               PROVE  /\ v \in store[b] \/ \E d \in Calls :
                           Mutating(d)' /\ Covers(d, v)' /\ Reached(d, b)'
                      /\ ~entry.busy => Offers(entry, v, b)
                      /\ \A d \in Calls : Mutating(d)' =>
                           /\ Offers(call'[d].previous, v, b)
                           /\ Covers(d, v)' \/ Offers(entry, v, b)
                      /\ \A d \in Calls : FreshList(d, b)' => v \in call'[d].net[b].items
    BY DEF Kept, Offers, ReadyOn
  <2> QED BY <1>2, <1>3 DEF IInv, Kept, Mutating, Mutates, Covers, Reached
<1>9. Deleted'
  BY <1>2 DEF IInv, Deleted, Dropped, Mutating, Mutates
<1> QED BY <1>4, <1>5, <1>6, <1>7, <1>8, <1>9 DEF IInv

(* A worker performs what call c asks of it, and r is what c knows then.    *)
Hears(c, o, r) ==
  /\ call[c].pc = "broadcast" /\ call[c].net[o].st = "sent"
  /\ r.pc = "broadcast" /\ r.kind = call[c].kind /\ r.version = call[c].version
  /\ r.file = call[c].file /\ r.previous = call[c].previous /\ r.epoch = call[c].epoch
  /\ \A b \in Backends \ {o} : r.net[b] = call[c].net[b]
  /\ r.kind = "delete" => r.net[o].st \in {"ok", "err"}
  /\ r.net[o].st = "ok" => r.net[o].items = store[o]

(* A worker performs a request; its sender hears of it or gives up.         *)
LEMMA WorkerPerforms ==
  ASSUME IInv, NEW c \in Calls, NEW o \in Backends, NEW r \in CallRecord,
         Perform(c, o), Hears(c, o, r), call' = [call EXCEPT ![c] = r],
         UNCHANGED <<entry, adapterEpoch, acked, gone>>,
         late' \subseteq Orders, faults' \in Nat
  PROVE  IInv'
<1> USE DEF Hears
<1>1. /\ call' \in [Calls -> CallRecord] /\ call'[c] = r
      /\ \A d \in Calls : d # c => call'[d] = call[d]
  BY DEF IInv, TypeOK
<1>2. \A d \in Calls :
        /\ (call'[d].pc = "broadcast" /\ call'[d].kind \in {"upload", "delete"}) <=> Mutating(d)
        /\ (call'[d].pc = "broadcast" /\ call'[d].kind \notin {"upload", "delete"})
              <=> Listing(d)
        /\ call'[d].kind = call[d].kind /\ call'[d].version = call[d].version
        /\ call'[d].file = call[d].file /\ call'[d].previous = call[d].previous
        /\ call'[d].pc = call[d].pc /\ call'[d].epoch = call[d].epoch
        /\ \A b \in Backends : d # c \/ b # o => call'[d].net[b] = call[d].net[b]
        /\ \A b \in Backends : d # c \/ b # o => FreshList(d, b)' = FreshList(d, b)
  BY <1>1 DEF Mutating, Listing, Mutates, FreshList
<1> DEFINE w == Effect(Order(c, o), store[o])
<1>3. /\ store \in [Backends -> SUBSET Versions] /\ lost \in [Backends -> SUBSET Versions]
      /\ call[c] \in CallRecord /\ call[c].file[o] \in VersionNames
      /\ call[c].kind = "upload" => call[c].file[o] \in Versions
  BY DEF IInv, TypeOK, Shape, CallRecord
<1>4. /\ w \subseteq Versions
      /\ call[c].kind = "upload" => w = store[o] \cup {call[c].file[o]}
      /\ call[c].kind # "delete" => store[o] \subseteq w
      /\ Listing(c) => w = store[o]
      /\ \A v \in Versions : v \in store[o] => v \in w \/ (Mutating(c) /\ Covers(c, v))
  <2>1. CASE call[c].kind = "upload"
    BY <1>3, <2>1 DEF Effect, Order, Listing, Mutates
  <2>2. CASE call[c].kind = "delete"
    BY <1>3, <2>2 DEF Effect, Order, Listing, Mutating, Mutates, Covers
  <2>3. CASE call[c].kind \notin {"upload", "delete"}
    BY <1>3, <2>3 DEF Effect, Order
  <2> QED BY <2>1, <2>2, <2>3
<1>5. /\ store' \in [Backends -> SUBSET Versions] /\ lost' \in [Backends -> SUBSET Versions]
      /\ store'[o] = w /\ lost'[o] = lost[o] \ w
      /\ \A b \in Backends : b # o => store'[b] = store[b] /\ lost'[b] = lost[b]
  <2>1. store' = [store EXCEPT ![o] = w]
    BY DEF Perform
  <2>2. lost' = [lost EXCEPT ![o] = lost[o] \ store'[o]]
    BY DEF Perform
  <2> HIDE DEF w
  <2> QED BY <1>3, <1>4, <2>1, <2>2
<1> HIDE DEF w
<1>6. \A b \in Backends, v \in Versions : v \in Had(b) =>
        v \in store'[b] \cup lost'[b] \/ (b = o /\ Mutating(c) /\ Covers(c, v))
  BY <1>3, <1>4, <1>5 DEF Had
<1>7. Mutating(c) => entry.owner = c /\ entry.busy /\ \A d \in Calls : Mutating(d) => d = c
  BY DEF IInv, Owned, MutationIsExclusive, Mutating
<1>8. TypeOK'
  <2>1. entry.busy => \E d \in Calls : Mutating(d)
    BY DEF IInv, TypeOK, Mutating
  <2>2. entry'.busy => \E d \in Calls : call'[d].pc = "broadcast" /\ Mutates(d)'
    BY <1>2, <2>1 DEF Mutates
  <2> QED BY <1>1, <1>5, <2>2 DEF IInv, TypeOK
<1>9. Shape'
  BY <1>2 DEF IInv, Shape, Sound, Mutating, Listing, Mutates
<1>10. Owned'
  BY <1>2 DEF IInv, Owned, MutationIsExclusive, Mutating, Mutates
<1>11. Real'
  <2>1. ASSUME NEW v \in Versions, NEW b \in Backends, b \in ReadyOn(entry, v)
        PROVE  v \in store'[b] \cup lost'[b]
    <3>1. v \in Had(b) /\ ~(Mutating(c) /\ Covers(c, v))
      BY <2>1 DEF IInv, Real
    <3> QED BY <1>6, <3>1
  <2>2. ASSUME NEW d \in Calls, NEW b \in Backends, NEW v \in Versions, Mutating(d)',
               call'[d].kind = "upload" \/ ~Reached(d, b)', b \in ReadyOn(call'[d].previous, v)
        PROVE  v \in store'[b] \cup lost'[b]
    <3>1. Mutating(d) /\ call'[d].previous = call[d].previous
      BY <1>2, <2>2 DEF Mutating, Mutates
    <3>2. /\ call[d].kind = "upload" \/ ~Reached(d, b)
          /\ ~(d = c /\ b = o /\ Covers(c, v))
      BY <1>1, <1>2, <2>2 DEF Reached, Covers
    <3>3. v \in Had(b)
      BY <2>2, <3>1, <3>2 DEF IInv, Real
    <3> QED BY <1>6, <1>7, <3>1, <3>2, <3>3
  <2>3. ASSUME NEW d \in Calls, NEW b \in Backends, Mutating(d)', call'[d].kind = "upload",
               call'[d].net[b].st = "ok"
        PROVE  call'[d].file[b] \in store'[b] \cup lost'[b]
    <3>1. Mutating(d) /\ call[d].kind = "upload" /\ call'[d].file = call[d].file
      BY <1>2, <2>3 DEF Mutating, Mutates
    <3>2. CASE d = c /\ b = o
      BY <1>4, <1>5, <3>1, <3>2
    <3>3. CASE d # c \/ b # o
      <4>1. call[d].file[b] \in Had(b) /\ call[d].file[b] \in Versions
        BY <1>2, <2>3, <3>1, <3>3 DEF IInv, Real, Shape
      <4>2. Mutating(c) => ~Covers(c, call[d].file[b])
        BY <1>7, <3>1 DEF Covers
      <4> QED BY <1>6, <3>1, <4>1, <4>2
    <3> QED BY <3>2, <3>3
  <2>4. ASSUME NEW d \in Calls, NEW b \in Backends, FreshList(d, b)',
               NEW v \in call'[d].net[b].items
        PROVE  v \in store'[b] \cup lost'[b]
    <3>1. ~entry.busy /\ ~Mutating(c)
      BY <1>7, <2>4 DEF FreshList
    <3>2. CASE d = c /\ b = o
      <4>1. Listing(c) /\ call'[d].net[b].items = store[o]
        BY <1>1, <1>2, <2>4, <3>2 DEF FreshList, Listing, Mutates
      <4> QED BY <1>4, <1>5, <2>4, <3>2, <4>1
    <3>3. CASE d # c \/ b # o
      <4>1. v \in Had(b) /\ v \in Versions
        <5>1. FreshList(d, b) /\ call'[d].net[b] = call[d].net[b]
          BY <1>2, <2>4, <3>3
        <5>2. call[d].net[b].items \subseteq Versions
          BY DEF IInv, TypeOK, CallRecord, NetRecord
        <5> QED BY <2>4, <5>1, <5>2 DEF IInv, Real
      <4> QED BY <1>6, <3>1, <4>1
    <3> QED BY <3>2, <3>3
  <2>5. ASSUME NEW d \in Calls, NEW v \in Versions, Mutating(d)', Covers(d, v)'
        PROVE  ReadyOn(entry, v) = {}
    BY <1>2, <2>5 DEF IInv, Real, Mutating, Mutates, Covers
  <2> QED BY <2>1, <2>2, <2>3, <2>4, <2>5 DEF Real, Had, ReadyOn
<1>12. Kept'
  <2> SUFFICES ASSUME NEW v \in Versions, NEW b \in Backends, <<v, b>> \in acked
               PROVE  /\ v \in store'[b] \/ \E d \in Calls :
                           Mutating(d)' /\ Covers(d, v)' /\ Reached(d, b)'
                      /\ ~entry.busy => Offers(entry, v, b)
                      /\ \A d \in Calls : Mutating(d)' =>
                           /\ Offers(call'[d].previous, v, b)
                           /\ Covers(d, v)' \/ Offers(entry, v, b)
                      /\ \A d \in Calls : FreshList(d, b)' => v \in call'[d].net[b].items
    BY DEF Kept, Offers, ReadyOn
  <2>1. v \in store'[b] \/ \E d \in Calls : Mutating(d)' /\ Covers(d, v)' /\ Reached(d, b)'
    <3>1. CASE b = o /\ Mutating(c) /\ Covers(c, v)
      <4>1. Mutating(c)' /\ Covers(c, v)' /\ Reached(c, o)'
        BY <1>1, <1>2, <3>1 DEF Mutating, Mutates, Covers, Reached
      <4> QED BY <3>1, <4>1
    <3>2. CASE ~(b = o /\ Mutating(c) /\ Covers(c, v))
      <4>1. CASE v \in store[b]
        BY <1>4, <1>5, <3>2, <4>1
      <4>2. CASE \E d \in Calls : Mutating(d) /\ Covers(d, v) /\ Reached(d, b)
        <5>1. PICK d \in Calls : Mutating(d) /\ Covers(d, v) /\ Reached(d, b)
          BY <4>2
        <5>2. d # c \/ b # o
          BY <5>1 DEF Reached
        <5>3. Mutating(d)' /\ Covers(d, v)' /\ Reached(d, b)'
          BY <1>2, <5>1, <5>2 DEF Mutating, Mutates, Covers, Reached
        <5> QED BY <5>3
      <4> QED BY <4>1, <4>2 DEF IInv, Kept
    <3> QED BY <3>1, <3>2
  <2>2. ~entry.busy => Offers(entry, v, b)
    BY DEF IInv, Kept
  <2>3. ASSUME NEW d \in Calls, Mutating(d)'
        PROVE  Offers(call'[d].previous, v, b) /\ (Covers(d, v)' \/ Offers(entry, v, b))
    BY <1>2, <2>3 DEF IInv, Kept, Mutating, Mutates, Covers
  <2>4. ASSUME NEW d \in Calls, FreshList(d, b)'
        PROVE  v \in call'[d].net[b].items
    <3>1. CASE d = c /\ b = o
      <4>1. ~\E e \in Calls : Mutating(e)
        BY <2>4 DEF IInv, Owned, MutationIsExclusive, Mutating, FreshList
      <4>2. v \in store[b]
        BY <4>1 DEF IInv, Kept
      <4> QED BY <1>1, <2>4, <3>1, <4>2 DEF FreshList
    <3>2. CASE d # c \/ b # o
      BY <1>2, <2>4, <3>2 DEF IInv, Kept
    <3> QED BY <3>1, <3>2
  <2> QED BY <2>1, <2>2, <2>3, <2>4
<1>13. Deleted'
  <2>1. \A d \in Calls : Mutating(d)' =>
          /\ Mutating(d) /\ call'[d].kind = call[d].kind
          /\ call'[d].version = call[d].version /\ call'[d].previous = call[d].previous
    BY <1>2 DEF Mutating, Mutates
  <2> QED BY <2>1 DEF IInv, Deleted, Dropped
<1> QED BY <1>8, <1>9, <1>10, <1>11, <1>12, <1>13 DEF IInv

(* Workers that lose something by themselves; nothing else changes.         *)
LEMMA WorkersLose ==
  ASSUME IInv, store' \in [Backends -> SUBSET Versions],
         lost' \in [Backends -> SUBSET Versions],
         \A b \in Backends : store[b] \cup lost[b] \subseteq store'[b] \cup lost'[b],
         acked' \subseteq acked,
         \A a \in acked' : a[1] \in store[a[2]] => a[1] \in store'[a[2]],
         UNCHANGED <<entry, adapterEpoch, call, gone>>,
         late' \subseteq Orders, faults' \in Nat
  PROVE  IInv'
<1>1. TypeOK'
  BY DEF IInv, TypeOK, Mutates
<1>2. Shape' /\ Owned' /\ Deleted'
  BY DEF IInv, Shape, Owned, MutationIsExclusive, Deleted, Dropped, Sound, Mutating, Listing,
         Mutates
<1>3. Real'
  <2>1. \A b \in Backends : Had(b) \subseteq Had(b)'
    BY DEF Had
  <2>2. \A d \in Calls, b \in Backends : FreshList(d, b)' = FreshList(d, b)
    BY DEF FreshList, Listing, Mutates
  <2>3. \A d \in Calls, b \in Backends :
          /\ Mutating(d)' = Mutating(d) /\ Reached(d, b)' = Reached(d, b)
          /\ \A v \in Versions : Covers(d, v)' = Covers(d, v)
    BY DEF Mutating, Mutates, Reached, Covers
  <2>4. \A v \in Versions, b \in Backends : b \in ReadyOn(entry', v) => v \in Had(b)'
    BY <2>1 DEF IInv, Real
  <2>5. ASSUME NEW c \in Calls, NEW b \in Backends
        PROVE  /\ Mutating(c)' /\ (call'[c].kind = "upload" \/ ~Reached(c, b)') =>
                    \A v \in Versions : b \in ReadyOn(call'[c].previous, v) => v \in Had(b)'
               /\ Mutating(c)' /\ call'[c].kind = "upload" /\ call'[c].net[b].st = "ok" =>
                    call'[c].file[b] \in Had(b)'
               /\ FreshList(c, b)' => call'[c].net[b].items \subseteq Had(b)'
    BY <2>1, <2>2, <2>3 DEF IInv, Real
  <2>6. ASSUME NEW c \in Calls, NEW v \in Versions, Mutating(c)', Covers(c, v)'
        PROVE  ReadyOn(entry', v) = {}
    <3>1. Mutating(c) /\ Covers(c, v)
      BY <2>6 DEF Mutating, Mutates, Covers
    <3>2. ReadyOn(entry, v) = {}
      BY <3>1 DEF IInv, Real
    <3> QED BY <3>2
  <2> QED BY <2>4, <2>5, <2>6 DEF Real, ReadyOn
<1>4. Kept'
  <2> SUFFICES ASSUME NEW v \in Versions, NEW b \in Backends, <<v, b>> \in acked'
               PROVE  /\ v \in store'[b] \/ \E d \in Calls :
                           Mutating(d) /\ Covers(d, v) /\ Reached(d, b)
                      /\ ~entry.busy => Offers(entry, v, b)
                      /\ \A d \in Calls : Mutating(d) =>
                           Offers(call[d].previous, v, b) /\ (Covers(d, v) \/ Offers(entry, v, b))
                      /\ \A d \in Calls : FreshList(d, b) => v \in call[d].net[b].items
    BY DEF Kept, Offers, ReadyOn, FreshList, Listing, Mutating, Mutates, Covers, Reached
  <2>1. <<v, b>> \in acked /\ (v \in store[b] => v \in store'[b])
    OBVIOUS
  <2> QED BY <2>1 DEF IInv, Kept
<1> QED BY <1>1, <1>2, <1>3, <1>4 DEF IInv

(* A worker performs a request whose sender no longer waits.                *)
LEMMA LateEffectStep ==
  ASSUME IInv, NEW order \in late, LateEffect(order)
  PROVE  IInv'
<1> DEFINE o == order[1]
           w == Effect(order, store[o])
<1>1. /\ o \in Backends /\ order[2] \in {"upload", "delete"} /\ order[3] \in VersionNames
      /\ order[2] = "upload" => order[3] \in Versions
  BY Constants DEF IInv, TypeOK, Orders
<1>2. /\ store \in [Backends -> SUBSET Versions] /\ lost \in [Backends -> SUBSET Versions]
      /\ acked \subseteq Versions \X Backends
  BY DEF IInv, TypeOK
<1>3. w \subseteq Versions
  BY <1>1, <1>2 DEF Effect
<1> HIDE DEF w
<1>4. /\ store' = [store EXCEPT ![o] = w]
      /\ lost' = [lost EXCEPT ![o] = (lost[o] \cup store[o]) \ store'[o]]
      /\ acked' = {a \in acked : a[2] = o => a[1] \in store'[o]}
  BY DEF LateEffect, w
<1> HIDE DEF o
<1>5. /\ store' \in [Backends -> SUBSET Versions] /\ store'[o] = w
      /\ lost' \in [Backends -> SUBSET Versions] /\ lost'[o] = (lost[o] \cup store[o]) \ w
      /\ \A b \in Backends : b # o => store'[b] = store[b] /\ lost'[b] = lost[b]
  BY <1>1, <1>2, <1>3, <1>4
<1>6. \A b \in Backends : store[b] \cup lost[b] \subseteq store'[b] \cup lost'[b]
  BY <1>5
<1>7. acked' \subseteq acked /\ \A a \in acked' : a[1] \in store[a[2]] => a[1] \in store'[a[2]]
  BY <1>2, <1>4, <1>5
<1>8. /\ late' \subseteq Orders /\ faults' \in Nat
      /\ UNCHANGED <<entry, adapterEpoch, call, gone>>
  BY DEF LateEffect, IInv, TypeOK
<1> QED BY <1>5, <1>6, <1>7, <1>8, WorkersLose

(* A worker restarts with an empty registry.                                *)
LEMMA RestartStep ==
  ASSUME IInv, NEW o \in Backends, Restart(o)
  PROVE  IInv'
<1>1. /\ store \in [Backends -> SUBSET Versions] /\ lost \in [Backends -> SUBSET Versions]
      /\ acked \subseteq Versions \X Backends
  BY DEF IInv, TypeOK
<1>2. /\ store' \in [Backends -> SUBSET Versions] /\ lost' \in [Backends -> SUBSET Versions]
      /\ \A b \in Backends : store[b] \cup lost[b] \subseteq store'[b] \cup lost'[b]
      /\ \A b \in Backends : b # o => store'[b] = store[b]
  BY <1>1 DEF Restart
<1>3. acked' \subseteq acked /\ \A a \in acked' : a[1] \in store[a[2]] => a[1] \in store'[a[2]]
  BY <1>1, <1>2 DEF Restart
<1>4. /\ late' \subseteq Orders /\ faults' \in Nat
      /\ UNCHANGED <<entry, adapterEpoch, call, gone>>
  BY DEF Restart, IInv, TypeOK
<1> QED BY <1>2, <1>3, <1>4, WorkersLose

-----------------------------------------------------------------------------
(* The steps that change one call only.                                     *)
LEMMA CallTypes ==
  ASSUME IInv, NEW c \in Calls
  PROVE  /\ call[c] \in CallRecord /\ call[c].net \in [Backends -> NetRecord]
         /\ late \subseteq Orders /\ faults \in Nat /\ adapterEpoch \in Nat
         /\ call[c].kind = "upload" => call[c].file \in [Backends -> Versions]
         /\ Listing(c) => call[c].epoch <= adapterEpoch
         /\ entry \in PlacementRecord
BY DEF IInv, TypeOK, CallRecord, Shape

(* A call that has ended.                                                   *)
LEMMA CallReturns ==
  ASSUME IInv, NEW c \in Calls, ~Mutating(c), call' = [call EXCEPT ![c] = Returned],
         UNCHANGED <<entry, adapterEpoch, store, lost, acked>>, gone' \subseteq gone,
         UNCHANGED <<late, faults>>
  PROVE  IInv'
<1>1. Returned \in CallRecord /\ Returned.pc = "done" /\ Returned.kind = "none"
  BY InitialRecords DEF Returned, NewCall
<1> QED BY <1>1, CallTypes, CallMoves

(* A worker refuses a request, without effect.                              *)
LEMMA RejectedStep ==
  ASSUME IInv, NEW c \in Calls, NEW o \in Backends, Rejected(c, o)
  PROVE  IInv'
<1> DEFINE n == [call[c].net[o] EXCEPT !.st = "rejected"]
           r == [call[c] EXCEPT !.net = [call[c].net EXCEPT ![o] = n]]
<1>1. /\ call[c] \in CallRecord /\ call[c].net \in [Backends -> NetRecord]
      /\ call[c].kind = "upload" => call[c].file \in [Backends -> Versions]
  BY CallTypes
<1>2. n \in NetRecord /\ n.st = "rejected"
  BY <1>1 DEF NetRecord
<1>3. call' = [call EXCEPT ![c] = r]
  BY <1>1 DEF Rejected
<1> HIDE DEF n
<1>4. /\ r.pc = call[c].pc /\ r.kind = call[c].kind /\ r.version = call[c].version
      /\ r.file = call[c].file /\ r.previous = call[c].previous
      /\ r.net = [call[c].net EXCEPT ![o] = n]
  BY <1>1 DEF CallRecord
<1>5. r.net \in [Backends -> NetRecord] /\ r.net[o] = n
      /\ \A b \in Backends : b # o => r.net[b] = call[c].net[b]
  BY <1>1, <1>2, <1>4
<1>6. r \in CallRecord
  BY <1>1, <1>5 DEF CallRecord
<1> HIDE DEF r
<1>7. /\ Mutating(c) /\ ~Reached(c, o) /\ call[c].pc = "broadcast" /\ Mutates(c)
      /\ UNCHANGED <<entry, adapterEpoch, store, lost, acked>> /\ gone' \subseteq gone
      /\ UNCHANGED <<late, faults>>
  BY DEF Rejected, Mutating, Reached
<1>8. \A b \in Backends :
        /\ r.net[b].st = "ok" => call[c].net[b].st = "ok"
        /\ Reached(c, b) => r.net[b].st \notin {"sent", "rejected"}
  BY <1>2, <1>5, <1>7 DEF Reached
<1>9. late' \subseteq Orders /\ faults' \in Nat
  BY <1>7, CallTypes
<1> QED BY <1>1, <1>3, <1>4, <1>6, <1>7, <1>8, <1>9, CallMoves DEF Mutates

(* An answer comes with what the worker did and lists.                      *)
LEMMA AnsweredStep ==
  ASSUME IInv, NEW c \in Calls, NEW o \in Backends, Answered(c, o)
  PROVE  IInv'
<1> DEFINE n == [call[c].net[o] EXCEPT !.st = "ok", !.items = store[o]]
           r == [call[c] EXCEPT !.net = [call[c].net EXCEPT ![o] = n]]
<1>1. call[c] \in CallRecord /\ call[c].net \in [Backends -> NetRecord]
  BY CallTypes
<1>2. store[o] \subseteq Versions
  BY DEF IInv, TypeOK
<1>3. n \in NetRecord /\ n.st = "ok" /\ n.items = store[o]
  BY <1>1, <1>2 DEF NetRecord
<1>4. call' = [call EXCEPT ![c] = r]
  BY <1>1 DEF Answered
<1> HIDE DEF n
<1>5. /\ r.pc = call[c].pc /\ r.kind = call[c].kind /\ r.version = call[c].version
      /\ r.file = call[c].file /\ r.previous = call[c].previous /\ r.epoch = call[c].epoch
      /\ r.net = [call[c].net EXCEPT ![o] = n]
  BY <1>1 DEF CallRecord
<1>6. /\ r.net \in [Backends -> NetRecord] /\ r.net[o] = n
      /\ \A b \in Backends \ {o} : r.net[b] = call[c].net[b]
  BY <1>1, <1>3, <1>5
<1>7. r \in CallRecord
  BY <1>1, <1>6 DEF CallRecord
<1> HIDE DEF r
<1>8. /\ call[c].pc = "broadcast" /\ call[c].net[o].st = "sent" /\ Perform(c, o)
      /\ UNCHANGED <<entry, adapterEpoch, acked, gone>>
      /\ late' \subseteq Orders /\ faults' \in Nat
  BY CallTypes DEF Answered
<1>9. Hears(c, o, r)
  BY <1>3, <1>5, <1>6, <1>8 DEF Hears
<1> QED BY <1>4, <1>7, <1>8, <1>9, WorkerPerforms

(* An attempt of a call fails: it is repeated, or given up.                 *)
LEMMA AttemptFailsStep ==
  ASSUME IInv, NEW c \in Calls, NEW o \in Backends, AttemptFails(c, o)
  PROVE  IInv'
<1> DEFINE n == IF call[c].kind = "upload" /\ call[c].net[o].tries + 1 < Attempts
                THEN [call[c].net[o] EXCEPT !.tries = call[c].net[o].tries + 1]
                ELSE [call[c].net[o] EXCEPT !.st = "err"]
           r == [call[c] EXCEPT !.net = [call[c].net EXCEPT ![o] = n]]
<1>1. /\ call[c] \in CallRecord /\ call[c].net \in [Backends -> NetRecord]
      /\ call[c].net[o].st = "sent" /\ call[c].pc = "broadcast"
      /\ call[c].file[o] \in VersionNames /\ call[c].version \in VersionNames
      /\ call[c].kind = "upload" => call[c].file \in [Backends -> Versions]
  BY CallTypes DEF AttemptFails, CallRecord
<1>2. /\ n \in NetRecord /\ n.st \in {"sent", "err"}
      /\ call[c].kind # "upload" => n.st = "err"
  BY <1>1 DEF NetRecord
<1>3. call' = [call EXCEPT ![c] = r]
  BY <1>1 DEF AttemptFails
<1> HIDE DEF n
<1>4. /\ r.pc = call[c].pc /\ r.kind = call[c].kind /\ r.version = call[c].version
      /\ r.file = call[c].file /\ r.previous = call[c].previous /\ r.epoch = call[c].epoch
      /\ r.net = [call[c].net EXCEPT ![o] = n]
  BY <1>1 DEF CallRecord
<1>5. /\ r.net \in [Backends -> NetRecord] /\ r.net[o] = n
      /\ \A b \in Backends \ {o} : r.net[b] = call[c].net[b]
  BY <1>1, <1>2, <1>4
<1>6. r \in CallRecord
  BY <1>1, <1>5 DEF CallRecord
<1> HIDE DEF r
<1>7. late' \subseteq Orders /\ faults' \in Nat
  <2>1. Mutates(c) => Order(c, o) \in Orders
    BY <1>1 DEF Mutates, Order, Orders
  <2> QED BY <2>1, CallTypes DEF AttemptFails
<1>8. CASE Perform(c, o)
  <2>1. UNCHANGED <<entry, adapterEpoch, acked, gone>>
    BY DEF AttemptFails
  <2>2. r.kind = "delete" => r.net[o].st \in {"ok", "err"}
    BY <1>2, <1>4, <1>5
  <2>3. r.net[o].st = "ok" => r.net[o].items = store[o]
    BY <1>2, <1>5
  <2>4. Hears(c, o, r)
    BY <1>1, <1>4, <1>5, <2>2, <2>3 DEF Hears
  <2> QED BY <1>3, <1>6, <1>7, <1>8, <2>1, <2>4, WorkerPerforms
<1>9. CASE UNCHANGED <<store, lost>>
  <2>1. ~Reached(c, o)
    BY <1>1 DEF Reached
  <2>2. \A b \in Backends :
          /\ r.net[b].st = "ok" => call[c].net[b].st = "ok" /\ r.net[b] = call[c].net[b]
          /\ Reached(c, b) => r.net[b].st \notin {"sent", "rejected"}
    BY <1>2, <1>5, <2>1 DEF Reached
  <2>3. /\ UNCHANGED <<entry, adapterEpoch, store, lost, acked>>
        /\ gone' \subseteq gone /\ r.pc # "new"
    BY <1>1, <1>4, <1>9 DEF AttemptFails
  <2>4. /\ (r.pc = "broadcast" /\ r.kind \in {"upload", "delete"}) <=> Mutating(c)
        /\ r.kind = "upload" => r.file \in [Backends -> Versions]
        /\ r.pc = "broadcast" /\ r.kind \notin {"upload", "delete"} =>
             Listing(c) /\ r.epoch <= adapterEpoch
    BY <1>1, <1>4, CallTypes DEF Mutating, Listing, Mutates
  <2> QED BY <1>3, <1>4, <1>6, <1>7, <2>2, <2>3, <2>4, CallMoves
<1> QED BY <1>8, <1>9 DEF AttemptFails

(* What a version name resolves to is a version name.                       *)
LEMMA ResolvedType ==
  ASSUME IInv, NEW v \in VersionNames
  PROVE  Resolved(v) \in VersionNames
<1>1. entry.current \in VersionNames /\ DOMAIN entry.ready \subseteq Versions
  BY ReadyElim DEF IInv, TypeOK, PlacementRecord
<1>2. Cardinality(DOMAIN entry.ready) = 1 => DOMAIN entry.ready # {}
  BY FS_EmptySet
<1>3. Cardinality(DOMAIN entry.ready) = 1 => (CHOOSE x \in DOMAIN entry.ready : TRUE) \in Versions
  BY <1>1, <1>2
<1> QED BY <1>1, <1>3, Constants DEF Resolved

(* A call that begins to list, from the epoch it sees.                      *)
LEMMA CallLists ==
  ASSUME IInv, NEW c \in Calls, NEW k \in {"list", "infer"}, NEW v \in VersionNames, ~Mutating(c),
         call' = [call EXCEPT ![c] =
                    SnapshotAndList(c, [call[c] EXCEPT !.kind = k, !.version = v])],
         UNCHANGED <<entry, adapterEpoch, store, lost, acked, gone, late, faults>>
  PROVE  IInv'
<1> DEFINE q == [call[c] EXCEPT !.kind = k, !.version = v]
           s == [q EXCEPT !.epoch = adapterEpoch]
           n == [b \in Backends |-> [st |-> "sent", tries |-> 0, items |-> {}]]
           r == [s EXCEPT !.pc = "broadcast", !.net = n]
<1>1. call[c] \in CallRecord /\ adapterEpoch \in Nat
  BY CallTypes
<1>2. n \in [Backends -> NetRecord] /\ \A b \in Backends : n[b].st = "sent"
  BY DEF NetRecord
<1>3. call' = [call EXCEPT ![c] = r]
  BY DEF SnapshotAndList, Broadcast
<1> HIDE DEF n
<1>4. q \in CallRecord /\ q.kind = k
  BY <1>1 DEF CallRecord
<1> HIDE DEF q
<1>5. s \in CallRecord /\ s.kind = k /\ s.epoch = adapterEpoch
  BY <1>1, <1>4 DEF CallRecord
<1> HIDE DEF s
<1>6. r \in CallRecord /\ r.kind = k /\ r.epoch = adapterEpoch /\ r.pc = "broadcast" /\ r.net = n
  BY <1>2, <1>5 DEF CallRecord
<1> HIDE DEF r
<1>7. late' \subseteq Orders /\ faults' \in Nat
  BY CallTypes
<1>8. r.kind # "upload" /\ r.kind \notin {"upload", "delete"} /\ r.epoch <= adapterEpoch
  BY <1>1, <1>6
<1>9. \A b \in Backends : r.net[b].st # "ok"
  BY <1>2, <1>6
<1> QED BY <1>3, <1>6, <1>7, <1>8, <1>9, CallMoves

(* GET /v1/adapters asks every worker.                                      *)
LEMMA BeginListStep ==
  ASSUME IInv, NEW c \in Calls, BeginList(c)
  PROVE  IInv'
<1>1. call[c] \in CallRecord
  BY CallTypes
<1>2. [call[c] EXCEPT !.kind = "list"]
        = [call[c] EXCEPT !.kind = "list", !.version = call[c].version]
  BY <1>1 DEF CallRecord
<1>3. ~Mutating(c) /\ call[c].version \in VersionNames
  BY <1>1 DEF BeginList, Arrives, Mutating, CallRecord
<1>4. call' = [call EXCEPT ![c] = SnapshotAndList(c,
                 [call[c] EXCEPT !.kind = "list", !.version = call[c].version])]
  BY <1>2 DEF BeginList
<1> QED BY <1>3, <1>4, CallLists DEF BeginList

(* An inference request names a version.                                    *)
LEMMA BeginInferenceStep ==
  ASSUME IInv, NEW c \in Calls, NEW v \in VersionNames, BeginInference(c, v)
  PROVE  IInv'
<1> DEFINE r == [call[c] EXCEPT !.kind = "infer", !.version = Resolved(v)]
           t == [r EXCEPT !.pc = "resolved"]
<1>1. call[c] \in CallRecord /\ Resolved(v) \in VersionNames
  BY CallTypes, ResolvedType
<1>2. ~Mutating(c) /\ UNCHANGED <<entry, adapterEpoch, store, lost, acked, gone, late, faults>>
  BY DEF BeginInference, Arrives, Mutating
<1>3. CASE call' = [call EXCEPT ![c] = SnapshotAndList(c, r)]
  BY <1>1, <1>2, <1>3, CallLists
<1>4. CASE call' = [call EXCEPT ![c] = t]
  <2>1. r \in CallRecord /\ r.kind = "infer"
    BY <1>1 DEF CallRecord
  <2> HIDE DEF r
  <2>2. t \in CallRecord /\ t.kind = "infer" /\ t.pc = "resolved"
    BY <2>1 DEF CallRecord
  <2> HIDE DEF t
  <2>3. late' \subseteq Orders /\ faults' \in Nat /\ gone' \subseteq gone
    BY <1>2, CallTypes
  <2> QED BY <1>2, <1>4, <2>2, <2>3, CallMoves
<1> QED BY <1>3, <1>4 DEF BeginInference

(* The version is resolved again after the lists.                           *)
LEMMA ResolveAgainStep ==
  ASSUME IInv, NEW c \in Calls, ResolveAgain(c)
  PROVE  IInv'
<1> DEFINE v == Resolved(call[c].version)
           r == [call[c] EXCEPT !.pc = "resolved", !.version = v]
<1>1. call[c] \in CallRecord /\ v \in VersionNames
  <2>1. call[c].version \in VersionNames
    BY CallTypes DEF CallRecord
  <2> QED BY <2>1, CallTypes, ResolvedType
<1>2. call[c].kind = "upload" => call[c].file \in [Backends -> Versions]
  BY CallTypes
<1>3. /\ ~Mutating(c)
      /\ UNCHANGED <<entry, adapterEpoch, store, lost, acked, gone, late, faults>>
  BY DEF ResolveAgain, Mutating
<1>4. call' = [call EXCEPT ![c] = r]
  BY <1>1 DEF ResolveAgain
<1> HIDE DEF v
<1>5. r \in CallRecord /\ r.pc = "resolved" /\ r.kind = call[c].kind /\ r.file = call[c].file
  BY <1>1 DEF CallRecord
<1> HIDE DEF r
<1>6. late' \subseteq Orders /\ faults' \in Nat /\ gone' \subseteq gone
  BY <1>3, CallTypes
<1> QED BY <1>2, <1>3, <1>4, <1>5, <1>6, CallMoves

(* The request gets one of the ready workers.                               *)
LEMMA AcquireStep ==
  ASSUME IInv, NEW c \in Calls, NEW o \in Backends, Acquire(c, o)
  PROVE  IInv'
<1> DEFINE r == [call[c] EXCEPT !.pc = "forward", !.backend = o]
<1>1. call[c] \in CallRecord
  BY CallTypes
<1>2. /\ ~Mutating(c) /\ call[c].kind = "infer"
      /\ UNCHANGED <<entry, adapterEpoch, store, lost, acked, gone, late, faults>>
  BY DEF Acquire, Mutating
<1>3. call' = [call EXCEPT ![c] = r]
  BY <1>1 DEF Acquire
<1>4. r \in CallRecord /\ r.pc = "forward" /\ r.kind = call[c].kind
  BY <1>1 DEF CallRecord
<1> HIDE DEF r
<1>5. late' \subseteq Orders /\ faults' \in Nat /\ gone' \subseteq gone
  BY <1>2, CallTypes
<1> QED BY <1>2, <1>3, <1>4, <1>5, CallMoves

(* The worker answers the forwarded request.                                *)
LEMMA ForwardStep ==
  ASSUME IInv, NEW c \in Calls, Forward(c)
  PROVE  IInv'
<1> DEFINE r == [call[c] EXCEPT !.pc = "missing"]
<1>1. /\ ~Mutating(c)
      /\ UNCHANGED <<entry, adapterEpoch, store, lost, acked, gone, late, faults>>
  BY DEF Forward, Mutating
<1>2. CASE call' = [call EXCEPT ![c] = r]
  <2>1. call[c] \in CallRecord /\ (call[c].kind = "upload" => call[c].file \in [Backends -> Versions])
    BY CallTypes
  <2>2. r \in CallRecord /\ r.pc = "missing" /\ r.kind = call[c].kind /\ r.file = call[c].file
    BY <2>1 DEF CallRecord
  <2> HIDE DEF r
  <2>3. late' \subseteq Orders /\ faults' \in Nat /\ gone' \subseteq gone
    BY <1>1, CallTypes
  <2> QED BY <1>1, <1>2, <2>1, <2>2, <2>3, CallMoves
<1>3. CASE call' = [call EXCEPT ![c] = Returned]
  BY <1>1, <1>3, CallReturns
<1>4. \/ call' = [call EXCEPT ![c] = r]
      \/ call' = [call EXCEPT ![c] = Returned]
  BY DEF Forward
<1> QED BY <1>2, <1>3, <1>4

(* All the workers' lists have been taken in.                               *)
LEMMA ObservedAllStep ==
  ASSUME IInv, NEW c \in Calls, ObservedAll(c)
  PROVE  IInv'
<1> DEFINE r == [call[c] EXCEPT !.pc = "listed"]
<1>1. /\ ~Mutating(c)
      /\ UNCHANGED <<entry, adapterEpoch, store, lost, acked, gone, late, faults>>
  BY DEF ObservedAll, Mutating
<1>2. CASE call' = [call EXCEPT ![c] = r]
  <2>1. call[c] \in CallRecord /\ (call[c].kind = "upload" => call[c].file \in [Backends -> Versions])
    BY CallTypes
  <2>2. r \in CallRecord /\ r.pc = "listed" /\ r.kind = call[c].kind /\ r.file = call[c].file
    BY <2>1 DEF CallRecord
  <2> HIDE DEF r
  <2>3. late' \subseteq Orders /\ faults' \in Nat /\ gone' \subseteq gone
    BY <1>1, CallTypes
  <2> QED BY <1>1, <1>2, <2>1, <2>2, <2>3, CallMoves
<1>3. CASE call' = [call EXCEPT ![c] = Returned]
  BY <1>1, <1>3, CallReturns
<1>4. \/ call' = [call EXCEPT ![c] = r]
      \/ call' = [call EXCEPT ![c] = Returned]
  BY DEF ObservedAll
<1> QED BY <1>2, <1>3, <1>4

(* 503: no worker is ready and healthy.                                     *)
LEMMA UnavailableStep ==
  ASSUME IInv, NEW c \in Calls, Unavailable(c)
  PROVE  IInv'
BY CallReturns DEF Unavailable, Mutating

(* The mutation it belongs to has completed: the placement is not its own,  *)
(* or no longer busy.                                                       *)
LEMMA DeferredCompleteStep ==
  ASSUME IInv, NEW c \in Calls, DeferredComplete(c)
  PROVE  IInv'
<1>1. call[c].pc = "reply"
  BY DEF DeferredComplete
<1>2. ~Completes(c, entry)
  BY <1>1 DEF Completes, IInv, Owned, Mutating
<1> QED BY <1>1, <1>2, CallReturns DEF DeferredComplete, Completed, Mutating

-----------------------------------------------------------------------------
(* A mutation begins: e is its placement, r its call.                       *)
Begins(c, r, e) ==
  /\ r.pc = "broadcast" /\ r.kind \in {"upload", "delete"} /\ r.previous = entry
  /\ r.kind = "upload" => r.file \in [Backends -> Versions]
  /\ \A b \in Backends : r.net[b].st = "sent"
  /\ e.present /\ e.busy /\ e.owner = c /\ Sound(e) /\ (r.kind = "upload" => ~e.deleted)
  /\ \A x \in Versions :
       /\ r.kind = "delete" /\ r.version \in {NoVersion, x} => ReadyOn(e, x) = {}
       /\ ~(r.kind = "delete" /\ r.version \in {NoVersion, x})
            => ~e.deleted /\ ReadyOn(e, x) = ReadyOn(entry, x)
       /\ Dropped(entry, x) => Dropped(e, x)
  /\ r.kind = "delete" /\ r.version # NoVersion => Dropped(e, r.version)

(* A mutation that marks its entry busy keeps the invariant.                *)
LEMMA MutationBegins ==
  ASSUME IInv, NEW c \in Calls, NEW r \in CallRecord, NEW e \in PlacementRecord,
         Begins(c, r, e), ~entry.busy, call[c].pc = "new",
         call' = [call EXCEPT ![c] = r], entry' = e, adapterEpoch' = adapterEpoch + 1,
         gone' \subseteq gone, UNCHANGED <<store, late, faults, lost, acked>>
  PROVE  IInv'
<1> USE DEF Begins
<1>1. /\ call' \in [Calls -> CallRecord] /\ call'[c] = r /\ adapterEpoch \in Nat
      /\ \A d \in Calls : d # c => call'[d] = call[d]
  BY DEF IInv, TypeOK
<1>2. \A d \in Calls : ~Mutating(d)
  BY DEF IInv, Owned, MutationIsExclusive, Mutating
<1>3. \A d \in Calls : Mutating(d)' <=> d = c
  BY <1>1, <1>2 DEF Mutating, Mutates
<1>4. TypeOK'
  <2>1. call'[c].pc = "broadcast" /\ Mutates(c)'
    BY <1>1 DEF Mutates
  <2> QED BY <1>1, <2>1 DEF IInv, TypeOK
<1>5. Shape'
  <2>1. \A d \in Calls : Listing(d)' => call'[d].epoch <= adapterEpoch'
    <3> SUFFICES ASSUME NEW d \in Calls, Listing(d)'
                 PROVE  call'[d].epoch <= adapterEpoch'
      OBVIOUS
    <3>1. d # c /\ Listing(d) /\ call'[d] = call[d]
      BY <1>1 DEF Listing, Mutates
    <3>2. call[d].epoch \in Nat
      BY DEF IInv, TypeOK, CallRecord
    <3> QED BY <1>1, <3>1, <3>2 DEF IInv, Shape
  <2>2. Sound(entry) /\ entry.owner # c /\ ~entry.busy
    BY DEF IInv, Shape
  <2>3. entry.owner \in Calls => call'[entry.owner].pc # "new"
    BY <1>1, <2>2 DEF IInv, Shape
  <2>4. \A d \in Calls : call'[d].kind = "upload" => call'[d].file \in [Backends -> Versions]
    BY <1>1 DEF IInv, Shape
  <2> QED BY <1>1, <1>3, <2>1, <2>2, <2>3, <2>4 DEF Shape, Sound
<1>6. Owned'
  BY <1>1, <1>3 DEF Owned, MutationIsExclusive, Mutating
<1>7. \A d \in Calls, b \in Backends : ~FreshList(d, b)'
  BY DEF FreshList
<1>8. Real'
  <2>1. \A v \in Versions, b \in Backends : b \in ReadyOn(entry, v) => v \in Had(b)
    BY DEF IInv, Real
  <2>2. \A v \in Versions, b \in Backends : b \in ReadyOn(e, v) => v \in Had(b)
    BY <2>1
  <2>3. \A v \in Versions : Covers(c, v)' => ReadyOn(e, v) = {}
    BY <1>1 DEF Covers
  <2> QED BY <1>1, <1>3, <1>7, <2>1, <2>2, <2>3 DEF Real, Had, ReadyOn
<1>9. Kept'
  <2> SUFFICES ASSUME NEW v \in Versions, NEW b \in Backends, <<v, b>> \in acked
               PROVE  v \in store[b] /\ Offers(entry, v, b) /\ (Covers(c, v)' \/ Offers(e, v, b))
    BY <1>1, <1>3, <1>7 DEF Kept, Offers, ReadyOn
  <2>1. v \in store[b] /\ Offers(entry, v, b)
    BY <1>2 DEF IInv, Kept
  <2> QED BY <1>1, <2>1 DEF Covers, Offers
<1>10. Deleted'
  BY <1>1, <1>3 DEF IInv, Deleted, Dropped
<1> QED BY <1>4, <1>5, <1>6, <1>8, <1>9, <1>10 DEF IInv

(* A POST or DELETE /v1/adapters begins.                                    *)
LEMMA BeginMutationStep ==
  ASSUME IInv, NEW c \in Calls, NEW k \in {"upload", "delete"}, NEW v \in VersionNames,
         NEW file \in [Backends -> VersionNames], k = "upload" => file \in [Backends -> Versions],
         BeginMutation(c, k, v, file)
  PROVE  IInv'
<1>1. call[c].pc = "new" /\ ~Mutating(c) /\ gone' \subseteq gone
  BY DEF BeginMutation, Arrives, Mutating
<1>2. CASE entry.busy
  BY <1>1, <1>2, CallReturns DEF BeginMutation
<1>3. CASE ~entry.busy
  <2> DEFINE q == [call[c] EXCEPT !.kind = k, !.version = v, !.file = file, !.previous = entry]
             n == [b \in Backends |-> [st |-> "sent", tries |-> 0, items |-> {}]]
             r == [q EXCEPT !.pc = "broadcast", !.net = n]
             p == Placement(c)
             e == IF k = "delete" THEN Disabled(p, v) ELSE p
  <2>1. /\ entry' = e /\ adapterEpoch' = adapterEpoch + 1 /\ call' = [call EXCEPT ![c] = r]
        /\ UNCHANGED <<store, late, faults, lost, acked>>
    BY <1>3 DEF BeginMutation, Broadcast
  <2>2. call[c] \in CallRecord /\ entry \in PlacementRecord /\ Sound(entry)
    BY CallTypes DEF IInv, Shape
  <2>3. r \in CallRecord /\ r.kind = k /\ r.version = v /\ r.file = file /\ r.previous = entry
        /\ r.pc = "broadcast" /\ \A b \in Backends : r.net[b].st = "sent"
    <3>1. q \in CallRecord /\ q.kind = k /\ q.version = v /\ q.file = file /\ q.previous = entry
      BY <2>2 DEF CallRecord
    <3>2. n \in [Backends -> NetRecord] /\ \A b \in Backends : n[b].st = "sent"
      BY DEF NetRecord
    <3> HIDE DEF q, n
    <3> QED BY <3>1, <3>2 DEF CallRecord
  <2> HIDE DEF q, n, r
  <2>4. /\ p \in PlacementRecord /\ p.present /\ p.owner = c /\ p.busy /\ ~p.deleted
        /\ p.ready = entry.ready /\ p.deletedVersions = entry.deletedVersions
    BY <2>2 DEF Placement, PlacementRecord
  <2>5. /\ DOMAIN entry.ready \subseteq Versions
        /\ entry.ready \in [DOMAIN entry.ready -> SUBSET Backends]
    BY <2>2, ReadyElim DEF PlacementRecord
  <2> HIDE DEF p
  <2>6. CASE k = "upload"
    <3>1. e = p
      BY <2>6
    <3>2. Begins(c, r, p)
      BY <2>3, <2>4, <2>6 DEF Begins, Sound, ReadyOn, Dropped
    <3> QED BY <1>1, <1>3, <2>1, <2>3, <2>4, <3>1, <3>2, MutationBegins
  <2>7. CASE k = "delete" /\ v = NoVersion
    <3> DEFINE none == [x \in {} |-> {}]
               w == [p EXCEPT !.ready = none, !.current = NoVersion, !.deleted = TRUE]
    <3>1. e = w
      BY <2>7 DEF Disabled
    <3>2. none \in ReadyMap /\ DOMAIN none = {}
      BY ReadyIntro, {} \in SUBSET Versions
    <3> HIDE DEF none
    <3>3. /\ w \in PlacementRecord /\ w.present /\ w.owner = c /\ w.busy
          /\ w.ready = none /\ w.deletedVersions = entry.deletedVersions
      BY <2>4, <3>2, Constants DEF PlacementRecord
    <3> HIDE DEF w
    <3>4. Begins(c, r, w)
      BY <2>3, <2>7, <3>2, <3>3 DEF Begins, Sound, ReadyOn, Dropped
    <3> QED BY <1>1, <1>3, <2>1, <2>3, <3>1, <3>3, <3>4, MutationBegins
  <2>8. CASE k = "delete" /\ v # NoVersion
    <3> DEFINE rest == [x \in DOMAIN p.ready \ {v} |-> p.ready[x]]
               cur == IF p.current = v THEN NoVersion ELSE p.current
               w == [p EXCEPT !.ready = rest, !.deletedVersions = p.deletedVersions \cup {v},
                              !.current = cur]
    <3>1. e = w
      BY <2>8 DEF Disabled
    <3>2. v \in Versions /\ cur \in VersionNames
      BY <2>4, <2>8, Constants DEF VersionNames, PlacementRecord
    <3>3. rest \in [DOMAIN p.ready \ {v} -> SUBSET Backends] /\ DOMAIN rest = DOMAIN p.ready \ {v}
          /\ \A x \in DOMAIN rest : rest[x] = p.ready[x]
      BY <2>4, <2>5
    <3> HIDE DEF rest, cur
    <3>4. rest \in ReadyMap
      BY <2>4, <2>5, <3>3, ReadyIntro
    <3>5. /\ w \in PlacementRecord /\ w.present /\ w.owner = c /\ w.busy /\ ~w.deleted
          /\ w.ready = rest /\ w.deletedVersions = p.deletedVersions \cup {v}
      BY <2>4, <3>2, <3>4 DEF PlacementRecord
    <3> HIDE DEF w
    <3>6. /\ Sound(w) /\ Dropped(w, v) /\ ReadyOn(w, v) = {}
          /\ \A x \in Versions : x # v => ReadyOn(w, x) = ReadyOn(entry, x)
          /\ \A x \in Versions : Dropped(entry, x) => Dropped(w, x)
      BY <2>4, <3>3, <3>5 DEF Sound, Dropped, ReadyOn
    <3>7. Begins(c, r, w)
      BY <2>3, <2>8, <3>2, <3>5, <3>6, Constants DEF Begins
    <3> QED BY <1>1, <1>3, <2>1, <2>3, <3>1, <3>5, <3>7, MutationBegins
  <2> QED BY <2>6, <2>7, <2>8
<1> QED BY <1>2, <1>3

-----------------------------------------------------------------------------
(* A mutation ends with placement e; no list taken so far is fresh then.    *)
Ends(e, newAcked, newGone) ==
  /\ ~e.busy /\ Sound(e) /\ (e.owner \in Calls => call[e.owner].pc # "new")
  /\ newAcked \subseteq Versions \X Backends /\ newGone \subseteq Versions \X BOOLEAN
  /\ \A v \in Versions, b \in Backends : b \in ReadyOn(e, v) => v \in Had(b)
  /\ \A v \in Versions, b \in Backends :
       <<v, b>> \in newAcked => v \in store[b] /\ Offers(e, v, b)
  /\ \A v \in Versions : <<v, FALSE>> \in newGone => Dropped(e, v)

(* A mutation that completes its entry keeps the invariant.                 *)
LEMMA MutationEnds ==
  ASSUME IInv, NEW c \in Calls, Mutating(c), NEW e \in PlacementRecord,
         Ends(e, acked', gone'), entry' = e, adapterEpoch' = adapterEpoch + 1,
         NEW back \in BOOLEAN,
         call' = [call EXCEPT ![c] = [call[c] EXCEPT !.pc = "reply", !.rollback = back]],
         UNCHANGED <<store, late, faults, lost>>
  PROVE  IInv'
<1> USE DEF Ends
<1> DEFINE r == [call[c] EXCEPT !.pc = "reply", !.rollback = back]
<1>1. /\ call[c] \in CallRecord /\ adapterEpoch \in Nat
      /\ call[c].kind = "upload" => call[c].file \in [Backends -> Versions]
  BY CallTypes
<1>2. r \in CallRecord /\ r.pc = "reply" /\ r.kind = call[c].kind /\ r.file = call[c].file
  BY <1>1 DEF CallRecord
<1>3. call' = [call EXCEPT ![c] = r]
  OBVIOUS
<1> HIDE DEF r
<1>4. /\ call' \in [Calls -> CallRecord] /\ call'[c] = r
      /\ \A d \in Calls : d # c => call'[d] = call[d]
  BY <1>2, <1>3 DEF IInv, TypeOK
<1>5. \A d \in Calls : ~Mutating(d)'
  BY <1>2, <1>4 DEF IInv, Owned, MutationIsExclusive, Mutating, Mutates
<1>6. \A d \in Calls : Listing(d)' =>
        Listing(d) /\ call'[d].epoch \in Nat /\ call'[d].epoch <= adapterEpoch
  <2> SUFFICES ASSUME NEW d \in Calls, Listing(d)'
               PROVE  Listing(d) /\ call'[d].epoch \in Nat /\ call'[d].epoch <= adapterEpoch
    OBVIOUS
  <2>1. d # c /\ call'[d] = call[d]
    BY <1>2, <1>4 DEF Listing
  <2>2. Listing(d) /\ call[d].epoch \in Nat
    BY <2>1 DEF Listing, Mutates, IInv, TypeOK, CallRecord
  <2> QED BY <2>1, <2>2 DEF IInv, Shape
<1>7. \A d \in Calls, b \in Backends : ~FreshList(d, b)'
  BY <1>1, <1>6 DEF FreshList
<1>8. TypeOK'
  BY <1>1, <1>4 DEF IInv, TypeOK
<1>9. Shape'
  <2>1. \A d \in Calls : Listing(d)' => call'[d].epoch <= adapterEpoch'
    BY <1>1, <1>6
  <2>2. e.owner \in Calls => call'[e.owner].pc # "new"
    BY <1>2, <1>4
  <2>3. \A d \in Calls : call'[d].kind = "upload" => call'[d].file \in [Backends -> Versions]
    BY <1>1, <1>2, <1>4 DEF IInv, Shape
  <2> QED BY <1>5, <2>1, <2>2, <2>3 DEF Shape, Sound
<1>10. Owned'
  BY <1>5 DEF Owned, MutationIsExclusive, Mutating
<1>11. Real'
  BY <1>5, <1>7 DEF Real, Had, ReadyOn
<1>12. Kept'
  BY <1>5, <1>7 DEF Kept, Offers, ReadyOn
<1>13. Deleted'
  BY <1>5 DEF Deleted, Dropped
<1> QED BY <1>8, <1>9, <1>10, <1>11, <1>12, <1>13 DEF IInv

(* What the placement is when nothing but rejections came back.             *)
LEMMA RollbackEnds ==
  ASSUME IInv, NEW c \in Calls, Mutating(c), rejectedMutation(c),
         NEW A \in SUBSET acked, NEW G \in SUBSET gone
  PROVE  Ends(call[c].previous, A, G) /\ call[c].previous \in PlacementRecord
<1>1. call[c].previous \in PlacementRecord
  BY CallTypes DEF CallRecord
<1>2. \A b \in Backends : ~Reached(c, b)
  BY DEF rejectedMutation, Reached
<1>3. \A d \in Calls : Mutating(d) => d = c
  BY DEF IInv, Owned, MutationIsExclusive, Mutating
<1>4. /\ ~call[c].previous.busy /\ Sound(call[c].previous)
      /\ call[c].previous.owner \in Calls => call[call[c].previous.owner].pc # "new"
  BY DEF IInv, Shape
<1>5. \A v \in Versions, b \in Backends : b \in ReadyOn(call[c].previous, v) => v \in Had(b)
  BY <1>2 DEF IInv, Real
<1>6. ASSUME NEW v \in Versions, NEW b \in Backends, <<v, b>> \in A
      PROVE  v \in store[b] /\ Offers(call[c].previous, v, b)
  BY <1>2, <1>3, <1>6 DEF IInv, Kept
<1>7. \A v \in Versions : <<v, FALSE>> \in G => Dropped(call[c].previous, v)
  BY DEF IInv, Deleted
<1>8. A \subseteq Versions \X Backends /\ G \subseteq Versions \X BOOLEAN
  BY DEF IInv, TypeOK
<1> QED BY <1>1, <1>4, <1>5, <1>6, <1>7, <1>8 DEF Ends

(* A mutation that ends with its own placement e, the versions it deleted   *)
(* no longer acknowledged.                                                  *)
LEMMA PlacementStays ==
  ASSUME IInv, NEW c \in Calls, Mutating(c),
         NEW A \in SUBSET acked, NEW G \in SUBSET (Versions \X BOOLEAN),
         \A v \in Versions, b \in Backends : <<v, b>> \in A => ~Covers(c, v),
         \A v \in Versions : <<v, FALSE>> \in G => Dropped(entry, v)
  PROVE  /\ Ends([entry EXCEPT !.busy = FALSE], A, G)
         /\ [entry EXCEPT !.busy = FALSE] \in PlacementRecord
<1> DEFINE e == [entry EXCEPT !.busy = FALSE]
<1>1. /\ e \in PlacementRecord /\ e.owner = entry.owner /\ e.ready = entry.ready
      /\ e.present = entry.present /\ e.deleted = entry.deleted /\ ~e.busy
      /\ e.deletedVersions = entry.deletedVersions
  BY CallTypes DEF PlacementRecord
<1> HIDE DEF e
<1>2. \A v \in Versions : ReadyOn(e, v) = ReadyOn(entry, v) /\ (Dropped(e, v) = Dropped(entry, v))
  BY <1>1 DEF ReadyOn, Dropped
<1>3. Sound(e) /\ (e.owner \in Calls => call[e.owner].pc # "new")
  BY <1>1 DEF IInv, Shape, Sound
<1>4. \A v \in Versions, b \in Backends : b \in ReadyOn(e, v) => v \in Had(b)
  BY <1>2 DEF IInv, Real
<1>5. \A d \in Calls : Mutating(d) => d = c
  BY DEF IInv, Owned, MutationIsExclusive, Mutating
<1>6. ASSUME NEW v \in Versions, NEW b \in Backends, <<v, b>> \in A
      PROVE  v \in store[b] /\ Offers(e, v, b)
  <2>1. v \in store[b] /\ Offers(entry, v, b)
    BY <1>5, <1>6 DEF IInv, Kept
  <2> QED BY <1>1, <1>2, <2>1 DEF Offers
<1>7. \A v \in Versions : <<v, FALSE>> \in G => Dropped(e, v)
  BY <1>2
<1>8. A \subseteq Versions \X Backends
  BY DEF IInv, TypeOK
<1>9. Ends(e, A, G)
  BY <1>1, <1>3, <1>4, <1>6, <1>7, <1>8 DEF Ends
<1> QED BY <1>1, <1>9 DEF e

(* What an acknowledged upload makes of the placement.                      *)
LEMMA UploadEnds ==
  ASSUME IInv, NEW c \in Calls, Mutating(c), call[c].kind = "upload", Acknowledged(c) # {},
         NEW A \in SUBSET (acked \cup {<<Canonical(c), b>> :
                             b \in {x \in Confirmed(c) : Canonical(c) \in store[x]}}),
         NEW G \in SUBSET {g \in gone : g[1] # Canonical(c)}
  PROVE  /\ Ends([Validated(c) EXCEPT !.busy = FALSE], A, G)
         /\ [Validated(c) EXCEPT !.busy = FALSE] \in PlacementRecord
         /\ Validated(c).owner = c /\ Validated(c).busy
<1> DEFINE v0 == Canonical(c)
           N == ReadyOn(entry, v0) \cup Confirmed(c)
           D == DOMAIN entry.ready \cup {v0}
           f == [x \in D |-> IF x = v0 THEN N ELSE entry.ready[x]]
           w == [entry EXCEPT !.ready = f]
           u == [w EXCEPT !.current = v0, !.deletedVersions = entry.deletedVersions \ {v0}]
           e == [u EXCEPT !.busy = FALSE]
<1>1. /\ entry \in PlacementRecord /\ call[c].file \in [Backends -> Versions]
      /\ Acknowledged(c) \subseteq Backends
  BY CallTypes DEF Acknowledged
<1>2. v0 \in Versions
  BY <1>1, MinIsMember DEF Canonical
<1>3. /\ DOMAIN entry.ready \subseteq Versions
      /\ entry.ready \in [DOMAIN entry.ready -> SUBSET Backends]
  BY <1>1, ReadyElim DEF PlacementRecord
<1>4. N \subseteq Backends /\ Confirmed(c) \subseteq Backends
  BY <1>1, ReadyOnType DEF Confirmed
<1>5. entry.present /\ entry.busy /\ entry.owner = c /\ ~entry.deleted
  BY DEF IInv, Owned, MutationIsExclusive, Mutating, Shape, Sound
<1>6. Validated(c) = u
  <2>1. WithReady(entry, v0, N) = w
    BY DEF WithReady
  <2>2. w.deletedVersions = entry.deletedVersions
    BY <1>1 DEF PlacementRecord
  <2>3. Validated(c) = [WithReady(entry, v0, N) EXCEPT !.current = v0,
                          !.deletedVersions = WithReady(entry, v0, N).deletedVersions \ {v0}]
    BY DEF Validated
  <2> HIDE DEF w, N, f
  <2> QED BY <2>1, <2>2, <2>3
<1> HIDE DEF N, v0
<1>7. f \in [D -> SUBSET Backends] /\ DOMAIN f = D /\ D \subseteq Versions /\ f \in ReadyMap
  <2>1. f \in [D -> SUBSET Backends] /\ D \subseteq Versions
    BY <1>2, <1>3, <1>4
  <2> QED BY <2>1, ReadyIntro
<1>8. f[v0] = N /\ \A x \in DOMAIN entry.ready : x # v0 => f[x] = entry.ready[x]
  OBVIOUS
<1> HIDE DEF f
<1>9. /\ w \in PlacementRecord /\ w.ready = f /\ w.present /\ w.busy /\ w.owner = c /\ ~w.deleted
      /\ w.deletedVersions = entry.deletedVersions
  BY <1>1, <1>5, <1>7 DEF PlacementRecord
<1> HIDE DEF w
<1>10. /\ u \in PlacementRecord /\ u.ready = f /\ u.present /\ u.busy /\ u.owner = c /\ ~u.deleted
       /\ u.deletedVersions = entry.deletedVersions \ {v0}
  BY <1>2, <1>9, Constants DEF PlacementRecord
<1> HIDE DEF u
<1>11. /\ e \in PlacementRecord /\ e.ready = f /\ e.present /\ ~e.busy /\ e.owner = c /\ ~e.deleted
       /\ e.deletedVersions = entry.deletedVersions \ {v0}
  BY <1>10 DEF PlacementRecord
<1> HIDE DEF e
<1>12. /\ ReadyOn(e, v0) = N
       /\ \A x \in Versions : x # v0 => ReadyOn(e, x) = ReadyOn(entry, x)
       /\ \A x \in Versions : x # v0 => (Dropped(e, x) <=> Dropped(entry, x))
  BY <1>7, <1>8, <1>11 DEF ReadyOn, Dropped
<1> HIDE DEF D
<1>13. Sound(e) /\ (e.owner \in Calls => call[e.owner].pc # "new")
  BY <1>11 DEF Sound, Mutating
<1>14. ASSUME NEW v \in Versions, NEW b \in Backends, b \in ReadyOn(e, v)
       PROVE  v \in Had(b)
  <2>1. CASE v = v0 /\ b \in Confirmed(c)
    <3>1. call[c].net[b].st = "ok" /\ call[c].file[b] = v0
      BY <2>1 DEF Confirmed, Acknowledged, v0
    <3> QED BY <2>1, <3>1 DEF IInv, Real
  <2>2. CASE ~(v = v0 /\ b \in Confirmed(c))
    <3>1. b \in ReadyOn(entry, v)
      BY <1>12, <1>14, <2>2 DEF N
    <3> QED BY <3>1 DEF IInv, Real
  <2> QED BY <2>1, <2>2
<1>15. ASSUME NEW v \in Versions, NEW b \in Backends, <<v, b>> \in A
       PROVE  v \in store[b] /\ Offers(e, v, b)
  <2>1. CASE <<v, b>> \in acked
    <3>1. \A d \in Calls : Mutating(d) => d = c
      BY DEF IInv, Owned, MutationIsExclusive, Mutating
    <3>2. \A d \in Calls : Mutating(d) => ~Covers(d, v)
      BY <3>1 DEF Covers
    <3>3. v \in store[b] /\ Offers(entry, v, b)
      BY <2>1, <3>2 DEF IInv, Kept
    <3>4. b \in ReadyOn(e, v)
      BY <1>12, <3>3 DEF Offers, N
    <3> QED BY <1>11, <3>3, <3>4 DEF Offers
  <2>2. CASE <<v, b>> \notin acked
    <3>1. v = v0 /\ b \in Confirmed(c) /\ v0 \in store[b]
      BY <1>15, <2>2 DEF v0
    <3> QED BY <1>11, <1>12, <3>1 DEF Offers, N
  <2> QED BY <2>1, <2>2
<1>16. ASSUME NEW v \in Versions, <<v, FALSE>> \in G
       PROVE  Dropped(e, v)
  BY <1>12, <1>16 DEF IInv, Deleted, v0
<1>17. A \subseteq Versions \X Backends /\ G \subseteq Versions \X BOOLEAN
  BY <1>2, <1>4 DEF IInv, TypeOK, v0
<1>18. Ends(e, A, G)
  BY <1>11, <1>13, <1>14, <1>15, <1>16, <1>17 DEF Ends
<1> QED BY <1>6, <1>10, <1>11, <1>18 DEF e

(* The results of a mutation are validated and its entry completed.         *)
LEMMA FinishMutationStep ==
  ASSUME IInv, NEW c \in Calls, FinishMutation(c)
  PROVE  IInv'
<1> DEFINE back == rejectedMutation(c)
           own == [entry EXCEPT !.busy = FALSE]
<1>1. /\ Mutating(c) /\ entry.owner = c /\ entry.busy
      /\ (Acknowledged(c) = {} \/ call[c].kind # "upload") => Validated(c) = entry
  BY DEF FinishMutation, AllAnswered, IInv, Owned, MutationIsExclusive, Mutating, Validated
<1>2. /\ entry' = Completed(c, Validated(c), back) /\ adapterEpoch' = adapterEpoch + 1
      /\ call' = [call EXCEPT ![c].pc = "reply", ![c].rollback = back]
      /\ UNCHANGED <<store, late, faults, lost>> /\ back \in BOOLEAN
  BY DEF FinishMutation, rejectedMutation
<1>3. call' = [call EXCEPT ![c] = [call[c] EXCEPT !.pc = "reply", !.rollback = back]]
  <2> HIDE DEF back
  <2>1. call \in [Calls -> CallRecord]
    BY DEF IInv, TypeOK
  <2> QED BY <1>2, <2>1
<1>4. back => Acknowledged(c) = {}
  BY DEF rejectedMutation, Acknowledged
<1>5. CASE back
  <2>1. entry' = call[c].previous
    BY <1>1, <1>2, <1>4, <1>5 DEF Completed, Completes
  <2>2. acked' \subseteq acked /\ gone' \subseteq gone
    BY <1>4, <1>5 DEF FinishMutation
  <2>3. Ends(call[c].previous, acked', gone') /\ call[c].previous \in PlacementRecord
    BY <1>1, <1>5, <2>2, RollbackEnds
  <2> HIDE DEF back
  <2> QED BY <1>1, <1>2, <1>3, <2>1, <2>3, MutationEnds
<1>6. CASE ~back /\ call[c].kind = "upload" /\ Acknowledged(c) # {}
  <2> DEFINE e == [Validated(c) EXCEPT !.busy = FALSE]
  <2>1. acked' \subseteq acked \cup {<<Canonical(c), b>> :
                             b \in {x \in Confirmed(c) : Canonical(c) \in store[x]}}
    BY <1>6 DEF FinishMutation
  <2>2. gone' \subseteq {g \in gone : g[1] # Canonical(c)}
    BY <1>6 DEF FinishMutation
  <2>3. /\ Ends(e, acked', gone') /\ e \in PlacementRecord
        /\ Validated(c).owner = c /\ Validated(c).busy
    BY <1>1, <1>6, <2>1, <2>2, UploadEnds
  <2>4. entry' = e
    BY <1>2, <1>6, <2>3 DEF Completed, Completes
  <2> HIDE DEF back, e
  <2> QED BY <1>1, <1>2, <1>3, <2>3, <2>4, MutationEnds
<1>7. CASE ~back /\ ~(call[c].kind = "upload" /\ Acknowledged(c) # {})
  <2>1. entry' = own
    BY <1>1, <1>2, <1>7 DEF Completed, Completes
  <2>2. /\ acked' \subseteq acked /\ gone' \subseteq Versions \X BOOLEAN
        /\ \A v \in Versions, b \in Backends : <<v, b>> \in acked' => ~Covers(c, v)
        /\ \A v \in Versions : <<v, FALSE>> \in gone' => Dropped(entry, v)
    <3>1. gone \subseteq Versions \X BOOLEAN /\ call[c].version \in VersionNames
      BY CallTypes DEF IInv, TypeOK, CallRecord
    <3>2. \A v \in Versions : <<v, FALSE>> \in gone => Dropped(entry, v)
      BY DEF IInv, Deleted
    <3>3. CASE call[c].kind = "upload"
      <4>1. acked' = acked /\ gone' = gone
        BY <1>7, <3>3 DEF FinishMutation
      <4> QED BY <3>1, <3>2, <3>3, <4>1 DEF Covers
    <3>4. CASE call[c].kind # "upload"
      <4> DEFINE vs == IF call[c].version = NoVersion THEN Versions ELSE {call[c].version}
      <4>1. /\ acked' = {a \in acked : a[1] \notin vs}
            /\ gone' = gone \cup {<<v, call[c].version = NoVersion>> : v \in vs}
        BY <1>7, <3>4 DEF FinishMutation
      <4>2. vs \subseteq Versions /\ \A v \in Versions : Covers(c, v) => v \in vs
        BY <3>1 DEF Covers, VersionNames
      <4>3. \A v \in Versions : <<v, FALSE>> \in gone' => Dropped(entry, v)
        <5> SUFFICES ASSUME NEW v \in Versions, <<v, FALSE>> \in gone', <<v, FALSE>> \notin gone
                     PROVE  Dropped(entry, v)
          BY <3>2
        <5>1. call[c].version # NoVersion /\ v = call[c].version
          BY <4>1
        <5>2. call[c].kind = "delete"
          BY <1>1, <3>4 DEF Mutating, Mutates
        <5> QED BY <1>1, <5>1, <5>2 DEF IInv, Deleted
      <4> HIDE DEF vs
      <4>4. gone' \subseteq Versions \X BOOLEAN
        <5> DEFINE all == call[c].version = NoVersion
        <5>1. all \in BOOLEAN /\ gone' = gone \cup {<<v, all>> : v \in vs}
          BY <4>1
        <5> HIDE DEF all
        <5> QED BY <3>1, <4>2, <5>1
      <4> QED BY <4>1, <4>2, <4>3, <4>4
    <3> QED BY <3>3, <3>4
  <2>3. Ends(own, acked', gone') /\ own \in PlacementRecord
    BY <1>1, <2>2, PlacementStays
  <2> HIDE DEF back, own
  <2> QED BY <1>1, <1>2, <1>3, <2>1, <2>3, MutationEnds
<1> QED BY <1>5, <1>6, <1>7

-----------------------------------------------------------------------------
(* A placement is observed on worker o: e is what results, r the call.      *)
Sees(e, o, items) ==
  /\ \A v \in Versions, b \in Backends : b \in ReadyOn(e, v) =>
       b \in ReadyOn(entry, v) \/ (b = o /\ v \in items)
  /\ \A v \in Versions, b \in Backends : Offers(entry, v, b) =>
       Offers(e, v, b) \/ (b = o /\ v \notin items)
  /\ \A v \in Versions : Dropped(entry, v) => Dropped(e, v)

(* What a list adds and removes.                                            *)
LEMMA ObservedSees ==
  ASSUME IInv, NEW o \in Backends, NEW items \in SUBSET Versions
  PROVE  LET e == Observed(entry, o, items)
         IN /\ e \in PlacementRecord /\ Sound(e)
            /\ (e = entry \/ (~entry.busy /\ ~e.busy))
            /\ e.owner \in {entry.owner, NoCall} /\ Sees(e, o, items)
<1> DEFINE base == IF entry.present THEN entry ELSE Empty(NoCall)
           known == [v \in DOMAIN base.ready |->
                      IF v \in items THEN base.ready[v] \cup {o} ELSE base.ready[v] \ {o}]
           added == items \ (base.deletedVersions \cup DOMAIN known)
           D == DOMAIN known \cup added
           f == [v \in D |-> IF v \in added THEN {o} ELSE known[v]]
           e == [base EXCEPT !.ready = f]
           skip == (entry.present /\ (entry.busy \/ entry.deleted))
                     \/ (~entry.present /\ items = {})
<1>1. entry \in PlacementRecord /\ Sound(entry)
  BY DEF IInv, TypeOK, Shape
<1>2. Observed(entry, o, items) = IF skip THEN entry ELSE e
  BY DEF Observed
<1>3. CASE skip
  <2>1. Sees(entry, o, items)
    BY DEF Sees
  <2> HIDE DEF skip, e
  <2> QED BY <1>1, <1>2, <1>3, <2>1
<1>4. CASE ~skip
  <2>1. /\ base \in PlacementRecord /\ Sound(base) /\ base.present /\ ~base.busy /\ ~base.deleted
        /\ base.owner \in {entry.owner, NoCall} /\ ~entry.busy
        /\ base.deletedVersions = entry.deletedVersions
        /\ \A v \in Versions : ReadyOn(base, v) = ReadyOn(entry, v)
        /\ DOMAIN base.ready = DOMAIN entry.ready
    <3>1. CASE entry.present
      BY <1>1, <1>4, <3>1
    <3>2. CASE ~entry.present
      <4>1. base = Empty(NoCall) /\ NoCall \in Calls \cup {NoCall}
        BY <3>2
      <4>2. base \in PlacementRecord /\ DOMAIN base.ready = {} /\ Sound(base)
        BY <4>1, InitialRecords
      <4>3. /\ base.present /\ ~base.busy /\ ~base.deleted /\ base.owner = NoCall
            /\ base.deletedVersions = {}
        BY <4>1 DEF Empty
      <4> HIDE DEF base
      <4> QED BY <1>1, <3>2, <4>2, <4>3 DEF Sound, ReadyOn
    <3> QED BY <3>1, <3>2
  <2> HIDE DEF base
  <2>2. /\ DOMAIN base.ready \subseteq Versions
        /\ base.ready \in [DOMAIN base.ready -> SUBSET Backends]
    BY <2>1, ReadyElim DEF PlacementRecord
  <2>3. /\ known \in [DOMAIN base.ready -> SUBSET Backends] /\ DOMAIN known = DOMAIN base.ready
        /\ \A v \in DOMAIN base.ready : known[v] =
             IF v \in items THEN base.ready[v] \cup {o} ELSE base.ready[v] \ {o}
    BY <2>2
  <2> HIDE DEF known
  <2>4. /\ f \in [D -> SUBSET Backends] /\ DOMAIN f = D /\ D \subseteq Versions
        /\ \A v \in D : f[v] = IF v \in added THEN {o} ELSE known[v]
    BY <2>2, <2>3
  <2>5. f \in ReadyMap
    BY <2>4, ReadyIntro
  <2> HIDE DEF f
  <2>6. /\ e \in PlacementRecord /\ e.present /\ ~e.busy /\ ~e.deleted /\ e.ready = f
        /\ e.owner = base.owner /\ e.deletedVersions = entry.deletedVersions
    BY <2>1, <2>5 DEF PlacementRecord
  <2> HIDE DEF e
  <2>7. ASSUME NEW v \in Versions
        PROVE  /\ \A b \in ReadyOn(e, v) : b \in ReadyOn(entry, v) \/ (b = o /\ v \in items)
               /\ \A b \in ReadyOn(entry, v) : b \in ReadyOn(e, v) \/ (b = o /\ v \notin items)
    <3>1. CASE v \in added
      <4>1. v \notin DOMAIN base.ready /\ v \in items /\ v \in D
        BY <2>3, <3>1
      <4>2. ReadyOn(e, v) = {o} /\ ReadyOn(entry, v) = {}
        BY <2>1, <2>4, <2>6, <3>1, <4>1 DEF ReadyOn
      <4> QED BY <4>1, <4>2
    <3>2. CASE v \notin added /\ v \in DOMAIN base.ready
      <4>1. ReadyOn(e, v) = known[v]
        BY <2>3, <2>4, <2>6, <3>2 DEF ReadyOn
      <4>2. ReadyOn(entry, v) = base.ready[v]
        <5>1. ReadyOn(base, v) = base.ready[v]
          BY <3>2 DEF ReadyOn
        <5> QED BY <2>1, <5>1
      <4>3. known[v] = IF v \in items THEN base.ready[v] \cup {o} ELSE base.ready[v] \ {o}
        BY <2>3, <3>2
      <4> HIDE DEF added
      <4>4. CASE v \in items
        BY <4>1, <4>2, <4>3, <4>4
      <4>5. CASE v \notin items
        BY <4>1, <4>2, <4>3, <4>5
      <4> QED BY <4>4, <4>5
    <3>3. CASE v \notin added /\ v \notin DOMAIN base.ready
      <4>1. ReadyOn(e, v) = {} /\ ReadyOn(base, v) = {}
        BY <2>3, <2>4, <2>6, <3>3 DEF ReadyOn
      <4> QED BY <2>1, <4>1
    <3> HIDE DEF added
    <3> QED BY <3>1, <3>2, <3>3
  <2>8. /\ \A v \in Versions, b \in Backends : b \in ReadyOn(e, v) =>
             b \in ReadyOn(entry, v) \/ (b = o /\ v \in items)
        /\ \A v \in Versions, b \in Backends : b \in ReadyOn(entry, v) =>
             b \in ReadyOn(e, v) \/ (b = o /\ v \notin items)
    BY <2>7
  <2>9. \A v \in Versions : Dropped(entry, v) => Dropped(e, v)
    BY <2>1, <2>3, <2>4, <2>6 DEF Dropped
  <2>10. Sees(e, o, items)
    BY <2>6, <2>8, <2>9 DEF Sees, Offers
  <2>11. Sound(e)
    BY <2>6 DEF Sound
  <2> HIDE DEF skip
  <2> QED BY <1>2, <1>4, <2>1, <2>6, <2>10, <2>11
<1> QED BY <1>3, <1>4

(* One worker's list is taken into the placement.                           *)
LEMMA ObserveStep ==
  ASSUME IInv, NEW c \in Calls, Observe(c)
  PROVE  IInv'
<1> DEFINE o == Min({x \in Backends : call[c].net[x].st # "idle"})
           items == call[c].net[o].items
           sees == call[c].net[o].st = "ok" /\ Fresh(c)
           e == IF sees THEN Observed(entry, o, items) ELSE entry
           n == [call[c].net[o] EXCEPT !.st = "idle"]
           r == [call[c] EXCEPT !.net = [call[c].net EXCEPT ![o] = n]]
<1>1. /\ call[c] \in CallRecord /\ call[c].net \in [Backends -> NetRecord]
      /\ entry \in PlacementRecord /\ Sound(entry)
      /\ Listing(c) /\ call[c].pc = "broadcast" /\ ~Mutates(c)
  BY CallTypes DEF IInv, Shape, Observe, AllAnswered, Listing
<1>2. o \in Backends
  <2>1. {x \in Backends : call[c].net[x].st # "idle"} # {}
    BY DEF Observe
  <2> QED BY <2>1, MinIsMember
<1>3. /\ entry' = e /\ call' = [call EXCEPT ![c] = r]
      /\ UNCHANGED <<adapterEpoch, store, late, faults, lost, acked, gone>>
  BY <1>1 DEF Observe
<1> HIDE DEF o
<1>4. items \subseteq Versions
  BY <1>1, <1>2 DEF NetRecord
<1>5. sees /\ ~entry.busy => FreshList(c, o)
  BY <1>1 DEF FreshList, Fresh
<1>6. /\ e \in PlacementRecord /\ Sound(e) /\ (e = entry \/ (~entry.busy /\ ~e.busy))
      /\ e.owner \in {entry.owner, NoCall}
      /\ e = entry \/ (FreshList(c, o) /\ Sees(e, o, items))
  <2>1. CASE sees
    <3>1. /\ e \in PlacementRecord /\ Sound(e) /\ (e = entry \/ (~entry.busy /\ ~e.busy))
          /\ e.owner \in {entry.owner, NoCall} /\ Sees(e, o, items)
      BY <1>2, <1>4, <2>1, ObservedSees
    <3> HIDE DEF e, sees
    <3> QED BY <1>5, <2>1, <3>1
  <2>2. CASE ~sees
    BY <1>1, <2>2
  <2> QED BY <2>1, <2>2
<1> HIDE DEF e, sees
<1>7. n \in NetRecord /\ n.st = "idle"
  BY <1>1, <1>2 DEF NetRecord
<1> HIDE DEF n
<1>8. /\ r.pc = call[c].pc /\ r.kind = call[c].kind /\ r.file = call[c].file
      /\ r.epoch = call[c].epoch /\ r.net = [call[c].net EXCEPT ![o] = n]
  BY <1>1 DEF CallRecord
<1>9. /\ r.net \in [Backends -> NetRecord] /\ r.net[o].st = "idle"
      /\ \A b \in Backends \ {o} : r.net[b] = call[c].net[b]
  BY <1>1, <1>2, <1>7, <1>8
<1>10. r \in CallRecord
  BY <1>1, <1>9 DEF CallRecord
<1> HIDE DEF r
<1>11. /\ call' \in [Calls -> CallRecord] /\ call'[c] = r
       /\ \A d \in Calls : d # c => call'[d] = call[d]
  BY <1>3, <1>10 DEF IInv, TypeOK
<1>12. \A d \in Calls : /\ Mutating(d)' => Mutating(d) /\ call'[d] = call[d]
                        /\ Mutating(d) => Mutating(d)'
                        /\ call'[d].pc = call[d].pc
                        /\ Listing(d)' => Listing(d) /\ call'[d].epoch = call[d].epoch
                        /\ call[d].kind = call'[d].kind /\ call[d].file = call'[d].file
  BY <1>1, <1>8, <1>11 DEF Mutating, Mutates, Listing
<1>13. \A d \in Calls, b \in Backends : FreshList(d, b)' =>
         FreshList(d, b) /\ call'[d].net[b] = call[d].net[b] /\ (d # c \/ b # o)
  <2> SUFFICES ASSUME NEW d \in Calls, NEW b \in Backends, FreshList(d, b)'
               PROVE  /\ FreshList(d, b) /\ call'[d].net[b] = call[d].net[b]
                      /\ d # c \/ b # o
    OBVIOUS
  <2>1. ~entry'.busy /\ call'[d].net[b].st = "ok" /\ Listing(d)' /\ call'[d].epoch = adapterEpoch
    BY <1>3 DEF FreshList
  <2>2. ~entry.busy
    BY <1>3, <1>6, <2>1
  <2>3. d # c \/ b # o
    BY <1>9, <1>11, <2>1
  <2>4. call'[d].net[b] = call[d].net[b]
    BY <1>9, <1>11, <2>3
  <2> QED BY <1>12, <2>1, <2>2, <2>3, <2>4 DEF FreshList
<1>14. (\E d \in Calls : Mutating(d)) => e = entry
  BY <1>6 DEF IInv, Owned, MutationIsExclusive, Mutating
<1>15. \A v \in Versions, b \in Backends : b \in ReadyOn(e, v) => v \in Had(b)
  <2> SUFFICES ASSUME NEW v \in Versions, NEW b \in Backends, b \in ReadyOn(e, v),
                      b \notin ReadyOn(entry, v)
               PROVE  v \in Had(b)
    BY DEF IInv, Real
  <2>1. FreshList(c, o) /\ b = o /\ v \in items
    BY <1>6 DEF Sees
  <2> QED BY <1>2, <2>1 DEF IInv, Real
<1>16. ASSUME NEW v \in Versions, NEW b \in Backends, <<v, b>> \in acked, ~e.busy
       PROVE  Offers(e, v, b)
  <2>1. ~entry.busy /\ Offers(entry, v, b)
    BY <1>6, <1>16 DEF IInv, Kept
  <2>2. CASE e = entry
    BY <2>1, <2>2
  <2>3. CASE FreshList(c, o) /\ Sees(e, o, items)
    <3>1. b = o => v \in items
      BY <1>16, <2>3 DEF IInv, Kept
    <3> QED BY <2>1, <2>3, <3>1 DEF Sees
  <2> QED BY <1>6, <2>2, <2>3
<1>17. \A v \in Versions : Dropped(entry, v) => Dropped(e, v)
  BY <1>6 DEF Sees
<1>18. TypeOK'
  <2>1. e.busy => \E d \in Calls : Mutating(d)'
    BY <1>6, <1>12 DEF IInv, Owned
  <2> QED BY <1>3, <1>6, <1>11, <2>1 DEF IInv, TypeOK, Mutating
<1>19. Shape'
  <2>1. e.owner \in Calls => call'[e.owner].pc # "new"
    BY <1>6, <1>12, Constants DEF IInv, Shape
  <2>2. ASSUME NEW d \in Calls, Mutating(d)'
        PROVE  /\ Sound(call'[d].previous) /\ ~call'[d].previous.busy
               /\ call'[d].previous.owner # d
               /\ call'[d].previous.owner \in Calls => call'[call'[d].previous.owner].pc # "new"
    <3>1. Mutating(d) /\ call'[d] = call[d]
      BY <1>12, <2>2
    <3> QED BY <1>12, <3>1 DEF IInv, Shape
  <2>3. \A d \in Calls : Listing(d)' => call'[d].epoch <= adapterEpoch'
    BY <1>3, <1>12 DEF IInv, Shape
  <2>4. \A d \in Calls : call'[d].kind = "upload" => call'[d].file \in [Backends -> Versions]
    BY <1>12 DEF IInv, Shape
  <2> QED BY <1>3, <1>6, <2>1, <2>2, <2>3, <2>4 DEF Shape, Sound
<1>20. Owned'
  <2>1. \A d \in Calls : Mutating(d)' => e = entry /\ Mutating(d) /\ call'[d] = call[d]
    BY <1>12, <1>14
  <2>2. e.busy => e = entry
    BY <1>6
  <2>3. e.busy => /\ e.owner \in Calls /\ call'[e.owner].pc = "broadcast"
                  /\ call'[e.owner].kind \in {"upload", "delete"}
    <3>1. e.busy => e.owner \in Calls /\ Mutating(e.owner)
      BY <2>2 DEF IInv, Owned
    <3>2. \A d \in Calls : Mutating(d) =>
            call'[d].pc = "broadcast" /\ call'[d].kind \in {"upload", "delete"}
      BY <1>12 DEF Mutating, Mutates
    <3> QED BY <3>1, <3>2
  <2>4. \A d \in Calls : Mutating(d)' => e.owner = d /\ e.busy
    BY <2>1 DEF IInv, Owned, MutationIsExclusive, Mutating
  <2>5. \A d \in Calls : Mutating(d)' /\ call'[d].kind = "upload" => ~e.deleted
    BY <2>1 DEF IInv, Owned
  <2> QED BY <1>3, <2>3, <2>4, <2>5 DEF Owned, MutationIsExclusive, Mutating, Mutates
<1>21. Real'
  <2>1. ASSUME NEW d \in Calls, NEW b \in Backends
        PROVE  /\ Mutating(d)' /\ (call'[d].kind = "upload" \/ ~Reached(d, b)') =>
                    \A v \in Versions : b \in ReadyOn(call'[d].previous, v) => v \in Had(b)
               /\ Mutating(d)' /\ call'[d].kind = "upload" /\ call'[d].net[b].st = "ok" =>
                    call'[d].file[b] \in Had(b)
               /\ FreshList(d, b)' => call'[d].net[b].items \subseteq Had(b)
    BY <1>12, <1>13 DEF IInv, Real, Reached
  <2>2. ASSUME NEW d \in Calls, NEW v \in Versions, Mutating(d)', Covers(d, v)'
        PROVE  ReadyOn(e, v) = {}
    BY <1>12, <1>14, <2>2 DEF IInv, Real, Covers
  <2> QED BY <1>3, <1>15, <2>1, <2>2 DEF Real, Had, ReadyOn
<1>22. Kept'
  <2> SUFFICES ASSUME NEW v \in Versions, NEW b \in Backends, <<v, b>> \in acked
               PROVE  /\ v \in store[b] \/ \E d \in Calls :
                           Mutating(d)' /\ Covers(d, v)' /\ Reached(d, b)'
                      /\ ~e.busy => Offers(e, v, b)
                      /\ \A d \in Calls : Mutating(d)' =>
                           /\ Offers(call'[d].previous, v, b)
                           /\ Covers(d, v)' \/ Offers(e, v, b)
                      /\ \A d \in Calls : FreshList(d, b)' => v \in call'[d].net[b].items
    BY <1>3 DEF Kept, Offers, ReadyOn
  <2>1. \A d \in Calls : Mutating(d) => Mutating(d)' /\ call'[d] = call[d] /\ e = entry
    BY <1>12, <1>14
  <2>2. \A d \in Calls : Mutating(d) =>
          (Covers(d, v) <=> Covers(d, v)') /\ (Reached(d, b) => Reached(d, b)')
    BY <2>1 DEF Covers, Reached
  <2>3. v \in store[b] \/ \E d \in Calls : Mutating(d)' /\ Covers(d, v)' /\ Reached(d, b)'
    BY <2>1, <2>2 DEF IInv, Kept
  <2>4. \A d \in Calls : Mutating(d)' =>
          Offers(call'[d].previous, v, b) /\ (Covers(d, v)' \/ Offers(e, v, b))
    BY <1>12, <2>1, <2>2 DEF IInv, Kept
  <2>5. \A d \in Calls : FreshList(d, b)' => v \in call'[d].net[b].items
    BY <1>13 DEF IInv, Kept
  <2> QED BY <1>16, <2>3, <2>4, <2>5
<1>23. Deleted'
  <2>1. \A v \in Versions : <<v, FALSE>> \in gone =>
          /\ Dropped(e, v)
          /\ \A d \in Calls : Mutating(d)' => Dropped(call'[d].previous, v)
    BY <1>12, <1>17 DEF IInv, Deleted
  <2>2. \A d \in Calls : Mutating(d)' /\ call'[d].kind = "delete" /\ call'[d].version # NoVersion
          => Dropped(e, call'[d].version)
    BY <1>12, <1>14 DEF IInv, Deleted
  <2> QED BY <1>3, <2>1, <2>2 DEF Deleted, Dropped
<1> QED BY <1>18, <1>19, <1>20, <1>21, <1>22, <1>23 DEF IInv

(* A worker that says it has not is dropped from the placement, whatever    *)
(* mutation is under way.                                                   *)
LEMMA MarkUnavailableStep ==
  ASSUME IInv, NEW c \in Calls, MarkUnavailable(c)
  PROVE  IInv'
<1> DEFINE v0 == call[c].version
           o == call[c].backend
           D == DOMAIN entry.ready
           f == [entry.ready EXCEPT ![v0] = entry.ready[v0] \ {o}]
           w == [entry EXCEPT !.ready = f]
           e == IF entry.present /\ v0 \in D THEN w ELSE entry
<1>1. /\ entry \in PlacementRecord /\ Sound(entry) /\ call[c].pc = "missing"
      /\ D \subseteq Versions /\ entry.ready \in [D -> SUBSET Backends]
  BY ReadyElim DEF IInv, TypeOK, Shape, MarkUnavailable, PlacementRecord
<1>2. /\ entry' = e /\ acked' = acked \ {<<v0, o>>} /\ call' = [call EXCEPT ![c] = Returned]
      /\ UNCHANGED <<adapterEpoch, store, late, faults, lost, gone>>
  BY <1>1 DEF MarkUnavailable, PlacementRecord
<1> HIDE DEF v0, o
<1>3. f \in [D -> SUBSET Backends] /\ DOMAIN f = D /\ f \in ReadyMap
      /\ \A v \in D : f[v] = IF v = v0 THEN entry.ready[v] \ {o} ELSE entry.ready[v]
  <2>1. f \in [D -> SUBSET Backends]
    BY <1>1
  <2> QED BY <1>1, <2>1, ReadyIntro
<1> HIDE DEF f
<1>4. /\ e \in PlacementRecord /\ e.present = entry.present /\ e.owner = entry.owner
      /\ e.busy = entry.busy /\ e.deleted = entry.deleted
      /\ e.deletedVersions = entry.deletedVersions /\ DOMAIN e.ready = D
      /\ \A v \in D : e.ready[v] = entry.ready[v] \/ (v = v0 /\ e.ready[v] = entry.ready[v] \ {o})
  <2>1. CASE entry.present /\ v0 \in D
    BY <1>1, <1>3, <2>1 DEF PlacementRecord
  <2>2. CASE ~(entry.present /\ v0 \in D)
    BY <1>1, <2>2
  <2> QED BY <2>1, <2>2
<1> HIDE DEF e
<1>5. \A v \in Versions :
        /\ \A b \in ReadyOn(e, v) : b \in ReadyOn(entry, v)
        /\ \A b \in ReadyOn(entry, v) : b \in ReadyOn(e, v) \/ (v = v0 /\ b = o)
        /\ Dropped(entry, v) <=> Dropped(e, v)
  BY <1>4 DEF ReadyOn, Dropped
<1>6. \A v \in Versions : ReadyOn(entry, v) = {} => ReadyOn(e, v) = {}
  BY <1>5
<1>7. \A v \in Versions, b \in Backends :
        <<v, b>> \in acked' /\ Offers(entry, v, b) => Offers(e, v, b)
  BY <1>2, <1>4, <1>5 DEF Offers
<1>8. /\ call' \in [Calls -> CallRecord] /\ call'[c] = Returned
      /\ \A d \in Calls : d # c => call'[d] = call[d]
  BY <1>2, InitialRecords DEF IInv, TypeOK
<1>9. Returned.pc = "done" /\ Returned.kind = "none"
  BY DEF Returned, NewCall
<1>10. \A d \in Calls : /\ Mutating(d)' => Mutating(d) /\ call'[d] = call[d]
                        /\ Mutating(d) => Mutating(d)' /\ call'[d] = call[d]
                        /\ call[d].pc # "new" => call'[d].pc # "new"
                        /\ Listing(d)' => Listing(d) /\ call'[d] = call[d]
                        /\ call'[d].kind = "upload" => call'[d] = call[d]
  BY <1>1, <1>8, <1>9 DEF Mutating, Mutates, Listing
<1>11. \A d \in Calls, b \in Backends : FreshList(d, b)' =>
         FreshList(d, b) /\ call'[d] = call[d]
  BY <1>2, <1>4, <1>10 DEF FreshList
<1>12. TypeOK'
  <2>1. e.busy => \E d \in Calls : Mutating(d)'
    BY <1>4, <1>10 DEF IInv, Owned
  <2> QED BY <1>2, <1>4, <1>8, <2>1 DEF IInv, TypeOK, Mutating
<1>13. Shape'
  <2>1. e.owner \in Calls => call'[e.owner].pc # "new"
    BY <1>4, <1>10 DEF IInv, Shape
  <2>2. ASSUME NEW d \in Calls, Mutating(d)'
        PROVE  /\ Sound(call'[d].previous) /\ ~call'[d].previous.busy
               /\ call'[d].previous.owner # d
               /\ call'[d].previous.owner \in Calls => call'[call'[d].previous.owner].pc # "new"
    <3>1. Mutating(d) /\ call'[d] = call[d]
      BY <1>10, <2>2
    <3> QED BY <1>10, <3>1 DEF IInv, Shape
  <2>3. \A d \in Calls : Listing(d)' => call'[d].epoch <= adapterEpoch'
    BY <1>2, <1>10 DEF IInv, Shape
  <2>4. \A d \in Calls : call'[d].kind = "upload" => call'[d].file \in [Backends -> Versions]
    BY <1>10 DEF IInv, Shape
  <2>5. Sound(e)
    BY <1>1, <1>4 DEF Sound
  <2> QED BY <1>2, <2>1, <2>2, <2>3, <2>4, <2>5 DEF Shape, Sound
<1>14. Owned'
  <2>1. e.busy => /\ e.owner \in Calls /\ call'[e.owner].pc = "broadcast"
                  /\ call'[e.owner].kind \in {"upload", "delete"}
    <3>1. e.busy => e.owner \in Calls /\ Mutating(e.owner)
      BY <1>4 DEF IInv, Owned
    <3>2. \A d \in Calls : Mutating(d) =>
            call'[d].pc = "broadcast" /\ call'[d].kind \in {"upload", "delete"}
      BY <1>10 DEF Mutating, Mutates
    <3> QED BY <3>1, <3>2
  <2>2. \A d \in Calls : Mutating(d)' => e.owner = d /\ e.busy
    BY <1>4, <1>10 DEF IInv, Owned, MutationIsExclusive, Mutating
  <2>3. \A d \in Calls : Mutating(d)' /\ call'[d].kind = "upload" => ~e.deleted
    BY <1>4, <1>10 DEF IInv, Owned
  <2> QED BY <1>2, <2>1, <2>2, <2>3 DEF Owned, MutationIsExclusive, Mutating, Mutates
<1>15. Real'
  <2>1. ASSUME NEW d \in Calls, NEW b \in Backends
        PROVE  /\ Mutating(d)' /\ (call'[d].kind = "upload" \/ ~Reached(d, b)') =>
                    \A v \in Versions : b \in ReadyOn(call'[d].previous, v) => v \in Had(b)
               /\ Mutating(d)' /\ call'[d].kind = "upload" /\ call'[d].net[b].st = "ok" =>
                    call'[d].file[b] \in Had(b)
               /\ FreshList(d, b)' => call'[d].net[b].items \subseteq Had(b)
    BY <1>10, <1>11 DEF IInv, Real, Reached
  <2>2. ASSUME NEW d \in Calls, NEW v \in Versions, Mutating(d)', Covers(d, v)'
        PROVE  ReadyOn(e, v) = {}
    BY <1>6, <1>10, <2>2 DEF IInv, Real, Covers
  <2>3. \A v \in Versions, b \in Backends : b \in ReadyOn(e, v) => v \in Had(b)
    BY <1>5 DEF IInv, Real
  <2> QED BY <1>2, <2>1, <2>2, <2>3 DEF Real, Had, ReadyOn
<1>16. Kept'
  <2> SUFFICES ASSUME NEW v \in Versions, NEW b \in Backends, <<v, b>> \in acked'
               PROVE  /\ v \in store[b] \/ \E d \in Calls :
                           Mutating(d)' /\ Covers(d, v)' /\ Reached(d, b)'
                      /\ ~e.busy => Offers(e, v, b)
                      /\ \A d \in Calls : Mutating(d)' =>
                           /\ Offers(call'[d].previous, v, b)
                           /\ Covers(d, v)' \/ Offers(e, v, b)
                      /\ \A d \in Calls : FreshList(d, b)' => v \in call'[d].net[b].items
    BY <1>2 DEF Kept, Offers, ReadyOn
  <2>1. <<v, b>> \in acked
    BY <1>2
  <2>2. \A d \in Calls : Mutating(d) =>
          (Covers(d, v) <=> Covers(d, v)') /\ (Reached(d, b) => Reached(d, b)')
    BY <1>10 DEF Covers, Reached
  <2>3. v \in store[b] \/ \E d \in Calls : Mutating(d)' /\ Covers(d, v)' /\ Reached(d, b)'
    BY <1>10, <2>1, <2>2 DEF IInv, Kept
  <2>4. \A d \in Calls : Mutating(d)' =>
          Offers(call'[d].previous, v, b) /\ (Covers(d, v)' \/ Offers(e, v, b))
    BY <1>7, <1>10, <2>1, <2>2 DEF IInv, Kept
  <2>5. \A d \in Calls : FreshList(d, b)' => v \in call'[d].net[b].items
    BY <1>11, <2>1 DEF IInv, Kept
  <2>6. ~e.busy => Offers(e, v, b)
    BY <1>4, <1>7, <2>1 DEF IInv, Kept
  <2> QED BY <2>3, <2>4, <2>5, <2>6
<1>17. Deleted'
  <2>1. \A v \in Versions : <<v, FALSE>> \in gone =>
          /\ Dropped(e, v)
          /\ \A d \in Calls : Mutating(d)' => Dropped(call'[d].previous, v)
    BY <1>5, <1>10 DEF IInv, Deleted
  <2>2. \A d \in Calls : Mutating(d)' /\ call'[d].kind = "delete" /\ call'[d].version # NoVersion
          => Dropped(e, call'[d].version)
    <3> SUFFICES ASSUME NEW d \in Calls, Mutating(d)', call'[d].kind = "delete",
                        call'[d].version # NoVersion
                 PROVE  Dropped(e, call'[d].version)
      OBVIOUS
    <3>1. Mutating(d) /\ call'[d] = call[d] /\ call[d].version \in Versions
      BY <1>10, CallTypes DEF CallRecord, VersionNames
    <3> QED BY <1>5, <3>1 DEF IInv, Deleted
  <2> QED BY <1>2, <2>1, <2>2 DEF Deleted, Dropped
<1> QED BY <1>12, <1>13, <1>14, <1>15, <1>16, <1>17 DEF IInv

-----------------------------------------------------------------------------
(* Initially nothing is placed.                                             *)
LEMMA Initially ==
  ASSUME Init
  PROVE  IInv
<1>1. /\ call \in [Calls -> CallRecord] /\ entry \in PlacementRecord /\ Sound(entry)
      /\ NoEntry.owner = NoCall /\ ~NoEntry.busy /\ DOMAIN NoEntry.ready = {}
      /\ \A c \in Calls : call[c].pc = "new" /\ call[c].kind = "none"
  BY InitialRecords DEF Init, NoEntry, Empty, NewCall
<1>2. store \in [Backends -> SUBSET Versions]
  BY ReplicationAssumption DEF Init
<1>3. TypeOK
  BY <1>1, <1>2, ReplicationAssumption DEF Init, TypeOK
<1>4. \A c \in Calls : ~Mutating(c) /\ ~Listing(c)
  BY <1>1 DEF Mutating, Listing
<1>5. Shape /\ Owned
  BY <1>1, <1>4, Constants DEF Init, Shape, Owned, MutationIsExclusive, Mutating, Mutates
<1>6. Real /\ Kept /\ Deleted
  BY <1>1, <1>4 DEF Init, Real, Kept, Deleted, ReadyOn, FreshList
<1> QED BY <1>3, <1>5, <1>6 DEF IInv

(* The inductive invariant holds throughout.                                *)
LEMMA Inductive ==
  ASSUME IInv, [Next]_vars
  PROVE  IInv'
<1>1. CASE UNCHANGED vars
  <2>1. /\ UNCHANGED <<entry, adapterEpoch, call, gone, acked>>
        /\ UNCHANGED <<store, lost, late, faults>>
    BY <1>1 DEF vars
  <2> QED BY <2>1, WorkersLose DEF IInv, TypeOK
<1>2. ASSUME NEW c \in Calls, NEW b \in Backends,
             Answered(c, b) \/ Rejected(c, b) \/ AttemptFails(c, b) \/ Acquire(c, b)
      PROVE  IInv'
  BY <1>2, AnsweredStep, RejectedStep, AttemptFailsStep, AcquireStep
<1>3. ASSUME NEW c \in Calls, Handle(c)
      PROVE  IInv'
  BY <1>2, <1>3, FinishMutationStep, DeferredCompleteStep, ObserveStep, ObservedAllStep,
     ResolveAgainStep, UnavailableStep, ForwardStep, MarkUnavailableStep DEF Handle
<1>4. ASSUME NEW c \in Calls, NEW file \in [Backends -> Versions],
             BeginMutation(c, "upload", NoVersion, file)
      PROVE  IInv'
  <2>1. file \in [Backends -> VersionNames]
    BY Constants
  <2> QED BY <1>4, <2>1, Constants, BeginMutationStep
<1>5. ASSUME NEW c \in Calls, NEW v \in VersionNames, BeginMutation(c, "delete", v, NoFiles)
      PROVE  IInv'
  <2>1. NoFiles \in [Backends -> VersionNames]
    BY Constants DEF NoFiles
  <2> QED BY <1>5, <2>1, BeginMutationStep
<1>6. ASSUME NEW b \in Backends, Restart(b)
      PROVE  IInv'
  BY <1>6, RestartStep
<1>7. CASE Next
  BY <1>3, <1>4, <1>5, <1>6, <1>7, BeginListStep, BeginInferenceStep, LateEffectStep
     DEF Next, VersionNames
<1> QED BY <1>1, <1>7

(* The invariant of the placement, for all values of the constants.         *)
THEOREM Invariance == Spec => []IInv
<1>1. Init => IInv
  BY Initially
<1>2. IInv /\ [Next]_vars => IInv'
  BY Inductive
<1> QED BY <1>1, <1>2, PTL DEF Spec

(* Every placement, request and worker stays in its type, and a placement is*)
(* busy only while a mutation is under way.                                 *)
THEOREM TypeCorrect == Spec => []TypeOK
<1>1. IInv => TypeOK
  BY DEF IInv
<1> QED BY <1>1, Invariance, PTL

(* Mutations of an id exclude one another: each keeps its own busy placement*)
(* from beginAdapterMutation to its completion.                             *)
THEOREM MutationsExclude == Spec => []MutationIsExclusive
<1>1. IInv => MutationIsExclusive
  BY DEF IInv, Owned
<1> QED BY <1>1, Invariance, PTL

(* A version is ready on a worker only if the worker has it, or lost it by  *)
(* itself: never after a deletion reached it.                               *)
THEOREM ReadyVersionsAreReal == Spec => []ReadyIsReal
<1>1. IInv => ReadyIsReal
  BY DEF IInv, Real, ReadyIsReal, adapterReadyLocked, Had
<1> QED BY <1>1, Invariance, PTL

(* No list, stale or failed, undoes what a completed upload acknowledged.   *)
THEOREM AcknowledgedUploadsStay == Spec => []AckedStaysReady
<1>1. ASSUME IInv PROVE AckedStaysReady
  <2> SUFFICES ASSUME ~entry.busy, NEW a \in acked
               PROVE  adapterReadyLocked(a[1], a[2])
    BY DEF AckedStaysReady
  <2>1. a[1] \in Versions /\ a[2] \in Backends /\ <<a[1], a[2]>> \in acked
    BY <1>1 DEF IInv, TypeOK
  <2>2. Offers(entry, a[1], a[2])
    BY <1>1, <2>1 DEF IInv, Kept
  <2> QED BY <2>2 DEF Offers, adapterReadyLocked
<1> QED BY <1>1, Invariance, PTL

(* A version deleted by name and not uploaded since is offered nowhere.     *)
THEOREM DeletedVersionsStay == Spec => []VersionStaysDeleted
<1>1. ASSUME IInv PROVE VersionStaysDeleted
  <2> SUFFICES ASSUME NEW g \in gone, ~g[2]
               PROVE  ReadyOn(entry, g[1]) = {}
    BY DEF VersionStaysDeleted
  <2>1. g[1] \in Versions /\ <<g[1], FALSE>> \in gone
    <3>1. g \in Versions \X BOOLEAN
      BY <1>1 DEF IInv, TypeOK
    <3>2. g[2] = FALSE /\ g = <<g[1], g[2]>>
      BY <3>1
    <3>3. g = <<g[1], FALSE>>
      BY <3>2, Zenon
    <3> QED BY <3>1, <3>3, Zenon
  <2>2. Dropped(entry, g[1])
    BY <1>1, <2>1 DEF IInv, Deleted
  <2> QED BY <2>2 DEF Dropped, ReadyOn
<1> QED BY <1>1, Invariance, PTL

=============================================================================
