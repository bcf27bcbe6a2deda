------------------------------ MODULE DhStore -------------------------------
(***************************************************************************)
(* The dataset-handle store of dh-store/src/store.rs: an in-memory map     *)
(* from opaque handles to immutable datasets, with a TTL per entry, a cap  *)
(* on the bytes held, LRU eviction that spares lineage parents, and        *)
(* tombstones for the handles whose TTL elapsed.                           *)
(*                                                                         *)
(* Every public operation but one runs wholly under the store's Mutex and  *)
(* is one action.  Store::evict_expired reads the clock BEFORE it takes    *)
(* the lock, so a sweep is two steps with any operation between them.      *)
(*                                                                         *)
(* Handle ids are UUIDs.  Only their freshness matters, so they are        *)
(* numbered in minting order: the handles minted so far are 1..minted.     *)
(* Dataset contents never change after insertion (there is no mutating     *)
(* operation), so a dataset is abstracted to its byte estimate.            *)
(***************************************************************************)
EXTENDS Naturals, FiniteSets, Functions

CONSTANTS
  MaxTotalBytes,   \* the cap on the bytes of the live entries; 0 is "no cap"
  Sizes,           \* byte estimates a dataset may have (at least 1 each)
  Ttls,            \* TTLs in seconds a caller may ask for; 0 is legal
  Sweepers,        \* threads that may call Store::evict_expired
  Idle,            \* marks a thread that is not sweeping
  MaxMinted,       \* bound on the handles minted in a behaviour
  MaxTime          \* bound on the clock

ASSUME ConstantsOK ==
  /\ MaxTotalBytes \in Nat
  /\ Sizes \subseteq Nat \ {0}
  /\ Ttls \subseteq Nat
  /\ Idle \notin Nat
  /\ MaxMinted \in Nat
  /\ MaxTime \in Nat

VARIABLES
  entries,      \* StoreInner::entries: live handle -> [expiresAt, byteSize]
  lru,          \* StoreInner::lru_order, as the relation "at or ahead of"
  expiredIds,   \* StoreInner::expired_ids, the tombstones
  lineage,      \* StoreInner::lineage: child handle -> parent handle
  totalBytes,   \* StoreInner::total_bytes
  minted,       \* how many handles were ever minted
  clock,        \* the wall clock (Unix seconds)
  sweepNow      \* sweepNow[t]: the time a sweep of t read, or Idle

vars == <<entries, lru, expiredIds, lineage, totalBytes, minted, clock, sweepNow>>

Handles == 1..minted

Live == DOMAIN entries

-----------------------------------------------------------------------------
(***************************************************************************)
(* Operators whose comment begins with "Faulty" are not part of the model: *)
(* each is a plausible slip in the definition that follows it, kept to     *)
(* show that the properties below notice it.                               *)
(***************************************************************************)

(***************************************************************************)
(* The LRU deque.  It never holds a handle twice, so it is represented by  *)
(* the pairs <<a, b>> such that a is b or a stands nearer the head.        *)
(***************************************************************************)
Queued(q) == {p[1] : p \in q}

\* Faulty: first in, first out, as if touches did not count.
AheadByInsertion(q, id) == {x \in Queued(q) : x < id}

Ahead(q, id) == {x \in Queued(q) : x # id /\ <<x, id>> \in q}

\* Faulty: at the head of the queue.
PushFront(q, id) == q \cup ({id} \X (Queued(q) \cup {id}))

PushBack(q, id) == q \cup ((Queued(q) \cup {id}) \X {id})

Remove(q, gone) == {p \in q : p[1] \notin gone /\ p[2] \notin gone}

\* StoreInner::touch: move a queued handle to the back.
Touch(q, id) == IF id \in Queued(q) THEN PushBack(Remove(q, {id}), id) ELSE q

(***************************************************************************)
(* The bytes of the entries of es named in ids: the sum of their byteSize, *)
(* written as the number of bytes one can point at.                        *)
(***************************************************************************)
Bytes(es, ids) ==
  Cardinality(UNION {{id} \X (1..es[id].byteSize) : id \in ids})

\* Faulty: removal forgets the running total.
SubNothing(a, b) == a

\* usize::saturating_sub.
SaturatingSub(a, b) == IF b <= a THEN a - b ELSE 0

-----------------------------------------------------------------------------
(***************************************************************************)
(* StoreInner::live_parent_ids.  Lineage records are never removed, so an  *)
(* entry with a child that is itself long gone still counts.               *)
(***************************************************************************)
LiveParents(es, lin) == {lin[c] : c \in DOMAIN lin} \cap DOMAIN es

(***************************************************************************)
(* One pass of evict_to_cap over the candidates, oldest first: a candidate *)
(* is removed when the total is still above the cap with every candidate   *)
(* ahead of it removed.                                                    *)
(***************************************************************************)
PassVictims(es, q, total, candidates) ==
  {c \in candidates :
     SaturatingSub(total, Bytes(es, Ahead(q, c) \cap candidates)) > MaxTotalBytes}

\* Faulty: parents are not spared.
VictimsParentsToo(es, q, total, lin) ==
  IF MaxTotalBytes = 0 THEN {} ELSE PassVictims(es, q, total, DOMAIN es)

(***************************************************************************)
(* StoreInner::evict_to_cap: the first pass spares lineage parents, the    *)
(* second takes whatever is left.                                          *)
(***************************************************************************)
Victims(es, q, total, lin) ==
  LET spare  == PassVictims(es, q, total, DOMAIN es \ LiveParents(es, lin))
      left   == SaturatingSub(total, Bytes(es, spare))
      forced == PassVictims(es, q, left, DOMAIN es \ spare)
  IN  IF MaxTotalBytes = 0 THEN {} ELSE spare \cup forced

-----------------------------------------------------------------------------
Init ==
  /\ entries = [h \in {} |-> [expiresAt |-> 0, byteSize |-> 1]]
  /\ lru = {}
  /\ expiredIds = {}
  /\ lineage = [h \in {} |-> 0]
  /\ totalBytes = 0
  /\ minted = 0
  /\ clock = 0
  /\ sweepNow = [t \in Sweepers |-> Idle]

\* mint_id: a handle id never used before.
FreshId == minted + 1

(***************************************************************************)
(* StoreInner::insert of a freshly minted handle into a store whose LRU    *)
(* queue is queue, with the eviction that ends it.  Nothing exempts the    *)
(* new entry from that eviction.                                           *)
(***************************************************************************)
InsertAfter(queue, size, ttl, lin) ==
  LET id    == FreshId
      entry == [expiresAt |-> clock + ttl, byteSize |-> size]
      es    == [h \in Live \cup {id} |-> IF h = id THEN entry ELSE entries[h]]
      q     == PushBack(queue, id)
      total == totalBytes + size
      gone  == Victims(es, q, total, lin)
  IN  /\ minted < MaxMinted
      /\ minted' = id
      /\ entries' = Restrict(es, DOMAIN es \ gone)
      /\ lru' = Remove(q, gone)
      /\ totalBytes' = SaturatingSub(total, Bytes(es, gone))
      /\ lineage' = lin
      /\ UNCHANGED <<expiredIds, clock, sweepNow>>

Insert(size, ttl, lin) == InsertAfter(lru, size, ttl, lin)

\* Store::put.
Put(size, ttl) == Insert(size, ttl, lineage)

\* The lineage map with the record of a new child.
LineageWith(child, parent) ==
  [c \in DOMAIN lineage \cup {child} |-> IF c = child THEN parent ELSE lineage[c]]

(***************************************************************************)
(* Store::derive from a live parent: the lineage record is written before  *)
(* the child is inserted.  A dead parent is an error that changes nothing. *)
(***************************************************************************)
Derive(parent, size, ttl) ==
  /\ parent \in Live
  /\ Insert(size, ttl, LineageWith(FreshId, parent))

(***************************************************************************)
(* Store::get of a live handle: the entry becomes the most recently used.  *)
(* A dead handle is an error that changes nothing; see Lookup.             *)
(***************************************************************************)
Get(id) ==
  /\ id \in Live
  /\ lru' = Touch(lru, id)
  /\ UNCHANGED <<entries, expiredIds, lineage, totalBytes, minted, clock, sweepNow>>

\* Store::evict_expired, before the lock: the clock is read.
SweepRead(t) ==
  /\ sweepNow[t] = Idle
  /\ sweepNow' = [sweepNow EXCEPT ![t] = clock]
  /\ UNCHANGED <<entries, lru, expiredIds, lineage, totalBytes, minted, clock>>

\* Faulty: rounds the TTL down by a second.
ExpiredByRounded(now) == {h \in Live : entries[h].expiresAt <= now + 1}

\* The entries whose TTL has elapsed at time now.
ExpiredBy(now) == {h \in Live : entries[h].expiresAt <= now}

\* Faulty: a sweep replaces the tombstones of the sweep before.
TombstonesOfLast(expired) == expired

\* expired_ids after the sweep of these entries.
Tombstones(expired) == expiredIds \cup expired

\* Store::evict_expired, under the lock: StoreInner::evict_expired.
SweepApply(t) ==
  LET expired == ExpiredBy(sweepNow[t])
  IN  /\ sweepNow[t] # Idle
      /\ entries' = Restrict(entries, Live \ expired)
      /\ lru' = Remove(lru, expired)
      /\ totalBytes' = SaturatingSub(totalBytes, Bytes(entries, expired))
      /\ expiredIds' = Tombstones(expired)
      /\ sweepNow' = [sweepNow EXCEPT ![t] = Idle]
      /\ UNCHANGED <<lineage, minted, clock>>

\* Time passes.
Tick ==
  /\ clock < MaxTime
  /\ clock' = clock + 1
  /\ UNCHANGED <<entries, lru, expiredIds, lineage, totalBytes, minted, sweepNow>>

Next ==
  \/ \E size \in Sizes, ttl \in Ttls : Put(size, ttl)
  \/ \E parent \in Handles, size \in Sizes, ttl \in Ttls : Derive(parent, size, ttl)
  \/ \E id \in Handles : Get(id)
  \/ \E t \in Sweepers : SweepRead(t)
  \/ \E t \in Sweepers : SweepApply(t)
  \/ Tick

Spec == Init /\ [][Next]_vars

-----------------------------------------------------------------------------
(***************************************************************************)
(* What a caller sees of a handle: the result of StoreInner::get_cloned.   *)
(***************************************************************************)
Lookup(id) ==
  CASE id \in Live -> "live"
    [] id \notin Live /\ id \in expiredIds -> "expired"
    [] OTHER -> "not_found"

Entry == [expiresAt : Nat, byteSize : Nat \ {0}]

TypeOK ==
  /\ entries \in [Live -> Entry]
  /\ Live \subseteq Handles
  /\ lru \subseteq Live \X Live
  /\ expiredIds \subseteq Handles
  /\ lineage \in [DOMAIN lineage -> Handles]
  /\ DOMAIN lineage \subseteq Handles
  /\ totalBytes \in Nat
  /\ minted \in Nat
  /\ clock \in Nat
  /\ sweepNow \in [Sweepers -> Nat \cup {Idle}]

(***************************************************************************)
(* The running byte counter is the sum over the live entries: insertion,   *)
(* both eviction passes and the sweep each account for exactly what they   *)
(* add and remove, and no saturating subtraction ever saturates.           *)
(***************************************************************************)
Accounting == totalBytes = Bytes(entries, Live)

(***************************************************************************)
(* No operation leaves the store above its cap, oversized datasets and     *)
(* protected parents included (stats().total_bytes <= max_total_bytes).    *)
(***************************************************************************)
WithinCap == MaxTotalBytes > 0 => totalBytes <= MaxTotalBytes

(***************************************************************************)
(* The store holds no more bytes than its cap, and counts them right.      *)
(***************************************************************************)
BytesBounded == Accounting /\ WithinCap

(***************************************************************************)
(* The LRU queue lists every live entry once and nothing else, through     *)
(* touches, evictions and sweeps.  An entry missing from the queue could   *)
(* never be evicted again.                                                 *)
(***************************************************************************)
LruListsEntries ==
  /\ Queued(lru) = Live
  /\ \A a, b \in Live : <<a, b>> \in lru \/ <<b, a>> \in lru
  /\ \A a, b \in Live : <<a, b>> \in lru /\ <<b, a>> \in lru => a = b
  /\ \A a, b, c \in Live : <<a, b>> \in lru /\ <<b, c>> \in lru => <<a, c>> \in lru

\* A handle is never both live and a tombstone, whichever sweep came late.
TombstonesDead == expiredIds \cap Live = {}

(***************************************************************************)
(* A lineage record points to a handle minted before its child, so the     *)
(* walk of lineage_chain ends however many ancestors have died.            *)
(***************************************************************************)
LineageGoesBack == \A c \in DOMAIN lineage : lineage[c] < c

(***************************************************************************)
(* A tombstone stands only for a TTL that has really elapsed, although the *)
(* sweep used a time it read before taking the lock: an entry inserted or  *)
(* derived between the two steps of a sweep is not swept early.            *)
(***************************************************************************)
NoEarlyExpiry ==
  [][\A h \in expiredIds' \ expiredIds : entries[h].expiresAt <= clock]_vars

(***************************************************************************)
(* A dead handle stays dead, and a tombstone keeps answering Expired: no   *)
(* later mint, sweep or eviction revives or forgets it.                    *)
(***************************************************************************)
DeadForGood ==
  [][\A h \in Handles : Lookup(h) # "live" => Lookup(h)' = Lookup(h)]_vars

(***************************************************************************)
(* Entries leave the store for space only when something is inserted, and  *)
(* then in LRU order among the entries that are not lineage parents: what  *)
(* is evicted was less recently used than every survivor of its class.     *)
(***************************************************************************)
SizeEvicted == (Live \ Live') \ expiredIds'

\* The entries some dataset was derived from, that of this very step included.
Parents == Live \cap {lineage'[c] : c \in DOMAIN lineage'}

Unprotected == Live \ Parents

LruOrderRespected ==
  [][\A gone \in SizeEvicted \cap Unprotected, kept \in Unprotected \cap Live' :
       <<gone, kept>> \in lru]_vars

(***************************************************************************)
(* Eviction stops as soon as the cap is met: when the inserted entry       *)
(* stays, putting back the most recently used victim would exceed the cap. *)
(***************************************************************************)
NoExcessEviction ==
  [][minted' \in Live' => \A last \in SizeEvicted :
       (\A x \in SizeEvicted : <<x, last>> \in lru)
         => totalBytes' + entries[last].byteSize > MaxTotalBytes]_vars

(***************************************************************************)
(* What is evicted for space is what LRU order demands, and no more.       *)
(***************************************************************************)
EvictsInTurn == LruOrderRespected /\ NoExcessEviction

(***************************************************************************)
(* An entry that was ever derived from is never evicted for space, not     *)
(* even by the forced pass of evict_to_cap: the pass that spares parents   *)
(* always meets the cap, because it may evict the entry just inserted.     *)
(***************************************************************************)
ParentsKept ==
  [][SizeEvicted \cap Parents = {}]_vars

(***************************************************************************)
(* The new entry is the last that its insertion evicts: put and derive     *)
(* return a dead handle only when the lineage parents alone are left and   *)
(* it does not fit beside them.                                            *)
(***************************************************************************)
FreshEvictedLast ==
  [][minted' # minted /\ minted' \notin Live' => Live' = Parents]_vars

(***************************************************************************)
(* Lineage parents outlast every other entry, the new one included.        *)
(***************************************************************************)
ParentsOutlast == ParentsKept /\ FreshEvictedLast

(***************************************************************************)
(* DhStore implements HandleLife: the abstract status of a handle is what  *)
(* a lookup answers for it.                                                *)
(***************************************************************************)
Status(id) ==
  CASE Lookup(id) = "not_found" -> "evicted"
    [] OTHER -> Lookup(id)

Abstract == INSTANCE HandleLife WITH status <- [h \in Handles |-> Status(h)]

Implements == Abstract!Spec
=============================================================================
