--------------------------- MODULE DhStoreProofs ----------------------------
(***************************************************************************)
(* Proofs about DhStore, for every value of its constants, and about       *)
(* HandleSession, which adds the tools to the store.  Nothing about the    *)
(* store below rests on the constants that HandleSession adds.             *)
(***************************************************************************)
EXTENDS HandleSession, FunctionTheorems, FiniteSetTheorems, WellFoundedInduction, TLAPS

-----------------------------------------------------------------------------
(***************************************************************************)
(* Facts about Bytes.  The bytes of an entry are the pairs <<id, i>> with  *)
(* i in 1..byteSize, so sums of sizes are cardinalities of disjoint unions *)
(* and follow from the library's theorems on finite sets.                  *)
(***************************************************************************)
Sized(es, ids) == \A id \in ids : es[id].byteSize \in Nat

BytesOf(es, ids) == UNION {{id} \X (1..es[id].byteSize) : id \in ids}

\* The bytes of finitely many entries are finitely many.
LEMMA BytesFinite ==
  ASSUME NEW es, NEW ids, IsFiniteSet(ids), Sized(es, ids)
  PROVE  /\ IsFiniteSet(BytesOf(es, ids))
         /\ Bytes(es, ids) = Cardinality(BytesOf(es, ids))
         /\ Bytes(es, ids) \in Nat
<1> DEFINE Own(id) == {id} \X (1..es[id].byteSize)
           All == {Own(id) : id \in ids}
           f == [id \in ids |-> Own(id)]
<1>1. IsFiniteSet(All)
  <2>1. f \in Surjection(ids, All)
    BY DEF Surjection
  <2>2. QED
    BY <2>1, FS_Surjection
<1>2. \A T \in All : IsFiniteSet(T)
  <2>1. SUFFICES ASSUME NEW id \in ids PROVE IsFiniteSet(Own(id))
    OBVIOUS
  <2>2. IsFiniteSet(1..es[id].byteSize)
    BY FS_Interval DEF Sized
  <2>3. QED
    BY <2>2, FS_Singleton, FS_Product
<1>3. IsFiniteSet(UNION All)
  BY <1>1, <1>2, FS_UNION
<1>4. BytesOf(es, ids) = UNION All
  BY DEF BytesOf
<1>5. QED
  BY <1>3, <1>4, FS_CardinalityType DEF Bytes, BytesOf

\* Disjoint sets of entries: the bytes add up.
LEMMA BytesDisjoint ==
  ASSUME NEW es, NEW A, NEW B, IsFiniteSet(A), IsFiniteSet(B), A \cap B = {},
         Sized(es, A), Sized(es, B)
  PROVE  Bytes(es, A \cup B) = Bytes(es, A) + Bytes(es, B)
<1>1. IsFiniteSet(A \cup B) /\ Sized(es, A \cup B)
  BY FS_Union DEF Sized
<1>2. BytesOf(es, A \cup B) = BytesOf(es, A) \cup BytesOf(es, B)
  BY DEF BytesOf
<1>3. BytesOf(es, A) \cap BytesOf(es, B) = {}
  BY DEF BytesOf
<1>4. Cardinality(BytesOf(es, A) \cap BytesOf(es, B)) = 0
  BY <1>3, FS_EmptySet
<1>5. /\ IsFiniteSet(BytesOf(es, A)) /\ IsFiniteSet(BytesOf(es, B))
      /\ Bytes(es, A) = Cardinality(BytesOf(es, A)) /\ Bytes(es, A) \in Nat
      /\ Bytes(es, B) = Cardinality(BytesOf(es, B)) /\ Bytes(es, B) \in Nat
      /\ Bytes(es, A \cup B) = Cardinality(BytesOf(es, A \cup B))
  BY <1>1, BytesFinite
<1>6. Cardinality(BytesOf(es, A) \cup BytesOf(es, B)) =
        Cardinality(BytesOf(es, A)) + Cardinality(BytesOf(es, B))
          - Cardinality(BytesOf(es, A) \cap BytesOf(es, B))
  BY <1>5, FS_Union
<1>7. Cardinality(BytesOf(es, A \cup B)) = Cardinality(BytesOf(es, A) \cup BytesOf(es, B))
  BY <1>2, Zenon
<1>8. QED
  BY <1>4, <1>5, <1>6, <1>7

\* Taking some entries away subtracts their bytes, and never too many.
LEMMA BytesMinus ==
  ASSUME NEW es, NEW A, NEW B, IsFiniteSet(A), B \subseteq A, Sized(es, A)
  PROVE  /\ Bytes(es, A) \in Nat /\ Bytes(es, B) \in Nat /\ Bytes(es, A \ B) \in Nat
         /\ Bytes(es, B) <= Bytes(es, A)
         /\ Bytes(es, A \ B) = Bytes(es, A) - Bytes(es, B)
         /\ SaturatingSub(Bytes(es, A), Bytes(es, B)) = Bytes(es, A \ B)
<1>1. /\ IsFiniteSet(B) /\ IsFiniteSet(A \ B)
      /\ Sized(es, B) /\ Sized(es, A \ B)
  BY FS_Subset DEF Sized
<1>2. /\ Bytes(es, A) \in Nat /\ Bytes(es, B) \in Nat /\ Bytes(es, A \ B) \in Nat
  BY <1>1, BytesFinite
<1>3. A = B \cup (A \ B) /\ B \cap (A \ B) = {}
  OBVIOUS
<1>4. Bytes(es, A) = Bytes(es, B) + Bytes(es, A \ B)
  BY <1>1, <1>3, BytesDisjoint
<1>5. QED
  BY <1>2, <1>4 DEF SaturatingSub

\* Fewer entries, fewer bytes.
LEMMA BytesMonotone ==
  ASSUME NEW es, NEW A, NEW B, IsFiniteSet(A), B \subseteq A, Sized(es, A)
  PROVE  Bytes(es, B) <= Bytes(es, A)
BY BytesMinus

\* Bytes looks only at the sizes of the entries it is asked about.
LEMMA BytesSame ==
  ASSUME NEW es, NEW fs, NEW ids, \A id \in ids : es[id].byteSize = fs[id].byteSize
  PROVE  Bytes(es, ids) = Bytes(fs, ids)
<1>1. BytesOf(es, ids) = BytesOf(fs, ids)
  BY DEF BytesOf
<1>2. QED
  BY <1>1 DEF Bytes, BytesOf

\* The bytes of one entry.
LEMMA BytesSingle ==
  ASSUME NEW es, NEW id, es[id].byteSize \in Nat
  PROVE  Bytes(es, {id}) = es[id].byteSize
<1>1. BytesOf(es, {id}) = {id} \X (1..es[id].byteSize)
  BY DEF BytesOf
<1>2. /\ IsFiniteSet(1..es[id].byteSize)
      /\ Cardinality(1..es[id].byteSize) = es[id].byteSize
  <2>1. ASSUME NEW n \in Nat
        PROVE  IsFiniteSet(1..n) /\ Cardinality(1..n) = n
    <3>1. 1 \in Int /\ n \in Int
      OBVIOUS
    <3>2. /\ IsFiniteSet(1..n)
          /\ Cardinality(1..n) = IF 1 > n THEN 0 ELSE n - 1 + 1
      BY <3>1, FS_Interval, Zenon
    <3>3. QED
      BY <3>2
  <2>2. QED
    BY <2>1
<1>3. IsFiniteSet({id}) /\ Cardinality({id}) = 1
  BY FS_Singleton
<1>4. Cardinality({id} \X (1..es[id].byteSize)) = 1 * es[id].byteSize
  BY <1>2, <1>3, FS_Product
<1>5. QED
  BY <1>1, <1>4 DEF Bytes, BytesOf

-----------------------------------------------------------------------------
(***************************************************************************)
(* Facts about the LRU queue.                                              *)
(***************************************************************************)
IsQueue(q, ids) ==
  /\ q \subseteq ids \X ids
  /\ Queued(q) = ids
  /\ \A a, b \in ids : <<a, b>> \in q \/ <<b, a>> \in q
  /\ \A a, b \in ids : <<a, b>> \in q /\ <<b, a>> \in q => a = b
  /\ \A a, b, c \in ids : <<a, b>> \in q /\ <<b, c>> \in q => <<a, c>> \in q

LEMMA EmptyQueue == IsQueue({}, {})
BY DEF IsQueue, Queued

\* A relation on ids that holds every reflexive pair queues exactly ids.
LEMMA QueuedAll ==
  ASSUME NEW q, NEW ids, q \subseteq ids \X ids, \A a \in ids : <<a, a>> \in q
  PROVE  Queued(q) = ids
<1>1. ASSUME NEW x \in Queued(q) PROVE x \in ids
  BY <1>1 DEF Queued
<1>2. ASSUME NEW a \in ids PROVE a \in Queued(q)
  <2>1. <<a, a>> \in q /\ <<a, a>>[1] = a
    OBVIOUS
  <2>2. QED
    BY <2>1 DEF Queued
<1>3. QED
  BY <1>1, <1>2

LEMMA PushBackQueue ==
  ASSUME NEW q, NEW ids, IsQueue(q, ids), NEW id, id \notin ids
  PROVE  IsQueue(PushBack(q, id), ids \cup {id})
<1>1. PushBack(q, id) = q \cup ((ids \cup {id}) \X {id})
  BY DEF PushBack, IsQueue
<1>2. ASSUME NEW a \in ids \cup {id}, NEW b \in ids \cup {id}
      PROVE  <<a, b>> \in PushBack(q, id) <=> <<a, b>> \in q \/ b = id
  BY <1>1
<1>3. \A a \in ids \cup {id} : <<a, id>> \notin q /\ <<id, a>> \notin q
  BY DEF IsQueue
<1>4. PushBack(q, id) \subseteq (ids \cup {id}) \X (ids \cup {id})
  BY <1>1 DEF IsQueue
<1>5. \A a, b \in ids \cup {id} :
        <<a, b>> \in PushBack(q, id) \/ <<b, a>> \in PushBack(q, id)
  BY <1>2 DEF IsQueue
<1>6. Queued(PushBack(q, id)) = ids \cup {id}
  BY <1>4, <1>5, QueuedAll
<1>7. \A a, b \in ids \cup {id} :
        <<a, b>> \in PushBack(q, id) /\ <<b, a>> \in PushBack(q, id) => a = b
  BY <1>2, <1>3 DEF IsQueue
<1>8. \A a, b, c \in ids \cup {id} :
        <<a, b>> \in PushBack(q, id) /\ <<b, c>> \in PushBack(q, id)
          => <<a, c>> \in PushBack(q, id)
  BY <1>2, <1>3 DEF IsQueue
<1>9. QED
  BY <1>4, <1>5, <1>6, <1>7, <1>8 DEF IsQueue

LEMMA RemoveQueue ==
  ASSUME NEW q, NEW ids, IsQueue(q, ids), NEW gone
  PROVE  IsQueue(Remove(q, gone), ids \ gone)
<1>1. Remove(q, gone) \subseteq (ids \ gone) \X (ids \ gone)
  BY DEF Remove, IsQueue
<1>2. \A a, b \in ids \ gone : <<a, b>> \in Remove(q, gone) <=> <<a, b>> \in q
  BY DEF Remove, IsQueue
<1>3. Queued(Remove(q, gone)) = ids \ gone
  <2>1. \A a \in ids \ gone : <<a, a>> \in Remove(q, gone)
    BY <1>2 DEF IsQueue
  <2>2. QED
    BY <1>1, <2>1, QueuedAll
<1>4. QED
  BY <1>1, <1>2, <1>3 DEF IsQueue

LEMMA TouchQueue ==
  ASSUME NEW q, NEW ids, IsQueue(q, ids), NEW id \in ids
  PROVE  IsQueue(Touch(q, id), ids)
<1>1. IsQueue(Remove(q, {id}), ids \ {id})
  BY RemoveQueue
<1>2. IsQueue(PushBack(Remove(q, {id}), id), (ids \ {id}) \cup {id})
  BY <1>1, PushBackQueue
<1>3. (ids \ {id}) \cup {id} = ids /\ id \in Queued(q)
  BY DEF IsQueue
<1>4. QED
  BY <1>2, <1>3 DEF Touch

(***************************************************************************)
(* Every nonempty set of queued handles has one that is nearest the head.  *)
(***************************************************************************)
LEMMA NearestHead ==
  ASSUME NEW q, NEW ids, IsQueue(q, ids), IsFiniteSet(ids),
         NEW S, S \subseteq ids, S # {}
  PROVE  \E c \in S : Ahead(q, c) \cap S = {}
<1> DEFINE T == {Ahead(q, c) : c \in S}
<1>1. \A c \in S : Ahead(q, c) \subseteq ids
  BY DEF Ahead, IsQueue
<1>2. T \subseteq FiniteSubsetsOf(ids) /\ T # {}
  BY <1>1, FS_Subset DEF FiniteSubsetsOf
<1>3. IsWellFoundedOn(StrictSubsetOrdering(ids), FiniteSubsetsOf(ids))
  BY FS_StrictSubsetOrderingWellFounded
<1>4. PICK low \in T : \A A \in T : ~ (<<A, low>> \in StrictSubsetOrdering(ids))
  BY <1>2, <1>3, WFMin
<1>5. PICK c \in S : low = Ahead(q, c)
  OBVIOUS
<1>6. ASSUME NEW d \in Ahead(q, c) \cap S
      PROVE  FALSE
  <2>1. Ahead(q, d) \subseteq Ahead(q, c)
    BY <1>6 DEF Ahead, IsQueue
  <2>2. d \in Ahead(q, c) /\ d \notin Ahead(q, d)
    BY <1>6 DEF Ahead
  <2>3. Ahead(q, d) \in T /\ Ahead(q, d) # Ahead(q, c)
    BY <1>6, <2>2
  <2>4. <<Ahead(q, d), Ahead(q, c)>> \in StrictSubsetOrdering(ids)
    BY <1>1, <1>6, <2>1, <2>3 DEF StrictSubsetOrdering
  <2>5. QED
    BY <1>4, <1>5, <2>3, <2>4
<1>7. QED
  BY <1>6

\* What a pass looks at: entries of known size and the queue that lists them.
Evictable(es, q) ==
  /\ IsFiniteSet(DOMAIN es) /\ Sized(es, DOMAIN es)
  /\ IsQueue(q, DOMAIN es)

\* A pass that evicts a candidate evicts every candidate ahead of it.
LEMMA PassInOrder ==
  ASSUME MaxTotalBytes \in Nat, NEW es, NEW q, Evictable(es, q),
         NEW C, C \subseteq DOMAIN es, NEW c \in C,
         NEW d \in PassVictims(es, q, Bytes(es, DOMAIN es), C), <<c, d>> \in q
  PROVE  c \in PassVictims(es, q, Bytes(es, DOMAIN es), C)
<1> DEFINE D == DOMAIN es
           A(x) == Ahead(q, x) \cap C
<1>1. d \in C /\ SaturatingSub(Bytes(es, D), Bytes(es, A(d))) > MaxTotalBytes
  BY DEF PassVictims
<1>2. A(c) \subseteq A(d) /\ A(d) \subseteq D /\ A(c) \subseteq D
  BY <1>1 DEF Ahead, IsQueue, Evictable
<1>3. IsFiniteSet(A(d)) /\ Sized(es, A(d))
  BY <1>2, FS_Subset DEF Sized, Evictable
<1>4. Bytes(es, A(c)) <= Bytes(es, A(d))
  BY <1>2, <1>3, BytesMonotone
<1>5. /\ Bytes(es, A(c)) \in Nat /\ Bytes(es, A(d)) \in Nat /\ Bytes(es, D) \in Nat
      /\ Bytes(es, A(c)) <= Bytes(es, D) /\ Bytes(es, A(d)) <= Bytes(es, D)
  BY <1>2, BytesMinus DEF Evictable
<1>6. SaturatingSub(Bytes(es, D), Bytes(es, A(c))) > MaxTotalBytes
  BY <1>1, <1>4, <1>5 DEF SaturatingSub
<1>7. QED
  BY <1>6 DEF PassVictims

\* A pass that evicts the candidate at the back of the queue evicts them all.
LEMMA LastVictim ==
  ASSUME MaxTotalBytes \in Nat, NEW es, NEW q, Evictable(es, q),
         NEW C, C \subseteq DOMAIN es,
         NEW last \in PassVictims(es, q, Bytes(es, DOMAIN es), C),
         \A c \in C : <<c, last>> \in q
  PROVE  PassVictims(es, q, Bytes(es, DOMAIN es), C) = C
<1>1. \A c \in C : c \in PassVictims(es, q, Bytes(es, DOMAIN es), C)
  BY PassInOrder
<1>2. QED
  BY <1>1 DEF PassVictims

\* With the last of its victims back in the store, the cap would be exceeded.
LEMMA PassStopsInTime ==
  ASSUME MaxTotalBytes \in Nat, NEW es, NEW q, Evictable(es, q),
         NEW C, C \subseteq DOMAIN es,
         NEW gone, gone = PassVictims(es, q, Bytes(es, DOMAIN es), C),
         NEW last \in gone, \A x \in gone : <<x, last>> \in q
  PROVE  Bytes(es, DOMAIN es \ gone) + es[last].byteSize > MaxTotalBytes
<1> DEFINE D == DOMAIN es
           rest == gone \ {last}
<1>1. /\ last \in C /\ gone \subseteq C /\ gone \subseteq D /\ rest \subseteq D
      /\ SaturatingSub(Bytes(es, D), Bytes(es, Ahead(q, last) \cap C)) > MaxTotalBytes
  BY DEF PassVictims
<1>2. rest \subseteq Ahead(q, last)
  BY DEF Ahead, Queued
<1>3. \A c \in C : <<c, last>> \in q => c \in gone
  BY PassInOrder
<1>4. Ahead(q, last) \cap C = rest
  BY <1>1, <1>2, <1>3 DEF Ahead
<1>5. /\ IsFiniteSet(D) /\ Sized(es, D)
      /\ IsFiniteSet(gone) /\ Sized(es, gone) /\ es[last].byteSize \in Nat
  BY <1>1, FS_Subset DEF Evictable, Sized
<1>6. /\ Bytes(es, D) \in Nat /\ Bytes(es, gone) \in Nat
      /\ Bytes(es, D \ gone) = Bytes(es, D) - Bytes(es, gone)
      /\ Bytes(es, rest) \in Nat /\ Bytes(es, rest) <= Bytes(es, D)
  <2>1. /\ Bytes(es, D) \in Nat /\ Bytes(es, gone) \in Nat
        /\ Bytes(es, D \ gone) = Bytes(es, D) - Bytes(es, gone)
    <3>1. IsFiniteSet(D) /\ Sized(es, D) /\ gone \subseteq D
      BY <1>1, <1>5
    <3> HIDE DEF D
    <3>2. QED
      BY <3>1, BytesMinus
  <2>2. Bytes(es, rest) \in Nat /\ Bytes(es, rest) <= Bytes(es, D)
    BY <1>1, <1>5, BytesMinus
  <2>3. QED
    BY <2>1, <2>2
<1>7. Bytes(es, gone) = Bytes(es, rest) + es[last].byteSize
  <2>1. /\ IsFiniteSet(rest) /\ IsFiniteSet({last}) /\ rest \cap {last} = {}
        /\ Sized(es, rest) /\ Sized(es, {last}) /\ gone = rest \cup {last}
    BY <1>5, FS_Subset, FS_Singleton DEF Sized
  <2>2. Bytes(es, rest \cup {last}) = Bytes(es, rest) + Bytes(es, {last})
    BY <2>1, BytesDisjoint
  <2>3. Bytes(es, {last}) = es[last].byteSize
    BY <1>5, BytesSingle
  <2>4. QED
    BY <2>1, <2>2, <2>3
<1>8. Bytes(es, D) - Bytes(es, rest) > MaxTotalBytes
  BY <1>1, <1>4, <1>6 DEF SaturatingSub
<1>9. QED
  BY <1>5, <1>6, <1>7, <1>8

-----------------------------------------------------------------------------
(***************************************************************************)
(* The argument about evict_to_cap.  Before an insertion the store is      *)
(* within its cap, and the inserted entry is nobody's parent.  If the pass *)
(* that spares parents runs out of candidates it has evicted the new entry *)
(* too, so what is left was within the cap before; if it stops at a        *)
(* candidate, it stops because the cap is met.  Either way the forced pass *)
(* finds nothing to do.                                                    *)
(***************************************************************************)
LEMMA VictimsSpareParents ==
  ASSUME MaxTotalBytes \in Nat \ {0},
         NEW es, NEW q, NEW lin, NEW new \in DOMAIN es,
         IsFiniteSet(DOMAIN es), Sized(es, DOMAIN es), IsQueue(q, DOMAIN es),
         new \notin LiveParents(es, lin),
         Bytes(es, DOMAIN es \ {new}) <= MaxTotalBytes
  PROVE  \A gone : gone = Victims(es, q, Bytes(es, DOMAIN es), lin) =>
           /\ gone \subseteq DOMAIN es \ LiveParents(es, lin)
           /\ Bytes(es, DOMAIN es \ gone) <= MaxTotalBytes
           /\ gone = PassVictims(es, q, Bytes(es, DOMAIN es),
                                 DOMAIN es \ LiveParents(es, lin))
<1> DEFINE D == DOMAIN es
           C == D \ LiveParents(es, lin)
           total == Bytes(es, D)
           spare == PassVictims(es, q, total, C)
           left == SaturatingSub(total, Bytes(es, spare))
           forced == PassVictims(es, q, left, D \ spare)
<1>1. C \subseteq D /\ spare \subseteq C /\ new \in C
  BY DEF PassVictims
<1>2. Bytes(es, D \ spare) <= MaxTotalBytes
  <2>1. CASE spare = C
    <3>1. D \ spare \subseteq D \ {new}
      BY <1>1, <2>1
    <3>2. IsFiniteSet(D \ {new}) /\ Sized(es, D \ {new})
      BY FS_Subset DEF Sized
    <3>3. Bytes(es, D \ spare) <= Bytes(es, D \ {new})
      BY <3>1, <3>2, BytesMonotone
    <3>4. Bytes(es, D \ spare) \in Nat /\ Bytes(es, D \ {new}) \in Nat
      BY <1>1, BytesMinus
    <3>5. QED
      BY <3>3, <3>4
  <2>2. CASE spare # C
    <3>1. PICK c \in C \ spare : Ahead(q, c) \cap (C \ spare) = {}
      <4> DEFINE N == C \ spare
      <4>1. N \subseteq D /\ N # {}
        BY <1>1, <2>2
      <4>2. IsQueue(q, D) /\ IsFiniteSet(D)
        OBVIOUS
      <4> HIDE DEF N, D
      <4>3. \E c \in N : Ahead(q, c) \cap N = {}
        BY <4>1, <4>2, NearestHead
      <4>4. QED
        BY <4>3 DEF N
    <3> DEFINE A == Ahead(q, c) \cap C
    <3>2. A \subseteq spare /\ A \subseteq D
      BY <1>1, <3>1
    <3>3. ~ (SaturatingSub(total, Bytes(es, A)) > MaxTotalBytes)
      BY <3>1 DEF PassVictims
    <3>4. /\ SaturatingSub(total, Bytes(es, A)) = Bytes(es, D \ A)
          /\ Bytes(es, D \ A) \in Nat
          /\ Bytes(es, D \ spare) \in Nat
      BY <1>1, <3>2, BytesMinus
    <3>5. Bytes(es, D \ spare) <= Bytes(es, D \ A)
      <4>1. IsFiniteSet(D \ A) /\ Sized(es, D \ A)
        BY FS_Subset DEF Sized
      <4>2. D \ spare \subseteq D \ A
        BY <3>2
      <4>3. QED
        BY <4>1, <4>2, BytesMonotone
    <3>6. QED
      BY <3>3, <3>4, <3>5
  <2>3. QED
    BY <2>1, <2>2
<1>3. left = Bytes(es, D \ spare) /\ left \in Nat
  BY <1>1, BytesMinus
<1>4. forced = {}
  <2>1. SUFFICES ASSUME NEW c \in forced PROVE FALSE
    OBVIOUS
  <2> DEFINE B == Ahead(q, c) \cap (D \ spare)
  <2>2. SaturatingSub(left, Bytes(es, B)) > MaxTotalBytes
    BY DEF PassVictims
  <2>3. Bytes(es, B) \in Nat
    BY <1>1, BytesMinus
  <2>4. SaturatingSub(left, Bytes(es, B)) <= left
    BY <1>3, <2>3 DEF SaturatingSub
  <2>5. SaturatingSub(left, Bytes(es, B)) \in Nat
    BY <1>3, <2>3 DEF SaturatingSub
  <2>6. QED
    BY <1>2, <1>3, <2>2, <2>4, <2>5
<1>5. Victims(es, q, total, lin) = spare
  BY <1>4 DEF Victims
<1>6. QED
  BY <1>1, <1>2, <1>5

-----------------------------------------------------------------------------
(***************************************************************************)
(* The inductive invariant: the invariants of DhStore, and that the time a *)
(* sweep read before taking the lock is not ahead of the clock.            *)
(***************************************************************************)
SweepsBehindClock == \A t \in Sweepers : sweepNow[t] # Idle => sweepNow[t] <= clock

IInv ==
  /\ TypeOK
  /\ Accounting
  /\ WithinCap
  /\ LruListsEntries
  /\ TombstonesDead
  /\ LineageGoesBack
  /\ SweepsBehindClock

LEMMA LiveFinite ==
  ASSUME TypeOK
  PROVE  IsFiniteSet(Live) /\ Sized(entries, Live)
<1>1. 1 \in Int /\ minted \in Int
  BY DEF TypeOK
<1>2. IsFiniteSet(1..minted)
  BY <1>1, FS_Interval
<1>3. QED
  BY <1>2, FS_Subset DEF TypeOK, Handles, Entry, Sized, Live

LEMMA QueueInvariant ==
  TypeOK => (LruListsEntries <=> IsQueue(lru, Live))
BY DEF TypeOK, LruListsEntries, IsQueue

LEMMA InitInvariant == Init => IInv
<1> SUFFICES ASSUME Init PROVE IInv
  OBVIOUS
<1>1. Live = {} /\ Queued(lru) = {}
  BY DEF Init, Live, Queued
<1>2. Bytes(entries, Live) = 0
  <2>1. BytesOf(entries, Live) = {}
    BY <1>1 DEF BytesOf
  <2>2. QED
    BY <2>1, FS_EmptySet DEF Bytes, BytesOf
<1>3. TypeOK
  BY <1>1, ConstantsOK DEF Init, TypeOK, Handles, Live, Entry
<1>4. QED
  BY <1>1, <1>2, <1>3, ConstantsOK
     DEF Init, IInv, Accounting, WithinCap, LruListsEntries, TombstonesDead,
         LineageGoesBack, SweepsBehindClock

\* A lineage map whose records name minted parents, older than the child.
PointsBack(lin) ==
  /\ lin \in [DOMAIN lin -> 1..minted]
  /\ DOMAIN lin \subseteq 1..(minted + 1)
  /\ \A c \in DOMAIN lin : lin[c] < c

(***************************************************************************)
(* The entries that an insertion into a store with this queue and lineage  *)
(* evicts are the least recently used, and no more than the cap demands.   *)
(***************************************************************************)
InTurn(queue, lin) ==
  LET parents == {lin[c] : c \in DOMAIN lin}
      gone    == Live \ Live'
  IN  /\ \A g \in gone \ parents, k \in (Live \cap Live') \ parents : <<g, k>> \in queue
      /\ minted' \in Live' => \A last \in gone :
           (\A x \in gone : <<x, last>> \in queue)
             => totalBytes' + entries[last].byteSize > MaxTotalBytes

(***************************************************************************)
(* An insertion with a lineage map that points back to minted handles      *)
(* keeps the invariant, evicts no entry that the map names as a parent,    *)
(* and evicts the new entry only when nothing but those parents is left.   *)
(***************************************************************************)
LEMMA InsertAfterInvariant ==
  ASSUME IInv, NEW queue, IsQueue(queue, Live), NEW size \in Sizes, NEW ttl \in Ttls, NEW lin,
         PointsBack(lin),
         InsertAfter(queue, size, ttl, lin)
  PROVE  /\ IInv'
         /\ Live' \subseteq Live \cup {minted'}
         /\ (Live \ Live') \cap {lin[c] : c \in DOMAIN lin} = {}
         /\ minted' \notin Live' => Live' = Live \cap {lin[c] : c \in DOMAIN lin}
         /\ InTurn(queue, lin)
<1> DEFINE id == minted + 1
           entry == [expiresAt |-> clock + ttl, byteSize |-> size]
           D == Live \cup {id}
<1>1. TypeOK /\ entry \in Entry /\ size \in Nat
  BY ConstantsOK DEF IInv, TypeOK, Entry
<1>2. id \notin Live /\ minted \in Nat /\ id \in 1..(minted + 1)
  BY <1>1 DEF TypeOK, Handles
<1>es. PICK es : es = [h \in D |-> IF h = id THEN entry ELSE entries[h]]
  OBVIOUS
<1>q. PICK q : q = PushBack(queue, id)
  OBVIOUS
<1>total. PICK total : total = totalBytes + size
  OBVIOUS
<1>gone. PICK gone : gone = Victims(es, q, total, lin)
  OBVIOUS
<1>3. /\ es \in [D -> Entry] /\ DOMAIN es = D
      /\ es[id] = entry /\ \A h \in Live : es[h] = entries[h]
  BY <1>1, <1>2, <1>es DEF TypeOK
<1>4. IsFiniteSet(Live) /\ IsFiniteSet(D)
  BY <1>1, LiveFinite, FS_AddElement
<1>5. Sized(es, D) /\ Sized(es, Live) /\ Sized(es, {id})
  BY <1>3 DEF Sized, Entry
<1>6. IsQueue(q, D)
  BY <1>2, <1>q, PushBackQueue
<1>7. Bytes(es, Live) = totalBytes
  BY <1>3, BytesSame DEF IInv, Accounting
<1>8. Bytes(es, D) = total
  <2>1. Bytes(es, {id}) = size
    BY <1>1, <1>3, BytesSingle
  <2>2. IsFiniteSet({id}) /\ Live \cap {id} = {}
    BY <1>2, FS_Singleton
  <2>3. Bytes(es, Live \cup {id}) = Bytes(es, Live) + Bytes(es, {id})
    BY <1>4, <1>5, <2>2, BytesDisjoint
  <2>4. QED
    BY <1>7, <1>total, <2>1, <2>3
<1>9. id \notin LiveParents(es, lin)
  BY <1>2 DEF LiveParents, PointsBack
<1>10. /\ gone \subseteq D \ LiveParents(es, lin)
       /\ MaxTotalBytes > 0 => Bytes(es, D \ gone) <= MaxTotalBytes
       /\ gone # {} => gone = PassVictims(es, q, Bytes(es, D), D \ LiveParents(es, lin))
  <2>1. CASE MaxTotalBytes = 0
    BY <1>gone, <2>1, ConstantsOK DEF Victims
  <2>2. CASE MaxTotalBytes # 0
    <3>1. MaxTotalBytes \in Nat \ {0}
      BY <2>2, ConstantsOK
    <3>2. D \ {id} = Live
      BY <1>2
    <3>3. Bytes(es, D \ {id}) <= MaxTotalBytes
      <4>1. totalBytes <= MaxTotalBytes
        BY <3>1 DEF IInv, WithinCap
      <4> HIDE DEF D
      <4>2. QED
        BY <1>7, <3>2, <4>1
    <3>4. \A g : g = Victims(es, q, Bytes(es, DOMAIN es), lin) =>
            /\ g \subseteq DOMAIN es \ LiveParents(es, lin)
            /\ Bytes(es, DOMAIN es \ g) <= MaxTotalBytes
            /\ g = PassVictims(es, q, Bytes(es, DOMAIN es),
                               DOMAIN es \ LiveParents(es, lin))
      <4>1. /\ id \in DOMAIN es /\ IsFiniteSet(DOMAIN es) /\ Sized(es, DOMAIN es)
            /\ IsQueue(q, DOMAIN es) /\ Bytes(es, DOMAIN es \ {id}) <= MaxTotalBytes
        BY <1>3, <1>4, <1>5, <1>6, <3>3
      <4>2. QED
        BY <1>9, <3>1, <4>1, VictimsSpareParents
    <3>5. QED
      BY <1>3, <1>8, <1>gone, <3>4
  <2>3. QED
    BY <2>1, <2>2
<1>11. /\ entries' = Restrict(es, D \ gone) /\ lru' = Remove(q, gone)
       /\ totalBytes' = SaturatingSub(total, Bytes(es, gone))
       /\ lineage' = lin /\ minted' = id
       /\ expiredIds' = expiredIds /\ clock' = clock /\ sweepNow' = sweepNow
  BY <1>3, <1>es, <1>q, <1>total, <1>gone DEF InsertAfter, FreshId
<1>12. /\ Live' = D \ gone
       /\ \A h \in Live' : entries'[h] = es[h]
       /\ entries' \in [Live' -> Entry]
  BY <1>3, <1>11 DEF Restrict, Live
<1>13. gone \subseteq D
  BY <1>10
<1>14. totalBytes' = Bytes(es, D \ gone) /\ totalBytes' \in Nat
  <2>1. /\ SaturatingSub(Bytes(es, D), Bytes(es, gone)) = Bytes(es, D \ gone)
        /\ Bytes(es, D \ gone) \in Nat
    <3> HIDE DEF D
    <3>1. IsFiniteSet(D)
      BY <1>4
    <3>2. Sized(es, D)
      BY <1>5
    <3>3. gone \subseteq D
      BY <1>13
    <3>4. QED
      BY <3>1, <3>2, <3>3, BytesMinus
  <2>2. QED
    BY <1>8, <1>11, <2>1
<1>15. Bytes(entries', Live') = Bytes(es, D \ gone)
  BY <1>12, BytesSame
<1>16. IsQueue(lru', Live')
  BY <1>6, <1>11, <1>12, RemoveQueue
<1>17. TypeOK'
  <2>1. Handles' = 1..(minted + 1) /\ Handles \subseteq Handles'
    BY <1>2, <1>11 DEF Handles
  <2>2. lru' \subseteq Live' \X Live'
    BY <1>16 DEF IsQueue
  <2>3. Live' \subseteq Handles' /\ expiredIds' \subseteq Handles'
    BY <1>1, <1>2, <1>11, <1>12, <2>1 DEF TypeOK
  <2>4. lineage' \in [DOMAIN lineage' -> Handles'] /\ DOMAIN lineage' \subseteq Handles'
    BY <1>2, <1>11, <2>1 DEF PointsBack
  <2>5. minted' \in Nat /\ clock' \in Nat /\ sweepNow' \in [Sweepers -> Nat \cup {Idle}]
    BY <1>1, <1>2, <1>11 DEF TypeOK
  <2>6. QED
    BY <1>12, <1>14, <2>2, <2>3, <2>4, <2>5 DEF TypeOK
<1>18. Accounting' /\ WithinCap'
  BY <1>10, <1>14, <1>15 DEF Accounting, WithinCap
<1>19. LruListsEntries'
  BY <1>16 DEF LruListsEntries, IsQueue
<1>20. TombstonesDead'
  BY <1>1, <1>2, <1>11, <1>12 DEF IInv, TombstonesDead, TypeOK, Handles
<1>21. LineageGoesBack' /\ SweepsBehindClock'
  BY <1>11 DEF IInv, LineageGoesBack, SweepsBehindClock, PointsBack
<1>22. (Live \ Live') \cap {lin[c] : c \in DOMAIN lin} = {}
  BY <1>3, <1>10, <1>12 DEF LiveParents
<1>evictable. Evictable(es, q)
  BY <1>3, <1>4, <1>5, <1>6 DEF Evictable
<1>23. ASSUME id \in gone PROVE gone = D \ LiveParents(es, lin)
  <2>1. gone = PassVictims(es, q, Bytes(es, DOMAIN es), D \ LiveParents(es, lin))
    BY <1>3, <1>10, <1>23
  <2>2. \A c \in D : <<c, id>> \in q
    BY <1>2, <1>q DEF PushBack, IsQueue
  <2>3. \A C : C = D \ LiveParents(es, lin) /\ id \in PassVictims(es, q, Bytes(es, DOMAIN es), C)
                 => PassVictims(es, q, Bytes(es, DOMAIN es), C) = C
    BY <1>3, <1>evictable, <2>2, ConstantsOK, LastVictim
  <2>4. QED
    BY <1>23, <2>1, <2>3
<1>24. minted' \notin Live' => Live' = Live \cap {lin[c] : c \in DOMAIN lin}
  BY <1>2, <1>3, <1>9, <1>11, <1>12, <1>23 DEF LiveParents
<1>C. PICK C : C = DOMAIN es \ LiveParents(es, lin)
  OBVIOUS
<1>pass. /\ C \subseteq DOMAIN es
         /\ gone # {} => gone = PassVictims(es, q, Bytes(es, DOMAIN es), C)
  BY <1>3, <1>10, <1>C
<1>26. ASSUME NEW g \in Live \ Live', NEW k \in Live \cap Live',
              k \notin {lin[c] : c \in DOMAIN lin}
       PROVE  <<g, k>> \in queue
  <2>1. g \in gone /\ k \notin gone /\ k \in C /\ g # k
    BY <1>3, <1>12, <1>26, <1>C DEF LiveParents
  <2>2. ASSUME <<k, g>> \in queue PROVE FALSE
    <3>1. <<k, g>> \in q
      BY <1>q, <2>2 DEF PushBack
    <3>2. k \in gone
      BY <1>evictable, <1>pass, <2>1, <3>1, ConstantsOK, PassInOrder
    <3>3. QED
      BY <2>1, <3>2
  <2>3. QED
    BY <1>26, <2>2 DEF IsQueue
<1>27. ASSUME id \notin gone, NEW last \in Live \ Live',
              \A x \in Live \ Live' : <<x, last>> \in queue
       PROVE  totalBytes' + entries[last].byteSize > MaxTotalBytes
  <2>1. gone = Live \ Live'
    BY <1>2, <1>12, <1>13, <1>27
  <2>2. last \in gone /\ \A x \in gone : <<x, last>> \in q
    BY <1>27, <1>q, <2>1 DEF PushBack
  <2>3. gone = PassVictims(es, q, Bytes(es, DOMAIN es), C)
    BY <1>pass, <2>2
  <2>4. Bytes(es, DOMAIN es \ gone) + es[last].byteSize > MaxTotalBytes
    BY <1>evictable, <1>pass, <2>2, <2>3, ConstantsOK, PassStopsInTime
  <2>5. QED
    BY <1>3, <1>14, <1>27, <2>4
<1>28. InTurn(queue, lin)
  BY <1>2, <1>11, <1>12, <1>26, <1>27 DEF InTurn
<1>25. QED
  BY <1>11, <1>12, <1>17, <1>18, <1>19, <1>20, <1>21, <1>22, <1>24, <1>28 DEF IInv

LEMMA InsertInvariant ==
  ASSUME IInv, NEW size \in Sizes, NEW ttl \in Ttls, NEW lin,
         PointsBack(lin),
         Insert(size, ttl, lin)
  PROVE  /\ IInv'
         /\ Live' \subseteq Live \cup {minted'}
         /\ (Live \ Live') \cap {lin[c] : c \in DOMAIN lin} = {}
         /\ minted' \notin Live' => Live' = Live \cap {lin[c] : c \in DOMAIN lin}
         /\ InTurn(lru, lin)
<1>1. IsQueue(lru, Live) /\ InsertAfter(lru, size, ttl, lin)
  BY QueueInvariant DEF IInv, Insert
<1>2. QED
  BY <1>1, InsertAfterInvariant

LEMMA PutInvariant ==
  ASSUME IInv, NEW size \in Sizes, NEW ttl \in Ttls, Put(size, ttl)
  PROVE  /\ IInv' /\ Live' \subseteq Live \cup {minted'}
         /\ (Live \ Live') \cap Parents = {}
         /\ minted' \notin Live' => Live' = Parents
         /\ InTurn(lru, lineage')
<1>1. PointsBack(lineage)
  BY DEF IInv, TypeOK, LineageGoesBack, Handles, PointsBack
<1>2. Insert(size, ttl, lineage) /\ lineage' = lineage
  BY DEF Put, Insert, InsertAfter
<1>3. QED
  BY <1>1, <1>2, InsertInvariant DEF Parents

LEMMA DeriveInvariant ==
  ASSUME IInv, NEW parent \in Handles, NEW size \in Sizes, NEW ttl \in Ttls,
         Derive(parent, size, ttl)
  PROVE  /\ IInv' /\ Live' \subseteq Live \cup {minted'}
         /\ (Live \ Live') \cap Parents = {}
         /\ minted' \notin Live' => Live' = Parents
         /\ InTurn(lru, lineage')
<1>1. PICK lin : lin = LineageWith(FreshId, parent)
  OBVIOUS
<1>2. PointsBack(lin)
  BY <1>1 DEF LineageWith, FreshId, IInv, TypeOK, LineageGoesBack, Handles, PointsBack
<1>3. Insert(size, ttl, lin) /\ lineage' = lin
  BY <1>1 DEF Derive, Insert, InsertAfter
<1>4. QED
  BY <1>2, <1>3, InsertInvariant DEF Parents

LEMMA GetInvariant ==
  ASSUME IInv, NEW id \in Handles, Get(id)
  PROVE  IInv'
<1>1. Live' = Live /\ Handles' = Handles
  BY DEF Get, Live, Handles
<1>2. IsQueue(lru', Live)
  BY QueueInvariant, TouchQueue DEF Get, IInv
<1>3. lru' \subseteq Live \X Live /\ LruListsEntries'
  BY <1>1, <1>2 DEF IsQueue, LruListsEntries
<1>4. TypeOK'
  BY <1>1, <1>3 DEF Get, IInv, TypeOK
<1>5. QED
  BY <1>1, <1>3, <1>4
     DEF Get, IInv, Accounting, WithinCap, TombstonesDead, LineageGoesBack,
         SweepsBehindClock, Live

LEMMA SweepApplyInvariant ==
  ASSUME IInv, NEW t \in Sweepers, SweepApply(t)
  PROVE  /\ IInv'
         /\ Live' \cup (expiredIds' \ expiredIds) = Live
         /\ expiredIds \subseteq expiredIds'
         /\ \A h \in expiredIds' \ expiredIds : entries[h].expiresAt <= clock
<1>1. PICK expired : expired = ExpiredBy(sweepNow[t])
  OBVIOUS
<1>2. /\ entries' = Restrict(entries, Live \ expired) /\ lru' = Remove(lru, expired)
      /\ totalBytes' = SaturatingSub(totalBytes, Bytes(entries, expired))
      /\ expiredIds' = expiredIds \cup expired
      /\ sweepNow' = [sweepNow EXCEPT ![t] = Idle]
      /\ lineage' = lineage /\ minted' = minted /\ clock' = clock
  BY <1>1 DEF SweepApply, Tombstones
<1>3. expired \subseteq Live /\ \A h \in expired : entries[h].expiresAt <= clock
  <2>1. sweepNow[t] \in Nat /\ sweepNow[t] <= clock /\ clock \in Nat
    BY DEF SweepApply, IInv, TypeOK, SweepsBehindClock
  <2>2. \A h \in Live : entries[h].expiresAt \in Nat
    BY DEF IInv, TypeOK, Entry
  <2>3. QED
    BY <1>1, <2>1, <2>2 DEF ExpiredBy
<1>4. /\ Live' = Live \ expired /\ Handles' = Handles
      /\ \A h \in Live' : entries'[h] = entries[h]
      /\ entries' \in [Live' -> Entry]
  BY <1>2 DEF Restrict, Live, Handles, IInv, TypeOK
<1>5. IsFiniteSet(Live) /\ Sized(entries, Live)
  BY LiveFinite DEF IInv
<1>6. totalBytes' = Bytes(entries, Live \ expired)
  BY <1>2, <1>3, <1>5, BytesMinus DEF IInv, Accounting
<1>7. Bytes(entries, Live \ expired) \in Nat /\ Bytes(entries, Live \ expired) <= totalBytes
  <2>1. Bytes(entries, Live \ expired) \in Nat
    BY <1>3, <1>5, BytesMinus
  <2>2. Bytes(entries, Live \ expired) <= Bytes(entries, Live)
    BY <1>5, BytesMonotone
  <2>3. QED
    BY <2>1, <2>2 DEF IInv, Accounting
<1>8. Bytes(entries', Live') = Bytes(entries, Live \ expired)
  BY <1>4, BytesSame
<1>9. Accounting' /\ WithinCap'
  BY <1>6, <1>7, <1>8, ConstantsOK DEF IInv, Accounting, WithinCap, TypeOK
<1>10. IsQueue(lru', Live')
  BY <1>2, <1>4, QueueInvariant, RemoveQueue DEF IInv
<1>11. lru' \subseteq Live' \X Live' /\ LruListsEntries'
  BY <1>10 DEF IsQueue, LruListsEntries
<1>12. TypeOK'
  <2>1. Live' \subseteq Handles' /\ expiredIds' \subseteq Handles'
    BY <1>2, <1>3, <1>4 DEF IInv, TypeOK
  <2>2. sweepNow' \in [Sweepers -> Nat \cup {Idle}]
    BY <1>2 DEF IInv, TypeOK
  <2>3. QED
    BY <1>2, <1>4, <1>6, <1>7, <1>11, <2>1, <2>2 DEF IInv, TypeOK
<1>13. TombstonesDead' /\ LineageGoesBack' /\ SweepsBehindClock'
  <2>1. TombstonesDead' /\ LineageGoesBack'
    BY <1>2, <1>4 DEF IInv, TombstonesDead, LineageGoesBack
  <2>2. SweepsBehindClock'
    BY <1>2 DEF IInv, TypeOK, SweepsBehindClock
  <2>3. QED
    BY <2>1, <2>2
<1>14. IInv'
  BY <1>9, <1>11, <1>12, <1>13 DEF IInv
<1>15. expiredIds \cap expired = {}
  BY <1>3 DEF IInv, TombstonesDead
<1>16. QED
  BY <1>2, <1>3, <1>4, <1>14, <1>15

\* Steps that leave the store alone.
Idling == (\E t \in Sweepers : SweepRead(t)) \/ Tick \/ UNCHANGED vars

LEMMA IdlingInvariant ==
  ASSUME IInv, Idling
  PROVE  /\ IInv' /\ Live' = Live /\ Handles' = Handles
         /\ expiredIds' = expiredIds /\ minted' = minted
<1>1. /\ entries' = entries /\ lru' = lru /\ expiredIds' = expiredIds
      /\ lineage' = lineage /\ totalBytes' = totalBytes /\ minted' = minted
  BY DEF Idling, SweepRead, Tick, vars
<1>2. Live' = Live /\ Handles' = Handles
  BY <1>1 DEF Live, Handles
<1>3. /\ clock' \in Nat /\ sweepNow' \in [Sweepers -> Nat \cup {Idle}]
      /\ SweepsBehindClock'
  BY ConstantsOK DEF Idling, SweepRead, Tick, vars, IInv, TypeOK, SweepsBehindClock
<1>4. TypeOK'
  BY <1>1, <1>2, <1>3 DEF IInv, TypeOK
<1>5. Bytes(entries', Live') = Bytes(entries, Live)
  BY <1>1, <1>2
<1>6. Accounting' /\ WithinCap' /\ LruListsEntries' /\ TombstonesDead' /\ LineageGoesBack'
  BY <1>1, <1>2, <1>5
     DEF IInv, Accounting, WithinCap, LruListsEntries, TombstonesDead, LineageGoesBack
<1>7. QED
  BY <1>1, <1>2, <1>3, <1>4, <1>6 DEF IInv

LEMMA StepInvariant == IInv /\ [Next]_vars => IInv'
<1> SUFFICES ASSUME IInv, [Next]_vars PROVE IInv'
  OBVIOUS
<1>1. ASSUME NEW size \in Sizes, NEW ttl \in Ttls, Put(size, ttl) PROVE IInv'
  BY <1>1, PutInvariant
<1>2. ASSUME NEW parent \in Handles, NEW size \in Sizes, NEW ttl \in Ttls,
             Derive(parent, size, ttl)
      PROVE  IInv'
  BY <1>2, DeriveInvariant
<1>3. ASSUME NEW id \in Handles, Get(id) PROVE IInv'
  BY <1>3, GetInvariant
<1>4. ASSUME NEW t \in Sweepers, SweepApply(t) PROVE IInv'
  BY <1>4, SweepApplyInvariant
<1>5. CASE Idling
  BY <1>5, IdlingInvariant
<1>6. QED
  BY <1>1, <1>2, <1>3, <1>4, <1>5 DEF Next, Idling

LEMMA Invariance == Spec => []IInv
BY InitInvariant, StepInvariant, PTL DEF Spec

-----------------------------------------------------------------------------
\* Every state of the store is well typed, for any cap, sizes and TTLs.
THEOREM TypeCorrect == Spec => []TypeOK
<1>1. IInv => TypeOK
  BY DEF IInv
<1>2. QED
  BY <1>1, Invariance, PTL

\* StoreInner::total_bytes is always the sum over the live entries.
THEOREM AccountingHolds == Spec => []Accounting
<1>1. IInv => Accounting
  BY DEF IInv
<1>2. QED
  BY <1>1, Invariance, PTL

\* No put, derive or sweep leaves the store above its cap.
THEOREM CapHolds == Spec => []WithinCap
<1>1. IInv => WithinCap
  BY DEF IInv
<1>2. QED
  BY <1>1, Invariance, PTL

\* lru_order lists the live entries, each once.
THEOREM LruHolds == Spec => []LruListsEntries
<1>1. IInv => LruListsEntries
  BY DEF IInv
<1>2. QED
  BY <1>1, Invariance, PTL

\* A tombstone never names a live entry.
THEOREM TombstonesHold == Spec => []TombstonesDead
<1>1. IInv => TombstonesDead
  BY DEF IInv
<1>2. QED
  BY <1>1, Invariance, PTL

\* The walk of lineage_chain goes to ever older handles, so it ends.
THEOREM LineageHolds == Spec => []LineageGoesBack
<1>1. IInv => LineageGoesBack
  BY DEF IInv
<1>2. QED
  BY <1>1, Invariance, PTL

(***************************************************************************)
(* evict_to_cap never evicts an entry that some dataset was derived from:  *)
(* its forced pass never finds anything to evict.                          *)
(***************************************************************************)
THEOREM ParentsNeverSizeEvicted == Spec => ParentsKept
<1>1. IInv /\ [Next]_vars => [SizeEvicted \cap Parents = {}]_vars
  <2> SUFFICES ASSUME IInv, [Next]_vars PROVE SizeEvicted \cap Parents = {}
    OBVIOUS
  <2>1. ASSUME NEW size \in Sizes, NEW ttl \in Ttls, Put(size, ttl)
        PROVE  SizeEvicted \cap Parents = {}
    BY <2>1, PutInvariant DEF SizeEvicted
  <2>2. ASSUME NEW parent \in Handles, NEW size \in Sizes, NEW ttl \in Ttls,
               Derive(parent, size, ttl)
        PROVE  SizeEvicted \cap Parents = {}
    BY <2>2, DeriveInvariant DEF SizeEvicted
  <2>3. ASSUME NEW id \in Handles, Get(id) PROVE SizeEvicted = {}
    BY <2>3 DEF Get, SizeEvicted, Live
  <2>4. ASSUME NEW t \in Sweepers, SweepApply(t) PROVE SizeEvicted = {}
    BY <2>4, SweepApplyInvariant DEF SizeEvicted
  <2>5. ASSUME Idling PROVE SizeEvicted = {}
    BY <2>5, IdlingInvariant DEF SizeEvicted
  <2>6. QED
    BY <2>1, <2>2, <2>3, <2>4, <2>5 DEF Next, Idling
<1>2. QED
  BY <1>1, Invariance, PTL DEF Spec, ParentsKept

(***************************************************************************)
(* A handle is dead on arrival only when the lineage parents are all that  *)
(* is left of the store.                                                   *)
(***************************************************************************)
THEOREM FreshIsEvictedLast == Spec => FreshEvictedLast
<1> DEFINE Last == minted' # minted /\ minted' \notin Live' => Live' = Parents
<1>1. IInv /\ [Next]_vars => [Last]_vars
  <2> SUFFICES ASSUME IInv, [Next]_vars PROVE Last
    OBVIOUS
  <2>1. ASSUME NEW size \in Sizes, NEW ttl \in Ttls, Put(size, ttl) PROVE Last
    BY <2>1, PutInvariant
  <2>2. ASSUME NEW parent \in Handles, NEW size \in Sizes, NEW ttl \in Ttls,
               Derive(parent, size, ttl)
        PROVE  Last
    BY <2>2, DeriveInvariant
  <2>3. ASSUME Idling PROVE Last
    BY <2>3, IdlingInvariant
  <2>4. QED
    BY <2>1, <2>2, <2>3 DEF Next, Idling, Get, SweepApply
<1>2. QED
  BY <1>1, Invariance, PTL DEF Spec, FreshEvictedLast

\* What an insertion evicts in turn is what EvictsInTurn asks of a step.
LEMMA InsertsInTurn ==
  ASSUME TombstonesDead, expiredIds' = expiredIds, InTurn(lru, lineage')
  PROVE  /\ \A gone \in SizeEvicted \cap Unprotected, kept \in Unprotected \cap Live' :
              <<gone, kept>> \in lru
         /\ minted' \in Live' => \A last \in SizeEvicted :
              (\A x \in SizeEvicted : <<x, last>> \in lru)
                => totalBytes' + entries[last].byteSize > MaxTotalBytes
<1>1. SizeEvicted = Live \ Live'
  BY DEF SizeEvicted, TombstonesDead
<1>2. QED
  BY <1>1 DEF InTurn, Unprotected, Parents

(***************************************************************************)
(* Only an insertion evicts for space; it takes the least recently used of *)
(* the entries that are no parents, and stops as soon as the cap is met.   *)
(***************************************************************************)
THEOREM EvictionIsInTurn == Spec => EvictsInTurn
<1> DEFINE InOrder ==
             \A gone \in SizeEvicted \cap Unprotected, kept \in Unprotected \cap Live' :
               <<gone, kept>> \in lru
           NoMore ==
             minted' \in Live' => \A last \in SizeEvicted :
               (\A x \in SizeEvicted : <<x, last>> \in lru)
                 => totalBytes' + entries[last].byteSize > MaxTotalBytes
<1>1. IInv /\ [Next]_vars => [InOrder]_vars /\ [NoMore]_vars
  <2> SUFFICES ASSUME IInv, [Next]_vars PROVE InOrder /\ NoMore
    OBVIOUS
  <2>1. ASSUME NEW size \in Sizes, NEW ttl \in Ttls, Put(size, ttl)
        PROVE  InOrder /\ NoMore
    <3>1. expiredIds' = expiredIds
      BY <2>1 DEF Put, Insert, InsertAfter
    <3>2. QED
      BY <2>1, <3>1, PutInvariant, InsertsInTurn DEF IInv
  <2>2. ASSUME NEW parent \in Handles, NEW size \in Sizes, NEW ttl \in Ttls,
               Derive(parent, size, ttl)
        PROVE  InOrder /\ NoMore
    <3>1. expiredIds' = expiredIds
      BY <2>2 DEF Derive, Insert, InsertAfter
    <3>2. QED
      BY <2>2, <3>1, DeriveInvariant, InsertsInTurn DEF IInv
  <2>3. CASE SizeEvicted = {}
    BY <2>3
  <2>4. ASSUME NEW id \in Handles, Get(id) PROVE SizeEvicted = {}
    BY <2>4 DEF Get, SizeEvicted, Live
  <2>5. ASSUME NEW t \in Sweepers, SweepApply(t) PROVE SizeEvicted = {}
    BY <2>5, SweepApplyInvariant DEF SizeEvicted
  <2>6. ASSUME Idling PROVE SizeEvicted = {}
    BY <2>6, IdlingInvariant DEF SizeEvicted
  <2>7. QED
    BY <2>1, <2>2, <2>3, <2>4, <2>5, <2>6 DEF Next, Idling
<1>2. QED
  BY <1>1, Invariance, PTL DEF Spec, EvictsInTurn, LruOrderRespected, NoExcessEviction

(***************************************************************************)
(* The store never holds more bytes than its cap, and counts them right.   *)
(***************************************************************************)
THEOREM BytesAreBounded == Spec => []BytesBounded
BY AccountingHolds, CapHolds, PTL DEF BytesBounded

(***************************************************************************)
(* Lineage parents outlast every other entry, the new one included.        *)
(***************************************************************************)
THEOREM ParentsLast == Spec => ParentsOutlast
BY ParentsNeverSizeEvicted, FreshIsEvictedLast DEF ParentsOutlast

(***************************************************************************)
(* A sweep that read the clock before it got the lock tombstones no entry  *)
(* ahead of its time, whatever was inserted in between.                    *)
(***************************************************************************)
THEOREM NoEarlyTombstone == Spec => NoEarlyExpiry
<1> DEFINE OnTime == \A h \in expiredIds' \ expiredIds : entries[h].expiresAt <= clock
<1>1. IInv /\ [Next]_vars => [OnTime]_vars
  <2> SUFFICES ASSUME IInv, [Next]_vars PROVE OnTime
    OBVIOUS
  <2>1. ASSUME NEW t \in Sweepers, SweepApply(t) PROVE OnTime
    BY <2>1, SweepApplyInvariant
  <2>2. ASSUME Idling PROVE OnTime
    BY <2>2, IdlingInvariant
  <2>3. QED
    BY <2>1, <2>2 DEF Next, Idling, Put, Derive, Insert, InsertAfter, Get
<1>2. QED
  BY <1>1, Invariance, PTL DEF Spec, NoEarlyExpiry

-----------------------------------------------------------------------------
(***************************************************************************)
(* The three ways in which a step can change what lookups answer.          *)
(***************************************************************************)
Mints ==
  /\ minted' = minted + 1 /\ expiredIds' = expiredIds
  /\ Live' \subseteq Live \cup {minted'}

Sweeps ==
  /\ minted' = minted /\ expiredIds \subseteq expiredIds'
  /\ Live' \cup (expiredIds' \ expiredIds) = Live

Quiet == minted' = minted /\ expiredIds' = expiredIds /\ Live' = Live

LEMMA StepKinds ==
  ASSUME IInv, [Next]_vars
  PROVE  Mints \/ Sweeps \/ Quiet
<1>1. ASSUME NEW size \in Sizes, NEW ttl \in Ttls, Put(size, ttl) PROVE Mints
  <2>1. Live' \subseteq Live \cup {minted'}
    BY <1>1, PutInvariant
  <2>2. minted' = minted + 1 /\ expiredIds' = expiredIds
    BY <1>1 DEF Put, Insert, InsertAfter, FreshId
  <2>3. QED
    BY <2>1, <2>2 DEF Mints
<1>2. ASSUME NEW parent \in Handles, NEW size \in Sizes, NEW ttl \in Ttls,
             Derive(parent, size, ttl)
      PROVE  Mints
  <2>1. Live' \subseteq Live \cup {minted'}
    BY <1>2, DeriveInvariant
  <2>2. minted' = minted + 1 /\ expiredIds' = expiredIds
    BY <1>2 DEF Derive, Insert, InsertAfter, FreshId
  <2>3. QED
    BY <2>1, <2>2 DEF Mints
<1>3. ASSUME NEW id \in Handles, Get(id) PROVE Quiet
  BY <1>3 DEF Get, Quiet, Live
<1>4. ASSUME NEW t \in Sweepers, SweepApply(t) PROVE Sweeps
  <2>1. minted' = minted
    BY <1>4 DEF SweepApply
  <2>2. QED
    BY <1>4, <2>1, SweepApplyInvariant DEF Sweeps
<1>5. ASSUME Idling PROVE Quiet
  BY <1>5, IdlingInvariant DEF Quiet
<1>6. QED
  BY <1>1, <1>2, <1>3, <1>4, <1>5 DEF Next, Idling

(***************************************************************************)
(* A dead handle stays dead, and an expired one stays known as expired.    *)
(***************************************************************************)
THEOREM DeadHandlesStayDead == Spec => DeadForGood
<1> DEFINE Same == \A h \in Handles : Lookup(h) # "live" => Lookup(h)' = Lookup(h)
<1>1. IInv /\ [Next]_vars => [Same]_vars
  <2> SUFFICES ASSUME IInv, [Next]_vars, NEW h \in Handles, Lookup(h) # "live"
               PROVE  Lookup(h)' = Lookup(h)
    OBVIOUS
  <2>1. h \notin Live
    BY DEF Lookup
  <2>2. h \notin Live' /\ (h \in expiredIds' <=> h \in expiredIds)
    <3>1. Mints \/ Sweeps \/ Quiet
      BY StepKinds
    <3>2. h # minted + 1 /\ minted \in Nat
      BY DEF Handles, IInv, TypeOK
    <3>3. QED
      BY <2>1, <3>1, <3>2 DEF Mints, Sweeps, Quiet
  <2>3. QED
    BY <2>1, <2>2 DEF Lookup
<1>2. QED
  BY <1>1, Invariance, PTL DEF Spec, DeadForGood

LEMMA StatusOf ==
  ASSUME NEW h
  PROVE  /\ Status(h) = "live" <=> h \in Live
         /\ Status(h) = "expired" <=> h \notin Live /\ h \in expiredIds
         /\ Status(h) = "evicted" <=> h \notin Live /\ h \notin expiredIds
BY DEF Status, Lookup

LEMMA StatusOfNext ==
  ASSUME NEW h
  PROVE  /\ Status(h)' = "live" <=> h \in Live'
         /\ Status(h)' = "expired" <=> h \notin Live' /\ h \in expiredIds'
         /\ Status(h)' = "evicted" <=> h \notin Live' /\ h \notin expiredIds'
BY DEF Status, Lookup

(***************************************************************************)
(* DhStore implements HandleLife: an insertion is a Mint whose victims are *)
(* the handles it made dead, a sweep is an Expire, and the rest stutters.  *)
(***************************************************************************)
LEMMA MintsAbstractly ==
  ASSUME IInv, IInv', Mints
  PROVE  Abstract!Mint
<1> DEFINE victims == (Live \cup {minted'}) \ Live'
           st == [h \in Handles |-> Status(h)]
<1>1. /\ Handles = 1..minted /\ Handles' = 1..minted' /\ minted \in Nat
      /\ Live \subseteq Handles /\ expiredIds \subseteq Handles
      /\ expiredIds \cap Live = {}
  BY DEF Handles, IInv, TypeOK, TombstonesDead
<1>2. Handles' = Handles \cup {minted'} /\ minted' \notin Handles
  BY <1>1 DEF Mints
<1>3. Live = {h \in Handles : st[h] = "live"}
  BY <1>1, StatusOf
<1>4. ASSUME NEW h \in Handles'
      PROVE  Status(h)' = CASE h \in victims -> "evicted"
                            [] h = minted' /\ h \notin victims -> "live"
                            [] OTHER -> st[h]
  <2>1. CASE h \in victims
    <3>1. h \notin Live' /\ h \notin expiredIds'
      BY <1>1, <1>2, <2>1 DEF Mints
    <3>2. Status(h)' = "evicted"
      BY <3>1, StatusOfNext
    <3>3. QED
      BY <2>1, <3>2
  <2>2. CASE h = minted' /\ h \notin victims
    <3>1. Status(h)' = "live"
      BY <2>2, StatusOfNext
    <3>2. QED
      BY <2>2, <3>1
  <2>3. CASE h # minted' /\ h \notin victims
    <3>1. h \in Handles /\ (h \in Live' <=> h \in Live)
          /\ (h \in expiredIds' <=> h \in expiredIds)
      BY <1>2, <2>3 DEF Mints
    <3>2. Status(h)' = Status(h)
      BY <3>1 DEF Status, Lookup
    <3>3. QED
      BY <2>3, <3>1, <3>2
  <2>4. QED
    BY <2>1, <2>2, <2>3
<1>5. st' = [h \in Handles' |->
               CASE h \in victims -> "evicted"
                 [] h = minted' /\ h \notin victims -> "live"
                 [] OTHER -> st[h]]
  BY <1>4
<1>6. Abstract!LiveHandles = Live /\ Abstract!Handles = Handles
  BY <1>1, <1>3 DEF Abstract!LiveHandles, Abstract!Handles
<1>7. victims \in SUBSET (Live \cup {minted'})
  OBVIOUS
<1>8. QED
  BY <1>1, <1>5, <1>6, <1>7 DEF Abstract!Mint, Abstract!Handles, Mints

LEMMA SweepsAbstractly ==
  ASSUME IInv, IInv', Sweeps
  PROVE  Abstract!Expire
<1> DEFINE swept == expiredIds' \ expiredIds
           st == [h \in Handles |-> Status(h)]
<1>1. /\ Handles = 1..minted /\ Handles' = Handles
      /\ Live \subseteq Handles /\ expiredIds' \cap Live' = {}
  BY DEF Handles, IInv, TypeOK, TombstonesDead, Sweeps
<1>2. Live = {h \in Handles : st[h] = "live"}
  BY <1>1, StatusOf
<1>3. swept \in SUBSET Live
  BY DEF Sweeps
<1>4. ASSUME NEW h \in Handles
      PROVE  Status(h)' = IF h \in swept THEN "expired" ELSE st[h]
  <2>1. CASE h \in swept
    <3>1. Status(h)' = "expired"
      BY <1>1, <2>1, StatusOfNext
    <3>2. QED
      BY <2>1, <3>1
  <2>2. CASE h \notin swept
    <3>1. (h \in Live' <=> h \in Live) /\ (h \in expiredIds' <=> h \in expiredIds)
      BY <1>1, <2>2 DEF Sweeps
    <3>2. Status(h)' = Status(h)
      BY <3>1 DEF Status, Lookup
    <3>3. QED
      BY <2>2, <3>2
  <2>3. QED
    BY <2>1, <2>2
<1>5. st' = [h \in Handles |-> IF h \in swept THEN "expired" ELSE st[h]]
  BY <1>1, <1>4
<1>6. Abstract!LiveHandles = Live /\ Abstract!Handles = Handles
  BY <1>1, <1>2 DEF Abstract!LiveHandles, Abstract!Handles
<1>7. QED
  BY <1>3, <1>5, <1>6 DEF Abstract!Expire, Sweeps

THEOREM Refinement == Spec => Implements
<1>1. Init => Abstract!Init
  <2> SUFFICES ASSUME Init PROVE Abstract!Init
    OBVIOUS
  <2>1. minted = 0 /\ Handles = {} /\ Abstract!Handles = {}
    BY DEF Init, Handles, Abstract!Handles
  <2>2. [h \in Handles |-> Status(h)] = [h \in Abstract!Handles |-> "live"]
    BY <2>1
  <2>3. QED
    BY <2>1, <2>2 DEF Abstract!Init
<1>2. IInv /\ IInv' /\ [Next]_vars => [Abstract!Next]_(Abstract!vars)
  <2> SUFFICES ASSUME IInv, IInv', [Next]_vars
               PROVE  [Abstract!Next]_(Abstract!vars)
    OBVIOUS
  <2>1. CASE Mints
    BY <2>1, MintsAbstractly DEF Abstract!Next
  <2>2. CASE Sweeps
    BY <2>2, SweepsAbstractly DEF Abstract!Next
  <2>3. CASE Quiet
    <3>1. Handles' = Handles
      BY <2>3 DEF Quiet, Handles
    <3>2. \A h \in Handles : Status(h)' = Status(h)
      BY <2>3 DEF Quiet, Status, Lookup
    <3>3. [h \in Handles |-> Status(h)]' = [h \in Handles |-> Status(h)]
      BY <3>1, <3>2
    <3>4. QED
      BY <2>3, <3>3 DEF Abstract!vars, Quiet
  <2>4. QED
    BY <2>1, <2>2, <2>3, StepKinds
<1>3. QED
  BY <1>1, <1>2, Invariance, PTL DEF Spec, Implements, Abstract!Spec

-----------------------------------------------------------------------------
(***************************************************************************)
(* The session.  The store's inductive invariant carries over; what the    *)
(* session adds is that, without sweeps, every handle that something was   *)
(* derived from lives for good.                                            *)
(***************************************************************************)
ParentsLive == Range(lineage) \subseteq Live

SInv ==
  /\ IInv
  /\ ParentsLive
  /\ rowCount \in [Handles -> Nat]
  /\ reply \in Replies

-----------------------------------------------------------------------------
\* The walk of drill leaves every handle queued once.
LEMMA TouchWalkQueue ==
  ASSUME NEW q, NEW ids, IsQueue(q, ids), NEW T, T \subseteq ids, ids \subseteq Nat
  PROVE  IsQueue(TouchWalk(q, T), ids)
<1> DEFINE w == TouchWalk(q, T)
<1>1. ASSUME NEW a \in ids, NEW b \in ids
      PROVE  <<a, b>> \in w <=> \/ <<a, b>> \in q /\ a \notin T /\ b \notin T
                                \/ a \notin T /\ b \in T
                                \/ a \in T /\ b \in T /\ a >= b
  <2>1. Queued(q) = ids
    BY DEF IsQueue
  <2>2. <<a, b>> \in Remove(q, T) <=> <<a, b>> \in q /\ a \notin T /\ b \notin T
    BY DEF Remove
  <2>3. <<a, b>> \in (Queued(q) \ T) \X T <=> a \notin T /\ b \in T
    BY <1>1, <2>1
  <2>4. <<a, b>> \in {p \in T \X T : p[1] >= p[2]} <=> a \in T /\ b \in T /\ a >= b
    OBVIOUS
  <2>5. QED
    BY <2>2, <2>3, <2>4 DEF TouchWalk
<1>2. w \subseteq ids \X ids
  BY DEF TouchWalk, Remove, IsQueue
<1> HIDE DEF w
<1>3. ASSUME NEW a \in ids, NEW b \in ids PROVE <<a, b>> \in w \/ <<b, a>> \in w
  <2>1. <<a, b>> \in q \/ <<b, a>> \in q
    BY DEF IsQueue
  <2>2. a >= b \/ b >= a
    OBVIOUS
  <2>3. QED
    BY <1>1, <2>1, <2>2
<1>4. \A a, b \in ids : <<a, b>> \in w /\ <<b, a>> \in w => a = b
  BY <1>1 DEF IsQueue
<1>5. \A a, b, c \in ids : <<a, b>> \in w /\ <<b, c>> \in w => <<a, c>> \in w
  <2>1. SUFFICES ASSUME NEW a \in ids, NEW b \in ids, NEW c \in ids,
                        <<a, b>> \in w, <<b, c>> \in w
                 PROVE  <<a, c>> \in w
    OBVIOUS
  <2>2. CASE c \notin T
    BY <1>1, <2>1, <2>2 DEF IsQueue
  <2>3. CASE c \in T
    BY <1>1, <2>1, <2>3
  <2>4. QED
    BY <2>2, <2>3
<1>6. Queued(w) = ids
  BY <1>2, <1>3, QueuedAll
<1>7. IsQueue(w, ids)
  BY <1>2, <1>3, <1>4, <1>5, <1>6 DEF IsQueue
<1>8. QED
  BY <1>7 DEF w

\* The queues that the tools leave before they insert.
LEMMA ToolQueues ==
  ASSUME SInv
  PROVE  /\ IsQueue(lru, Live)
         /\ \A h \in Live : IsQueue(Touch(lru, h), Live)
         /\ \A a, b \in Live : IsQueue(Touch(Touch(lru, a), b), Live)
         /\ \A a, b \in Live : IsQueue(Touch(Touch(Touch(lru, a), b), a), Live)
         /\ \A T \in SUBSET Live : IsQueue(TouchWalk(lru, T), Live)
<1>1. IsQueue(lru, Live)
  BY QueueInvariant DEF SInv, IInv
<1>2. \A h \in Live : IsQueue(Touch(lru, h), Live)
  BY <1>1, TouchQueue
<1>3. \A a, b \in Live : IsQueue(Touch(Touch(lru, a), b), Live)
  BY <1>2, TouchQueue
<1>4. \A a, b \in Live : IsQueue(Touch(Touch(Touch(lru, a), b), a), Live)
  BY <1>3, TouchQueue
<1>5. Live \subseteq Nat
  BY DEF SInv, IInv, TypeOK, Handles
<1>6. \A T \in SUBSET Live : IsQueue(TouchWalk(lru, T), Live)
  BY <1>1, <1>5, TouchWalkQueue
<1>7. QED
  BY <1>1, <1>2, <1>3, <1>4, <1>6

(***************************************************************************)
(* What an insertion does: it keeps the invariant, spares all parents, and *)
(* drops the new handle only when the parents alone are left.              *)
(***************************************************************************)
Inserted ==
  /\ IInv' /\ ParentsLive'
  /\ rowCount' \in [Handles' -> Nat]
  /\ Handles \subseteq Handles' /\ FreshId \in Handles'
  /\ FreshId \notin Live' => Live' = Parents

LEMMA StoreInserts ==
  ASSUME SInv, NEW queue, IsQueue(queue, Live), NEW shape \in Shapes,
         NEW lin, PointsBack(lin), Range(lin) \subseteq Live,
         InsertAfter(queue, shape.bytes, StoreTtl, lin),
         rowCount' = RowCountsWith(shape.rows)
  PROVE  Inserted
<1>1. shape.bytes \in Sizes /\ shape.rows \in Nat /\ StoreTtl \in Ttls
  BY SessionConstantsOK
<1>2. /\ IInv'
      /\ (Live \ Live') \cap {lin[c] : c \in DOMAIN lin} = {}
      /\ minted' \notin Live' => Live' = Live \cap {lin[c] : c \in DOMAIN lin}
  BY <1>1, InsertAfterInvariant DEF SInv
<1>3. lineage' = lin /\ minted' = minted + 1 /\ minted \in Nat
  BY DEF InsertAfter, FreshId, SInv, IInv, TypeOK
<1>4. Handles' = Handles \cup {FreshId} /\ FreshId \notin Handles /\ minted' = FreshId
  BY <1>3 DEF Handles, FreshId
<1>5. ParentsLive'
  BY <1>2, <1>3 DEF ParentsLive, Range
<1>6. rowCount' \in [Handles' -> Nat]
  BY <1>1, <1>4 DEF RowCountsWith, SInv
<1>7. FreshId \notin Live' => Live' = Parents
  BY <1>2, <1>3, <1>4 DEF Parents
<1>8. QED
  BY <1>2, <1>4, <1>5, <1>6, <1>7 DEF Inserted

LEMMA StoreDerives ==
  ASSUME SInv, NEW queue, IsQueue(queue, Live), NEW shape \in Shapes, NEW parent \in Live,
         InsertAfter(queue, shape.bytes, StoreTtl, LineageWith(FreshId, parent)),
         rowCount' = RowCountsWith(shape.rows)
  PROVE  Inserted
<1>1. PICK lin : lin = LineageWith(FreshId, parent)
  OBVIOUS
<1>2. /\ minted \in Nat /\ parent \in 1..minted /\ Range(lineage) \subseteq Live
      /\ PointsBack(lineage)
  BY DEF SInv, IInv, TypeOK, LineageGoesBack, Handles, PointsBack, ParentsLive
<1>3. /\ DOMAIN lin = DOMAIN lineage \cup {minted + 1}
      /\ \A c \in DOMAIN lin : lin[c] = IF c = minted + 1 THEN parent ELSE lineage[c]
      /\ lin = [c \in DOMAIN lin |-> lin[c]]
  BY <1>1 DEF LineageWith, FreshId
<1>4. PointsBack(lin)
  BY <1>2, <1>3 DEF PointsBack
<1>5. Range(lin) \subseteq Live
  BY <1>2, <1>3 DEF Range
<1>6. QED
  BY <1>1, <1>4, <1>5, StoreInserts

\* The tools that insert, one by one.
LEMMA QueryInserts ==
  ASSUME SInv, NEW shape \in Shapes, Query(shape)
  PROVE  Inserted
<1>1. PointsBack(lineage) /\ Range(lineage) \subseteq Live
  BY DEF SInv, IInv, TypeOK, LineageGoesBack, Handles, PointsBack, ParentsLive
<1>2. QED
  BY <1>1, ToolQueues, StoreInserts DEF Query

LEMMA KernelInserts ==
  ASSUME SInv, NEW h \in Handles, NEW shape \in Shapes, Kernel(h, shape)
  PROVE  Inserted
BY ToolQueues, StoreDerives DEF Kernel, RunOp

LEMMA CompareInserts ==
  ASSUME SInv, NEW a \in Handles, NEW b \in Handles, NEW shape \in Shapes,
         Compare(a, b, shape)
  PROVE  Inserted
BY ToolQueues, StoreDerives DEF Compare, RunOp

LEMMA DrillInserts ==
  ASSUME SInv, NEW h \in Handles, NEW shape \in Shapes, Drill(h, shape)
  PROVE  Inserted
<1>1. PICK detail \in Details(h) :
        /\ h \in Live
        /\ \E T : /\ T = {a \in Ancestors(h) \cap Live : a >= detail} \cup {h}
                  /\ InsertAfter(TouchWalk(lru, T), shape.bytes, StoreTtl,
                                 LineageWith(FreshId, detail))
        /\ rowCount' = RowCountsWith(shape.rows)
  BY DEF Drill, RunOp
<1>2. detail \in Live
  BY <1>1 DEF Details
<1>3. PICK T \in SUBSET Live :
        InsertAfter(TouchWalk(lru, T), shape.bytes, StoreTtl, LineageWith(FreshId, detail))
  BY <1>1
<1>4. IsQueue(TouchWalk(lru, T), Live)
  BY <1>3, ToolQueues
<1>5. QED
  BY <1>1, <1>2, <1>3, <1>4, StoreDerives

LEMMA PeriodInserts ==
  ASSUME SInv, NEW h \in Handles, NEW shape \in Shapes, PeriodOverPeriod(h, shape)
  PROVE  Inserted
BY ToolQueues, StoreDerives DEF PeriodOverPeriod

\* The tools that only read.
LEMMA TouchesInvariant ==
  ASSUME SInv, NEW queue, IsQueue(queue, Live), OnlyTouches(queue)
  PROVE  /\ IInv' /\ ParentsLive' /\ rowCount' \in [Handles' -> Nat]
         /\ Handles' = Handles
<1>1. /\ entries' = entries /\ lru' = queue /\ expiredIds' = expiredIds
      /\ lineage' = lineage /\ totalBytes' = totalBytes /\ minted' = minted
      /\ clock' = clock /\ sweepNow' = sweepNow /\ rowCount' = rowCount
  BY DEF OnlyTouches
<1>2. Live' = Live /\ Handles' = Handles
  BY <1>1 DEF Live, Handles
<1>3. lru' \subseteq Live' \X Live' /\ LruListsEntries'
  BY <1>1, <1>2 DEF IsQueue, LruListsEntries
<1>4. TypeOK'
  BY <1>1, <1>2, <1>3 DEF SInv, IInv, TypeOK
<1>5. Accounting' /\ WithinCap'
  <2>1. Bytes(entries', Live') = Bytes(entries, Live)
    BY <1>1, <1>2
  <2>2. QED
    BY <1>1, <2>1 DEF SInv, IInv, Accounting, WithinCap
<1>6. TombstonesDead' /\ LineageGoesBack' /\ SweepsBehindClock' /\ ParentsLive'
  BY <1>1, <1>2
     DEF SInv, IInv, TombstonesDead, LineageGoesBack, SweepsBehindClock, ParentsLive
<1>7. QED
  BY <1>1, <1>2, <1>3, <1>4, <1>5, <1>6 DEF SInv, IInv

LEMMA ReadersInvariant ==
  ASSUME SInv, Touches
  PROVE  /\ IInv' /\ ParentsLive' /\ rowCount' \in [Handles' -> Nat]
         /\ Handles' = Handles
<1>1. \E queue : IsQueue(queue, Live) /\ OnlyTouches(queue)
  <2>1. ASSUME NEW h \in Handles, Read(h) \/ FailedOp(h)
        PROVE  \E queue : IsQueue(queue, Live) /\ OnlyTouches(queue)
    BY <2>1, ToolQueues DEF Read, FailedOp
  <2>2. ASSUME NEW h \in Handles, DrillUnsupported(h)
        PROVE  \E queue : IsQueue(queue, Live) /\ OnlyTouches(queue)
    <3>1. PICK T \in SUBSET Live : T = (Ancestors(h) \cap Live) \cup {h}
      BY <2>2 DEF DrillUnsupported
    <3>2. OnlyTouches(TouchWalk(lru, T))
      BY <2>2, <3>1 DEF DrillUnsupported
    <3>3. QED
      BY <3>2, ToolQueues
  <2>3. ASSUME NEW h \in Handles, DeadHandle(h)
        PROVE  \E queue : IsQueue(queue, Live) /\ OnlyTouches(queue)
    BY <2>3, ToolQueues DEF DeadHandle
  <2>4. ASSUME NEW a \in Handles, NEW b \in Handles, FailedCompare(a, b)
        PROVE  \E queue : IsQueue(queue, Live) /\ OnlyTouches(queue)
    BY <2>4, ToolQueues DEF FailedCompare
  <2>5. QED
    BY <2>1, <2>2, <2>3, <2>4 DEF Touches
<1>2. QED
  BY <1>1, TouchesInvariant

LEMMA SessionInitInvariant == SessionInit => SInv
<1> SUFFICES ASSUME SessionInit PROVE SInv
  OBVIOUS
<1>1. IInv
  BY InitInvariant DEF SessionInit
<1>2. Handles = {} /\ DOMAIN lineage = {}
  BY DEF SessionInit, Init, Handles
<1>3. ParentsLive
  BY <1>2 DEF ParentsLive, Range
<1>4. rowCount \in [Handles -> Nat] /\ reply \in Replies
  BY <1>2 DEF SessionInit, Failure, Reply, Replies
<1>5. QED
  BY <1>1, <1>3, <1>4 DEF SInv

\* Replies are well formed.
LEMMA InsertReplies ==
  ASSUME SInv, Inserts, Inserted
  PROVE  reply' \in Replies'
<1>1. Handles \subseteq Handles' /\ FreshId \in Handles'
  BY DEF Inserted
<1>2. \A n : RowsShown(n) \in {"inline", "omitted"}
             /\ QueryRowsShown(n) \in {"inline", "omitted", "page"}
  BY DEF RowsShown, QueryRowsShown
<1>3. ASSUME NEW shape \in Shapes, Query(shape) PROVE reply' \in Replies'
  BY <1>1, <1>2, <1>3 DEF Query, Reply, Replies
<1>4. ASSUME NEW tool \in {"kernel", "compare", "drill"}, NEW arg \in Handles,
             NEW parent \in Handles, NEW queue, NEW shape \in Shapes,
             RunOp(tool, arg, parent, queue, shape)
      PROVE  reply' \in Replies'
  BY <1>1, <1>2, <1>4 DEF RunOp, Failure, Reply, Replies
<1>5. ASSUME NEW shape \in Shapes, NEW h \in Handles, PeriodOverPeriod(h, shape)
      PROVE  reply' \in Replies'
  BY <1>1, <1>2, <1>5 DEF PeriodOverPeriod, Reply, Replies
<1>6. ASSUME NEW shape \in Shapes, NEW h \in Handles, Drill(h, shape)
      PROVE  reply' \in Replies'
  <2>1. PICK detail \in Details(h) : \E queue : RunOp("drill", h, detail, queue, shape)
    BY <1>6 DEF Drill
  <2>2. detail \in Handles
    BY DEF Details, SInv, IInv, TypeOK
  <2>3. QED
    BY <1>4, <2>1, <2>2
<1>7. QED
  BY <1>3, <1>4, <1>5, <1>6 DEF Inserts, Kernel, Compare

LEMMA TouchFailure ==
  ASSUME Touches
  PROVE  \E tool \in {"read", "kernel", "drill", "compare"}, arg \in Handles,
            outcome \in {"ok", "failed", "unsupported", "not_found"} :
              reply' = Failure(tool, arg, outcome)
<1>1. ASSUME NEW h \in Handles, Read(h) PROVE reply' = Failure("read", h, "ok")
  BY <1>1 DEF Read
<1>2. ASSUME NEW h \in Handles, FailedOp(h) PROVE reply' = Failure("kernel", h, "failed")
  BY <1>2 DEF FailedOp
<1>3. ASSUME NEW h \in Handles, DrillUnsupported(h)
      PROVE  reply' = Failure("drill", h, "unsupported")
  BY <1>3 DEF DrillUnsupported
<1>4. ASSUME NEW h \in Handles, DeadHandle(h)
      PROVE  reply' = Failure("kernel", h, "not_found")
  BY <1>4 DEF DeadHandle
<1>5. ASSUME NEW a \in Handles, NEW b \in Handles, FailedCompare(a, b)
      PROVE  reply' = Failure("compare", a, "failed")
  BY <1>5 DEF FailedCompare
<1>6. QED
  BY <1>1, <1>2, <1>3, <1>4, <1>5 DEF Touches

LEMMA TouchReplies ==
  ASSUME Touches, Handles' = Handles
  PROVE  reply' \in Replies' /\ reply'.rows = "none"
<1>1. PICK tool \in {"read", "kernel", "drill", "compare"}, arg \in Handles,
           outcome \in {"ok", "failed", "unsupported", "not_found"} :
             reply' = Failure(tool, arg, outcome)
  BY TouchFailure
<1>2. QED
  BY <1>1 DEF Failure, Reply, Replies

LEMMA InsertsInsert ==
  ASSUME SInv, Inserts
  PROVE  Inserted
BY QueryInserts, KernelInserts, CompareInserts, DrillInserts, PeriodInserts DEF Inserts

LEMMA SessionStepInvariant == SInv /\ [SessionNext]_sessionVars => SInv'
<1> SUFFICES ASSUME SInv, [SessionNext]_sessionVars PROVE SInv'
  OBVIOUS
<1>1. CASE Inserts
  BY <1>1, InsertsInsert, InsertReplies DEF SInv, Inserted
<1>2. CASE Touches
  BY <1>2, ReadersInvariant, TouchReplies DEF SInv
<1>3. CASE UNCHANGED sessionVars
  <2>1. UNCHANGED vars /\ rowCount' = rowCount /\ reply' = reply
    BY <1>3 DEF sessionVars
  <2>2. IInv' /\ Live' = Live /\ Handles' = Handles
    BY <2>1, IdlingInvariant DEF Idling, SInv
  <2>3. ParentsLive' /\ Replies' = Replies
    BY <2>1, <2>2 DEF SInv, ParentsLive, Replies, vars
  <2>4. QED
    BY <2>1, <2>2, <2>3 DEF SInv
<1>4. QED
  BY <1>1, <1>2, <1>3 DEF SessionNext

LEMMA SessionInvariance == SessionSpec => []SInv
BY SessionInitInvariant, SessionStepInvariant, PTL DEF SessionSpec

-----------------------------------------------------------------------------
\* Every state of a session is well typed, whatever shapes datasets have.
THEOREM SessionTypeCorrect == SessionSpec => []SessionTypeOK
<1>1. SInv => SessionTypeOK
  BY DEF SInv, IInv, SessionTypeOK
<1>2. QED
  BY <1>1, SessionInvariance, PTL

(***************************************************************************)
(* A handle that something was derived from is never lost: the server does *)
(* not sweep, and evict_to_cap spares it.                                  *)
(***************************************************************************)
THEOREM ParentsNeverLost == SessionSpec => []ParentsLive
<1>1. SInv => ParentsLive
  BY DEF SInv
<1>2. QED
  BY <1>1, SessionInvariance, PTL

(***************************************************************************)
(* drill reaches the nearest ancestor with more rows, however long ago it  *)
(* was stored: no ancestor is ever skipped for being dead.                 *)
(***************************************************************************)
THEOREM DrillFindsNearest == SessionSpec => DrillNearest
<1> DEFINE Nearest ==
      reply' # reply /\ reply'.tool = "drill" =>
       /\ reply'.outcome = "ok" =>
            /\ reply'.from \in Bigger(reply'.arg)
            /\ \A a \in Bigger(reply'.arg) : a <= reply'.from
       /\ reply'.outcome = "unsupported" => Bigger(reply'.arg) = {}
<1>1. SInv /\ [SessionNext]_sessionVars => [Nearest]_sessionVars
  <2> SUFFICES ASSUME SInv, [SessionNext]_sessionVars PROVE Nearest
    OBVIOUS
  <2>1. \A h : Bigger(h) = Details(h)
    BY DEF Bigger, Details, Ancestors, SInv, ParentsLive
  <2>2. ASSUME NEW h \in Handles, NEW shape \in Shapes, Drill(h, shape) PROVE Nearest
    <3>1. PICK detail \in Details(h) :
            /\ \E queue : RunOp("drill", h, detail, queue, shape)
            /\ \A a \in Details(h) : a <= detail
      BY <2>2 DEF Drill
    <3>2. \/ reply' = Reply("drill", h, "ok", FreshId, detail, RowsShown(shape.rows))
          \/ reply' = Failure("drill", h, "internal_error")
      BY <3>1 DEF RunOp
    <3>3. QED
      BY <2>1, <3>1, <3>2 DEF Reply, Failure
  <2>3. ASSUME NEW h \in Handles, DrillUnsupported(h) PROVE Nearest
    BY <2>1, <2>3 DEF DrillUnsupported, Failure, Reply
  <2>4. ASSUME reply'.tool # "drill" \/ reply' = reply PROVE Nearest
    BY <2>4
  <2>5. ASSUME NEW shape \in Shapes,
               \/ Query(shape)
               \/ \E h \in Handles : Kernel(h, shape) \/ PeriodOverPeriod(h, shape)
               \/ \E a, b \in Handles : Compare(a, b, shape)
        PROVE  reply'.tool # "drill"
    BY <2>5 DEF Query, Kernel, PeriodOverPeriod, Compare, RunOp, Failure, Reply
  <2>6. ASSUME \/ \E h \in Handles : Read(h) \/ FailedOp(h) \/ DeadHandle(h)
               \/ \E a, b \in Handles : FailedCompare(a, b)
        PROVE  reply'.tool # "drill"
    BY <2>6 DEF Read, FailedOp, DeadHandle, FailedCompare, Failure, Reply
  <2>7. CASE Inserts
    BY <2>2, <2>4, <2>5, <2>7 DEF Inserts
  <2>8. CASE Touches
    BY <2>3, <2>4, <2>6, <2>8 DEF Touches
  <2>9. CASE UNCHANGED sessionVars
    BY <2>4, <2>9 DEF sessionVars
  <2>10. QED
    BY <2>7, <2>8, <2>9 DEF SessionNext
<1>2. QED
  BY <1>1, SessionInvariance, PTL DEF SessionSpec, DrillNearest

(***************************************************************************)
(* A success that omits its rows has a live handle, unless a query or      *)
(* period_over_period found nothing but lineage parents to make room with. *)
(***************************************************************************)
THEOREM RepliesUsable == SessionSpec => ReplyUsable
<1> DEFINE Usable ==
      reply' # reply /\ reply'.outcome = "ok" /\ reply'.rows = "omitted" =>
        \/ reply'.handle \in Live'
        \/ reply'.tool \in {"query", "period"} /\ Live' = Parents
<1>1. SInv /\ [SessionNext]_sessionVars => [Usable]_sessionVars
  <2> SUFFICES ASSUME SInv, [SessionNext]_sessionVars PROVE Usable
    OBVIOUS
  <2>1. ASSUME NEW shape \in Shapes, Query(shape) PROVE Usable
    <3>1. FreshId \notin Live' => Live' = Parents
      BY <2>1, QueryInserts DEF Inserted
    <3>2. reply'.tool = "query" /\ reply'.handle = FreshId
      BY <2>1 DEF Query, Reply
    <3>3. QED
      BY <3>1, <3>2
  <2>2. ASSUME NEW shape \in Shapes, NEW h \in Handles, PeriodOverPeriod(h, shape)
        PROVE  Usable
    <3>1. FreshId \notin Live' => Live' = Parents
      BY <2>2, PeriodInserts DEF Inserted
    <3>2. reply'.tool = "period" /\ reply'.handle = FreshId
      BY <2>2 DEF PeriodOverPeriod, Reply
    <3>3. QED
      BY <3>1, <3>2
  <2>3. ASSUME NEW tool, NEW arg, NEW parent, NEW queue, NEW shape,
               RunOp(tool, arg, parent, queue, shape)
        PROVE  Usable
    BY <2>3 DEF RunOp, ReadBack, Reply, Failure
  <2>4. ASSUME Touches PROVE reply'.rows = "none"
    BY <2>4, ReadersInvariant, TouchReplies
  <2>5. CASE Inserts
    BY <2>1, <2>2, <2>3, <2>5 DEF Inserts, Kernel, Compare, Drill
  <2>6. CASE UNCHANGED sessionVars
    BY <2>6 DEF sessionVars
  <2>7. QED
    BY <2>4, <2>5, <2>6 DEF SessionNext
<1>2. QED
  BY <1>1, SessionInvariance, PTL DEF SessionSpec, ReplyUsable

=============================================================================
