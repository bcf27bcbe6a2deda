---------------------------- MODULE CursorProofs ----------------------------
(***************************************************************************)
(* Proofs about CursorStore, for every value of its constants.             *)
(***************************************************************************)
EXTENDS CursorStore, SequenceTheorems, TLAPS

(***************************************************************************)
(* What is true of one client between any two steps.  The row count it     *)
(* reads in one critical section and the rows it reads in the next belong  *)
(* to one immutable entry, whose size is the size of its result.           *)
(***************************************************************************)
Following(c) ==
  /\ cursor[c] \in 1..minted
  /\ got[c] = [i \in 1..token[c] |-> i]
  /\ cursor[c] \in DOMAIN entries => entries[cursor[c]].rowCount = size[c]
  /\ pc[c] = "get_rows" => total[c] = size[c]
  /\ pc[c] = "complete" => token[c] = size[c]
  /\ pc[c] # "complete" => token[c] < size[c]

\* The cursor, if it is still there, was within its TTL when the call began.
WasFresh(c) ==
  cursor[c] \in DOMAIN entries => now[c] < entries[cursor[c]].insertedAt + Ttl

ClientOK(c) ==
  /\ Pages(c) => Following(c)
  /\ pc[c] = "put" \/ Pages(c) => PageSize < size[c]
  /\ pc[c] \in {"metadata", "get_rows"} => WasFresh(c)

InsertedInPast == \A h \in DOMAIN entries : entries[h].insertedAt <= clock

IInv ==
  /\ TypeOK
  /\ InsertedInPast
  /\ \A c \in Clients : ClientOK(c)

\* The invariant implies the two safety invariants about pages.
LEMMA IInvImplies ==
  ASSUME IInv
  PROVE  RowsInOrder /\ CompleteMeansAll
<1> SUFFICES ASSUME NEW c \in Clients
             PROVE  /\ Pages(c) => got[c] = [i \in 1..token[c] |-> i]
                    /\ pc[c] = "complete" => Len(got[c]) = size[c]
                    /\ pc[c] = "next" => Len(got[c]) < size[c]
  BY DEF RowsInOrder, CompleteMeansAll
<1>1. ClientOK(c) /\ token[c] \in Nat
  BY DEF IInv, TypeOK
<1>2. CASE Pages(c)
  <2>1. Following(c)
    BY <1>1, <1>2 DEF ClientOK
  <2>2. got[c] = [i \in 1..token[c] |-> i] /\ Len(got[c]) = token[c]
    BY <1>1, <2>1 DEF Following
  <2>3. QED
    BY <2>1, <2>2 DEF Following
<1>3. CASE ~Pages(c)
  BY <1>3 DEF Pages
<1>4. QED
  BY <1>2, <1>3

-----------------------------------------------------------------------------
(***************************************************************************)
(* How a step may change the store: live entries keep their contents, and  *)
(* the only handle that appears is a fresh one.                            *)
(***************************************************************************)
StoreStep ==
  /\ Store!TypeOK'
  /\ minted \in Nat /\ minted' \in Nat /\ minted <= minted'
  /\ InsertedInPast'
  /\ \A h \in DOMAIN entries' :
       h <= minted => h \in DOMAIN entries /\ entries'[h] = entries[h]

\* An eviction by a time that is not in the future keeps the store well-formed.
LEMMA UnexpiredFacts ==
  ASSUME NEW es, NEW t \in Nat, es \in [DOMAIN es -> Store!Entry]
  PROVE  LET left == Store!Unexpired(es, t)
         IN  /\ DOMAIN left \subseteq DOMAIN es
             /\ \A h \in DOMAIN left : left[h] = es[h] /\ t < es[h].insertedAt + Ttl
             /\ \A h \in DOMAIN es \ DOMAIN left :
                  /\ es[h].insertedAt + Ttl <= t
                     \/ (Ttl = 0 /\ t < es[h].insertedAt)
BY CursorConstantsOK DEF Store!Unexpired, Store!Restrict, Store!Entry

\* A step that only evicts.
LEMMA EvictStoreStep ==
  ASSUME IInv, NEW c \in Clients, entries' = Store!Unexpired(entries, now[c]),
         UNCHANGED <<minted, clock>>
  PROVE  StoreStep
<1>1. entries \in [DOMAIN entries -> Store!Entry] /\ now[c] \in Nat
  BY DEF IInv, TypeOK, Store!TypeOK, Store!Live
<1>2. /\ DOMAIN entries' \subseteq DOMAIN entries
      /\ \A h \in DOMAIN entries' : entries'[h] = entries[h]
  BY <1>1, UnexpiredFacts
<1>3. entries' = [h \in DOMAIN entries' |-> entries'[h]]
  BY DEF Store!Unexpired, Store!Restrict
<1>4. entries' \in [DOMAIN entries' -> Store!Entry]
  BY <1>1, <1>2, <1>3
<1>5. QED
  BY <1>2, <1>4 DEF StoreStep, IInv, TypeOK, Store!TypeOK, Store!Live, InsertedInPast

\* A step that leaves the store alone while time may pass.
LEMMA SameStoreStep ==
  ASSUME IInv, UNCHANGED <<entries, minted>>, clock' \in Nat, clock <= clock'
  PROVE  StoreStep
<1>1. entries \in [DOMAIN entries -> Store!Entry] /\ clock \in Nat /\ minted \in Nat
  BY DEF IInv, TypeOK, Store!TypeOK, Store!Live
<1>2. InsertedInPast'
  BY <1>1 DEF IInv, InsertedInPast, Store!Entry
<1>3. QED
  BY <1>1, <1>2 DEF StoreStep, IInv, TypeOK, Store!TypeOK, Store!Live

(***************************************************************************)
(* put_and_first_page: without a cap nothing is evicted for space, so the  *)
(* entries left by the TTL eviction all stay beside the new one.           *)
(***************************************************************************)
LEMMA FinishPutStore ==
  ASSUME IInv, NEW c \in Clients, FinishPut(c)
  PROVE  LET left == Store!Unexpired(entries, now[c])
         IN  /\ minted' = minted + 1
             /\ DOMAIN entries' = DOMAIN left \cup {minted'}
             /\ \A h \in DOMAIN left : entries'[h] = left[h]
             /\ entries'[minted'] = [rowCount |-> size[c], insertedAt |-> now[c]]
             /\ entries' = [h \in DOMAIN entries' |-> entries'[h]]
<1> DEFINE left == Store!Unexpired(entries, now[c])
<1>1. entries' = Store!Added(left, minted', size[c], now[c])
  BY DEF FinishPut
<1>3. /\ entries \in [DOMAIN entries -> Store!Entry] /\ now[c] \in Nat
      /\ DOMAIN entries \subseteq 1..minted /\ minted \in Nat
      /\ minted' = minted + 1
  BY DEF IInv, TypeOK, Store!TypeOK, Store!Live, FinishPut
<1>4. DOMAIN left \subseteq DOMAIN entries
  BY <1>3, UnexpiredFacts
<1>5. minted' \notin DOMAIN left
  BY <1>3, <1>4
<1> HIDE DEF left
<1>6. /\ DOMAIN entries' = DOMAIN left \cup {minted'}
      /\ \A h \in DOMAIN left : entries'[h] = left[h]
      /\ entries'[minted'] = [rowCount |-> size[c], insertedAt |-> now[c]]
      /\ entries' = [h \in DOMAIN entries' |-> entries'[h]]
  BY <1>1, <1>5 DEF Store!Added
<1>7. QED
  BY <1>3, <1>6 DEF left

LEMMA FinishPutStoreStep ==
  ASSUME IInv, NEW c \in Clients, FinishPut(c)
  PROVE  StoreStep
<1> DEFINE left == Store!Unexpired(entries, now[c])
<1>1. /\ entries \in [DOMAIN entries -> Store!Entry]
      /\ now[c] \in 0..clock /\ clock \in Nat /\ size[c] \in Nat
      /\ DOMAIN entries \subseteq 1..minted /\ minted \in Nat
      /\ clock' = clock
  BY DEF IInv, TypeOK, Store!TypeOK, Store!Live, FinishPut
<1>2. /\ DOMAIN left \subseteq DOMAIN entries
      /\ \A h \in DOMAIN left : left[h] = entries[h]
  BY <1>1, UnexpiredFacts
<1>3. /\ minted' = minted + 1
      /\ DOMAIN entries' = DOMAIN left \cup {minted'}
      /\ \A h \in DOMAIN left : entries'[h] = left[h]
      /\ entries'[minted'] = [rowCount |-> size[c], insertedAt |-> now[c]]
      /\ entries' = [h \in DOMAIN entries' |-> entries'[h]]
  BY FinishPutStore
<1> HIDE DEF left
<1>4. \A h \in DOMAIN entries' : entries'[h] \in Store!Entry
  BY <1>1, <1>2, <1>3 DEF Store!Entry
<1>5. entries' \in [DOMAIN entries' -> Store!Entry]
  BY <1>3, <1>4
<1>6. InsertedInPast'
  BY <1>1, <1>2, <1>3 DEF InsertedInPast, IInv, Store!Entry
<1>7. QED
  BY <1>1, <1>2, <1>3, <1>5, <1>6 DEF StoreStep, Store!TypeOK, Store!Live

-----------------------------------------------------------------------------
SameClient(d) ==
  /\ pc'[d] = pc[d] /\ now'[d] = now[d] /\ cursor'[d] = cursor[d]
  /\ token'[d] = token[d] /\ size'[d] = size[d] /\ total'[d] = total[d]
  /\ got'[d] = got[d]

\* A client that does not move keeps its invariant, whatever others evict.
LEMMA OtherClient ==
  ASSUME IInv, StoreStep, NEW d \in Clients, SameClient(d)
  PROVE  ClientOK(d)'
<1>1. ClientOK(d) /\ cursor[d] \in 0..minted
  BY DEF IInv, TypeOK
<1>2. cursor'[d] \in DOMAIN entries' =>
        cursor[d] \in DOMAIN entries /\ entries'[cursor[d]] = entries[cursor[d]]
  BY <1>1 DEF StoreStep, SameClient
<1>3. Pages(d)' => Following(d)'
  <2>1. SUFFICES ASSUME Pages(d)' PROVE Following(d)'
    OBVIOUS
  <2>2. Pages(d) /\ Following(d)
    BY <1>1, <2>1 DEF Pages, SameClient, ClientOK
  <2>3. QED
    BY <1>1, <1>2, <2>2 DEF Following, SameClient, StoreStep
<1>4. pc'[d] = "put" \/ Pages(d)' => PageSize < size'[d]
  BY <1>1 DEF ClientOK, Pages, SameClient
<1>5. pc'[d] \in {"metadata", "get_rows"} => WasFresh(d)'
  BY <1>1, <1>2 DEF ClientOK, WasFresh, SameClient
<1>6. QED
  BY <1>3, <1>4, <1>5 DEF ClientOK

\* One step of client c: it is enough to look at c.
LEMMA StepOfOne ==
  ASSUME IInv, StoreStep, TypeOK', NEW c \in Clients, ClientOK(c)',
         \A d \in Clients \ {c} : SameClient(d)
  PROVE  IInv'
<1>1. \A d \in Clients \ {c} : ClientOK(d)'
  BY OtherClient
<1>2. QED
  BY <1>1 DEF IInv, StoreStep

\* The page an offset below the end gets: at least one row, in order.
LEMMA SliceFacts ==
  ASSUME NEW rows \in Nat, NEW offset \in Nat, offset < rows
  PROVE  LET page == Store!Slice(rows, offset, PageSize)
         IN  /\ page \in Seq(Nat)
             /\ Len(page) \in 1..PageSize
             /\ offset + Len(page) <= rows
             /\ page = [k \in 1..Len(page) |-> offset + k]
<1> DEFINE end == IF offset + PageSize < rows THEN offset + PageSize ELSE rows
           n == end - offset
<1>1. PageSize \in Nat \ {0}
  BY CursorConstantsOK
<1>2. n \in 1..PageSize /\ offset + n <= rows
  BY <1>1
<1>3. Store!Slice(rows, offset, PageSize) = [k \in 1..n |-> offset + k]
  BY DEF Store!Slice
<1> HIDE DEF n
<1>4. [k \in 1..n |-> offset + k] \in Seq(Nat) /\ Len([k \in 1..n |-> offset + k]) = n
  BY <1>1, <1>2
<1>5. QED
  BY <1>2, <1>3, <1>4

\* Counting up to m and then from m to m + n is counting up to m + n.
LEMMA CountedUp ==
  ASSUME NEW m \in Nat, NEW n \in Nat, NEW s \in Seq(Nat), NEW p \in Seq(Nat),
         s = [i \in 1..m |-> i], p = [k \in 1..n |-> m + k]
  PROVE  s \o p \in Seq(Nat) /\ s \o p = [i \in 1..(m + n) |-> i]
<1>1. Len(s) = m /\ Len(p) = n
  OBVIOUS
<1>2. /\ s \o p \in Seq(Nat)
      /\ Len(s \o p) = m + n
      /\ \A i \in 1..(m + n) : (s \o p)[i] = IF i <= m THEN s[i] ELSE p[i - m]
  BY <1>1, ConcatProperties
<1>3. ASSUME NEW i \in 1..(m + n) PROVE (s \o p)[i] = i
  <2>1. CASE i <= m
    BY <1>2, <2>1
  <2>2. CASE i > m
    <3>1. i - m \in 1..n /\ (s \o p)[i] = p[i - m]
      BY <1>2, <2>2
    <3>2. QED
      BY <3>1
  <2>3. QED
    BY <2>1, <2>2
<1>4. s \o p = [i \in 1..Len(s \o p) |-> (s \o p)[i]]
  BY <1>2
<1>5. QED
  BY <1>2, <1>3, <1>4

\* The answer of either call, for a client whose rows so far are in order.
LEMMA PageTaken ==
  ASSUME IInv, NEW c \in Clients, NEW rows \in Nat, NEW offset \in Nat, offset < rows,
         NEW before \in Seq(Nat), before = [i \in 1..offset |-> i],
         TakePage(c, offset, Store!Slice(rows, offset, PageSize), rows),
         got'[c] = before \o Store!Slice(rows, offset, PageSize)
  PROVE  /\ token'[c] \in Nat /\ got'[c] \in Seq(Nat)
         /\ got'[c] = [i \in 1..token'[c] |-> i]
         /\ pc'[c] \in {"next", "complete"}
         /\ pc'[c] = "complete" => token'[c] = rows
         /\ pc'[c] = "next" => token'[c] < rows
<1>1. PICK page : page = Store!Slice(rows, offset, PageSize)
  OBVIOUS
<1>2. /\ page \in Seq(Nat) /\ Len(page) \in 1..PageSize /\ offset + Len(page) <= rows
      /\ page = [k \in 1..Len(page) |-> offset + k]
  BY <1>1, SliceFacts
<1>3. PageSize \in Nat /\ c \in DOMAIN pc /\ c \in DOMAIN token
  BY CursorConstantsOK DEF IInv, TypeOK
<1>4. /\ token'[c] = offset + Len(page)
      /\ pc'[c] = IF offset + Len(page) < rows THEN "next" ELSE "complete"
  BY <1>1, <1>3 DEF TakePage, NextToken, HasMore
<1>5. Len(page) \in Nat /\ token'[c] \in Nat
  BY <1>2, <1>3, <1>4
<1>7. got'[c] \in Seq(Nat) /\ got'[c] = [i \in 1..(offset + Len(page)) |-> i]
  <2>1. got'[c] = before \o page
    BY <1>1
  <2>2. before \o page \in Seq(Nat) /\ before \o page = [i \in 1..(offset + Len(page)) |-> i]
    BY <1>2, <1>5, CountedUp
  <2>3. QED
    BY <2>1, <2>2
<1>8. got'[c] = [i \in 1..token'[c] |-> i]
  BY <1>4, <1>7
<1>9. pc'[c] \in {"next", "complete"}
  BY <1>4
<1>10. /\ pc'[c] = "complete" => token'[c] = rows
       /\ pc'[c] = "next" => token'[c] < rows
  <2>1. PICK n \in Nat : n = Len(page)
    BY <1>5
  <2>2. offset + n <= rows
    BY <1>2, <2>1
  <2>3. token'[c] = offset + n /\ pc'[c] = IF offset + n < rows THEN "next" ELSE "complete"
    BY <1>4, <2>1
  <2>4. QED
    BY <2>2, <2>3
<1>11. QED
  BY <1>5, <1>7, <1>8, <1>9, <1>10

-----------------------------------------------------------------------------
(***************************************************************************)
(* Each step preserves the invariant.                                      *)
(***************************************************************************)
LEMMA TickInv ==
  ASSUME IInv, Tick
  PROVE  IInv'
<1>1. clock \in Nat /\ clock' = clock + 1
  BY DEF IInv, TypeOK, Tick
<1>2. StoreStep
  BY <1>1, SameStoreStep DEF Tick, storeVars
<1>3. TypeOK'
  BY <1>1, <1>2 DEF IInv, TypeOK, Tick, storeVars, clientVars, StoreStep
<1>4. \A d \in Clients : SameClient(d)
  BY DEF Tick, clientVars, SameClient
<1>5. QED
  BY <1>2, <1>3, <1>4, OtherClient DEF IInv, StoreStep

LEMMA BeginPutInv ==
  ASSUME IInv, NEW c \in Clients, NEW rowCount \in RowCounts, BeginPut(c, rowCount)
  PROVE  IInv'
<1>1. StoreStep
  BY SameStoreStep DEF BeginPut, storeVars, IInv, TypeOK
<1>2. rowCount \in Nat
  BY CursorConstantsOK
<1>3. TypeOK'
  BY <1>1, <1>2 DEF IInv, TypeOK, BeginPut, storeVars, StoreStep, PCs
<1>4. ClientOK(c)'
  BY <1>2 DEF IInv, TypeOK, BeginPut, ClientOK, Pages
<1>5. \A d \in Clients \ {c} : SameClient(d)
  BY DEF BeginPut, SameClient, IInv, TypeOK
<1>6. QED
  BY <1>1, <1>3, <1>4, <1>5, StepOfOne

LEMMA FinishPutInv ==
  ASSUME IInv, NEW c \in Clients, FinishPut(c)
  PROVE  IInv'
<1>1. StoreStep
  BY FinishPutStoreStep
<1>2. /\ minted' = minted + 1 /\ minted \in Nat
      /\ minted' \in DOMAIN entries' /\ entries'[minted'].rowCount = size[c]
  <2>1. /\ minted' = minted + 1
        /\ minted' \in DOMAIN entries'
        /\ entries'[minted'] = [rowCount |-> size[c], insertedAt |-> now[c]]
    BY FinishPutStore
  <2>2. QED
    BY <2>1 DEF IInv, TypeOK, Store!TypeOK
<1>3. pc[c] = "put" /\ size[c] \in Nat /\ PageSize < size[c] /\ 0 < size[c]
  BY CursorConstantsOK DEF IInv, TypeOK, ClientOK, FinishPut
<1>4. /\ TakePage(c, 0, Store!Slice(size[c], 0, PageSize), size[c])
      /\ got' = [got EXCEPT ![c] = Store!Slice(size[c], 0, PageSize)]
      /\ cursor' = [cursor EXCEPT ![c] = minted']
      /\ UNCHANGED <<clock, now, size, total, restarts>>
  BY DEF FinishPut
<1>5. got'[c] = <<>> \o Store!Slice(size[c], 0, PageSize)
  <2>1. Store!Slice(size[c], 0, PageSize) \in Seq(Nat)
    BY <1>3, SliceFacts
  <2>2. QED
    BY <1>4, <2>1, ConcatEmptySeq DEF IInv, TypeOK
<1>6. <<>> \in Seq(Nat) /\ <<>> = [i \in 1..0 |-> i]
  OBVIOUS
<1>7. /\ token'[c] \in Nat /\ got'[c] \in Seq(Nat)
      /\ got'[c] = [i \in 1..token'[c] |-> i]
      /\ pc'[c] \in {"next", "complete"}
      /\ pc'[c] = "complete" => token'[c] = size[c]
      /\ pc'[c] = "next" => token'[c] < size[c]
  BY <1>3, <1>4, <1>5, <1>6, PageTaken
<1>8. TypeOK'
  <2>1. /\ pc' \in [Clients -> PCs] /\ token' \in [Clients -> Nat]
    BY <1>4, <1>7 DEF TakePage, IInv, TypeOK, PCs
  <2>2. got' \in [Clients -> Seq(Nat)]
    BY <1>4, <1>7 DEF IInv, TypeOK
  <2>3. cursor' \in [Clients -> 0..minted']
    BY <1>2, <1>4 DEF IInv, TypeOK
  <2>4. QED
    BY <1>1, <1>4, <2>1, <2>2, <2>3 DEF StoreStep, IInv, TypeOK
<1>9. cursor'[c] = minted'
  BY <1>4 DEF IInv, TypeOK
<1>10. ClientOK(c)'
  <2>1. Following(c)'
    BY <1>2, <1>4, <1>7, <1>9 DEF Following
  <2>2. QED
    BY <1>3, <1>4, <1>7, <2>1 DEF ClientOK
<1>11. \A d \in Clients \ {c} : SameClient(d)
  BY <1>4 DEF TakePage, SameClient, IInv, TypeOK
<1>12. QED
  BY <1>1, <1>8, <1>10, <1>11, StepOfOne

LEMMA BeginNextInv ==
  ASSUME IInv, NEW c \in Clients, BeginNext(c)
  PROVE  IInv'
<1>1. StoreStep
  BY SameStoreStep DEF BeginNext, storeVars, IInv, TypeOK
<1>2. TypeOK'
  BY <1>1 DEF IInv, TypeOK, BeginNext, storeVars, StoreStep, PCs
<1>3. ClientOK(c)'
  <2>1. ClientOK(c) /\ pc[c] = "next" /\ pc'[c] = "evict"
    BY DEF IInv, TypeOK, BeginNext
  <2>2. Following(c)'
    BY <2>1 DEF ClientOK, Pages, Following, BeginNext, storeVars
  <2>3. QED
    BY <2>1, <2>2 DEF ClientOK, Pages, BeginNext
<1>4. \A d \in Clients \ {c} : SameClient(d)
  BY DEF BeginNext, SameClient, IInv, TypeOK
<1>5. QED
  BY <1>1, <1>2, <1>3, <1>4, StepOfOne

LEMMA BeginRestartInv ==
  ASSUME IInv, NEW c \in Clients, BeginRestart(c)
  PROVE  IInv'
<1>1. StoreStep
  BY SameStoreStep DEF BeginRestart, storeVars, IInv, TypeOK
<1>2. TypeOK'
  BY <1>1 DEF IInv, TypeOK, BeginRestart, storeVars, StoreStep, PCs
<1>3. ClientOK(c)'
  <2>1. /\ ClientOK(c) /\ Pages(c) /\ Following(c) /\ PageSize < size[c]
        /\ size[c] \in Nat /\ PageSize \in Nat
    BY CursorConstantsOK DEF IInv, TypeOK, BeginRestart, ClientOK, Pages
  <2>2. /\ pc'[c] = "evict" /\ token'[c] = 0 /\ got'[c] = <<>>
        /\ UNCHANGED <<entries, minted, cursor, size>>
    BY DEF IInv, TypeOK, BeginRestart, storeVars
  <2>3. Following(c)'
    BY <2>1, <2>2 DEF Following
  <2>4. QED
    BY <2>1, <2>2, <2>3 DEF ClientOK
<1>4. \A d \in Clients \ {c} : SameClient(d)
  BY DEF BeginRestart, SameClient, IInv, TypeOK
<1>5. QED
  BY <1>1, <1>2, <1>3, <1>4, StepOfOne

LEMMA EvictInv ==
  ASSUME IInv, NEW c \in Clients, Evict(c)
  PROVE  IInv'
<1>1. StoreStep
  BY EvictStoreStep DEF Evict
<1>2. TypeOK'
  BY <1>1 DEF IInv, TypeOK, Evict, StoreStep, PCs
<1>3. ClientOK(c)'
  <2>1. /\ ClientOK(c) /\ Pages(c) /\ Following(c) /\ PageSize < size[c]
        /\ pc'[c] = "metadata"
    BY DEF IInv, TypeOK, Evict, ClientOK, Pages
  <2>2. /\ entries \in [DOMAIN entries -> Store!Entry] /\ now[c] \in Nat
        /\ entries' = Store!Unexpired(entries, now[c])
    BY DEF IInv, TypeOK, Store!TypeOK, Store!Live, Evict
  <2>3. \A h \in DOMAIN entries' :
          h \in DOMAIN entries /\ entries'[h] = entries[h] /\ now[c] < entries[h].insertedAt + Ttl
    BY <2>2, UnexpiredFacts
  <2>4. UNCHANGED <<minted, now, cursor, token, size, total, got>>
    BY DEF Evict
  <2>5. Following(c)'
    BY <2>1, <2>3, <2>4 DEF Following, Evict
  <2>6. WasFresh(c)'
    BY <2>3, <2>4 DEF WasFresh
  <2>7. QED
    BY <2>1, <2>4, <2>5, <2>6 DEF ClientOK
<1>4. \A d \in Clients \ {c} : SameClient(d)
  BY DEF Evict, SameClient, IInv, TypeOK
<1>5. QED
  BY <1>1, <1>2, <1>3, <1>4, StepOfOne

LEMMA ExpiredInv ==
  ASSUME IInv, NEW c \in Clients, Expired(c)
  PROVE  IInv'
<1>1. StoreStep
  BY SameStoreStep DEF Expired, storeVars, IInv, TypeOK
<1>2. TypeOK'
  BY <1>1 DEF IInv, TypeOK, Expired, storeVars, StoreStep, PCs
<1>3. ClientOK(c)'
  BY DEF IInv, TypeOK, Expired, ClientOK, Pages
<1>4. \A d \in Clients \ {c} : SameClient(d)
  BY DEF Expired, SameClient, IInv, TypeOK
<1>5. QED
  BY <1>1, <1>2, <1>3, <1>4, StepOfOne

LEMMA MetadataInv ==
  ASSUME IInv, NEW c \in Clients, Metadata(c)
  PROVE  IInv'
<1>1. StoreStep
  BY SameStoreStep DEF Metadata, storeVars, IInv, TypeOK
<1>2. /\ ClientOK(c) /\ Pages(c) /\ Following(c) /\ WasFresh(c) /\ PageSize < size[c]
      /\ pc'[c] = "get_rows" /\ total'[c] = size[c] /\ size[c] \in Nat
      /\ total' = [total EXCEPT ![c] = size[c]]
  BY DEF IInv, TypeOK, Metadata, ClientOK, Pages, Following
<1>3. TypeOK'
  BY <1>1, <1>2 DEF IInv, TypeOK, Metadata, storeVars, StoreStep, PCs
<1>4. ClientOK(c)'
  <2>1. Following(c)'
    BY <1>2 DEF Following, Metadata, storeVars
  <2>2. WasFresh(c)'
    BY <1>2 DEF WasFresh, Metadata, storeVars
  <2>3. QED
    BY <1>2, <2>1, <2>2 DEF ClientOK, Metadata
<1>5. \A d \in Clients \ {c} : SameClient(d)
  BY DEF Metadata, SameClient, IInv, TypeOK
<1>6. QED
  BY <1>1, <1>3, <1>4, <1>5, StepOfOne

LEMMA GetRowsInv ==
  ASSUME IInv, NEW c \in Clients, GetRows(c)
  PROVE  IInv'
<1>1. StoreStep
  BY SameStoreStep DEF GetRows, storeVars, IInv, TypeOK
<1>2. /\ ClientOK(c) /\ Pages(c) /\ Following(c) /\ PageSize < size[c]
      /\ size[c] \in Nat /\ token[c] \in Nat /\ token[c] < size[c]
      /\ got[c] \in Seq(Nat) /\ got[c] = [i \in 1..token[c] |-> i]
      /\ entries[cursor[c]].rowCount = size[c] /\ total[c] = size[c]
  BY DEF IInv, TypeOK, GetRows, ClientOK, Pages, Following
<1>3. /\ TakePage(c, token[c], Store!Slice(size[c], token[c], PageSize), size[c])
      /\ got' = [got EXCEPT ![c] = got[c] \o Store!Slice(size[c], token[c], PageSize)]
      /\ UNCHANGED <<entries, minted, clock, now, cursor, size, total, restarts>>
  BY <1>2 DEF GetRows, storeVars
<1>4. got'[c] = got[c] \o Store!Slice(size[c], token[c], PageSize)
  BY <1>3 DEF IInv, TypeOK
<1>5. /\ token'[c] \in Nat /\ got'[c] \in Seq(Nat)
      /\ got'[c] = [i \in 1..token'[c] |-> i]
      /\ pc'[c] \in {"next", "complete"}
      /\ pc'[c] = "complete" => token'[c] = size[c]
      /\ pc'[c] = "next" => token'[c] < size[c]
  BY <1>2, <1>3, <1>4, PageTaken
<1>6. TypeOK'
  <2>1. /\ pc' \in [Clients -> PCs] /\ token' \in [Clients -> Nat]
    BY <1>3, <1>5 DEF TakePage, IInv, TypeOK, PCs
  <2>2. got' \in [Clients -> Seq(Nat)]
    BY <1>3, <1>5 DEF IInv, TypeOK
  <2>3. QED
    BY <1>1, <1>3, <2>1, <2>2 DEF StoreStep, IInv, TypeOK
<1>7. ClientOK(c)'
  <2>1. Following(c)'
    BY <1>2, <1>3, <1>5 DEF Following
  <2>2. QED
    BY <1>2, <1>3, <1>5, <2>1 DEF ClientOK
<1>8. \A d \in Clients \ {c} : SameClient(d)
  BY <1>3 DEF TakePage, SameClient, IInv, TypeOK
<1>9. QED
  BY <1>1, <1>6, <1>7, <1>8, StepOfOne

LEMMA InitInv == Init => IInv
<1> SUFFICES ASSUME Init PROVE IInv
  OBVIOUS
<1>1. TypeOK
  BY DEF Init, TypeOK, Store!Init, Store!TypeOK, Store!Live, PCs
<1>2. InsertedInPast
  BY DEF Init, Store!Init, InsertedInPast
<1>3. \A c \in Clients : ClientOK(c)
  BY DEF Init, ClientOK, Pages
<1>4. QED
  BY <1>1, <1>2, <1>3 DEF IInv

LEMMA NextInv == IInv /\ [Next]_vars => IInv'
<1> SUFFICES ASSUME IInv, [Next]_vars PROVE IInv'
  OBVIOUS
<1>1. CASE Tick
  BY <1>1, TickInv
<1>2. ASSUME NEW c \in Clients, Step(c) PROVE IInv'
  BY <1>2, BeginPutInv, FinishPutInv, BeginNextInv, BeginRestartInv, EvictInv,
     ExpiredInv, MetadataInv, GetRowsInv DEF Step
<1>3. CASE UNCHANGED vars
  <2>1. /\ UNCHANGED <<entries, minted, clock, pc, now, cursor, token, size, total>>
        /\ UNCHANGED <<got, restarts>>
    BY <1>3 DEF vars, storeVars, clientVars
  <2>2. TypeOK' /\ InsertedInPast'
    BY <2>1 DEF IInv, TypeOK, InsertedInPast, Store!TypeOK, Store!Live
  <2>3. \A c \in Clients : ClientOK(c)'
    BY <2>1 DEF IInv, ClientOK, Pages, Following, WasFresh
  <2>4. QED
    BY <2>2, <2>3 DEF IInv
<1>4. QED
  BY <1>1, <1>2, <1>3 DEF Next

-----------------------------------------------------------------------------
\* A step evicts only what is past its TTL (NoEarlyEviction, for one step).
LEMMA NoEarlyEvictionStep ==
  ASSUME IInv, [Next]_vars, NEW h \in DOMAIN entries \ DOMAIN entries'
  PROVE  entries[h].insertedAt + Ttl <= clock
<1>1. /\ entries \in [DOMAIN entries -> Store!Entry] /\ clock \in Nat
      /\ entries[h].insertedAt <= clock /\ entries[h].insertedAt \in Nat /\ Ttl \in Nat
  BY CursorConstantsOK
     DEF IInv, TypeOK, Store!TypeOK, Store!Live, InsertedInPast, Store!Entry
<1>2. PICK c \in Clients : Evict(c) \/ FinishPut(c)
  BY DEF Next, Step, vars, storeVars, Tick, BeginPut, BeginNext, BeginRestart, Expired,
         Metadata, GetRows
<1>3. now[c] \in Nat /\ now[c] <= clock
  BY DEF IInv, TypeOK
<1>4. h \notin DOMAIN Store!Unexpired(entries, now[c])
  BY <1>2, FinishPutStore DEF Evict
<1>5. \/ entries[h].insertedAt + Ttl <= now[c]
      \/ Ttl = 0 /\ now[c] < entries[h].insertedAt
  BY <1>1, <1>3, <1>4, UnexpiredFacts
<1>6. QED
  BY <1>1, <1>3, <1>5

\* A step serves only what was within its TTL (NoStalePage, for one step).
LEMMA NoStalePageStep ==
  ASSUME IInv, [Next]_vars, NEW c \in Clients,
         pc[c] = "get_rows", pc'[c] \in {"next", "complete"}
  PROVE  now[c] < entries[cursor[c]].insertedAt + Ttl
<1>1. pc \in [Clients -> PCs]
  BY DEF IInv, TypeOK
<1>2. PICK d \in Clients : Step(d)
  BY DEF Next, vars, clientVars, Tick
<1>3. d = c
  <2>1. SUFFICES ASSUME d # c PROVE FALSE
    OBVIOUS
  <2>2. pc'[c] = pc[c]
    BY <1>1, <1>2, <2>1
       DEF Step, BeginPut, FinishPut, BeginNext, BeginRestart, Evict, Expired, Metadata,
           GetRows, TakePage
  <2>3. QED
    BY <2>2
<1>4. Expired(c) \/ GetRows(c)
  BY <1>2, <1>3
     DEF Step, BeginPut, FinishPut, BeginNext, BeginRestart, Evict, Metadata
<1>5. ~Expired(c)
  BY <1>1 DEF Expired
<1>6. QED
  BY <1>4, <1>5 DEF IInv, ClientOK, WasFresh, GetRows

-----------------------------------------------------------------------------
(***************************************************************************)
(* CursorStore implements PagedRead for every client.                      *)
(***************************************************************************)
\* A client that does not move makes a stuttering step of its read.
LEMMA OtherRead ==
  ASSUME NEW c \in Clients, SameClient(c)
  PROVE  UNCHANGED Read(c)!vars
BY DEF SameClient, StateOf, Read!vars

\* A client that follows its tokens has as many rows as its token counts.
LEMMA RowsCounted ==
  ASSUME NEW c \in Clients, IInv, Pages(c)
  PROVE  /\ Len(got[c]) = token[c]
         /\ token[c] \in Nat /\ size[c] \in Nat
         /\ token[c] <= size[c]
<1>1. Following(c) /\ token[c] \in Nat /\ size[c] \in Nat
  BY DEF IInv, TypeOK, ClientOK
<1>2. got[c] = [i \in 1..token[c] |-> i]
  BY <1>1 DEF Following
<1>3. Len(got[c]) = token[c]
  BY <1>1, <1>2
<1>4. QED
  BY <1>1, <1>3 DEF Following

\* The first page opens the read.
LEMMA FinishPutOpens ==
  ASSUME NEW c \in Clients, IInv, FinishPut(c)
  PROVE  Read(c)!Open
<1>1. /\ pc[c] = "put" /\ size'[c] = size[c] /\ size[c] \in Nat
      /\ 0 < size[c]
      /\ c \in DOMAIN pc /\ c \in DOMAIN token /\ c \in DOMAIN got
  BY CursorConstantsOK DEF FinishPut, IInv, TypeOK, ClientOK
<1>2. PICK page : page = Store!Slice(size[c], 0, PageSize)
  OBVIOUS
<1>3. /\ Len(page) \in 1..PageSize
      /\ 0 + Len(page) <= size[c]
  BY <1>1, <1>2, SliceFacts
<1>4. /\ got'[c] = page
      /\ pc'[c] = IF 0 + Len(page) < size[c] THEN "next" ELSE "complete"
  BY <1>1, <1>2 DEF FinishPut, TakePage, HasMore
<1>5. PICK n \in 1..PageSize : n = Len(got'[c])
  BY <1>3, <1>4
<1>6. n <= size[c] /\ pc'[c] = IF n < size[c] THEN "next" ELSE "complete"
  BY <1>3, <1>4, <1>5
<1>7. QED
  BY <1>1, <1>5, <1>6 DEF Read!Open, Read!After, StateOf

\* Every later page is at least a row, and takes the read no further than its end.
LEMMA GetRowsDelivers ==
  ASSUME NEW c \in Clients, IInv, GetRows(c)
  PROVE  Read(c)!Deliver
<1>1. /\ pc[c] = "get_rows" /\ size'[c] = size[c] /\ size[c] \in Nat
      /\ Following(c) /\ total[c] = size[c] /\ entries[cursor[c]].rowCount = size[c]
      /\ token[c] \in Nat /\ token[c] < size[c] /\ Len(got[c]) = token[c]
      /\ got[c] \in Seq(Nat)
      /\ c \in DOMAIN pc /\ c \in DOMAIN token /\ c \in DOMAIN got
  BY RowsCounted DEF GetRows, IInv, TypeOK, ClientOK, Pages, Following
<1>2. PICK page : page = Store!Slice(size[c], token[c], PageSize)
  OBVIOUS
<1>3. /\ page \in Seq(Nat) /\ Len(page) \in 1..PageSize
      /\ token[c] + Len(page) <= size[c]
  BY <1>1, <1>2, SliceFacts
<1>4. /\ got'[c] = got[c] \o page
      /\ pc'[c] = IF token[c] + Len(page) < size[c] THEN "next" ELSE "complete"
  BY <1>1, <1>2 DEF GetRows, TakePage, HasMore
<1>5. Len(got'[c]) = token[c] + Len(page)
  <2>1. Len(got[c] \o page) = Len(got[c]) + Len(page)
    BY <1>1, <1>3, ConcatProperties
  <2>2. QED
    BY <1>1, <1>4, <2>1
<1>6. PICK n \in 1..PageSize : n = Len(page)
  BY <1>3
<1>7. /\ Len(got'[c]) = token[c] + n /\ token[c] + n <= size[c]
      /\ pc'[c] = IF token[c] + n < size[c] THEN "next" ELSE "complete"
  BY <1>3, <1>4, <1>5, <1>6
<1>8. PageSize \in Nat
  BY CursorConstantsOK
<1>9. QED
  BY <1>1, <1>7, <1>8 DEF Read!Deliver, Read!After, StateOf

\* The steps that read nothing: another query, a restart, a lost cursor, a lock.
LEMMA OtherStepsOfARead ==
  ASSUME NEW c \in Clients, IInv, Step(c), ~FinishPut(c), ~GetRows(c)
  PROVE  Read(c)!Next \/ UNCHANGED Read(c)!vars
<1>1. /\ pc \in [Clients -> PCs] /\ got \in [Clients -> Seq(Nat)]
  BY DEF IInv, TypeOK
<1>2. ASSUME NEW rowCount \in RowCounts, BeginPut(c, rowCount)
      PROVE  Read(c)!Leave \/ UNCHANGED Read(c)!vars
  BY <1>1, <1>2 DEF BeginPut, StateOf, Read!Leave, Read!vars
<1>3. CASE BeginNext(c) \/ Evict(c) \/ Metadata(c)
  BY <1>1, <1>3 DEF BeginNext, Evict, Metadata, StateOf, Read!vars
<1>4. CASE BeginRestart(c)
  BY <1>1, <1>4 DEF BeginRestart, StateOf, Read!Restart, Read!Next
<1>5. CASE Expired(c)
  BY <1>1, <1>5 DEF Expired, StateOf, Read!Fail, Read!Next
<1>6. QED
  BY <1>2, <1>3, <1>4, <1>5 DEF Step, Read!Next

\* A step of one client leaves every other where it was.
LEMMA OthersStand ==
  ASSUME NEW c \in Clients, NEW d \in Clients \ {c}, IInv, Step(d)
  PROVE  SameClient(c)
BY DEF IInv, TypeOK, Step, BeginPut, FinishPut, BeginNext, BeginRestart, Evict, Expired,
       Metadata, GetRows, TakePage, SameClient

\* Every step is a step of each client's read, or a stutter of it.
LEMMA StepOfRead ==
  ASSUME NEW c \in Clients, IInv, [Next]_vars
  PROVE  Read(c)!Next \/ UNCHANGED Read(c)!vars
<1>1. CASE Tick \/ UNCHANGED vars
  BY <1>1, OtherRead DEF Tick, vars, clientVars, SameClient
<1>2. ASSUME NEW d \in Clients \ {c}, Step(d) PROVE UNCHANGED Read(c)!vars
  BY <1>2, OthersStand, OtherRead
<1>3. CASE Step(c)
  BY <1>3, FinishPutOpens, GetRowsDelivers, OtherStepsOfARead DEF Read!Next
<1>4. QED
  BY <1>1, <1>2, <1>3 DEF Next

-----------------------------------------------------------------------------
\* The inductive invariant holds in every reachable state.
THEOREM Inductive == Spec => []IInv
BY InitInv, NextInv, PTL DEF Spec

\* Every variable keeps its type, for any clients, page size, TTL and results.
THEOREM TypeCorrect == Spec => []TypeOK
<1>1. IInv => TypeOK
  BY DEF IInv
<1>2. QED
  BY <1>1, Inductive, PTL

(***************************************************************************)
(* A client that follows its tokens has exactly the rows before its token, *)
(* in order, whatever the other clients do between its critical sections.  *)
(***************************************************************************)
THEOREM RowsArriveInOrder == Spec => []RowsInOrder
<1>1. IInv => RowsInOrder
  BY IInvImplies
<1>2. QED
  BY <1>1, Inductive, PTL

\* has_more is FALSE exactly when the client has every row of its result.
THEOREM CompleteHoldsAll == Spec => []CompleteMeansAll
<1>1. IInv => CompleteMeansAll
  BY IInvImplies
<1>2. QED
  BY <1>1, Inductive, PTL

\* No interleaving of stale clock readings evicts a cursor before its TTL.
THEOREM NoCursorEvictedEarly == Spec => NoEarlyEviction
<1>1. IInv /\ [Next]_vars =>
        [\A h \in DOMAIN entries \ DOMAIN entries' :
           entries[h].insertedAt + Ttl <= clock]_vars
  BY NoEarlyEvictionStep
<1>2. QED
  BY <1>1, Inductive, PTL DEF Spec, NoEarlyEviction

\* No page is served from a cursor already past its TTL when the call began.
THEOREM NoPageServedStale == Spec => NoStalePage
<1>1. IInv /\ [Next]_vars =>
        [\A c \in Clients :
           pc[c] = "get_rows" /\ pc'[c] \in {"next", "complete"}
             => now[c] < entries[cursor[c]].insertedAt + Ttl]_vars
  BY NoStalePageStep
<1>2. QED
  BY <1>1, Inductive, PTL DEF Spec, NoStalePage

\* A client has the beginning of its result, and all of it when next_page
\* says there is no more.
THEOREM PagesAreExact == Spec => []PagesExact
BY RowsArriveInOrder, CompleteHoldsAll, PTL DEF PagesExact

\* A cursor lives for its TTL and no longer, whatever the threads' clocks read.
THEOREM TtlIsKept == Spec => TtlKept
BY NoCursorEvictedEarly, NoPageServedStale DEF TtlKept

\* The read of every client is a behaviour of PagedRead: pages in order, each
\* row once, complete exactly at the last, or else failed as a whole.
THEOREM ReadsArePaged == Spec => ReadsPaged
<1>1. Init => \A c \in Clients : Read(c)!Init
  BY DEF Init, Read!Init, StateOf
<1>2. IInv /\ [Next]_vars =>
        [\A c \in Clients : Read(c)!Next \/ UNCHANGED Read(c)!vars]_vars
  BY StepOfRead
<1>3. QED
  BY <1>1, <1>2, Inductive, PTL DEF Spec, ReadsPaged
=============================================================================
