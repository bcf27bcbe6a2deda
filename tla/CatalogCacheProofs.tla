------------------------- MODULE CatalogCacheProofs -------------------------
(***************************************************************************)
(* Proofs about CatalogCache, for any servers, levels, caps and TTL.       *)
(***************************************************************************)
EXTENDS CatalogCache, FiniteSetTheorems, TLAPS

(***************************************************************************)
(* What a file holds that was written to its end: members read no earlier  *)
(* than the time it is stamped with, and levels of a version of the model  *)
(* no later than the version it is stamped with.                           *)
(***************************************************************************)
Columns == [Levels -> [card : Nat, read : Nat \cup {-1}]]

ReadSince(cols, time) == \A l \in Levels : cols[l].read = -1 \/ cols[l].read >= time

Caches == [stamp : Nat, at : Nat, model : Nat, columns : Columns]

WholeCaches ==
  {c \in Caches : /\ ReadSince(c.columns, c.at)
                  /\ c.stamp = NoStamp \/ c.model <= c.stamp}

\* A record before it is complete: only the version of the model is known.
Drafts == [stamp : {NoStamp}, at : {-1}, model : Nat, columns : {<< >>}]

Pending == {"load", "validate", "levels", "members"}
PCs == Pending \cup {"off", "unvalidated", "validated", "write", "rename", "ingested"}

CacheTypeOK ==
  /\ clock \in Nat /\ starts \in 0..MaxStarts /\ changes \in Nat /\ published \in Nat
  /\ cardinality \in [Levels -> Nat]
  /\ name \in [Names -> Files \cup {0}]
  /\ content \in [Files -> WholeCaches \cup {Empty, Garbage}]
  /\ pc \in [Servers -> PCs]
  /\ now \in [Servers -> 0..clock]
  /\ found \in [Servers -> WholeCaches \cup {NoCache}]
  /\ told \in [Servers -> [stamp : Nat, cards : [Levels -> Nat]]]
  /\ columns \in [Servers -> Columns]
  /\ todo \in [Servers -> SUBSET Levels]
  /\ fd \in [Servers -> Files \cup {0}]
  /\ record \in [Servers -> WholeCaches \cup Drafts]
  /\ overlapped \in BOOLEAN

-----------------------------------------------------------------------------
(***************************************************************************)
(* What is true of one server.  Until it has fetched, it has no members;   *)
(* what it fetches is read after it started, and what it serves validated  *)
(* comes from a whole cache that passed both tests.                        *)
(***************************************************************************)
Fetching(s) == pc[s] \in {"members", "write", "rename", "ingested"}

ServesValid(s) ==
  /\ found[s] \in WholeCaches
  /\ columns[s] = found[s].columns
  /\ ~Expired(found[s], now[s])
  /\ ~Republished(found[s], told[s].stamp)

ServerOK(s) ==
  /\ pc[s] \in {"off", "load", "validate", "levels"} =>
       /\ \A l \in Levels : columns[s][l].read = -1
       /\ record[s] = NoCache
  /\ pc[s] = "validate" => found[s] \in WholeCaches
  /\ pc[s] = "validated" => ServesValid(s)
  /\ Fetching(s) => ReadSince(columns[s], now[s])
  /\ pc[s] = "members" => record[s].model <= published
  /\ Saving(s) => record[s] \in WholeCaches /\ fd[s] # 0
  /\ ~Saving(s) => fd[s] = 0

(***************************************************************************)
(* Every file in use was made by a start of its own, and a start that is   *)
(* still before its save has made none: there is always a file to make.    *)
(***************************************************************************)
Used == (Range(name) \cup Range(fd)) \ {0}
Unsaved == {s \in Servers : pc[s] \in Pending}

EnoughFiles ==
  /\ IsFiniteSet(Unsaved)
  /\ Cardinality(Used) + Cardinality(Unsaved) <= starts

(***************************************************************************)
(* While servers save one after the other, the one that saves is alone on  *)
(* the sibling, which is never the cache itself.                           *)
(***************************************************************************)
Alone ==
  /\ \A s, t \in Servers : Saving(s) /\ Saving(t) => s = t
  /\ \A s \in Servers :
       /\ Saving(s) => name["tmp"] = fd[s]
       /\ pc[s] = "write" => content[fd[s]] = Empty
       /\ pc[s] = "rename" => IsCache(content[fd[s]])
  /\ name["cache"] # 0 => name["cache"] # name["tmp"]

IInv ==
  /\ CacheTypeOK
  /\ \A s \in Servers : ServerOK(s)
  /\ EnoughFiles
  /\ ~overlapped => Alone

-----------------------------------------------------------------------------
(***************************************************************************)
(* The verdict on a cache.                                                 *)
(***************************************************************************)
LEMMA MaxWithZero ==
  ASSUME NEW a \in Int
  PROVE  Max({a, 0}) = IF a >= 0 THEN a ELSE 0
<1>1. \E x \in {a, 0} : \A y \in {a, 0} : x >= y
  <2>1. CASE a >= 0
    BY <2>1
  <2>2. CASE ~ (a >= 0)
    BY <2>2
  <2>3. QED
    BY <2>1, <2>2
<1>2. Max({a, 0}) \in {a, 0} /\ \A y \in {a, 0} : Max({a, 0}) >= y
  BY <1>1 DEF Max
<1>3. QED
  BY <1>2

\* A cache that has not expired is no older than the TTL.
LEMMA UnexpiredAge ==
  ASSUME NEW cache, cache.at \in Nat, NEW time \in Nat, ~Expired(cache, time)
  PROVE  cache.at >= time - Ttl
<1>1. time - cache.at \in Int /\ Ttl \in Nat
  BY CacheConstantsOK
<1>2. ~ (Max({time - cache.at, 0}) > Ttl)
  BY DEF Expired
<1>3. QED
  BY <1>1, <1>2, MaxWithZero

\* No cache is ever found partly stale; a valid one passed both tests.
LEMMA VerdictFacts ==
  ASSUME NEW cache, NEW stamp, NEW cards, NEW time
  PROVE  /\ Verdict(cache, stamp, cards, time) # "partial"
         /\ Verdict(cache, stamp, cards, time) = "valid" =>
              ~Expired(cache, time) /\ ~Republished(cache, stamp)
<1>1. ChangedLevels(cache, cards) = {}
  BY DEF ChangedLevels, FreshCardinalities, ColumnsGiven
<1>2. QED
  BY <1>1 DEF Verdict

-----------------------------------------------------------------------------
(***************************************************************************)
(* What a step of one server leaves alone.                                 *)
(***************************************************************************)
SameServer(t) ==
  /\ pc'[t] = pc[t] /\ now'[t] = now[t] /\ found'[t] = found[t] /\ told'[t] = told[t]
  /\ columns'[t] = columns[t] /\ fd'[t] = fd[t] /\ record'[t] = record[t]

LEMMA OtherServer ==
  ASSUME CacheTypeOK, NEW t \in Servers, ServerOK(t), SameServer(t),
         published' \in Nat, published <= published'
  PROVE  ServerOK(t)'
<1>1. /\ Saving(t)' <=> Saving(t)
      /\ Fetching(t)' <=> Fetching(t)
  BY DEF Saving, Fetching, SameServer
<1>2. ServesValid(t) => ServesValid(t)'
  BY DEF ServesValid, SameServer
<1>3. pc[t] = "members" /\ record[t].model <= published => record'[t].model <= published'
  <2>1. record[t].model \in Nat /\ published \in Nat
    BY DEF CacheTypeOK, WholeCaches, Caches, Drafts
  <2>2. QED
    BY <2>1 DEF SameServer
<1>4. ReadSince(columns[t], now[t]) => ReadSince(columns'[t], now'[t])
  BY DEF SameServer
<1>5. QED
  BY <1>1, <1>2, <1>3, <1>4 DEF ServerOK, SameServer

\* A server begins or goes on saving only by the steps that write files.
LEMMA AloneKept ==
  ASSUME Alone, UNCHANGED <<name, content>>,
         \A t \in Servers : Saving(t)' => pc'[t] = pc[t] /\ fd'[t] = fd[t]
  PROVE  Alone'
BY DEF Alone, Saving

LEMMA UsedFinite ==
  ASSUME CacheTypeOK
  PROVE  /\ IsFiniteSet(Files) /\ Cardinality(Files) = MaxStarts
         /\ Used \subseteq Files /\ IsFiniteSet(Used) /\ Cardinality(Used) \in Nat
<1>1. /\ IsFiniteSet(1..MaxStarts) /\ Cardinality(1..MaxStarts) = MaxStarts
  <2>1. 1 \in Int /\ MaxStarts \in Int /\ MaxStarts \in Nat
    BY CacheConstantsOK
  <2>2. /\ IsFiniteSet(1..MaxStarts)
        /\ Cardinality(1..MaxStarts) = IF 1 > MaxStarts THEN 0 ELSE MaxStarts - 1 + 1
    BY <2>1, FS_Interval, Zenon
  <2>3. QED
    BY <2>1, <2>2
<1>2. Used \subseteq Files
  BY DEF Used, Range, CacheTypeOK
<1>3. QED
  BY <1>1, <1>2, FS_Subset, FS_CardinalityType DEF Files

\* A step that makes no file, starts no server and takes none back.
LEMMA EnoughKept ==
  ASSUME CacheTypeOK, EnoughFiles, Used' \subseteq Used, starts' = starts,
         \A t \in Servers : pc'[t] \in Pending => pc[t] \in Pending
  PROVE  EnoughFiles'
<1>1. IsFiniteSet(Used) /\ Cardinality(Used) \in Nat
  BY UsedFinite
<1>2. IsFiniteSet(Used') /\ Cardinality(Used') <= Cardinality(Used)
      /\ Cardinality(Used') \in Nat
  BY <1>1, FS_Subset, FS_CardinalityType
<1>3. Unsaved' \subseteq Unsaved
  BY DEF Unsaved
<1>4. /\ IsFiniteSet(Unsaved') /\ Cardinality(Unsaved') <= Cardinality(Unsaved)
      /\ Cardinality(Unsaved') \in Nat /\ Cardinality(Unsaved) \in Nat
  BY <1>3, FS_Subset, FS_CardinalityType DEF EnoughFiles
<1>5. starts \in Nat
  BY CacheConstantsOK DEF CacheTypeOK
<1>6. QED
  BY <1>1, <1>2, <1>4, <1>5 DEF EnoughFiles

\* There is a file to make for a server that is about to save.
LEMMA FreshFile ==
  ASSUME CacheTypeOK, EnoughFiles, NEW s \in Servers, pc[s] = "members"
  PROVE  \E f \in Files : f \notin Range(name) \cup Range(fd)
<1>1. SUFFICES ASSUME \A f \in Files : f \in Range(name) \cup Range(fd)
               PROVE  FALSE
  OBVIOUS
<1>2. 0 \notin Files
  BY CacheConstantsOK DEF Files
<1>3. Used = Files
  BY <1>1, <1>2, UsedFinite DEF Used
<1>4. s \in Unsaved /\ IsFiniteSet(Unsaved)
  BY DEF Unsaved, Pending, EnoughFiles
<1>5. Cardinality(Unsaved) \in Nat /\ Cardinality(Unsaved) # 0
  BY <1>4, FS_CardinalityType, FS_EmptySet
<1>6. /\ Cardinality(Used) = MaxStarts /\ MaxStarts \in Nat
      /\ starts \in 0..MaxStarts
  BY <1>3, UsedFinite, CacheConstantsOK DEF CacheTypeOK
<1>7. QED
  BY <1>5, <1>6 DEF EnoughFiles
-----------------------------------------------------------------------------
(***************************************************************************)
(* The steps of one server s that leave the files alone: what each does to *)
(* s itself, and that the others stand.                                    *)
(***************************************************************************)
Moves(s) ==
  /\ CacheTypeOK'
  /\ ServerOK(s)'
  /\ \A t \in Servers \ {s} : SameServer(t)

LEMMA StartMoves ==
  ASSUME IInv, NEW s \in Servers, Start(s)
  PROVE  Moves(s)
<1>1. CacheTypeOK /\ ServerOK(s)
  BY DEF IInv
<1>2. CacheTypeOK'
  BY <1>1, CacheConstantsOK DEF CacheTypeOK, Start, Goto, files, PCs, Pending
<1>3. ServerOK(s)'
  BY <1>1 DEF CacheTypeOK, Start, Goto, ServerOK, Saving, Fetching
<1>4. \A t \in Servers \ {s} : SameServer(t)
  BY <1>1 DEF CacheTypeOK, Start, Goto, SameServer
<1>5. QED
  BY <1>2, <1>3, <1>4 DEF Moves

LEMMA LoadMoves ==
  ASSUME IInv, NEW s \in Servers, Load(s)
  PROVE  Moves(s)
<1>1. CacheTypeOK /\ ServerOK(s)
  BY DEF IInv
<1>2. ASSUME Readable(name["cache"])
      PROVE  content[name["cache"]] \in WholeCaches
  <2>1. name["cache"] \in Files /\ IsCache(content[name["cache"]])
    BY <1>1, <1>2 DEF Readable, CacheTypeOK, Names
  <2>2. content[name["cache"]] \in WholeCaches \cup {Empty, Garbage}
    BY <1>1, <2>1 DEF CacheTypeOK
  <2>3. QED
    BY <2>1, <2>2 DEF IsCache, Empty, Garbage, NoCache
<1>3. \/ found'[s] \in WholeCaches /\ pc'[s] = "validate"
      \/ found'[s] = NoCache /\ pc'[s] = "levels"
  BY <1>1, <1>2 DEF CacheTypeOK, Load, Goto
<1>4. CacheTypeOK'
  <2>1. found' \in [Servers -> WholeCaches \cup {NoCache}]
    BY <1>1, <1>2 DEF CacheTypeOK, Load
  <2>2. pc' \in [Servers -> PCs]
    BY <1>1 DEF CacheTypeOK, Load, Goto, PCs, Pending
  <2>3. QED
    BY <1>1, <2>1, <2>2 DEF CacheTypeOK, Load, world, files
<1>5. ServerOK(s)'
  BY <1>1, <1>3 DEF CacheTypeOK, Load, world, files, ServerOK, Saving, Fetching
<1>6. \A t \in Servers \ {s} : SameServer(t)
  BY <1>1 DEF CacheTypeOK, Load, Goto, SameServer
<1>7. QED
  BY <1>4, <1>5, <1>6 DEF Moves

LEMMA UnreachableMoves ==
  ASSUME IInv, NEW s \in Servers, Unreachable(s)
  PROVE  Moves(s)
<1>1. CacheTypeOK /\ ServerOK(s) /\ pc[s] = "validate" /\ found[s] \in WholeCaches
  BY DEF IInv, ServerOK, Unreachable
<1>2. found[s].columns \in Columns
  BY <1>1 DEF WholeCaches, Caches
<1>3. CacheTypeOK'
  BY <1>1, <1>2 DEF CacheTypeOK, Unreachable, ServeCached, Goto, world, files, PCs, Pending
<1>4. ServerOK(s)'
  BY <1>1 DEF CacheTypeOK, Unreachable, ServeCached, Goto, ServerOK, Saving, Fetching
<1>5. \A t \in Servers \ {s} : SameServer(t)
  BY <1>1 DEF CacheTypeOK, Unreachable, ServeCached, Goto, SameServer
<1>6. QED
  BY <1>3, <1>4, <1>5 DEF Moves

LEMMA ValidateMoves ==
  ASSUME IInv, NEW s \in Servers, Validate(s)
  PROVE  Moves(s)
<1>1. CacheTypeOK /\ ServerOK(s) /\ pc[s] = "validate" /\ found[s] \in WholeCaches
  BY DEF IInv, ServerOK, Validate
<1>2. found[s].columns \in Columns
  BY <1>1 DEF WholeCaches, Caches
<1>3. PICK stamp \in {published, NoStamp}, cards \in {cardinality, Untold.cards} :
        /\ told' = [told EXCEPT ![s] = [stamp |-> stamp, cards |-> cards]]
        /\ \/ /\ Verdict(found[s], stamp, cards, now[s]) = "valid"
              /\ ServeCached(s, "validated")
           \/ Verdict(found[s], stamp, cards, now[s]) = "full" /\ Goto(s, "levels")
              /\ UNCHANGED columns
  BY VerdictFacts DEF Validate
<1>4. [stamp |-> stamp, cards |-> cards] \in [stamp : Nat, cards : [Levels -> Nat]]
  BY <1>1, <1>3 DEF CacheTypeOK, NoStamp, Untold
<1>5. /\ told' \in [Servers -> [stamp : Nat, cards : [Levels -> Nat]]]
      /\ told'[s].stamp = stamp
  BY <1>1, <1>3, <1>4 DEF CacheTypeOK
<1>6. /\ UNCHANGED <<clock, starts, changes, cardinality, published, name, content, now>>
      /\ UNCHANGED <<found, todo, fd, record, overlapped>>
  BY DEF Validate, world, files
<1>7. CASE ServeCached(s, "validated") /\ Verdict(found[s], stamp, cards, now[s]) = "valid"
  <2>1. /\ columns' = [columns EXCEPT ![s] = found[s].columns]
        /\ pc' = [pc EXCEPT ![s] = "validated"]
    BY <1>7 DEF ServeCached, Goto
  <2>2. CacheTypeOK'
    BY <1>1, <1>2, <1>5, <1>6, <2>1 DEF CacheTypeOK, PCs
  <2>3. ServesValid(s)'
    <3>1. /\ ~Expired(found[s], now[s]) /\ ~Republished(found[s], stamp)
      BY <1>7, VerdictFacts
    <3>2. columns'[s] = found[s].columns
      BY <1>1, <2>1 DEF CacheTypeOK
    <3>3. QED
      BY <1>1, <1>5, <1>6, <3>1, <3>2 DEF ServesValid
  <2>4. ServerOK(s)'
    BY <1>1, <1>6, <2>1, <2>3 DEF CacheTypeOK, ServerOK, Saving, Fetching
  <2>5. \A t \in Servers \ {s} : SameServer(t)
    BY <1>1, <1>3, <1>6, <2>1 DEF CacheTypeOK, SameServer
  <2>6. QED
    BY <2>2, <2>4, <2>5 DEF Moves
<1>8. CASE Goto(s, "levels") /\ UNCHANGED columns
  <2>1. pc' = [pc EXCEPT ![s] = "levels"] /\ columns' = columns
    BY <1>8 DEF Goto
  <2>2. CacheTypeOK'
    BY <1>1, <1>5, <1>6, <2>1 DEF CacheTypeOK, PCs, Pending
  <2>3. ServerOK(s)'
    BY <1>1, <1>6, <2>1 DEF CacheTypeOK, ServerOK, Saving, Fetching
  <2>4. \A t \in Servers \ {s} : SameServer(t)
    BY <1>1, <1>3, <1>6, <2>1 DEF CacheTypeOK, SameServer
  <2>5. QED
    BY <2>2, <2>3, <2>4 DEF Moves
<1>9. QED
  BY <1>3, <1>7, <1>8

LEMMA ReadLevelsMoves ==
  ASSUME IInv, NEW s \in Servers, ReadLevels(s)
  PROVE  Moves(s)
<1>1. /\ CacheTypeOK /\ ServerOK(s) /\ pc[s] = "levels"
      /\ \A l \in Levels : columns[s][l].read = -1
      /\ record[s] = NoCache
  BY DEF IInv, ServerOK, ReadLevels
<1>2. PICK cards \in {cardinality, Untold.cards} :
        /\ columns' = [columns EXCEPT ![s] =
             [l \in Levels |->
                IF cards[l] = 0 THEN columns[s][l]
                ELSE [columns[s][l] EXCEPT !.card = cards[l]]]]
        /\ todo' = [todo EXCEPT ![s] = ToFetch(cards)]
        /\ record' = [record EXCEPT ![s].model = published]
  BY <1>1 DEF ReadLevels, CacheTypeOK
<1>3. /\ UNCHANGED <<clock, starts, changes, cardinality, published, name, content, now>>
      /\ UNCHANGED <<fd, overlapped>>
      /\ found' = [found EXCEPT ![s] = NoCache]
      /\ told' = [told EXCEPT ![s] = Untold]
      /\ pc' = [pc EXCEPT ![s] = "members"]
  BY DEF ReadLevels, Goto, world, files
<1>4. cards \in [Levels -> Nat] /\ columns[s] \in Columns /\ published \in Nat
  BY <1>1, <1>2 DEF CacheTypeOK, Untold
<1>5. PICK cols : cols = [l \in Levels |->
                IF cards[l] = 0 THEN columns[s][l]
                ELSE [columns[s][l] EXCEPT !.card = cards[l]]]
  OBVIOUS
<1>6. cols \in Columns /\ \A l \in Levels : cols[l].read = -1
  BY <1>1, <1>4, <1>5 DEF Columns
<1>7. columns' = [columns EXCEPT ![s] = cols]
  BY <1>2, <1>5
<1>8. /\ record'[s].model = published /\ record'[s] \in Drafts
      /\ record' \in [Servers -> WholeCaches \cup Drafts]
      /\ \A t \in Servers \ {s} : record'[t] = record[t]
  <2>1. record' = [record EXCEPT ![s] = [NoCache EXCEPT !.model = published]]
    BY <1>1, <1>2 DEF CacheTypeOK
  <2>2. [NoCache EXCEPT !.model = published] \in Drafts
    BY <1>4 DEF NoCache, Drafts
  <2>3. [NoCache EXCEPT !.model = published].model = published
    BY DEF NoCache
  <2>4. QED
    BY <1>1, <2>1, <2>2, <2>3 DEF CacheTypeOK
<1>9. todo' \in [Servers -> SUBSET Levels]
  <2>1. ToFetch(cards) \subseteq Levels
    BY DEF ToFetch
  <2>2. QED
    BY <1>1, <1>2, <2>1 DEF CacheTypeOK
<1>10. told' \in [Servers -> [stamp : Nat, cards : [Levels -> Nat]]]
  <2>1. Untold \in [stamp : Nat, cards : [Levels -> Nat]]
    BY DEF Untold, NoStamp
  <2>2. QED
    BY <1>1, <1>3, <2>1 DEF CacheTypeOK
<1>11. CacheTypeOK'
  BY <1>1, <1>3, <1>6, <1>7, <1>8, <1>9, <1>10 DEF CacheTypeOK, PCs, Pending
<1>12. ServerOK(s)'
  <2>1. columns'[s] = cols /\ pc'[s] = "members" /\ fd'[s] = fd[s]
    BY <1>1, <1>3, <1>7 DEF CacheTypeOK
  <2>2. ReadSince(columns'[s], now'[s])
    BY <1>6, <2>1 DEF ReadSince
  <2>3. record'[s].model <= published'
    BY <1>3, <1>4, <1>8
  <2>4. fd'[s] = 0
    BY <1>1, <2>1 DEF ServerOK, Saving
  <2>5. QED
    BY <2>1, <2>2, <2>3, <2>4 DEF ServerOK, Saving, Fetching
<1>13. \A t \in Servers \ {s} : SameServer(t)
  BY <1>1, <1>3, <1>7, <1>8 DEF CacheTypeOK, SameServer
<1>14. QED
  BY <1>11, <1>12, <1>13 DEF Moves

LEMMA FetchMembersMoves ==
  ASSUME IInv, NEW s \in Servers, NEW l \in Levels, FetchMembers(s, l)
  PROVE  Moves(s)
<1>1. /\ CacheTypeOK /\ ServerOK(s) /\ pc[s] = "members"
      /\ ReadSince(columns[s], now[s])
      /\ columns[s] \in Columns /\ now[s] \in 0..clock /\ clock \in Nat
  BY DEF IInv, ServerOK, FetchMembers, Fetching, CacheTypeOK
<1>2. PICK cols : cols = [columns[s] EXCEPT ![l].read = clock]
  OBVIOUS
<1>3. cols \in Columns /\ ReadSince(cols, now[s])
  BY <1>1, <1>2 DEF Columns, ReadSince
<1>4. columns' = [columns EXCEPT ![s] = cols] \/ columns' = columns
  BY <1>1, <1>2 DEF FetchMembers, CacheTypeOK
<1>5. columns'[s] \in {cols, columns[s]} /\ columns' \in [Servers -> Columns]
      /\ \A t \in Servers \ {s} : columns'[t] = columns[t]
  BY <1>1, <1>3, <1>4 DEF CacheTypeOK
<1>6. /\ UNCHANGED <<clock, starts, changes, cardinality, published, name, content, now>>
      /\ UNCHANGED <<pc, found, told, fd, record, overlapped>>
      /\ todo' \in [Servers -> SUBSET Levels]
  BY <1>1 DEF FetchMembers, world, files, CacheTypeOK
<1>7. CacheTypeOK'
  BY <1>1, <1>5, <1>6 DEF CacheTypeOK
<1>8. ServerOK(s)'
  <2>1. ReadSince(columns'[s], now'[s])
    BY <1>1, <1>3, <1>5, <1>6
  <2>2. QED
    BY <1>1, <1>6, <2>1 DEF ServerOK, Saving, Fetching
<1>9. \A t \in Servers \ {s} : SameServer(t)
  BY <1>5, <1>6 DEF SameServer
<1>10. QED
  BY <1>7, <1>8, <1>9 DEF Moves
-----------------------------------------------------------------------------
(***************************************************************************)
(* The steps that write files.                                             *)
(***************************************************************************)
\* The file that a save cuts to nothing: the sibling, or one nobody uses.
SaveFile ==
  IF name["tmp"] # 0 THEN name["tmp"]
  ELSE CHOOSE f \in Files : f \notin Range(name) \cup Range(fd)

LEMMA SaveFileFacts ==
  ASSUME CacheTypeOK, EnoughFiles, NEW s \in Servers, Save(s)
  PROVE  /\ SaveFile \in Files
         /\ name["tmp"] # 0 => SaveFile = name["tmp"]
         /\ name["tmp"] = 0 => SaveFile \notin Range(name) \cup Range(fd)
         /\ name' = [name EXCEPT !["tmp"] = SaveFile]
         /\ content' = [content EXCEPT ![SaveFile] = Empty]
         /\ fd' = [fd EXCEPT ![s] = SaveFile]
<1>1. name["tmp"] \in Files \cup {0} /\ pc[s] = "members"
  BY DEF CacheTypeOK, Names, Save
<1>2. \E f \in Files : f \notin Range(name) \cup Range(fd)
  BY <1>1, FreshFile
<1>3. QED
  BY <1>1, <1>2 DEF SaveFile, Save, Target

LEMMA SaveMoves ==
  ASSUME IInv, NEW s \in Servers, Save(s)
  PROVE  Moves(s)
<1>1. /\ CacheTypeOK /\ ServerOK(s) /\ EnoughFiles /\ pc[s] = "members"
      /\ ReadSince(columns[s], now[s]) /\ record[s].model <= published
      /\ columns[s] \in Columns /\ now[s] \in Nat /\ published \in Nat
      /\ record[s].model \in Nat
  <2>1. CacheTypeOK /\ ServerOK(s) /\ EnoughFiles /\ pc[s] = "members"
    BY DEF IInv, Save
  <2>2. /\ ReadSince(columns[s], now[s]) /\ record[s].model <= published
        /\ columns[s] \in Columns /\ now[s] \in Nat /\ published \in Nat
    BY <2>1 DEF ServerOK, Fetching, CacheTypeOK
  <2>3. record[s] \in WholeCaches \cup Drafts
    BY <2>1 DEF CacheTypeOK
  <2>4. record[s].model \in Nat
    BY <2>3 DEF WholeCaches, Caches, Drafts
  <2>5. QED
    BY <2>1, <2>2, <2>4
<1> DEFINE Whole(stamp) == [stamp |-> stamp, at |-> now[s], model |-> record[s].model,
                            columns |-> columns[s]]
<1>2. PICK stamp \in {published, NoStamp} : record' = [record EXCEPT ![s] = Whole(stamp)]
  BY <1>1 DEF Save, CapturedAt, CacheTypeOK
<1> DEFINE whole == Whole(stamp)
<1>3. whole \in WholeCaches
  BY <1>1, <1>2 DEF WholeCaches, Caches, NoStamp
<1>4. /\ SaveFile \in Files /\ SaveFile # 0
      /\ name' = [name EXCEPT !["tmp"] = SaveFile]
      /\ content' = [content EXCEPT ![SaveFile] = Empty]
      /\ fd' = [fd EXCEPT ![s] = SaveFile]
  BY <1>1, SaveFileFacts, CacheConstantsOK DEF Files
<1>5. /\ UNCHANGED <<clock, starts, changes, cardinality, published, now, found, told>>
      /\ UNCHANGED <<columns, todo>>
      /\ pc' = [pc EXCEPT ![s] = "write"]
  BY DEF Save, Goto, world
<1>6. overlapped' \in BOOLEAN
  BY DEF Save
<1>7. /\ name' \in [Names -> Files \cup {0}]
      /\ content' \in [Files -> WholeCaches \cup {Empty, Garbage}]
      /\ fd' \in [Servers -> Files \cup {0}]
      /\ record' \in [Servers -> WholeCaches \cup Drafts]
  BY <1>1, <1>2, <1>3, <1>4 DEF CacheTypeOK
<1>8. CacheTypeOK'
  BY <1>1, <1>5, <1>6, <1>7 DEF CacheTypeOK, PCs
<1>9. ServerOK(s)'
  <2>1. record'[s] \in WholeCaches /\ fd'[s] # 0 /\ pc'[s] = "write"
    BY <1>1, <1>2, <1>3, <1>4, <1>5 DEF CacheTypeOK
  <2>2. ReadSince(columns'[s], now'[s])
    BY <1>1, <1>5
  <2>3. QED
    BY <2>1, <2>2 DEF ServerOK, Saving, Fetching
<1>10. \A t \in Servers \ {s} : SameServer(t)
  BY <1>1, <1>2, <1>4, <1>5 DEF CacheTypeOK, SameServer
<1>11. QED
  BY <1>8, <1>9, <1>10 DEF Moves

LEMMA DraftIsNone == NoCache \in Drafts
BY DEF NoCache, Drafts, NoStamp

LEMMA WriteMoves ==
  ASSUME IInv, NEW s \in Servers, Write(s)
  PROVE  Moves(s)
<1>1. /\ CacheTypeOK /\ ServerOK(s) /\ pc[s] = "write"
      /\ record[s] \in WholeCaches /\ ReadSince(columns[s], now[s])
  BY DEF IInv, ServerOK, Write, Saving, Fetching
<1>2. /\ UNCHANGED <<clock, starts, changes, cardinality, published, name, now, found>>
      /\ UNCHANGED <<told, columns, todo, overlapped>>
  BY DEF Write, world
<1>3. content' \in [Files -> WholeCaches \cup {Empty, Garbage}]
  BY <1>1 DEF Write, CacheTypeOK
<1>4. \/ pc' = [pc EXCEPT ![s] = "rename"] /\ fd' = fd /\ record' = record
      \/ /\ pc' = [pc EXCEPT ![s] = "ingested"]
         /\ fd' = [fd EXCEPT ![s] = 0] /\ record' = [record EXCEPT ![s] = NoCache]
  BY DEF Write, Goto, Saved
<1>5. CacheTypeOK'
  <2>1. /\ fd' \in [Servers -> Files \cup {0}]
        /\ record' \in [Servers -> WholeCaches \cup Drafts]
        /\ pc' \in [Servers -> PCs]
    <3>1. CASE pc' = [pc EXCEPT ![s] = "rename"] /\ fd' = fd /\ record' = record
      BY <1>1, <3>1 DEF CacheTypeOK, PCs
    <3>2. CASE /\ pc' = [pc EXCEPT ![s] = "ingested"]
               /\ fd' = [fd EXCEPT ![s] = 0] /\ record' = [record EXCEPT ![s] = NoCache]
      BY <1>1, <3>2, DraftIsNone DEF CacheTypeOK, PCs
    <3>3. QED
      BY <1>4, <3>1, <3>2
  <2>2. QED
    BY <1>1, <1>2, <1>3, <2>1 DEF CacheTypeOK
<1>6. ServerOK(s)'
  BY <1>1, <1>2, <1>4 DEF CacheTypeOK, ServerOK, Saving, Fetching
<1>7. \A t \in Servers \ {s} : SameServer(t)
  BY <1>1, <1>2, <1>4 DEF CacheTypeOK, SameServer
<1>8. QED
  BY <1>5, <1>6, <1>7 DEF Moves

LEMMA RenameMoves ==
  ASSUME IInv, NEW s \in Servers, Rename(s)
  PROVE  Moves(s)
<1>1. /\ CacheTypeOK /\ ServerOK(s) /\ pc[s] = "rename"
      /\ ReadSince(columns[s], now[s])
  BY DEF IInv, ServerOK, Rename, Fetching
<1>2. /\ UNCHANGED <<clock, starts, changes, cardinality, published, now, found>>
      /\ UNCHANGED <<told, columns, todo, overlapped>>
      /\ pc' = [pc EXCEPT ![s] = "ingested"]
      /\ fd' = [fd EXCEPT ![s] = 0] /\ record' = [record EXCEPT ![s] = NoCache]
  BY DEF Rename, world, Goto, Saved
<1>3. content' \in [Files -> WholeCaches \cup {Empty, Garbage}]
  BY <1>1 DEF Rename, CacheTypeOK
<1>4. name' \in [Names -> Files \cup {0}]
  BY <1>1 DEF Rename, CacheTypeOK, Names
<1>5. CacheTypeOK'
  <2>1. /\ fd' \in [Servers -> Files \cup {0}]
        /\ record' \in [Servers -> WholeCaches \cup Drafts]
        /\ pc' \in [Servers -> PCs]
    BY <1>1, <1>2, DraftIsNone DEF CacheTypeOK, PCs
  <2>2. QED
    BY <1>1, <1>2, <1>3, <1>4, <2>1 DEF CacheTypeOK
<1>6. ServerOK(s)'
  BY <1>1, <1>2 DEF CacheTypeOK, ServerOK, Saving, Fetching
<1>7. \A t \in Servers \ {s} : SameServer(t)
  BY <1>1, <1>2 DEF CacheTypeOK, SameServer
<1>8. QED
  BY <1>5, <1>6, <1>7 DEF Moves

LEMMA StopMoves ==
  ASSUME IInv, NEW s \in Servers, Stop(s)
  PROVE  Moves(s)
<1>1. CacheTypeOK /\ ServerOK(s)
  BY DEF IInv
<1>2. /\ UNCHANGED <<clock, starts, changes, cardinality, published, name, content>>
      /\ UNCHANGED overlapped
      /\ pc' = [pc EXCEPT ![s] = "off"]
      /\ now' = [now EXCEPT ![s] = 0]
      /\ found' = [found EXCEPT ![s] = NoCache]
      /\ told' = [told EXCEPT ![s] = Untold]
      /\ columns' = [columns EXCEPT ![s] = Snapshot]
      /\ todo' = [todo EXCEPT ![s] = {}]
      /\ fd' = [fd EXCEPT ![s] = 0] /\ record' = [record EXCEPT ![s] = NoCache]
  BY DEF Stop, world, files, Goto, Saved
<1>3. /\ Snapshot \in Columns /\ \A l \in Levels : Snapshot[l].read = -1
      /\ Untold \in [stamp : Nat, cards : [Levels -> Nat]]
  BY DEF Snapshot, Columns, Untold, NoStamp
<1>4. CacheTypeOK'
  <2>1. /\ fd' \in [Servers -> Files \cup {0}]
        /\ record' \in [Servers -> WholeCaches \cup Drafts]
        /\ pc' \in [Servers -> PCs]
        /\ now' \in [Servers -> 0..clock]
    BY <1>1, <1>2, DraftIsNone DEF CacheTypeOK, PCs
  <2>2. /\ found' \in [Servers -> WholeCaches \cup {NoCache}]
        /\ told' \in [Servers -> [stamp : Nat, cards : [Levels -> Nat]]]
        /\ columns' \in [Servers -> Columns]
        /\ todo' \in [Servers -> SUBSET Levels]
    BY <1>1, <1>2, <1>3 DEF CacheTypeOK
  <2>3. QED
    BY <1>1, <1>2, <2>1, <2>2 DEF CacheTypeOK
<1>5. ServerOK(s)'
  BY <1>1, <1>2, <1>3 DEF CacheTypeOK, ServerOK, Saving, Fetching
<1>6. \A t \in Servers \ {s} : SameServer(t)
  BY <1>1, <1>2 DEF CacheTypeOK, SameServer
<1>7. QED
  BY <1>4, <1>5, <1>6 DEF Moves

\* What happens on the cluster, and the passing of time.
Elsewhere == DataLoad \/ Republish \/ Tick \/ UNCHANGED vars

LEMMA ElsewhereMoves ==
  ASSUME IInv, Elsewhere
  PROVE  /\ CacheTypeOK'
         /\ \A t \in Servers : SameServer(t)
         /\ published' \in Nat /\ published <= published'
<1>1. CacheTypeOK
  BY DEF IInv
<1>2. /\ UNCHANGED <<starts, name, content, pc, now, found, told, columns, todo, fd>>
      /\ UNCHANGED <<record, overlapped>>
      /\ clock' \in {clock, clock + 1} /\ changes' \in {changes, changes + 1}
      /\ published' \in {published, published + 1}
  BY DEF Elsewhere, DataLoad, Republish, Tick, vars, world, files
<1>3. cardinality' \in [Levels -> Nat]
  BY <1>1, CacheConstantsOK
     DEF Elsewhere, DataLoad, Republish, Tick, vars, world, CacheTypeOK
<1>4. clock' \in Nat /\ clock <= clock' /\ changes' \in Nat /\ published' \in Nat
      /\ published <= published'
  BY <1>1, <1>2 DEF CacheTypeOK
<1>5. now' \in [Servers -> 0..clock']
  BY <1>1, <1>2, <1>4 DEF CacheTypeOK
<1>6. CacheTypeOK'
  BY <1>1, <1>2, <1>3, <1>4, <1>5 DEF CacheTypeOK
<1>7. QED
  BY <1>2, <1>4, <1>6 DEF SameServer

\* Each step of a server moves it alone.
ServerStep(s) ==
  \/ Start(s) \/ Load(s) \/ Unreachable(s) \/ Validate(s)
  \/ ReadLevels(s) \/ \E l \in Levels : FetchMembers(s, l)
  \/ Save(s) \/ Write(s) \/ Rename(s) \/ Stop(s)

LEMMA ServerMoves ==
  ASSUME IInv, NEW s \in Servers, ServerStep(s)
  PROVE  Moves(s)
BY StartMoves, LoadMoves, UnreachableMoves, ValidateMoves, ReadLevelsMoves, FetchMembersMoves,
   SaveMoves, WriteMoves, RenameMoves, StopMoves DEF ServerStep

LEMMA AllServersOK ==
  ASSUME IInv, [Next]_vars
  PROVE  CacheTypeOK' /\ \A t \in Servers : ServerOK(t)'
<1>1. CacheTypeOK /\ \A t \in Servers : ServerOK(t)
  BY DEF IInv
<1>2. CASE Elsewhere
  BY <1>1, <1>2, ElsewhereMoves, OtherServer
<1>3. ASSUME NEW s \in Servers, ServerStep(s)
      PROVE  CacheTypeOK' /\ \A t \in Servers : ServerOK(t)'
  <2>1. Moves(s)
    BY <1>3, ServerMoves
  <2>2. published' = published /\ published \in Nat
    BY <1>1, <1>3 DEF ServerStep, Start, Load, Unreachable, Validate, ReadLevels, FetchMembers,
       Save, Write, Rename, Stop, world, CacheTypeOK
  <2>3. \A t \in Servers \ {s} : ServerOK(t)'
    BY <1>1, <2>1, <2>2, OtherServer DEF Moves
  <2>4. QED
    BY <2>1, <2>3 DEF Moves
<1>4. QED
  BY <1>2, <1>3 DEF Next, Elsewhere, ServerStep
-----------------------------------------------------------------------------
(***************************************************************************)
(* The files.                                                              *)
(***************************************************************************)
\* A start takes one of the MaxStarts files there can be, for later.
LEMMA StartFiles ==
  ASSUME IInv, NEW s \in Servers, Start(s)
  PROVE  EnoughFiles' /\ (~overlapped' => Alone')
<1>1. CacheTypeOK /\ EnoughFiles /\ (~overlapped => Alone)
  BY DEF IInv
<1>2. /\ UNCHANGED <<name, content, fd, overlapped>> /\ starts' = starts + 1
      /\ pc[s] = "off" /\ pc' = [pc EXCEPT ![s] = "load"]
  BY DEF Start, Goto, files
<1>3. Used' = Used /\ Cardinality(Used) \in Nat
  BY <1>1, <1>2, UsedFinite DEF Used
<1>4. Unsaved' = Unsaved \cup {s} /\ s \notin Unsaved
  BY <1>1, <1>2 DEF Unsaved, Pending, CacheTypeOK
<1>5. /\ IsFiniteSet(Unsaved) /\ Cardinality(Unsaved) \in Nat
      /\ IsFiniteSet(Unsaved') /\ Cardinality(Unsaved') = Cardinality(Unsaved) + 1
  BY <1>1, <1>4, FS_AddElement, FS_CardinalityType DEF EnoughFiles
<1>6. EnoughFiles'
  <2>1. starts \in Nat
    BY <1>1, CacheConstantsOK DEF CacheTypeOK
  <2>2. QED
    BY <1>1, <1>2, <1>3, <1>5, <2>1 DEF EnoughFiles
<1>7. ~overlapped' => Alone'
  BY <1>1, <1>2, AloneKept DEF CacheTypeOK, Saving
<1>8. QED
  BY <1>6, <1>7

\* The steps that neither make a file nor rename one.
LEMMA QuietFiles ==
  ASSUME IInv, NEW s \in Servers,
         \/ Load(s) \/ Unreachable(s) \/ Validate(s) \/ ReadLevels(s)
         \/ \E l \in Levels : FetchMembers(s, l)
         \/ Stop(s)
  PROVE  EnoughFiles' /\ (~overlapped' => Alone')
<1>1. CacheTypeOK /\ EnoughFiles /\ (~overlapped => Alone)
  BY DEF IInv
<1>2. UNCHANGED <<name, content, overlapped, starts>>
  BY DEF Load, Unreachable, Validate, ReadLevels, FetchMembers, Stop, files, world
<1>3. \/ fd' = fd /\ \E step \in Pending \cup {"unvalidated", "validated"} :
                       pc[s] \in Pending /\ pc' = [pc EXCEPT ![s] = step]
      \/ fd' = fd /\ pc' = pc
      \/ fd' = [fd EXCEPT ![s] = 0] /\ pc' = [pc EXCEPT ![s] = "off"]
  BY <1>1 DEF Load, Unreachable, Validate, ReadLevels, FetchMembers, Stop, ServeCached, Goto, Saved,
              Pending
<1>4. \A t \in Servers : Saving(t)' => pc'[t] = pc[t] /\ fd'[t] = fd[t]
  BY <1>1, <1>3 DEF Saving, Pending, CacheTypeOK
<1>5. \A t \in Servers : pc'[t] \in Pending => pc[t] \in Pending
  BY <1>1, <1>3 DEF Pending, CacheTypeOK
<1>6. Used' \subseteq Used
  <2>1. Range(fd') \subseteq Range(fd) \cup {0}
    BY <1>1, <1>3 DEF Range, CacheTypeOK
  <2>2. QED
    BY <1>2, <2>1 DEF Used
<1>7. QED
  BY <1>1, <1>2, <1>4, <1>5, <1>6, AloneKept, EnoughKept

LEMMA ElsewhereFiles ==
  ASSUME IInv, Elsewhere
  PROVE  EnoughFiles' /\ (~overlapped' => Alone')
<1>1. CacheTypeOK /\ EnoughFiles /\ (~overlapped => Alone)
  BY DEF IInv
<1>2. UNCHANGED <<name, content, fd, pc, overlapped, starts>>
  BY DEF Elsewhere, DataLoad, Republish, Tick, vars, world, files
<1>3. Used' = Used
  BY <1>2 DEF Used
<1>4. QED
  BY <1>1, <1>2, <1>3, AloneKept, EnoughKept

\* A save makes at most one file, and is alone unless it notes the overlap.
LEMMA SaveFiles ==
  ASSUME IInv, NEW s \in Servers, Save(s)
  PROVE  EnoughFiles' /\ (~overlapped' => Alone')
<1>1. CacheTypeOK /\ EnoughFiles /\ (~overlapped => Alone) /\ pc[s] = "members"
  BY DEF IInv, Save
<1>2. /\ SaveFile \in Files /\ SaveFile # 0
      /\ name["tmp"] # 0 => SaveFile = name["tmp"]
      /\ name["tmp"] = 0 => SaveFile \notin Range(name) \cup Range(fd)
      /\ name' = [name EXCEPT !["tmp"] = SaveFile]
      /\ content' = [content EXCEPT ![SaveFile] = Empty]
      /\ fd' = [fd EXCEPT ![s] = SaveFile]
  BY <1>1, SaveFileFacts, CacheConstantsOK DEF Files
<1>3. /\ starts' = starts /\ pc' = [pc EXCEPT ![s] = "write"]
      /\ overlapped' = (overlapped \/ \E t \in Servers : Saving(t))
  BY DEF Save, world, Goto
<1>4. EnoughFiles'
  <2>1. Used' \subseteq Used \cup {SaveFile}
    BY <1>1, <1>2 DEF Used, Range, CacheTypeOK, Names
  <2>2. /\ IsFiniteSet(Used) /\ Cardinality(Used) \in Nat
        /\ IsFiniteSet(Used \cup {SaveFile})
        /\ Cardinality(Used \cup {SaveFile}) \in Nat
        /\ Cardinality(Used \cup {SaveFile}) <= Cardinality(Used) + 1
    <3>1. IsFiniteSet(Used) /\ Cardinality(Used) \in Nat
      BY <1>1, UsedFinite
    <3>2. /\ IsFiniteSet(Used \cup {SaveFile})
          /\ \/ Cardinality(Used \cup {SaveFile}) = Cardinality(Used)
             \/ Cardinality(Used \cup {SaveFile}) = Cardinality(Used) + 1
      BY <3>1, FS_AddElement, Zenon
    <3>3. QED
      BY <3>1, <3>2
  <2>3. IsFiniteSet(Used') /\ Cardinality(Used') \in Nat
        /\ Cardinality(Used') <= Cardinality(Used) + 1
    <3>1. IsFiniteSet(Used') /\ Cardinality(Used') <= Cardinality(Used \cup {SaveFile})
      BY <2>1, <2>2, FS_Subset
    <3>2. Cardinality(Used') \in Nat
      BY <3>1, FS_CardinalityType
    <3>3. QED
      BY <2>2, <3>1, <3>2
  <2>4. Unsaved' = Unsaved \ {s} /\ s \in Unsaved
    BY <1>1, <1>3 DEF Unsaved, Pending, CacheTypeOK
  <2>5. /\ IsFiniteSet(Unsaved') /\ Cardinality(Unsaved) \in Nat
        /\ Cardinality(Unsaved') = Cardinality(Unsaved) - 1
    BY <1>1, <2>4, FS_RemoveElement, FS_CardinalityType DEF EnoughFiles
  <2>6. starts \in Nat
    BY <1>1, CacheConstantsOK DEF CacheTypeOK
  <2>7. QED
    BY <1>1, <1>3, <2>2, <2>3, <2>5, <2>6 DEF EnoughFiles
<1>5. ASSUME ~overlapped' PROVE Alone'
  <2>1. Alone /\ \A t \in Servers : ~Saving(t)
    BY <1>1, <1>3, <1>5
  <2>2. \A t \in Servers : Saving(t)' => t = s
    BY <1>1, <1>3, <2>1 DEF Saving, CacheTypeOK
  <2>3. /\ pc'[s] = "write" /\ fd'[s] = SaveFile /\ name'["tmp"] = SaveFile
        /\ name'["cache"] = name["cache"] /\ content'[SaveFile] = Empty
    BY <1>1, <1>2, <1>3 DEF CacheTypeOK, Names
  <2>4. name["cache"] # 0 => name["cache"] # SaveFile
    BY <1>1, <1>2, <2>1 DEF Alone, Range, CacheTypeOK, Names
  <2>5. \A t \in Servers : pc'[t] \in {"write", "rename"} => t = s
    BY <2>2 DEF Saving
  <2>6. QED
    BY <2>2, <2>3, <2>4, <2>5 DEF Alone
<1>6. QED
  BY <1>4, <1>5

LEMMA WriteFiles ==
  ASSUME IInv, NEW s \in Servers, Write(s)
  PROVE  EnoughFiles' /\ (~overlapped' => Alone')
<1>1. /\ CacheTypeOK /\ EnoughFiles /\ (~overlapped => Alone) /\ pc[s] = "write"
      /\ record[s] \in WholeCaches /\ fd[s] \in Files
  BY DEF IInv, Write, ServerOK, Saving, CacheTypeOK
<1>2. UNCHANGED <<name, starts, overlapped>>
  BY DEF Write, world
<1>3. \/ /\ pc' = [pc EXCEPT ![s] = "rename"] /\ fd' = fd
         /\ \/ content' = [content EXCEPT ![fd[s]] = record[s]]
            \/ content[fd[s]] # Empty
      \/ pc' = [pc EXCEPT ![s] = "ingested"] /\ fd' = [fd EXCEPT ![s] = 0]
  BY DEF Write, Goto, Saved
<1>4. \A t \in Servers : pc'[t] \in Pending => pc[t] \in Pending
  BY <1>1, <1>3 DEF Pending, CacheTypeOK
<1>5. Used' \subseteq Used
  <2>1. Range(fd') \subseteq Range(fd) \cup {0}
    BY <1>1, <1>3 DEF Range, CacheTypeOK
  <2>2. QED
    BY <1>2, <2>1 DEF Used
<1>6. ASSUME ~overlapped' PROVE Alone'
  <2>1. Alone /\ content[fd[s]] = Empty /\ name["tmp"] = fd[s]
    BY <1>1, <1>2, <1>6 DEF Alone, Saving
  <2>2. \A t \in Servers : Saving(t)' => t = s
    BY <1>1, <1>3, <2>1 DEF Alone, Saving, CacheTypeOK
  <2>3. CASE /\ pc' = [pc EXCEPT ![s] = "rename"] /\ fd' = fd
             /\ content' = [content EXCEPT ![fd[s]] = record[s]]
    <3>1. pc'[s] = "rename" /\ content'[fd'[s]] = record[s]
      BY <1>1, <2>3 DEF CacheTypeOK
    <3>2. IsCache(content'[fd'[s]])
      BY <1>1, <3>1 DEF IsCache, WholeCaches, Caches
    <3>3. \A t \in Servers : pc'[t] \in {"write", "rename"} => t = s
      BY <2>2 DEF Saving
    <3>4. QED
      BY <1>2, <2>1, <2>2, <2>3, <3>1, <3>2, <3>3 DEF Alone
  <2>4. CASE pc' = [pc EXCEPT ![s] = "ingested"]
    <3>1. \A t \in Servers : ~Saving(t)' /\ pc'[t] \notin {"write", "rename"}
      BY <1>1, <2>2, <2>4 DEF Saving, CacheTypeOK
    <3>2. QED
      BY <1>2, <2>1, <3>1 DEF Alone
  <2>5. QED
    BY <1>3, <2>1, <2>3, <2>4
<1>7. QED
  BY <1>1, <1>2, <1>4, <1>5, <1>6, EnoughKept

LEMMA RenameFiles ==
  ASSUME IInv, NEW s \in Servers, Rename(s)
  PROVE  EnoughFiles' /\ (~overlapped' => Alone')
<1>1. CacheTypeOK /\ EnoughFiles /\ (~overlapped => Alone) /\ pc[s] = "rename"
  BY DEF IInv, Rename
<1>2. /\ UNCHANGED <<starts, overlapped>>
      /\ pc' = [pc EXCEPT ![s] = "ingested"] /\ fd' = [fd EXCEPT ![s] = 0]
      /\ name'["tmp"] = 0 /\ name'["cache"] \in {name["cache"], name["tmp"]}
      /\ name' \in [Names -> Files \cup {0}]
  BY <1>1 DEF Rename, world, Goto, Saved, CacheTypeOK, Names
<1>3. \A t \in Servers : pc'[t] \in Pending => pc[t] \in Pending
  BY <1>1, <1>2 DEF Pending, CacheTypeOK
<1>4. Used' \subseteq Used
  <2>1. Range(fd') \subseteq Range(fd) \cup {0}
    BY <1>1, <1>2 DEF Range, CacheTypeOK
  <2>2. Range(name') \subseteq Range(name) \cup {0}
    BY <1>1, <1>2 DEF Range, CacheTypeOK, Names
  <2>3. QED
    BY <2>1, <2>2 DEF Used
<1>5. ASSUME ~overlapped' PROVE Alone'
  <2>1. Alone
    BY <1>1, <1>2, <1>5
  <2>2. \A t \in Servers : ~Saving(t)' /\ pc'[t] \notin {"write", "rename"}
    BY <1>1, <1>2, <2>1 DEF Alone, Saving, CacheTypeOK
  <2>3. QED
    BY <1>2, <2>2 DEF Alone
<1>6. QED
  BY <1>1, <1>2, <1>3, <1>4, <1>5, EnoughKept

-----------------------------------------------------------------------------
LEMMA InitInvariant == Init => IInv
<1> SUFFICES ASSUME Init PROVE IInv
  OBVIOUS
<1>1. CacheTypeOK
  <2>1. NoCache \in Drafts /\ Snapshot \in Columns
        /\ Untold \in [stamp : Nat, cards : [Levels -> Nat]]
    BY DraftIsNone DEF Snapshot, Columns, Untold, NoStamp
  <2>2. /\ MaxStarts \in Nat /\ Cardinalities \subseteq Nat
    BY CacheConstantsOK
  <2>3. /\ clock \in Nat /\ starts \in 0..MaxStarts /\ changes \in Nat /\ published \in Nat
        /\ cardinality \in [Levels -> Nat] /\ overlapped \in BOOLEAN
        /\ now \in [Servers -> 0..clock]
    <3>1. /\ clock = 0 /\ starts = 0 /\ changes = 0 /\ published = 1 /\ overlapped = FALSE
          /\ cardinality \in [Levels -> Cardinalities]
          /\ now = [s \in Servers |-> 0]
      BY DEF Init
    <3>2. cardinality \in [Levels -> Nat]
      BY <2>2, <3>1
    <3>3. now \in [Servers -> 0..clock]
      BY <3>1
    <3>4. overlapped \in BOOLEAN
      BY <3>1
    <3>5. QED
      BY <2>2, <3>1, <3>2, <3>3, <3>4
  <2>4. /\ name \in [Names -> Files \cup {0}]
        /\ content \in [Files -> WholeCaches \cup {Empty, Garbage}]
        /\ fd \in [Servers -> Files \cup {0}]
        /\ todo \in [Servers -> SUBSET Levels]
        /\ pc \in [Servers -> PCs]
    BY DEF Init, PCs
  <2>5. /\ found \in [Servers -> WholeCaches \cup {NoCache}]
        /\ told \in [Servers -> [stamp : Nat, cards : [Levels -> Nat]]]
        /\ columns \in [Servers -> Columns]
        /\ record \in [Servers -> WholeCaches \cup Drafts]
    BY <2>1 DEF Init
  <2>6. QED
    BY <2>3, <2>4, <2>5 DEF CacheTypeOK
<1>2. \A s \in Servers : ServerOK(s)
  BY DEF Init, ServerOK, Saving, Fetching, Snapshot
<1>3. EnoughFiles
  <2>1. Used = {} /\ Unsaved = {}
    BY DEF Init, Used, Unsaved, Pending, Range
  <2>2. starts = 0
    BY DEF Init
  <2>3. QED
    BY <2>1, <2>2, FS_EmptySet DEF EnoughFiles
<1>4. Alone
  BY DEF Init, Alone, Saving, Names
<1>5. QED
  BY <1>1, <1>2, <1>3, <1>4 DEF IInv

LEMMA StepInvariant == IInv /\ [Next]_vars => IInv'
<1> SUFFICES ASSUME IInv, [Next]_vars PROVE IInv'
  OBVIOUS
<1>1. CacheTypeOK' /\ \A t \in Servers : ServerOK(t)'
  BY AllServersOK
<1>2. EnoughFiles' /\ (~overlapped' => Alone')
  BY StartFiles, QuietFiles, ElsewhereFiles, SaveFiles, WriteFiles, RenameFiles
     DEF Next, Elsewhere
<1>3. QED
  BY <1>1, <1>2 DEF IInv

LEMMA Invariance == Spec => []IInv
BY InitInvariant, StepInvariant, PTL DEF Spec

-----------------------------------------------------------------------------
\* Every variable keeps its type; a file holds a whole cache or no cache.
THEOREM TypeCorrect == Spec => []CacheTypeOK
<1>1. IInv => CacheTypeOK
  BY DEF IInv
<1>2. QED
  BY <1>1, Invariance, PTL

(***************************************************************************)
(* A server that reached the cluster serves no members that were read more *)
(* than the TTL before it started, however the cache came about.           *)
(***************************************************************************)
THEOREM StaleOnlyWithinTtl == Spec => []StaleWithinTtl
<1>1. IInv => StaleWithinTtl
  <2> SUFFICES ASSUME IInv, NEW s \in Servers, NEW l \in Levels,
                      pc[s] \in {"validated", "ingested"}, columns[s][l].read # -1
               PROVE  columns[s][l].read >= now[s] - Ttl
    BY DEF StaleWithinTtl
  <2>1. CacheTypeOK /\ ServerOK(s)
    BY DEF IInv
  <2>2. now[s] \in Nat /\ columns[s][l].read \in Nat /\ Ttl \in Nat
    BY <2>1, CacheConstantsOK DEF CacheTypeOK, Columns
  <2>3. CASE pc[s] = "ingested"
    BY <2>1, <2>2, <2>3 DEF ServerOK, Fetching, ReadSince
  <2>4. CASE pc[s] = "validated"
    <3>1. ServesValid(s)
      BY <2>1, <2>4 DEF ServerOK
    <3>2. found[s].at \in Nat /\ ReadSince(found[s].columns, found[s].at)
      BY <3>1 DEF ServesValid, WholeCaches, Caches
    <3>3. columns[s][l].read >= found[s].at
      BY <3>1, <3>2 DEF ServesValid, ReadSince
    <3>4. found[s].at >= now[s] - Ttl
      BY <2>2, <3>1, <3>2, UnexpiredAge DEF ServesValid
    <3>5. QED
      BY <2>2, <3>2, <3>3, <3>4
  <2>5. QED
    BY <2>3, <2>4
<1>2. QED
  BY <1>1, Invariance, PTL

(***************************************************************************)
(* A server that was told the version of the model, and of which version   *)
(* its cache is, serves no earlier one, unless the new one came while the  *)
(* cache was being made.                                                   *)
(***************************************************************************)
THEOREM RepublishIsNoticed == Spec => []RepublishNoticed
<1>1. IInv => RepublishNoticed
  <2> SUFFICES ASSUME IInv, NEW s \in Servers, pc[s] = "validated",
                      NoStamp \notin {told[s].stamp, found[s].stamp}
               PROVE  found[s].model = told[s].stamp \/ found[s].model < found[s].stamp
    BY DEF RepublishNoticed
  <2>1. ServesValid(s)
    BY DEF IInv, ServerOK
  <2>2. told[s].stamp = found[s].stamp
    BY <2>1 DEF ServesValid, Republished
  <2>3. /\ found[s].model \in Nat /\ found[s].stamp \in Nat
        /\ found[s].model <= found[s].stamp
    BY <2>1 DEF ServesValid, WholeCaches, Caches
  <2>4. QED
    BY <2>2, <2>3
<1>2. QED
  BY <1>1, Invariance, PTL

(***************************************************************************)
(* As long as servers save one after the other, a readable cache is never  *)
(* without a readable successor, wherever they die.                        *)
(***************************************************************************)
THEOREM CacheIsReplacedAtOnce == Spec => ReplacedAtOnce
<1> DEFINE Keeps ==
             Readable(name["cache"]) /\ ~overlapped' => Readable(name["cache"])'
<1>1. IInv /\ [Next]_vars => [Keeps]_vars
  <2> SUFFICES ASSUME IInv, [Next]_vars, Readable(name["cache"]), ~overlapped'
               PROVE  Readable(name["cache"])'
    OBVIOUS
  <2>1. CacheTypeOK /\ EnoughFiles /\ name["cache"] \in Files
        /\ name["cache"] # 0 /\ IsCache(content[name["cache"]])
    BY DEF IInv, CacheTypeOK, Names, Readable
  <2>2. ~overlapped
    BY DEF Next, Start, Load, Unreachable, Validate, ReadLevels, FetchMembers, Save, Write,
           Rename, Stop, DataLoad, Republish, Tick, vars
  <2>3. Alone
    BY <2>2 DEF IInv
  <2>4. ASSUME UNCHANGED files PROVE Readable(name["cache"])'
    BY <2>1, <2>4 DEF files, Readable, IsCache
  <2>5. ASSUME NEW s \in Servers, Save(s) PROVE Readable(name["cache"])'
    <3>1. /\ name["tmp"] # 0 => SaveFile = name["tmp"]
          /\ name["tmp"] = 0 => SaveFile \notin Range(name)
          /\ name' = [name EXCEPT !["tmp"] = SaveFile]
          /\ content' = [content EXCEPT ![SaveFile] = Empty]
      BY <2>1, <2>5, SaveFileFacts
    <3>2. SaveFile # name["cache"]
      BY <2>1, <2>3, <3>1 DEF Alone, Range, CacheTypeOK, Names
    <3>3. name'["cache"] = name["cache"]
          /\ content'[name["cache"]] = content[name["cache"]]
      BY <2>1, <3>1, <3>2 DEF CacheTypeOK
    <3>4. QED
      BY <2>1, <3>3 DEF Readable, IsCache
  <2>6. ASSUME NEW s \in Servers, Write(s) PROVE Readable(name["cache"])'
    <3>1. name["tmp"] = fd[s] /\ name["cache"] # fd[s]
      BY <2>1, <2>3, <2>6 DEF Alone, Write, Saving
    <3>2. name' = name /\ content'[name["cache"]] = content[name["cache"]]
      BY <2>1, <2>6, <3>1 DEF Write, CacheTypeOK
    <3>3. QED
      BY <2>1, <3>2 DEF Readable, IsCache
  <2>7. ASSUME NEW s \in Servers, Rename(s) PROVE Readable(name["cache"])'
    <3>1. /\ name["tmp"] = fd[s] /\ fd[s] \in Files /\ fd[s] # 0
          /\ IsCache(content[fd[s]])
      BY <2>1, <2>3, <2>7 DEF Alone, Rename, Saving, IInv, ServerOK, CacheTypeOK
    <3>2. name'["cache"] \in {name["cache"], fd[s]} /\ "cache" \in DOMAIN name'
      BY <2>1, <2>7, <3>1 DEF Rename, CacheTypeOK, Names
    <3>3. name'["cache"] \in Range(name') /\ name'["cache"] \in Files
      BY <2>1, <3>1, <3>2 DEF Range
    <3>4. content'[name'["cache"]] = content[name'["cache"]]
      BY <2>7, <3>3 DEF Rename
    <3>5. QED
      BY <2>1, <3>1, <3>2, <3>4 DEF Readable, IsCache
  <2>8. QED
    BY <2>4, <2>5, <2>6, <2>7
       DEF Next, Start, Load, Unreachable, Validate, ReadLevels, FetchMembers, Stop,
           DataLoad, Republish, Tick, vars
<1>2. QED
  BY <1>1, Invariance, PTL DEF Spec, ReplacedAtOnce
=============================================================================
