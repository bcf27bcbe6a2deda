------------------------------ MODULE MemStore ------------------------------
(***************************************************************************)
(* MemStore of mqo-duckdb-handle-store/src/mem_store.rs, as the cursors of *)
(* mqo-mcp-server use it: query results in memory under random handles,    *)
(* with one TTL for all and no cap on the rows held.  The store reads no   *)
(* clock: every caller passes its own idea of "now", so times need not     *)
(* grow from one call to the next.                                         *)
(*                                                                         *)
(* Stored rows are immutable, and a result is abstracted to its number of  *)
(* rows.                                                                   *)
(***************************************************************************)
EXTENDS Naturals, Functions

CONSTANT Ttl    \* MemStoreConfig::ttl_secs

VARIABLES
  entries,   \* MemStore::entries: live handle -> Entry
  minted     \* how many handles were minted; they are 1..minted

Live == DOMAIN entries

Entry == [rowCount : Nat, insertedAt : Nat]

-----------------------------------------------------------------------------
\* Faulty: entries inserted exactly Ttl seconds ago are kept too.
UnexpiredOneLonger(es, now) ==
  Restrict(es, {h \in DOMAIN es : now <= es[h].insertedAt + Ttl})

(***************************************************************************)
(* evict_expired.  The subtraction saturates: an entry from a later "now"  *)
(* has age 0, and with Ttl = 0 even that is too old.                       *)
(***************************************************************************)
Unexpired(es, now) ==
  LET age(h) == IF es[h].insertedAt <= now THEN now - es[h].insertedAt ELSE 0
  IN  Restrict(es, {h \in DOMAIN es : age(h) < Ttl})

\* put, without a cap to make room for.
Added(es, h, rowCount, now) ==
  [x \in DOMAIN es \cup {h} |->
     IF x = h THEN [rowCount |-> rowCount, insertedAt |-> now] ELSE es[x]]

\* Faulty: the offset is taken for a 1-based row number.
SliceFromOne(rowCount, offset, limit) ==
  LET end == IF offset + limit < rowCount THEN offset + limit ELSE rowCount
  IN  IF offset >= rowCount THEN <<>>
      ELSE [k \in 1..(end - offset) |-> IF offset = 0 THEN k ELSE offset + k - 1]

(***************************************************************************)
(* get_rows of a live handle: the numbers of the rows it returns.  An      *)
(* offset at or past the end is no error and returns none.                 *)
(***************************************************************************)
Slice(rowCount, offset, limit) ==
  LET end == IF offset + limit < rowCount THEN offset + limit ELSE rowCount
  IN  IF offset >= rowCount THEN <<>> ELSE [k \in 1..(end - offset) |-> offset + k]

-----------------------------------------------------------------------------
Init ==
  /\ entries = [h \in {} |-> [rowCount |-> 0, insertedAt |-> 0]]
  /\ minted = 0

(***************************************************************************)
(* The types of the entries; every live handle was minted.                 *)
(***************************************************************************)
TypeOK ==
  /\ entries \in [Live -> Entry]
  /\ Live \subseteq 1..minted
  /\ minted \in Nat
=============================================================================
