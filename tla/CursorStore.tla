---------------------------- MODULE CursorStore -----------------------------
(***************************************************************************)
(* The cursor protocol of mqo-mcp-server/src/cursor.rs: a result with more *)
(* rows than a page is put in a MemStore without a cap, the first page is  *)
(* returned with a cursor, and next_page serves the rest.                  *)
(*                                                                         *)
(* put_and_first_page and next_page both read the clock before they take   *)
(* the store's Mutex; next_page then takes it three times, to evict, to    *)
(* read the row count and to read the rows.  A CursorStore is shared by    *)
(* Arc, so any calls of other threads may come in between.                 *)
(*                                                                         *)
(* Each client follows its own cursor, one call at a time.  It sends the   *)
(* page token it was given back, or none at all, which the next_page tool  *)
(* takes for 0 (mcp.rs).                                                   *)
(***************************************************************************)
EXTENDS Naturals, FiniteSets, Sequences, Functions

CONSTANTS
  Clients,     \* threads that page through results
  PageSize,    \* Server::page_size
  Ttl,         \* CursorStore::ttl_secs
  RowCounts,   \* numbers of rows a query may return
  MaxMinted,   \* bound on the cursors opened in a behaviour
  MaxTime,     \* bound on the clock
  MaxRestarts  \* bound on the times a client starts a read over

ASSUME CursorConstantsOK ==
  /\ PageSize \in Nat \ {0} /\ Ttl \in Nat
  /\ RowCounts \subseteq Nat
  /\ MaxMinted \in Nat /\ MaxTime \in Nat /\ MaxRestarts \in Nat

VARIABLES
  entries, minted,   \* the MemStore
  clock,             \* the wall clock (Unix seconds)
  pc,                \* where each client's thread is
  now,               \* the time its current call read
  cursor,            \* the cursor it holds; 0 before its first
  token,             \* the page token it sends next
  size,              \* the rows of the result it pages through
  total,             \* the row count its current or last next_page read
  got,               \* the row numbers it received, in order of arrival
  restarts           \* how often it started over

Store == INSTANCE MemStore

storeVars == <<entries, minted>>
clientVars == <<pc, now, cursor, token, size, total, got, restarts>>
vars == <<storeVars, clock, clientVars>>

\* "idle": no read begun, or one ended; "next": holds a cursor that has more.
PCs == {"idle", "put", "next", "evict", "metadata", "get_rows", "complete", "failed"}

Init ==
  /\ Store!Init
  /\ clock = 0
  /\ pc = [c \in Clients |-> "idle"]
  /\ now = [c \in Clients |-> 0]
  /\ cursor = [c \in Clients |-> 0]
  /\ token = [c \in Clients |-> 0]
  /\ size = [c \in Clients |-> 0]
  /\ total = [c \in Clients |-> 0]
  /\ got = [c \in Clients |-> <<>>]
  /\ restarts = [c \in Clients |-> 0]

-----------------------------------------------------------------------------
\* Faulty: more pages as long as the last one was full.
HasMoreWhileFull(offset, page, rows) == Len(page) = PageSize

\* Faulty: more pages until the token passes the end.
HasMoreToTheEnd(offset, page, rows) == offset + Len(page) <= rows

HasMore(offset, page, rows) == offset + Len(page) < rows

NextToken(offset, page) == offset + Len(page)

(***************************************************************************)
(* The client takes a page of its cursor and learns where it stands.       *)
(***************************************************************************)
TakePage(c, offset, page, rows) ==
  /\ token' = [token EXCEPT ![c] = NextToken(offset, page)]
  /\ pc' = [pc EXCEPT ![c] = IF HasMore(offset, page, rows) THEN "next" ELSE "complete"]

(***************************************************************************)
(* A query returned more rows than a page (mcp.rs): put_and_first_page     *)
(* reads the clock ...                                                     *)
(***************************************************************************)
BeginPut(c, rowCount) ==
  /\ pc[c] \in {"idle", "next", "complete", "failed"}
  /\ minted < MaxMinted
  /\ rowCount > PageSize
  /\ pc' = [pc EXCEPT ![c] = "put"]
  /\ now' = [now EXCEPT ![c] = clock]
  /\ size' = [size EXCEPT ![c] = rowCount]
  /\ UNCHANGED <<storeVars, clock, cursor, token, total, got, restarts>>

\* ... and under the lock evicts, stores the rows and cuts the first page.
FinishPut(c) ==
  LET left == Store!Unexpired(entries, now[c])
      page == Store!Slice(size[c], 0, PageSize)
  IN  /\ pc[c] = "put"
      /\ minted < MaxMinted
      /\ minted' = minted + 1
      /\ entries' = Store!Added(left, minted', size[c], now[c])
      /\ cursor' = [cursor EXCEPT ![c] = minted']
      /\ got' = [got EXCEPT ![c] = page]
      /\ TakePage(c, 0, page, size[c])
      /\ UNCHANGED <<clock, now, size, total, restarts>>

\* next_page: the clock is read before anything else.
BeginNext(c) ==
  /\ pc[c] = "next"
  /\ pc' = [pc EXCEPT ![c] = "evict"]
  /\ now' = [now EXCEPT ![c] = clock]
  /\ UNCHANGED <<storeVars, clock, cursor, token, size, total, got, restarts>>

\* The same without a page token: the read starts over.
BeginRestart(c) ==
  /\ pc[c] \in {"next", "complete"}
  /\ restarts[c] < MaxRestarts
  /\ restarts' = [restarts EXCEPT ![c] = @ + 1]
  /\ pc' = [pc EXCEPT ![c] = "evict"]
  /\ now' = [now EXCEPT ![c] = clock]
  /\ token' = [token EXCEPT ![c] = 0]
  /\ got' = [got EXCEPT ![c] = <<>>]
  /\ UNCHANGED <<storeVars, clock, cursor, size, total>>

\* First lock: evict_expired.
Evict(c) ==
  /\ pc[c] = "evict"
  /\ entries' = Store!Unexpired(entries, now[c])
  /\ pc' = [pc EXCEPT ![c] = "metadata"]
  /\ UNCHANGED <<minted, clock, now, cursor, token, size, total, got, restarts>>

\* Either later lock may find the cursor gone: CursorExpired.
Expired(c) ==
  /\ pc[c] \in {"metadata", "get_rows"}
  /\ cursor[c] \notin DOMAIN entries
  /\ pc' = [pc EXCEPT ![c] = "failed"]
  /\ UNCHANGED <<storeVars, clock, now, cursor, token, size, total, got, restarts>>

\* Second lock: the row count.
Metadata(c) ==
  /\ pc[c] = "metadata"
  /\ cursor[c] \in DOMAIN entries
  /\ total' = [total EXCEPT ![c] = entries[cursor[c]].rowCount]
  /\ pc' = [pc EXCEPT ![c] = "get_rows"]
  /\ UNCHANGED <<storeVars, clock, now, cursor, token, size, got, restarts>>

\* Third lock: the rows, and the answer.
GetRows(c) ==
  LET page == Store!Slice(entries[cursor[c]].rowCount, token[c], PageSize)
  IN  /\ pc[c] = "get_rows"
      /\ cursor[c] \in DOMAIN entries
      /\ got' = [got EXCEPT ![c] = @ \o page]
      /\ TakePage(c, token[c], page, total[c])
      /\ UNCHANGED <<storeVars, clock, now, cursor, size, total, restarts>>

Tick ==
  /\ clock < MaxTime
  /\ clock' = clock + 1
  /\ UNCHANGED <<storeVars, clientVars>>

Step(c) ==
  \/ \E rowCount \in RowCounts : BeginPut(c, rowCount)
  \/ FinishPut(c)
  \/ BeginNext(c)
  \/ BeginRestart(c)
  \/ Evict(c)
  \/ Expired(c)
  \/ Metadata(c)
  \/ GetRows(c)

Next == Tick \/ \E c \in Clients : Step(c)

Spec == Init /\ [][Next]_vars

(***************************************************************************)
(* A call runs to its end (every Mutex is held briefly), and a client with *)
(* more to read goes on reading.  Nothing makes the clock advance.         *)
(***************************************************************************)
Reading(c) ==
  BeginNext(c) \/ Evict(c) \/ Expired(c) \/ Metadata(c) \/ GetRows(c)

FairSpec == Spec /\ \A c \in Clients : WF_vars(Reading(c))

-----------------------------------------------------------------------------
TypeOK ==
  /\ Store!TypeOK
  /\ clock \in Nat
  /\ pc \in [Clients -> PCs]
  /\ now \in [Clients -> 0..clock]
  /\ cursor \in [Clients -> 0..minted]
  /\ token \in [Clients -> Nat]
  /\ size \in [Clients -> Nat]
  /\ total \in [Clients -> Nat]
  /\ got \in [Clients -> Seq(Nat)]
  /\ restarts \in [Clients -> Nat]

\* Client c is paging through a result, or has just finished.
Pages(c) == pc[c] \in {"next", "evict", "metadata", "get_rows", "complete"}

(***************************************************************************)
(* A client that follows its tokens has received the rows before its token *)
(* and no others, each once and in order, however evictions, other clients *)
(* and restarts interleave with the three locks of next_page.              *)
(***************************************************************************)
RowsInOrder ==
  \A c \in Clients : Pages(c) => got[c] = [i \in 1..token[c] |-> i]

(***************************************************************************)
(* has_more is FALSE in an answer exactly when the client then has every   *)
(* row its query returned.                                                 *)
(***************************************************************************)
CompleteMeansAll ==
  \A c \in Clients :
    /\ pc[c] = "complete" => Len(got[c]) = size[c]
    /\ pc[c] = "next" => Len(got[c]) < size[c]

(***************************************************************************)
(* What a client has is the beginning of its result, and all of it when it *)
(* is told that there is no more.                                          *)
(***************************************************************************)
PagesExact == RowsInOrder /\ CompleteMeansAll

(***************************************************************************)
(* CursorExpired is never premature: no thread evicts a cursor before its  *)
(* TTL has elapsed, although each evicts with a time that it read before   *)
(* it took the lock, and puts with such a time too.                        *)
(***************************************************************************)
NoEarlyEviction ==
  [][\A h \in DOMAIN entries \ DOMAIN entries' :
       entries[h].insertedAt + Ttl <= clock]_vars

(***************************************************************************)
(* No page is served from a cursor that was past its TTL when the call     *)
(* began, though the eviction and the read are two critical sections.      *)
(***************************************************************************)
NoStalePage ==
  [][\A c \in Clients :
       pc[c] = "get_rows" /\ pc'[c] \in {"next", "complete"}
         => now[c] < entries[cursor[c]].insertedAt + Ttl]_vars

(***************************************************************************)
(* A cursor lives for its TTL: it is neither evicted before nor served to  *)
(* a call that began after.                                                *)
(***************************************************************************)
TtlKept == NoEarlyEviction /\ NoStalePage

(***************************************************************************)
(* A client with more to read gets all of it or CursorExpired, unless it   *)
(* turns to another query: no sequence of tokens pages forever.            *)
(***************************************************************************)
ReadEnds ==
  \A c \in Clients : pc[c] = "next" ~> pc[c] \in {"complete", "failed", "put"}

(***************************************************************************)
(* What PagedRead sees of a client: CursorStore implements it for each.    *)
(***************************************************************************)
StateOf(c) ==
  CASE pc[c] \in {"idle", "put"} -> "none"
    [] pc[c] \in {"complete", "failed"} -> pc[c]
    [] OTHER -> "reading"

Read(c) ==
  INSTANCE PagedRead WITH
    state <- StateOf(c),
    size <- IF StateOf(c) = "none" THEN 0 ELSE size[c],
    delivered <- IF StateOf(c) = "none" THEN 0 ELSE Len(got[c])

ReadsPaged ==
  /\ \A c \in Clients : Read(c)!Init
  /\ [][\A c \in Clients : Read(c)!Next \/ UNCHANGED Read(c)!vars]_vars
=============================================================================
