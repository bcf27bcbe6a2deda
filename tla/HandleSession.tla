---------------------------- MODULE HandleSession ----------------------------
(***************************************************************************)
(* The handle-first session of mqo-mcp-server: query_multidimensional      *)
(* stores its result in a dh-store and answers with a handle, and the      *)
(* dataset_* tools read, derive from and walk the lineage of handles.      *)
(* Each tool call runs under one lock of the store, so it is one action;   *)
(* what it does to the LRU queue before it inserts is part of it.          *)
(*                                                                         *)
(* The server never calls Store::evict_expired, so nothing expires: no     *)
(* sweep is among its steps, and the clock, which only a sweep would       *)
(* compare with anything, stands still.  Calls refused for their           *)
(* parameters before the store is locked change nothing and are left out.  *)
(***************************************************************************)
EXTENDS DhStore

CONSTANTS
  StoreTtl,          \* STORE_TTL_SECS
  Shapes,            \* rows and byte estimates a dataset may have
  InlineThreshold,   \* rows a reply may carry inline
  PageSize           \* rows of a cursor page; a longer result gets a cursor

ASSUME SessionConstantsOK ==
  /\ StoreTtl \in Ttls
  /\ Shapes \subseteq [rows : Nat, bytes : Sizes]
  /\ InlineThreshold \in Nat
  /\ PageSize \in Nat

VARIABLES
  rowCount,   \* rowCount[h]: Dataset::row_count of h, kept when h has died
  reply       \* the last reply to the client

sessionVars == <<vars, rowCount, reply>>

(***************************************************************************)
(* A reply: the tool, the handle it was called with (0 for a query), the   *)
(* outcome, the new handle and the one it was derived from (0 for none),   *)
(* and what became of the new dataset's rows.                              *)
(***************************************************************************)
Reply(tool, arg, outcome, handle, from, rows) ==
  [tool |-> tool, arg |-> arg, outcome |-> outcome,
   handle |-> handle, from |-> from, rows |-> rows]

Failure(tool, arg, outcome) == Reply(tool, arg, outcome, 0, 0, "none")

SessionInit ==
  /\ Init
  /\ rowCount = [h \in {} |-> 0]
  /\ reply = Failure("none", 0, "ok")

-----------------------------------------------------------------------------
(***************************************************************************)
(* StoreInner::lineage_chain of h: its parent, its parent's parent and so  *)
(* on, which are the handles in every set of parents that contains h's own *)
(* and that of each member.  The walk meets them from younger to older.    *)
(***************************************************************************)
Ancestors(h) ==
  {a \in Range(lineage) :
     /\ h \in DOMAIN lineage
     /\ \A S \in SUBSET Range(lineage) :
          (\A c \in (S \cup {h}) \cap DOMAIN lineage : lineage[c] \in S) => a \in S}

\* The ancestors of h that drill can expand it to: live, with more rows.
Details(h) == {a \in Ancestors(h) \cap Live : rowCount[a] > rowCount[h]}

(***************************************************************************)
(* The queue after get of each handle of ids, younger ones first: drill's  *)
(* gets of the handle and of the ancestors it walks past.                  *)
(***************************************************************************)
TouchWalk(q, ids) ==
  Remove(q, ids) \cup ((Queued(q) \ ids) \X ids) \cup {p \in ids \X ids : p[1] >= p[2]}

\* should_inline.
RowsShown(n) == IF n <= InlineThreshold THEN "inline" ELSE "omitted"

\* A result longer than a page is answered with a cursor and its first page.
QueryRowsShown(n) == IF n > PageSize THEN "page" ELSE RowsShown(n)

\* Faulty: the reply is built from the dataset in hand, not read back.
NotReadBack(handle) == TRUE

\* run_dh_op gets the handle it has just derived before it reports success.
ReadBack(handle) == handle \in Live'

\* The row counts with that of the handle just minted.
RowCountsWith(n) ==
  [h \in Handles \cup {FreshId} |-> IF h = FreshId THEN n ELSE rowCount[h]]

-----------------------------------------------------------------------------
\* query_multidimensional, once the pipeline has produced its rows.
Query(shape) ==
  /\ InsertAfter(lru, shape.bytes, StoreTtl, lineage)
  /\ rowCount' = RowCountsWith(shape.rows)
  /\ reply' = Reply("query", 0, "ok", FreshId, 0, QueryRowsShown(shape.rows))

(***************************************************************************)
(* A kernel op that derives a dataset from parent after its gets have left *)
(* the queue as queue.                                                     *)
(***************************************************************************)
RunOp(tool, arg, parent, queue, shape) ==
  /\ InsertAfter(queue, shape.bytes, StoreTtl, LineageWith(FreshId, parent))
  /\ rowCount' = RowCountsWith(shape.rows)
  /\ reply' = IF ReadBack(FreshId)
              THEN Reply(tool, arg, "ok", FreshId, parent, RowsShown(shape.rows))
              ELSE Failure(tool, arg, "internal_error")

(***************************************************************************)
(* aggregate, filter, slice, sort, top_n, pivot and describe, which may    *)
(* have more rows than its argument: it has one for each column.           *)
(***************************************************************************)
Kernel(h, shape) ==
  /\ h \in Live
  /\ RunOp("kernel", h, h, Touch(lru, h), shape)

\* compare: a row for each row of a; only a is recorded as a parent.
Compare(a, b, shape) ==
  /\ {a, b} \subseteq Live
  /\ shape.rows = rowCount[a]
  /\ RunOp("compare", a, a, Touch(Touch(lru, a), b), shape)

(***************************************************************************)
(* drill: some of the rows of the first ancestor met with more rows.       *)
(***************************************************************************)
Drill(h, shape) ==
  \E detail \in Details(h) :
    /\ h \in Live
    /\ \A a \in Details(h) : a <= detail
    /\ shape.rows <= rowCount[detail]
    /\ LET met == {a \in Ancestors(h) \cap Live : a >= detail}
       IN  RunOp("drill", h, detail, TouchWalk(lru, met \cup {h}), shape)

(***************************************************************************)
(* period_over_period: at most a row for each row of its argument.  It     *)
(* derives without reading back.                                           *)
(***************************************************************************)
PeriodOverPeriod(h, shape) ==
  /\ h \in Live
  /\ shape.rows <= rowCount[h]
  /\ InsertAfter(Touch(lru, h), shape.bytes, StoreTtl, LineageWith(FreshId, h))
  /\ rowCount' = RowCountsWith(shape.rows)
  /\ reply' = Reply("period", h, "ok", FreshId, h, RowsShown(shape.rows))

\* A call that leaves the store as it is but for the LRU queue.
OnlyTouches(queue) ==
  /\ lru' = queue
  /\ UNCHANGED <<entries, expiredIds, lineage, totalBytes, minted, clock, sweepNow, rowCount>>

\* chart and export.
Read(h) ==
  /\ h \in Live
  /\ OnlyTouches(Touch(lru, h))
  /\ reply' = Failure("read", h, "ok")

\* A tool that fails after it got h: an unknown column, a bad parameter, a
\* second handle that is dead.
FailedOp(h) ==
  /\ h \in Live
  /\ OnlyTouches(Touch(lru, h))
  /\ reply' = Failure("kernel", h, "failed")

(***************************************************************************)
(* compare that fails after both gets; an unknown column makes run_dh_op   *)
(* get the first handle once more, to list its columns.                    *)
(***************************************************************************)
FailedCompare(a, b) ==
  /\ {a, b} \subseteq Live
  /\ \E q \in {Touch(Touch(lru, a), b), Touch(Touch(Touch(lru, a), b), a)} : OnlyTouches(q)
  /\ reply' = Failure("compare", a, "failed")

\* drill that met no ancestor with more rows, after it got them all.
DrillUnsupported(h) ==
  /\ h \in Live
  /\ Details(h) = {}
  /\ OnlyTouches(TouchWalk(lru, (Ancestors(h) \cap Live) \cup {h}))
  /\ reply' = Failure("drill", h, "unsupported")

\* Any tool called with a dead handle.
DeadHandle(h) ==
  /\ h \in Handles \ Live
  /\ OnlyTouches(lru)
  /\ reply' = Failure("kernel", h, "not_found")

Inserts ==
  \E shape \in Shapes :
    \/ Query(shape)
    \/ \E h \in Handles : Kernel(h, shape)
    \/ \E h \in Handles : Drill(h, shape)
    \/ \E h \in Handles : PeriodOverPeriod(h, shape)
    \/ \E a, b \in Handles : Compare(a, b, shape)

Touches ==
  \/ \E h \in Handles : Read(h)
  \/ \E h \in Handles : FailedOp(h)
  \/ \E h \in Handles : DrillUnsupported(h)
  \/ \E h \in Handles : DeadHandle(h)
  \/ \E a, b \in Handles : FailedCompare(a, b)

SessionNext == Inserts \/ Touches

SessionSpec == SessionInit /\ [][SessionNext]_sessionVars

-----------------------------------------------------------------------------
Replies ==
  [tool : {"none", "query", "kernel", "compare", "drill", "period", "read"},
   arg : Handles \cup {0},
   outcome : {"ok", "failed", "unsupported", "not_found", "internal_error"},
   handle : Handles \cup {0},
   from : Handles \cup {0},
   rows : {"none", "inline", "omitted", "page"}]

SessionTypeOK ==
  /\ TypeOK
  /\ rowCount \in [Handles -> Nat]
  /\ reply \in Replies

(***************************************************************************)
(* drill expands a handle to its NEAREST ancestor with more rows, and      *)
(* calls a handle unsupported only when it has no ancestor with more rows. *)
(* The walk skips ancestors it cannot get, so this asks that none has been *)
(* evicted, however many datasets were stored and derived in between.      *)
(***************************************************************************)
Bigger(h) == {a \in Ancestors(h) : rowCount[a] > rowCount[h]}

DrillNearest ==
  [][reply' # reply /\ reply'.tool = "drill" =>
       /\ reply'.outcome = "ok" =>
            /\ reply'.from \in Bigger(reply'.arg)
            /\ \A a \in Bigger(reply'.arg) : a <= reply'.from
       /\ reply'.outcome = "unsupported" => Bigger(reply'.arg) = {}]_sessionVars

(***************************************************************************)
(* A success leaves the client something to go on with: the rows, a cursor *)
(* or a live handle.  The exceptions are a query and a period_over_period, *)
(* which do not read their handle back, and only when the datasets others  *)
(* were derived from are all that is left of the store.                    *)
(***************************************************************************)
ReplyUsable ==
  [][reply' # reply /\ reply'.outcome = "ok" /\ reply'.rows = "omitted" =>
       \/ reply'.handle \in Live'
       \/ reply'.tool \in {"query", "period"} /\ Live' = Parents]_sessionVars
=============================================================================
