----------------------------- MODULE PagedRead ------------------------------
(***************************************************************************)
(* What the cursor protocol promises one client: the rows of its result    *)
(* arrive in order, each once, page by page; the read is reported complete *)
(* exactly when the last row has arrived, and otherwise it can only fail   *)
(* as a whole.  CursorStore is shown to implement this module.             *)
(***************************************************************************)
EXTENDS Naturals

CONSTANT PageSize   \* rows per page, at most

VARIABLES
  state,      \* "none", "reading", "complete" or "failed"
  size,       \* rows of the result being read
  delivered   \* rows delivered since the read began

Init == state = "none" /\ size = 0 /\ delivered = 0

After(n) == IF n = size' THEN "complete" ELSE "reading"

\* A new result, with its first page.
Open ==
  /\ state = "none"
  /\ size' \in Nat
  /\ delivered' \in 1..PageSize
  /\ delivered' <= size'
  /\ state' = After(delivered')

\* The next page.
Deliver ==
  /\ state = "reading"
  /\ size' = size
  /\ delivered' \in (delivered + 1)..(delivered + PageSize)
  /\ delivered' <= size
  /\ state' = After(delivered')

\* The client starts over from the first row.
Restart ==
  /\ state \in {"reading", "complete"}
  /\ state' = "reading"
  /\ delivered' = 0
  /\ UNCHANGED size

\* The cursor is gone.
Fail ==
  /\ state = "reading"
  /\ state' = "failed"
  /\ UNCHANGED <<size, delivered>>

\* The client turns to another query.
Leave ==
  /\ state # "none"
  /\ state' = "none" /\ size' = 0 /\ delivered' = 0

Next == Open \/ Deliver \/ Restart \/ Fail \/ Leave

vars == <<state, size, delivered>>

Spec == Init /\ [][Next]_vars
=============================================================================
