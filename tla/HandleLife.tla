----------------------------- MODULE HandleLife -----------------------------
(***************************************************************************)
(* What a dataset-handle store promises its clients, whatever its eviction *)
(* policy: a handle is minted once, names live data for a while, and then  *)
(* dies for good in one of two ways.  An expired handle is remembered as   *)
(* such (LookupError::Expired); a handle evicted for space is forgotten    *)
(* (LookupError::NotFound).  DhStore is shown to implement this module.    *)
(***************************************************************************)
EXTENDS Naturals

VARIABLES
  minted,   \* how many handles were minted
  status    \* the fate of each

\* The handles that clients can hold, numbered in minting order.
Handles == 1..minted

LiveHandles == {h \in Handles : status[h] = "live"}

Init ==
  /\ minted = 0
  /\ status = [h \in Handles |-> "live"]

(***************************************************************************)
(* A new handle is minted.  The space it needs may cost any set of live    *)
(* handles, the new one included, their life.                              *)
(***************************************************************************)
Mint ==
  /\ minted' = minted + 1
  /\ \E victims \in SUBSET (LiveHandles \cup {minted'}) :
       status' = [h \in Handles' |->
                    CASE h \in victims -> "evicted"
                      [] h = minted' /\ h \notin victims -> "live"
                      [] OTHER -> status[h]]

\* The TTL sweep turns any set of live handles into tombstones.
Expire ==
  /\ \E swept \in SUBSET LiveHandles :
       status' = [h \in Handles |-> IF h \in swept THEN "expired" ELSE status[h]]
  /\ UNCHANGED minted

Next == Mint \/ Expire

vars == <<minted, status>>

Spec == Init /\ [][Next]_vars
=============================================================================
