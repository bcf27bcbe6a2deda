-------------------------- MODULE MCInvestigation ---------------------------
(***************************************************************************)
(* TLC instance of Investigation.  Whoever starts the passes either waits  *)
(* for each to end (alone) or does not.  The passes that overlap have      *)
(* nothing to probe and are about one query: what their order of loads and *)
(* appends does to the file is the question.                               *)
(***************************************************************************)
EXTENDS Investigation

CONSTANTS
  First,      \* the process that is used when one runs at a time
  MaxAlone    \* bound on the operations begun then

ASSUME AloneConstantsOK == First \in Procs

VARIABLE alone

Closing == {"Escalated", "Suppressed"}

MCInit == InvInit /\ alone \in BOOLEAN

\* Nothing else writes, and no finding that was closed is opened again.
OneAtATime ==
  /\ alone /\ ops' <= MaxAlone
  /\ \A p \in Procs \ {First} : pc'[p] = "idle"
  /\ pending'[First].kind = "update" => pending'[First].status \in Closing

Overlapping ==
  /\ ~alone
  /\ \A p \in Procs : pass'[p] = NoPass
  /\ \A p \in Procs : target'[p] \subseteq Nat \cup {CHOOSE q \in Queries : TRUE}

MCNext == InvNext /\ UNCHANGED alone /\ (OneAtATime \/ Overlapping)

MCSpec == MCInit /\ [][MCNext]_<<invVars, alone>>

(***************************************************************************)
(* "A fresh finding for a query whose prior is still active bumps a        *)
(* recurrence count instead of creating a duplicate record", when passes   *)
(* do not overlap.                                                         *)
(***************************************************************************)
OneActiveAlone == alone => OneActivePerQuery

(***************************************************************************)
(* Passes that do not overlap find in the file a table of findings on      *)
(* which each operation takes effect at once, deaths included.             *)
(***************************************************************************)
ImplementsAlone == Table!Init /\ [][alone => Table!Next]_Findings
=============================================================================
