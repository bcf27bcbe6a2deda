---------------------------- MODULE FindingTable -----------------------------
(***************************************************************************)
(* What the finding store of mcp-finding-store promises its callers: a     *)
(* table of findings in which record and set_status take effect at once.   *)
(* A record of a query with an active finding supersedes it; any other     *)
(* starts a finding of its own.  What is known of a finding gives way only *)
(* to what is newer.                                                       *)
(***************************************************************************)
EXTENDS Naturals

CONSTANTS
  Ids,       \* identifiers of findings
  Queries,   \* queries that are watched
  Times      \* instants (now_ms)

VARIABLE table

Active == {"Open", "Confirmed", "Refuted"}

Statuses == Active \cup {"Escalated", "Suppressed"}

Init == table = [id \in {} |-> {}]

ActiveOf(q) == {id \in DOMAIN table : table[id].query = q /\ table[id].status \in Active}

\* The active finding of the query that was seen last is seen again.
Supersede(q, time) ==
  \E id \in ActiveOf(q) :
    /\ \A other \in ActiveOf(q) : table[other].last <= table[id].last
    /\ table[id].last <= time
    /\ table' = [table EXCEPT ![id].count = @ + 1, ![id].last = time]

Start(q, status, time) ==
  /\ ActiveOf(q) = {}
  /\ \E id \in Ids \ DOMAIN table :
       table' = [i \in DOMAIN table \cup {id} |->
                   IF i = id
                   THEN [query |-> q, status |-> status, count |-> 0,
                         first |-> time, last |-> time]
                   ELSE table[i]]

SetStatus(id, status, time) ==
  /\ id \in DOMAIN table /\ table[id].last <= time
  /\ table' = [table EXCEPT ![id].status = status, ![id].last = time]

Next ==
  \/ \E q \in Queries, time \in Times : Supersede(q, time)
  \/ \E q \in Queries, status \in Active, time \in Times : Start(q, status, time)
  \/ \E id \in DOMAIN table, status \in Statuses, time \in Times : SetStatus(id, status, time)

Spec == Init /\ [][Next]_table
=============================================================================
