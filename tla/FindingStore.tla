---------------------------- MODULE FindingStore -----------------------------
(***************************************************************************)
(* The finding store of mcp-finding-store/src/lib.rs, used by runs of      *)
(* mcp-investigation-orchestrator and by whoever closes findings.  Each is *)
(* a process of its own; all they share is the file findings.jsonl.        *)
(*                                                                         *)
(* An operation loads the whole file, decides, and appends one record.     *)
(* No lock spans the two.  writeln! on a File without a buffer writes the  *)
(* text of the record and then the end of the line.  A process may die     *)
(* between any two steps.                                                  *)
(*                                                                         *)
(* The file is a sequence of lines, the last one open; a line is the       *)
(* sequence of the records written into it.  A file that only grows is     *)
(* read at one instant: when the reader meets its end.                     *)
(***************************************************************************)
EXTENDS Naturals, Sequences, SequencesExt

CONSTANTS
  Procs,          \* processes
  Queries,        \* queries that are watched
  RunStatuses,    \* verdicts an investigation may come to
  SetStatuses,    \* statuses a finding may be moved to
  MaxTime,        \* bound on the clock
  MaxOps,         \* bound on the operations begun
  MaxCrashes      \* bound on the processes that die

ASSUME FindingConstantsOK ==
  /\ RunStatuses \subseteq {"Open", "Confirmed", "Refuted"}
  /\ SetStatuses \subseteq {"Open", "Confirmed", "Refuted", "Escalated", "Suppressed"}
  /\ MaxTime \in Nat /\ MaxOps \in Nat /\ MaxCrashes \in Nat

VARIABLES
  lines,     \* findings.jsonl
  minted,    \* how many finding ids were drawn
  clock,
  pc,        \* where each process is
  now,       \* the time its operation was given
  target,    \* the query it records, or the id whose status it sets
  pending,   \* the record it appends
  ops, crashes

procVars == <<pc, now, target, pending>>
vars == <<lines, minted, clock, procVars, ops, crashes>>

NoRecord == [kind |-> "none", id |-> 0]

New(id, q, status, time) ==
  [kind |-> "new", id |-> id, query |-> q, status |-> status, now |-> time]

Recur(id, count, time) == [kind |-> "recur", id |-> id, count |-> count, now |-> time]

Update(id, status, time) == [kind |-> "update", id |-> id, status |-> status, now |-> time]

-----------------------------------------------------------------------------
Records == FlattenSeq(lines)

\* serde_json takes one value per line, and nothing after it.
Readable == \A i \in 1..Len(lines) : Len(lines[i]) <= 1

Recurred(f, r) == [f EXCEPT !.count = r.count, !.last = r.now]

Moved(f, r) == [f EXCEPT !.status = r.status, !.last = r.now]

Started(r) ==
  [query |-> r.query, status |-> r.status, count |-> 0, first |-> r.now, last |-> r.now]

\* Faulty: closed findings are left out.
AppliedDroppingClosed(found, r) ==
  CASE r.kind = "new" -> [id \in DOMAIN found \cup {r.id} |->
                             IF id = r.id THEN Started(r) ELSE found[id]]
    [] r.kind = "recur" /\ r.id \in DOMAIN found -> [found EXCEPT ![r.id] = Recurred(@, r)]
    [] r.kind = "update" -> [id \in DOMAIN found \ {r.id} |-> found[id]]
    [] OTHER -> found

\* load_raw folds one record into the findings so far.
Applied(found, r) ==
  CASE r.kind = "new" -> [id \in DOMAIN found \cup {r.id} |->
                             IF id = r.id THEN Started(r) ELSE found[id]]
    [] r.kind = "recur" /\ r.id \in DOMAIN found -> [found EXCEPT ![r.id] = Recurred(@, r)]
    [] r.kind = "update" /\ r.id \in DOMAIN found -> [found EXCEPT ![r.id] = Moved(@, r)]
    [] OTHER -> found

NoFindings == [id \in {} |-> {}]

FindingsIn(records) ==
  LET folded[i \in 0..Len(records)] ==
        IF i = 0 THEN NoFindings ELSE Applied(folded[i - 1], records[i])
  IN  folded[Len(records)]

Findings == FindingsIn(Records)

\* Faulty: a refuted finding counts as closed.
IsActiveUnlessRefuted(f) == f.status \in {"Open", "Confirmed"}

IsActive(f) == f.status \in {"Open", "Confirmed", "Refuted"}

\* find_active_for_query: one of those seen last.
ActiveFor(q) ==
  LET found  == Findings
      active == {id \in DOMAIN found : found[id].query = q /\ IsActive(found[id])}
  IN  {id \in active : \A other \in active : found[other].last <= found[id].last}

\* Faulty: counted twice.
NextCountTwice(f) == f.count + 2

NextCount(f) == f.count + 1

\* A version 4 UUID after the query: never drawn before.
FreshId == minted + 1

-----------------------------------------------------------------------------
Init ==
  /\ lines = << <<>> >> /\ minted = 0 /\ clock = 0
  /\ pc = [p \in Procs |-> "idle"]
  /\ now = [p \in Procs |-> 0]
  /\ target = [p \in Procs |-> {}]
  /\ pending = [p \in Procs |-> NoRecord]
  /\ ops = 0 /\ crashes = 0

Begin(p, op, what) ==
  /\ pc[p] = "idle"
  /\ ops < MaxOps
  /\ ops' = ops + 1
  /\ pc' = [pc EXCEPT ![p] = op]
  /\ now' = [now EXCEPT ![p] = clock]
  /\ target' = [target EXCEPT ![p] = {what}]
  /\ UNCHANGED <<lines, minted, clock, pending, crashes>>

\* An orchestrator reads the clock when it starts, and investigates.
BeginRecord(p, q) == Begin(p, "record", q)

BeginSetStatus(p, id) == id \in DOMAIN Findings /\ Begin(p, "set_status", id)

End(p) ==
  /\ pc' = [pc EXCEPT ![p] = "idle"]
  /\ pending' = [pending EXCEPT ![p] = NoRecord]

BeginAppend(p, record) ==
  /\ pc' = [pc EXCEPT ![p] = "text"]
  /\ pending' = [pending EXCEPT ![p] = record]

\* load_raw meets a line it can not parse: so does every operation.
LoadFails(p) ==
  /\ pc[p] \in {"record", "set_status", "read_back"}
  /\ ~Readable
  /\ End(p)
  /\ UNCHANGED <<lines, minted, clock, now, target, ops, crashes>>

\* record: the active finding recurs, or a new one begins with the verdict.
LoadToRecord(p, status) ==
  /\ pc[p] = "record" /\ Readable
  /\ \E q \in target[p] :
       \/ \E id \in ActiveFor(q) :
            /\ BeginAppend(p, Recur(id, NextCount(Findings[id]), now[p]))
            /\ UNCHANGED minted
       \/ /\ ActiveFor(q) = {}
          /\ minted' = FreshId
          /\ BeginAppend(p, New(minted', q, status, now[p]))
  /\ UNCHANGED <<lines, clock, now, target, ops, crashes>>

LoadToSetStatus(p, status) ==
  /\ pc[p] = "set_status" /\ Readable
  /\ \E id \in target[p] :
       IF id \in DOMAIN Findings THEN BeginAppend(p, Update(id, status, now[p])) ELSE End(p)
  /\ UNCHANGED <<lines, minted, clock, now, target, ops, crashes>>

\* append: the record goes to the end of the file, wherever that is now ...
WriteText(p) ==
  /\ pc[p] = "text"
  /\ lines' = [lines EXCEPT ![Len(lines)] = Append(@, pending[p])]
  /\ pc' = [pc EXCEPT ![p] = "newline"]
  /\ UNCHANGED <<minted, clock, now, target, pending, ops, crashes>>

\* ... and so does the end of its line.  The orchestrator gets what it wrote.
WriteNewline(p) ==
  /\ pc[p] = "newline"
  /\ lines' = Append(lines, <<>>)
  /\ \/ pending[p].kind = "update" /\ End(p)
     \/ /\ pending[p].kind # "update"
        /\ pc' = [pc EXCEPT ![p] = "read_back"]
        /\ UNCHANGED pending
  /\ UNCHANGED <<minted, clock, now, target, ops, crashes>>

ReadBack(p) ==
  /\ pc[p] = "read_back" /\ Readable
  /\ End(p)
  /\ UNCHANGED <<lines, minted, clock, now, target, ops, crashes>>

Die(p) ==
  /\ pc[p] # "idle"
  /\ crashes < MaxCrashes
  /\ crashes' = crashes + 1
  /\ End(p)
  /\ UNCHANGED <<lines, minted, clock, now, target, ops>>

Tick ==
  /\ clock < MaxTime
  /\ clock' = clock + 1
  /\ UNCHANGED <<lines, minted, procVars, ops, crashes>>

Next ==
  \/ \E p \in Procs :
       \/ \E q \in Queries : BeginRecord(p, q)
       \/ \E id \in 1..minted : BeginSetStatus(p, id)
       \/ LoadFails(p)
       \/ \E status \in RunStatuses : LoadToRecord(p, status)
       \/ \E status \in SetStatuses : LoadToSetStatus(p, status)
       \/ WriteText(p) \/ WriteNewline(p) \/ ReadBack(p)
       \/ Die(p)
  \/ Tick

Spec == Init /\ [][Next]_vars

-----------------------------------------------------------------------------
\* How often the file says that the finding recurred.
Recurs(r, id) == r.kind = "recur" /\ r.id = id

Recurrences(id) ==
  LET records == Records IN Cardinality({i \in 1..Len(records) : Recurs(records[i], id)})

(***************************************************************************)
(* recurrence_count never claims more recurrences than were recorded,      *)
(* however stale the file was when the count was taken.                    *)
(***************************************************************************)
NeverOvercounted == \A id \in DOMAIN Findings : Findings[id].count <= Recurrences(id)

(***************************************************************************)
(* An orchestrator that appended its finding and can read the file finds   *)
(* it there, whatever other processes appended and wherever others died    *)
(* ("recorded finding not found" never happens).                           *)
(***************************************************************************)
ReadBackFinds ==
  \A p \in Procs : pc[p] = "read_back" /\ Readable => pending[p].id \in DOMAIN Findings

(***************************************************************************)
(* "A fresh finding for a query whose prior is still active bumps a        *)
(* recurrence count instead of creating a duplicate record."               *)
(***************************************************************************)
OneActivePerQuery ==
  LET found  == Findings
      active == {id \in DOMAIN found :
                   found[id].status \in {"Open", "Confirmed", "Refuted"}}
  IN  \A i, j \in active : found[i].query = found[j].query => i = j

\* A record takes effect when its text is written.
Table == INSTANCE FindingTable
  WITH table <- Findings, Ids <- 1..MaxOps, Times <- 0..MaxTime

(***************************************************************************)
(* For a single process the file is a table of findings on which each      *)
(* operation takes effect at once, its death at any step included.         *)
(***************************************************************************)
Implements == Table!Init /\ [][Table!Next]_Findings
=============================================================================
