---------------------------- MODULE Investigation ----------------------------
(***************************************************************************)
(* A pass of mcp-investigation-orchestrator (main.rs): the hypotheses      *)
(* about one event are probed one after the other, by a program the pass   *)
(* starts for each, as long as the budget ledger of                        *)
(* mcp-query-budget-governor allows, and what the probes found is recorded *)
(* in the finding store.  A pass is a process; it may die at any step, and *)
(* others may change the store while it probes.                            *)
(*                                                                         *)
(* FindingStore knows such a process from the time it was started with     *)
(* ("record"); what it does until it opens the store is added here.        *)
(***************************************************************************)
EXTENDS FindingStore

CONSTANTS
  Budgets,         \* values of --budget-max-queries; 0 is legal
  HypothesisSets   \* how many hypotheses the engine may come up with

ASSUME InvestigationConstantsOK ==
  Budgets \subseteq Nat /\ HypothesisSets \subseteq Nat

VARIABLE pass   \* what each pass knows

invVars == <<vars, pass>>

Verdicts == {"confirmed", "refuted", "inconclusive"}

Planned(budget, n) ==
  [budget |-> budget, left |-> n, queries |-> 0, found |-> {}, halted |-> FALSE]
NoPass == Planned(0, 0)

InvInit == Init /\ pass = [p \in Procs |-> NoPass]

\* Faulty: the budget is used up by the query after the last.
FaultyIsHalted(w) == w.budget > 0 /\ w.queries > w.budget

\* BudgetLedger::check, for the one limit a pass sets; 0 is no limit.  That
\* four fifths of it are used is noted in the pass's output, no more.
IsHalted(w) == w.budget > 0 /\ w.queries >= w.budget

Probing(p) == pc[p] = "record" /\ pass[p].left > 0 /\ ~pass[p].halted

-----------------------------------------------------------------------------
\* The arguments are read and the hypotheses generated.
Start(p, q) ==
  /\ BeginRecord(p, q)
  /\ \E budget \in Budgets, n \in HypothesisSets :
       pass' = [pass EXCEPT ![p] = Planned(budget, n)]

Probed(w, verdict) ==
  [budget |-> w.budget, left |-> w.left - 1, queries |-> w.queries + 1,
   found |-> w.found \cup {verdict}, halted |-> w.halted]

\* A probe that answers.
Probe(p) ==
  /\ Probing(p) /\ ~IsHalted(pass[p])
  /\ \E verdict \in Verdicts :
       pass' = [pass EXCEPT ![p] = Probed(pass[p], verdict)]
  /\ UNCHANGED vars

Halt(p) ==
  /\ Probing(p) /\ IsHalted(pass[p])
  /\ pass' = [pass EXCEPT ![p].halted = TRUE]
  /\ UNCHANGED vars

\* Faulty: the pass goes on to record what it has.
FaultyProbeFails(p) ==
  /\ Probing(p) /\ ~IsHalted(pass[p])
  /\ pass' = [pass EXCEPT ![p].halted = TRUE]
  /\ UNCHANGED vars

\* The files of a probe cannot be written, it cannot be started, exits badly
\* or writes no JSON: the pass ends, and what it found is gone.
ProbeFails(p) ==
  /\ Probing(p) /\ ~IsHalted(pass[p])
  /\ End(p)
  /\ pass' = [pass EXCEPT ![p] = NoPass]
  /\ UNCHANGED <<lines, minted, clock, now, target, ops, crashes>>

\* Faulty: one refutation outweighs a confirmation.
FaultyStatusFor(found) ==
  IF "refuted" \in found THEN "Refuted"
  ELSE IF "confirmed" \in found THEN "Confirmed" ELSE "Open"

\* status_for_resolved.
StatusFor(found) ==
  IF "confirmed" \in found THEN "Confirmed"
  ELSE IF "refuted" \in found THEN "Refuted" ELSE "Open"

\* The store is opened when the hypotheses are probed, or the budget is used.
Record(p) ==
  /\ pc[p] = "record" /\ ~Probing(p)
  /\ LoadToRecord(p, StatusFor(pass[p].found)) \/ LoadFails(p)
  /\ UNCHANGED pass

\* What the store does with the record, and whoever else uses the store.
InStore(p) ==
  /\ \/ pc[p] # "record" /\ LoadFails(p)
     \/ \E id \in 1..minted : BeginSetStatus(p, id)
     \/ \E status \in SetStatuses : LoadToSetStatus(p, status)
     \/ WriteText(p) \/ WriteNewline(p)
  /\ UNCHANGED pass

\* The pass prints its finding and ends, or dies before.
Over(p) ==
  /\ ReadBack(p) \/ Die(p)
  /\ pass' = [pass EXCEPT ![p] = NoPass]

InvNext ==
  \/ \E p \in Procs :
       \/ \E q \in Queries : Start(p, q)
       \/ Probe(p) \/ Halt(p) \/ ProbeFails(p) \/ Record(p)
       \/ InStore(p) \/ Over(p)
  \/ Tick /\ UNCHANGED pass

InvSpec == InvInit /\ [][InvNext]_invVars

-----------------------------------------------------------------------------
(***************************************************************************)
(* A pass with a budget never starts more probes than it allows, and one   *)
(* that was halted has used all of it.                                     *)
(***************************************************************************)
BudgetHonoured ==
  \A p \in Procs : pass[p].budget > 0 =>
    /\ pass[p].queries <= pass[p].budget
    /\ pass[p].halted => pass[p].queries = pass[p].budget

(***************************************************************************)
(* What a pass appends is the outcome of all its probes, or of as many as  *)
(* its budget allowed, never of those before one that failed; and the      *)
(* finding it begins is confirmed when a probe confirmed it, refuted when  *)
(* one refuted it and none confirmed it, and open otherwise.               *)
(***************************************************************************)
RecordsWhatWasFound ==
  \A p \in Procs :
    pc[p] \in {"text", "newline", "read_back"} /\ pending[p].kind \in {"new", "recur"} =>
      /\ pass[p].left = 0 \/ pass[p].queries = pass[p].budget
      /\ pending[p].kind = "new" =>
           /\ pending[p].status = "Confirmed" <=> "confirmed" \in pass[p].found
           /\ pending[p].status = "Open" <=> pass[p].found \subseteq {"inconclusive"}
=============================================================================
