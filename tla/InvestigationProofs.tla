------------------------- MODULE InvestigationProofs -------------------------
(***************************************************************************)
(* Proofs about Investigation for any number of passes, budgets,           *)
(* hypotheses and findings.  What a pass knows depends on itself alone:    *)
(* the invariant IInv says it of each pass, and the steps of the others    *)
(* and of the store leave it as it is.  StoreOK says what the file and     *)
(* the processes that append to it have in common, AloneOK what is true    *)
(* besides of processes that run one after the other; the latter is what   *)
(* FindingTable is implemented with.                                       *)
(***************************************************************************)
EXTENDS MCInvestigation, FiniteSetTheorems, WellFoundedInduction, TLAPS

Pass == [budget : Nat, left : Nat, queries : Nat, found : SUBSET Verdicts,
         halted : BOOLEAN]

PCs == {"idle", "record", "set_status", "text", "newline", "read_back"}

Appending(p) ==
  pc[p] \in {"text", "newline", "read_back"} /\ pending[p].kind \in {"new", "recur"}

Spent(w) ==
  w.budget > 0 => w.queries <= w.budget /\ (w.halted => w.queries = w.budget)

Complete(w) == w.left = 0 \/ w.queries = w.budget

StatusMatches(status, found) ==
  /\ status = "Confirmed" <=> "confirmed" \in found
  /\ status = "Open" <=> found \subseteq {"inconclusive"}

PassOK(p) ==
  /\ Spent(pass[p])
  /\ pass[p].halted => pass[p].budget > 0
  /\ Appending(p) => /\ Complete(pass[p])
                     /\ pending[p].kind = "new" =>
                          StatusMatches(pending[p].status, pass[p].found)

Typed ==
  /\ pass \in [Procs -> Pass]
  /\ pc \in [Procs -> PCs]
  /\ pending = [p \in Procs |-> pending[p]]

IInv == Typed /\ \A p \in Procs : PassOK(p)

\* A step of p leaves what the others know as it is.
Alone(p) ==
  /\ \E w : pass' = [pass EXCEPT ![p] = w]
  /\ \E where : pc' = [pc EXCEPT ![p] = where]
  /\ \E what : pending' = [pending EXCEPT ![p] = what]

-----------------------------------------------------------------------------
LEMMA NoPassType == NoPass \in Pass /\ Spent(NoPass)
BY DEF NoPass, Planned, Pass, Spent

LEMMA PlannedType ==
  ASSUME NEW budget \in Budgets, NEW n \in HypothesisSets
  PROVE  /\ Planned(budget, n) \in Pass /\ Spent(Planned(budget, n))
         /\ ~Planned(budget, n).halted
<1>1. budget \in Nat /\ n \in Nat
  BY InvestigationConstantsOK
<1> QED
  BY <1>1 DEF Planned, Pass, Spent

LEMMA ProbedType ==
  ASSUME NEW w \in Pass, NEW verdict \in Verdicts, w.left > 0,
         ~w.halted, ~IsHalted(w), Spent(w)
  PROVE  /\ Probed(w, verdict) \in Pass /\ Spent(Probed(w, verdict))
         /\ ~Probed(w, verdict).halted
<1>1. w.left - 1 \in Nat /\ w.queries + 1 \in Nat
  BY DEF Pass
<1>2. w.found \cup {verdict} \in SUBSET Verdicts
  BY DEF Pass
<1>3. w.budget > 0 => w.queries + 1 <= w.budget
  BY DEF IsHalted, Pass
<1> QED
  BY <1>1, <1>2, <1>3 DEF Pass, Spent, Probed

LEMMA OneByOne ==
  ASSUME IInv, NEW p \in Procs, Alone(p),
         pass'[p] \in Pass, pc'[p] \in PCs, PassOK(p)'
  PROVE  IInv'
<1>1. Typed'
  BY DEF IInv, Typed, Alone
<1>2. ASSUME NEW r \in Procs, r # p PROVE PassOK(r)'
  <2>1. pass'[r] = pass[r] /\ pc'[r] = pc[r] /\ pending'[r] = pending[r]
    BY <1>2 DEF IInv, Typed, Alone
  <2>2. PassOK(r)
    BY DEF IInv
  <2> QED
    BY <2>1, <2>2 DEF PassOK, Appending, Spent, Complete, StatusMatches
<1> QED
  BY <1>1, <1>2 DEF IInv

LEMMA StatusForMatches ==
  ASSUME NEW found \in SUBSET Verdicts
  PROVE  StatusMatches(StatusFor(found), found)
BY DEF StatusFor, StatusMatches, Verdicts

LEMMA InitInductive == InvInit => IInv
BY NoPassType
   DEF InvInit, Init, IInv, Typed, PassOK, Appending, PCs, NoPass, Planned, Spent

LEMMA StartInductive ==
  ASSUME IInv, NEW p \in Procs, NEW q \in Queries, Start(p, q) PROVE IInv'
<1>1. PICK budget \in Budgets, n \in HypothesisSets :
        pass' = [pass EXCEPT ![p] = Planned(budget, n)]
  BY DEF Start
<1>2. /\ pc' = [pc EXCEPT ![p] = "record"]
      /\ pending' = pending
  BY DEF Start, BeginRecord, Begin
<1>3. /\ pass'[p] = Planned(budget, n)
      /\ pc'[p] = "record"
  BY <1>1, <1>2 DEF IInv, Typed
<1>4. pass'[p] \in Pass /\ pc'[p] \in PCs
  BY <1>3, PlannedType DEF PCs
<1>5. PassOK(p)'
  BY <1>3, PlannedType DEF PassOK, Appending
<1>6. pending' = [pending EXCEPT ![p] = pending[p]]
  BY <1>2 DEF IInv, Typed
<1>7. Alone(p)
  BY <1>1, <1>2, <1>6 DEF Alone
<1> QED
  BY <1>4, <1>5, <1>7, OneByOne

LEMMA ProbeInductive ==
  ASSUME IInv, NEW p \in Procs, Probe(p) \/ Halt(p) PROVE IInv'
<1>1. UNCHANGED <<pc, pending>>
  BY DEF Probe, Halt, vars, procVars
<1>2. pc[p] = "record" /\ pass[p].left > 0 /\ ~pass[p].halted
  BY DEF Probe, Halt, Probing
<1>3. pc'[p] = "record" /\ pc' = [pc EXCEPT ![p] = "record"]
      /\ pending' = [pending EXCEPT ![p] = pending[p]]
  BY <1>1, <1>2 DEF IInv, Typed
<1>4. CASE Probe(p)
  <2>1. PICK verdict \in Verdicts :
          pass' = [pass EXCEPT ![p] = Probed(pass[p], verdict)]
    BY <1>4 DEF Probe
  <2>2. ~IsHalted(pass[p]) /\ pass[p] \in Pass /\ Spent(pass[p])
    BY <1>4 DEF Probe, IInv, Typed, PassOK
  <2>3. pass'[p] = Probed(pass[p], verdict)
    BY <2>1 DEF IInv, Typed
  <2>4. pass'[p] \in Pass /\ Spent(pass'[p]) /\ ~(pass'[p]).halted
    BY <1>2, <2>2, <2>3, ProbedType
  <2>5. PassOK(p)'
    BY <1>3, <2>4 DEF PassOK, Appending
  <2> QED
    BY <1>3, <2>1, <2>4, <2>5, OneByOne DEF Alone, PCs
<1>5. CASE Halt(p)
  <2>1. pass' = [pass EXCEPT ![p] = [pass[p] EXCEPT !.halted = TRUE]]
    BY <1>5 DEF Halt
  <2>2. IsHalted(pass[p]) /\ pass[p] \in Pass /\ Spent(pass[p])
    BY <1>5 DEF Halt, IInv, Typed, PassOK
  <2>3. pass'[p] = [pass[p] EXCEPT !.halted = TRUE]
    BY <2>1 DEF IInv, Typed
  <2>4. pass'[p] \in Pass
    BY <2>2, <2>3 DEF Pass
  <2>5. PassOK(p)'
    BY <1>3, <2>2, <2>3 DEF PassOK, Spent, Appending, IsHalted, Pass
  <2> QED
    BY <1>3, <2>1, <2>4, <2>5, OneByOne DEF Alone, PCs
<1> QED
  BY <1>4, <1>5

LEMMA EndInductive ==
  ASSUME IInv, NEW p \in Procs, End(p),
         pass' = [pass EXCEPT ![p] = NoPass] \/ pass' = pass
  PROVE  IInv'
<1>1. pc' = [pc EXCEPT ![p] = "idle"] /\ pending' = [pending EXCEPT ![p] = NoRecord]
  BY DEF End
<1>2. pc'[p] = "idle"
  BY <1>1 DEF IInv, Typed
<1>3. PICK w \in Pass : /\ pass' = [pass EXCEPT ![p] = w]
                        /\ Spent(w) /\ (w.halted => w.budget > 0)
  <2>1. CASE pass' = [pass EXCEPT ![p] = NoPass]
    BY <2>1, NoPassType DEF NoPass, Planned
  <2>2. CASE pass' = pass
    <3>1. pass' = [pass EXCEPT ![p] = pass[p]] /\ pass[p] \in Pass
      BY <2>2 DEF IInv, Typed
    <3> QED
      BY <3>1 DEF IInv, PassOK
  <2> QED
    BY <2>1, <2>2
<1>4. pass'[p] = w
  BY <1>3 DEF IInv, Typed
<1>5. PassOK(p)'
  BY <1>2, <1>3, <1>4 DEF PassOK, Appending, Spent
<1> QED
  BY <1>1, <1>2, <1>3, <1>4, <1>5, OneByOne DEF Alone, PCs

LEMMA RecordInductive ==
  ASSUME IInv, NEW p \in Procs, Record(p) PROVE IInv'
<1>1. pass' = pass /\ pass[p] \in Pass /\ PassOK(p)
  BY DEF Record, IInv, Typed
<1>2. CASE LoadFails(p)
  BY <1>1, <1>2, EndInductive DEF LoadFails
<1>3. CASE LoadToRecord(p, StatusFor(pass[p].found))
  <2>1. PICK what : /\ BeginAppend(p, what)
                    /\ what.kind \in {"new", "recur"}
                    /\ what.kind = "new" => what.status = StatusFor(pass[p].found)
    <3>1. PICK q \in target[p] :
             \/ \E id \in ActiveFor(q) :
                  BeginAppend(p, Recur(id, NextCount(Findings[id]), now[p]))
             \/ BeginAppend(p, New(minted', q, StatusFor(pass[p].found), now[p]))
      BY <1>3 DEF LoadToRecord
    <3>2. CASE \E id \in ActiveFor(q) :
                  BeginAppend(p, Recur(id, NextCount(Findings[id]), now[p]))
      <4>1. PICK id \in ActiveFor(q) :
              BeginAppend(p, Recur(id, NextCount(Findings[id]), now[p]))
        BY <3>2
      <4>2. Recur(id, NextCount(Findings[id]), now[p]).kind = "recur"
        BY DEF Recur
      <4> QED
        BY <4>1, <4>2
    <3>3. CASE BeginAppend(p, New(minted', q, StatusFor(pass[p].found), now[p]))
      <4>1. /\ New(minted', q, StatusFor(pass[p].found), now[p]).kind = "new"
            /\ New(minted', q, StatusFor(pass[p].found), now[p]).status
                 = StatusFor(pass[p].found)
        BY DEF New
      <4> QED
        BY <3>3, <4>1
    <3> QED
      BY <3>1, <3>2, <3>3
  <2>2. /\ pc' = [pc EXCEPT ![p] = "text"] /\ pending' = [pending EXCEPT ![p] = what]
        /\ pass' = [pass EXCEPT ![p] = pass[p]]
    BY <1>1, <2>1 DEF BeginAppend, IInv, Typed
  <2>3. pc'[p] = "text" /\ pending'[p] = what
    BY <2>2 DEF IInv, Typed
  <2>4. Complete(pass[p])
    BY <1>1 DEF Record, Probing, PassOK, Complete, Spent, Pass
  <2>5. StatusMatches(StatusFor(pass[p].found), pass[p].found)
    BY <1>1, StatusForMatches DEF Pass
  <2>6. PassOK(p)'
    BY <1>1, <2>1, <2>3, <2>4, <2>5 DEF PassOK, Appending
  <2> QED
    BY <1>1, <2>2, <2>3, <2>6, OneByOne DEF Alone, PCs
<1> QED
  BY <1>2, <1>3 DEF Record

LEMMA InStoreInductive ==
  ASSUME IInv, NEW p \in Procs, InStore(p) PROVE IInv'
<1>1. /\ pass' = pass /\ pass[p] \in Pass /\ PassOK(p)
      /\ pass' = [pass EXCEPT ![p] = pass[p]]
  BY DEF InStore, IInv, Typed
<1>2. CASE LoadFails(p)
  BY <1>1, <1>2, EndInductive DEF LoadFails
<1>3. ASSUME NEW id \in 1..minted, BeginSetStatus(p, id) PROVE IInv'
  <2>1. pc' = [pc EXCEPT ![p] = "set_status"] /\ pending' = pending
    BY <1>3 DEF BeginSetStatus, Begin
  <2>2. pc'[p] = "set_status" /\ pending' = [pending EXCEPT ![p] = pending[p]]
    BY <2>1 DEF IInv, Typed
  <2>3. PassOK(p)'
    BY <1>1, <2>2 DEF PassOK, Appending
  <2> QED
    BY <1>1, <2>1, <2>2, <2>3, OneByOne DEF Alone, PCs
<1>4. ASSUME NEW status \in SetStatuses, LoadToSetStatus(p, status) PROVE IInv'
  <2>1. PICK id \in target[p] :
          BeginAppend(p, Update(id, status, now[p])) \/ End(p)
    BY <1>4 DEF LoadToSetStatus
  <2>2. CASE BeginAppend(p, Update(id, status, now[p]))
    <3>1. PICK what : what = Update(id, status, now[p])
      OBVIOUS
    <3>2. what.kind = "update"
      BY <3>1 DEF Update
    <3>3. pc' = [pc EXCEPT ![p] = "text"] /\ pending' = [pending EXCEPT ![p] = what]
      BY <2>2, <3>1 DEF BeginAppend
    <3>4. pc'[p] = "text" /\ pending'[p] = what
      BY <3>3 DEF IInv, Typed
    <3>5. PassOK(p)'
      BY <1>1, <3>2, <3>4 DEF PassOK, Appending
    <3> QED
      BY <1>1, <3>3, <3>4, <3>5, OneByOne DEF Alone, PCs
  <2>3. CASE End(p)
    BY <1>1, <2>3, EndInductive
  <2> QED
    BY <2>1, <2>2, <2>3
<1>5. CASE WriteText(p)
  <2>1. pc' = [pc EXCEPT ![p] = "newline"] /\ pending' = pending /\ pc[p] = "text"
    BY <1>5 DEF WriteText
  <2>2. pc'[p] = "newline" /\ pending' = [pending EXCEPT ![p] = pending[p]]
    BY <2>1 DEF IInv, Typed
  <2>3. PassOK(p)'
    BY <1>1, <2>1, <2>2 DEF PassOK, Appending
  <2> QED
    BY <1>1, <2>1, <2>2, <2>3, OneByOne DEF Alone, PCs
<1>6. CASE WriteNewline(p)
  <2>1. CASE End(p)
    BY <1>1, <2>1, EndInductive
  <2>2. CASE pc' = [pc EXCEPT ![p] = "read_back"] /\ UNCHANGED pending
    <3>1. pc'[p] = "read_back" /\ pending' = [pending EXCEPT ![p] = pending[p]]
      BY <2>2 DEF IInv, Typed
    <3>2. pc[p] = "newline"
      BY <1>6 DEF WriteNewline
    <3>3. PassOK(p)'
      BY <1>1, <2>2, <3>1, <3>2 DEF PassOK, Appending
    <3> QED
      BY <1>1, <2>2, <3>1, <3>3, OneByOne DEF Alone, PCs
  <2> QED
    BY <1>6, <2>1, <2>2 DEF WriteNewline
<1> QED
  BY <1>2, <1>3, <1>4, <1>5, <1>6 DEF InStore

LEMMA Inductive == InvSpec => []IInv
<1>1. IInv /\ [InvNext]_invVars => IInv'
  <2> SUFFICES ASSUME IInv, [InvNext]_invVars PROVE IInv'
    OBVIOUS
  <2>1. ASSUME NEW p \in Procs, NEW q \in Queries, Start(p, q) PROVE IInv'
    BY <2>1, StartInductive
  <2>2. ASSUME NEW p \in Procs, Probe(p) \/ Halt(p) PROVE IInv'
    BY <2>2, ProbeInductive
  <2>3. ASSUME NEW p \in Procs, ProbeFails(p) PROVE IInv'
    BY <2>3, EndInductive DEF ProbeFails
  <2>4. ASSUME NEW p \in Procs, Record(p) PROVE IInv'
    BY <2>4, RecordInductive
  <2>5. ASSUME NEW p \in Procs, InStore(p) PROVE IInv'
    BY <2>5, InStoreInductive
  <2>6. ASSUME NEW p \in Procs, Over(p) PROVE IInv'
    BY <2>6, EndInductive DEF Over, ReadBack, Die
  <2>7. CASE (Tick /\ UNCHANGED pass) \/ UNCHANGED invVars
    BY <2>7 DEF Tick, procVars, vars, invVars, IInv, Typed, PassOK, Appending
  <2> QED
    BY <2>1, <2>2, <2>3, <2>4, <2>5, <2>6, <2>7 DEF InvNext
<1> QED
  BY <1>1, InitInductive, PTL DEF InvSpec

(***************************************************************************)
(* No pass makes more probes than its budget allows, and a halted one has  *)
(* used it up.                                                             *)
(***************************************************************************)
THEOREM BudgetsHold == InvSpec => []BudgetHonoured
<1>1. IInv => BudgetHonoured
  BY DEF IInv, PassOK, Spent, BudgetHonoured
<1> QED
  BY <1>1, Inductive, PTL

(***************************************************************************)
(* What is appended to the store is the outcome of a whole pass, and a new *)
(* finding has the status its probes justify.                              *)
(***************************************************************************)
THEOREM FindingsAreJustified == InvSpec => []RecordsWhatWasFound
<1>1. IInv => RecordsWhatWasFound
  BY DEF IInv, PassOK, Appending, Complete, StatusMatches, RecordsWhatWasFound
<1> QED
  BY <1>1, Inductive, PTL
-----------------------------------------------------------------------------
(***************************************************************************)
(* The load of the store is a fold, and so is the text of the file.  What  *)
(* the recursive definitions say of one record more is proved from the     *)
(* least length at which it would fail.                                    *)
(***************************************************************************)
LEMMA LeastNumber ==
  ASSUME NEW S \in SUBSET Nat, S # {}
  PROVE  \E i \in S : \A j \in S : i <= j
<1>1. \A j, k \in Nat : j < k => <<j, k>> \in OpToRel(<, Nat)
  BY DEF OpToRel
<1>2. PICK i \in S : \A j \in S : ~ (<<j, i>> \in OpToRel(<, Nat))
  BY NatLessThanWellFounded, WFMin
<1>3. \A j \in S : ~ (j < i)
  BY <1>1, <1>2
<1> QED
  BY <1>3

\* f holds what has been folded of the first n records.
Folds(f, records, n) ==
  f = [i \in 0..n |-> IF i = 0 THEN NoFindings ELSE Applied(f[i - 1], records[i])]

LEMMA FoldGrows ==
  ASSUME NEW records, NEW n \in Nat, NEW f, Folds(f, records, n)
  PROVE  \E g : Folds(g, records, n + 1)
<1> DEFINE g == [i \in 0..(n + 1) |->
                   IF i = n + 1 THEN Applied(f[n], records[n + 1]) ELSE f[i]]
<1>1. \A i \in 0..n : g[i] = f[i]
  OBVIOUS
<1>2. \A i \in 0..n : f[i] = IF i = 0 THEN NoFindings ELSE Applied(f[i - 1], records[i])
  BY DEF Folds
<1>3. ASSUME NEW i \in 0..(n + 1)
      PROVE  g[i] = IF i = 0 THEN NoFindings ELSE Applied(g[i - 1], records[i])
  <2>1. CASE i = 0
    BY <1>2, <2>1
  <2>2. CASE i \in 1..n
    <3>1. i - 1 \in 0..n
      BY <2>2
    <3> QED
      BY <1>1, <1>2, <2>2, <3>1
  <2>3. CASE i = n + 1
    <3>1. g[n] = f[n] /\ (n + 1) - 1 = n
      BY <1>1
    <3> QED
      BY <2>3, <3>1
  <2> QED
    BY <2>1, <2>2, <2>3
<1>4. g = [i \in 0..(n + 1) |->
             IF i = 0 THEN NoFindings ELSE Applied(g[i - 1], records[i])]
  BY <1>3
<1> QED
  BY <1>4 DEF Folds

LEMMA FoldExists ==
  ASSUME NEW records, NEW n \in Nat
  PROVE  \E f : Folds(f, records, n)
<1> DEFINE Bad == {m \in Nat : ~ \E f : Folds(f, records, m)}
<1>1. SUFFICES ASSUME n \in Bad PROVE FALSE
  OBVIOUS
<1>2. PICK m \in Bad : \A j \in Bad : m <= j
  BY <1>1, LeastNumber
<1>3. m # 0
  <2> DEFINE f == [i \in 0..0 |-> NoFindings]
  <2>1. f = [i \in 0..0 |-> IF i = 0 THEN NoFindings ELSE Applied(f[i - 1], records[i])]
    OBVIOUS
  <2>2. Folds(f, records, 0)
    BY <2>1 DEF Folds
  <2> QED
    BY <2>2
<1>4. m - 1 \in Nat /\ (m - 1) \notin Bad
  BY <1>2, <1>3
<1>5. PICK f : Folds(f, records, m - 1)
  BY <1>4
<1>6. \E g : Folds(g, records, (m - 1) + 1)
  BY <1>4, <1>5, FoldGrows
<1> QED
  BY <1>2, <1>6

LEMMA FoldsAgree ==
  ASSUME NEW n \in Nat, NEW m \in Nat, n <= m, NEW r, NEW s, NEW f, NEW g,
         Folds(f, r, n), Folds(g, s, m), \A i \in 1..n : r[i] = s[i]
  PROVE  f[n] = g[n]
<1> DEFINE Bad == {i \in 0..n : f[i] # g[i]}
<1>1. /\ \A i \in 0..n : f[i] = IF i = 0 THEN NoFindings ELSE Applied(f[i - 1], r[i])
      /\ \A i \in 0..n : g[i] = IF i = 0 THEN NoFindings ELSE Applied(g[i - 1], s[i])
  BY DEF Folds
<1>2. SUFFICES ASSUME n \in Bad PROVE FALSE
  OBVIOUS
<1>3. PICK i \in Bad : \A j \in Bad : i <= j
  <2>1. Bad \in SUBSET Nat /\ Bad # {}
    BY <1>2
  <2> HIDE DEF Bad
  <2> QED
    BY <2>1, LeastNumber
<1>4. i # 0
  BY <1>1, <1>3
<1>5. i - 1 \in 0..n /\ (i - 1) \notin Bad
  BY <1>3, <1>4
<1>6. f[i - 1] = g[i - 1] /\ r[i] = s[i]
  BY <1>4, <1>5
<1>7. f[i] = g[i]
  BY <1>1, <1>4, <1>6
<1> QED
  BY <1>3, <1>7

LEMMA FindingsFolded ==
  ASSUME NEW records, Len(records) \in Nat
  PROVE  \E f : /\ Folds(f, records, Len(records))
                /\ FindingsIn(records) = f[Len(records)]
<1> DEFINE chosen == CHOOSE f : Folds(f, records, Len(records))
<1>1. Folds(chosen, records, Len(records))
  BY FoldExists
<1>2. FindingsIn(records) = chosen[Len(records)]
  BY DEF FindingsIn, Folds
<1> QED
  BY <1>1, <1>2

(***************************************************************************)
(* One record more is applied to what was found before.                    *)
(***************************************************************************)
LEMMA OneRecordMore ==
  ASSUME NEW R, NEW records \in Seq(R), NEW r \in R
  PROVE  FindingsIn(Append(records, r)) = Applied(FindingsIn(records), r)
<1> DEFINE n == Len(records)
           more == Append(records, r)
<1>1. n \in Nat /\ Len(more) = n + 1 /\ more[n + 1] = r
      /\ \A i \in 1..n : records[i] = more[i]
  OBVIOUS
<1>2. PICK f : Folds(f, records, n) /\ FindingsIn(records) = f[n]
  BY <1>1, FindingsFolded
<1>3. PICK g : Folds(g, more, n + 1) /\ FindingsIn(more) = g[n + 1]
  <2>1. Len(more) \in Nat /\ Len(more) = n + 1
    BY <1>1
  <2> HIDE DEF more, n
  <2>2. \E g : Folds(g, more, Len(more)) /\ FindingsIn(more) = g[Len(more)]
    BY <2>1, FindingsFolded
  <2> QED
    BY <2>1, <2>2
<1>4. f[n] = g[n]
  <2>1. n + 1 \in Nat /\ n <= n + 1
    BY <1>1
  <2> HIDE DEF more, n
  <2> QED
    BY <1>1, <1>2, <1>3, <2>1, FoldsAgree
<1>5. g[n + 1] = Applied(g[n], more[n + 1])
  <2>1. n + 1 \in 0..(n + 1) /\ n + 1 # 0 /\ (n + 1) - 1 = n
    BY <1>1
  <2> QED
    BY <1>3, <2>1 DEF Folds
<1> QED
  BY <1>1, <1>2, <1>3, <1>4, <1>5

\* f joins the first lines of the file.
Joins(f, file, n) ==
  f = [i \in 1..n |-> IF i = 1 THEN file[i] ELSE f[i - 1] \o file[i]]

LEMMA JoinExists ==
  ASSUME NEW file, NEW n \in Nat
  PROVE  \E f : Joins(f, file, n)
<1> DEFINE Bad == {m \in Nat : ~ \E f : Joins(f, file, m)}
<1>1. SUFFICES ASSUME n \in Bad PROVE FALSE
  OBVIOUS
<1>2. PICK m \in Bad : \A j \in Bad : m <= j
  BY <1>1, LeastNumber
<1>3. m # 0
  <2> DEFINE f == [i \in 1..0 |-> file]
  <2>1. f = [i \in 1..0 |-> IF i = 1 THEN file[i] ELSE f[i - 1] \o file[i]]
    OBVIOUS
  <2>2. Joins(f, file, 0)
    BY <2>1 DEF Joins
  <2> QED
    BY <2>2
<1>4. m - 1 \in Nat /\ (m - 1) \notin Bad
  BY <1>2, <1>3
<1>5. PICK f : Joins(f, file, m - 1)
  BY <1>4
<1> DEFINE g == [i \in 1..m |->
                   IF i # m THEN f[i] ELSE IF m = 1 THEN file[m] ELSE f[m - 1] \o file[m]]
<1>6. \A i \in 1..(m - 1) : f[i] = IF i = 1 THEN file[i] ELSE f[i - 1] \o file[i]
  BY <1>5 DEF Joins
<1>7. ASSUME NEW i \in 1..m
      PROVE  g[i] = IF i = 1 THEN file[i] ELSE g[i - 1] \o file[i]
  <2>1. CASE i = 1
    BY <1>2, <1>3, <1>6, <2>1
  <2>2. CASE i # 1
    <3>1. i - 1 \in 1..(m - 1) /\ g[i - 1] = f[i - 1]
      BY <1>2, <2>2
    <3>2. CASE i = m
      BY <1>2, <2>2, <3>1, <3>2
    <3>3. CASE i # m
      <4>1. i \in 1..(m - 1) /\ g[i] = f[i]
        BY <1>2, <3>3
      <4> QED
        BY <1>6, <2>2, <3>1, <4>1
    <3> QED
      BY <3>2, <3>3
  <2> QED
    BY <2>1, <2>2
<1>8. g = [i \in 1..m |-> IF i = 1 THEN file[i] ELSE g[i - 1] \o file[i]]
  BY <1>7
<1>9. Joins(g, file, m)
  BY <1>8 DEF Joins
<1> QED
  BY <1>2, <1>9

LEMMA JoinsAgree ==
  ASSUME NEW n \in Nat, n # 0, NEW k \in Nat, n <= k, NEW m \in Nat, n <= m,
         NEW r, NEW s, NEW f, NEW g,
         Joins(f, r, k), Joins(g, s, m), \A i \in 1..n : r[i] = s[i]
  PROVE  f[n] = g[n]
<1> DEFINE Bad == {i \in 1..n : f[i] # g[i]}
<1>1. /\ \A i \in 1..n : f[i] = IF i = 1 THEN r[i] ELSE f[i - 1] \o r[i]
      /\ \A i \in 1..n : g[i] = IF i = 1 THEN s[i] ELSE g[i - 1] \o s[i]
  <2>1. /\ \A i \in 1..k : f[i] = IF i = 1 THEN r[i] ELSE f[i - 1] \o r[i]
        /\ \A i \in 1..m : g[i] = IF i = 1 THEN s[i] ELSE g[i - 1] \o s[i]
    BY DEF Joins
  <2>2. \A i \in 1..n : i \in 1..k /\ i \in 1..m
    OBVIOUS
  <2> QED
    BY <2>1, <2>2
<1>2. SUFFICES ASSUME n \in Bad PROVE FALSE
  OBVIOUS
<1>3. PICK i \in Bad : \A j \in Bad : i <= j
  <2>1. Bad \in SUBSET Nat /\ Bad # {}
    BY <1>2
  <2> HIDE DEF Bad
  <2> QED
    BY <2>1, LeastNumber
<1>4. i # 1
  BY <1>1, <1>3
<1>5. i - 1 \in 1..n /\ (i - 1) \notin Bad
  BY <1>3, <1>4
<1>6. f[i - 1] = g[i - 1] /\ r[i] = s[i]
  BY <1>4, <1>5
<1>7. f[i] = g[i]
  BY <1>1, <1>4, <1>6
<1> QED
  BY <1>3, <1>7

LEMMA JoinsSequences ==
  ASSUME NEW R, NEW n \in Nat, NEW file, \A i \in 1..n : file[i] \in Seq(R),
         NEW f, Joins(f, file, n)
  PROVE  \A i \in 1..n : f[i] \in Seq(R)
<1> DEFINE Bad == {i \in 1..n : f[i] \notin Seq(R)}
<1>1. \A i \in 1..n : f[i] = IF i = 1 THEN file[i] ELSE f[i - 1] \o file[i]
  BY DEF Joins
<1>2. SUFFICES ASSUME Bad # {} PROVE FALSE
  OBVIOUS
<1>3. PICK i \in Bad : \A j \in Bad : i <= j
  <2>1. Bad \in SUBSET Nat
    OBVIOUS
  <2> HIDE DEF Bad
  <2> QED
    BY <1>2, <2>1, LeastNumber
<1>4. i # 1
  BY <1>1, <1>3
<1>5. i - 1 \in 1..n /\ (i - 1) \notin Bad
  BY <1>3, <1>4
<1>6. f[i - 1] \in Seq(R) /\ file[i] \in Seq(R) /\ f[i] = f[i - 1] \o file[i]
  BY <1>1, <1>4, <1>5
<1>7. f[i] \in Seq(R)
  BY <1>6
<1> QED
  BY <1>3, <1>7

LEMMA FileJoined ==
  ASSUME NEW R, NEW file \in Seq(Seq(R)), file # <<>>
  PROVE  \E f : /\ Joins(f, file, Len(file)) /\ FlattenSeq(file) = f[Len(file)]
                /\ \A i \in 1..Len(file) : f[i] \in Seq(R)
<1> DEFINE n == Len(file)
           chosen == CHOOSE f : Joins(f, file, n)
<1>1. n \in Nat /\ n # 0 /\ \A i \in 1..n : file[i] \in Seq(R)
  OBVIOUS
<1>2. Joins(chosen, file, n)
  BY <1>1, JoinExists
<1>3. FlattenSeq(file) = chosen[n]
  BY <1>1 DEF FlattenSeq, Joins
<1>4. \A i \in 1..n : chosen[i] \in Seq(R)
  BY <1>1, <1>2, JoinsSequences
<1> QED
  BY <1>2, <1>3, <1>4

(***************************************************************************)
(* The records of the file are those of its lines; a line that is begun    *)
(* adds none, and a record written into the open line is the last one.     *)
(***************************************************************************)
LEMMA RecordsJoined ==
  ASSUME NEW R, NEW file \in Seq(Seq(R)), file # <<>>
  PROVE  FlattenSeq(file) \in Seq(R)
<1>1. Len(file) \in 1..Len(file)
  OBVIOUS
<1> QED
  BY <1>1, FileJoined

LEMMA LineBegun ==
  ASSUME NEW R, NEW file \in Seq(Seq(R)), file # <<>>
  PROVE  FlattenSeq(Append(file, <<>>)) = FlattenSeq(file)
<1> DEFINE n == Len(file)
<1>1. PICK more : more = Append(file, <<>>)
  OBVIOUS
<1>2. /\ more \in Seq(Seq(R)) /\ more # <<>> /\ Len(more) = n + 1 /\ more[n + 1] = <<>>
      /\ \A i \in 1..n : file[i] = more[i]
      /\ n \in Nat /\ n # 0
  <2>1. <<>> \in Seq(R)
    OBVIOUS
  <2> QED
    BY <1>1, <2>1
<1>3. PICK f : /\ Joins(f, file, n) /\ FlattenSeq(file) = f[n]
               /\ \A i \in 1..n : f[i] \in Seq(R)
  BY FileJoined
<1>4. PICK g : /\ Joins(g, more, n + 1) /\ FlattenSeq(more) = g[n + 1]
  <2>1. \E g : Joins(g, more, Len(more)) /\ FlattenSeq(more) = g[Len(more)]
    BY <1>2, FileJoined
  <2> QED
    BY <1>2, <2>1
<1>5. f[n] = g[n]
  <2>1. n + 1 \in Nat /\ n <= n + 1
    BY <1>2
  <2> HIDE DEF n
  <2> QED
    BY <1>2, <1>3, <1>4, <2>1, JoinsAgree
<1>6. g[n + 1] = g[n] \o <<>>
  <2>1. n + 1 \in 1..(n + 1) /\ n + 1 # 1 /\ (n + 1) - 1 = n
    BY <1>2
  <2> QED
    BY <1>2, <1>4, <2>1 DEF Joins
<1>7. f[n] \in Seq(R) /\ f[n] \o <<>> = f[n]
  <2>1. f[n] \in Seq(R)
    BY <1>2, <1>3
  <2> QED
    BY <2>1
<1> QED
  BY <1>1, <1>3, <1>4, <1>5, <1>6, <1>7

LEMMA TextWritten ==
  ASSUME NEW R, NEW file \in Seq(Seq(R)), file # <<>>, NEW r \in R
  PROVE  /\ FlattenSeq([file EXCEPT ![Len(file)] = Append(@, r)])
              = Append(FlattenSeq(file), r)
         /\ [file EXCEPT ![Len(file)] = Append(@, r)] \in Seq(Seq(R))
<1> DEFINE n == Len(file)
<1>1. PICK more : more = [file EXCEPT ![n] = Append(@, r)]
  OBVIOUS
<1>2. n \in Nat /\ n # 0 /\ n \in 1..n /\ file[n] \in Seq(R)
  OBVIOUS
<1>3. /\ more \in Seq(Seq(R)) /\ more # <<>> /\ Len(more) = n
      /\ more[n] = Append(file[n], r)
      /\ \A i \in 1..(n - 1) : file[i] = more[i]
  <2>1. Append(file[n], r) \in Seq(R)
    BY <1>2
  <2> QED
    BY <1>1, <1>2, <2>1
<1>4. PICK f : /\ Joins(f, file, n) /\ FlattenSeq(file) = f[n]
               /\ \A i \in 1..n : f[i] \in Seq(R)
  BY FileJoined
<1>5. PICK g : /\ Joins(g, more, n) /\ FlattenSeq(more) = g[n]
  BY <1>3, FileJoined
<1>6. /\ f[n] = IF n = 1 THEN file[n] ELSE f[n - 1] \o file[n]
      /\ g[n] = IF n = 1 THEN more[n] ELSE g[n - 1] \o more[n]
  BY <1>2, <1>4, <1>5 DEF Joins
<1>7. CASE n = 1
  BY <1>1, <1>3, <1>4, <1>5, <1>6, <1>7
<1>8. CASE n # 1
  <2>1. /\ n - 1 \in Nat /\ n - 1 # 0 /\ n - 1 \in 1..n /\ n - 1 <= n
    <3> HIDE DEF n
    <3> QED
      BY <1>2, <1>8
  <2>2. f[n - 1] = g[n - 1]
    <3> HIDE DEF n
    <3> QED
      BY <1>2, <1>3, <1>4, <1>5, <2>1, JoinsAgree
  <2>3. f[n - 1] \in Seq(R)
    BY <1>4, <2>1
  <2>4. f[n - 1] \o Append(file[n], r) = Append(f[n - 1] \o file[n], r)
    <3>1. \A s, t \in Seq(R) : s \o Append(t, r) = Append(s \o t, r)
      OBVIOUS
    <3> QED
      BY <1>2, <2>3, <3>1
  <2> QED
    BY <1>1, <1>3, <1>4, <1>5, <1>6, <1>8, <2>2, <2>4
<1> QED
  BY <1>7, <1>8

-----------------------------------------------------------------------------
(***************************************************************************)
(* What is known of the file and of those who write it.  Findings and      *)
(* recurrences are never forgotten, so what a process saw when it loaded   *)
(* the file bounds what is there when it appends: its count is at most one *)
(* more than the recurrences on file, and the finding it appends to is     *)
(* there for good.                                                         *)
(***************************************************************************)
Statuses == {"Open", "Confirmed", "Refuted", "Escalated", "Suppressed"}

Times == 0..MaxTime

Finding == [query : Queries, status : Statuses, count : Nat, first : Times, last : Times]

Entry ==
  [kind : {"new"}, id : Nat, query : Queries, status : Statuses, now : Times]
    \cup [kind : {"recur"}, id : Nat, count : Nat, now : Times]
    \cup [kind : {"update"}, id : Nat, status : Statuses, now : Times]

IsTable(found) == found \in [DOMAIN found -> Finding]

Writing(p) == pc[p] \in {"text", "newline", "read_back"}

ProcOK(p) ==
  /\ pc[p] = "record" => target[p] \subseteq Queries
  /\ pc[p] = "set_status" => target[p] \subseteq Nat
  /\ Writing(p) =>
       /\ pending[p] \in Entry /\ pending[p].id \in 1..minted
       /\ pc[p] # "text" \/ pending[p].kind # "new" => pending[p].id \in DOMAIN Findings
       /\ pc[p] = "text" /\ pending[p].kind = "recur" =>
            pending[p].count <= Recurrences(pending[p].id) + 1

StoreTyped ==
  /\ lines \in Seq(Seq(Entry)) /\ lines # <<>>
  /\ minted \in Nat /\ clock \in Times
  /\ now \in [Procs -> Times]
  /\ target = [p \in Procs |-> target[p]]

TableOK ==
  IsTable(Findings) /\ DOMAIN Findings \subseteq 1..minted /\ NeverOvercounted

StoreOK == StoreTyped /\ TableOK /\ \A p \in Procs : ProcOK(p)

\* What a process knows may rely on: nothing on file goes away.
Grown ==
  /\ minted' \in Nat /\ minted <= minted'
  /\ DOMAIN Findings \subseteq DOMAIN Findings'
  /\ \A id \in Nat : Recurrences(id) <= Recurrences(id)'

RecurrencesIn(records, id) == Cardinality({i \in 1..Len(records) : Recurs(records[i], id)})

LEMMA RecurrencesOf == \A id : Recurrences(id) = RecurrencesIn(Records, id)
BY DEF Recurrences, RecurrencesIn

LEMMA RecurrenceAdded ==
  ASSUME NEW R, NEW records \in Seq(R), NEW r \in R, NEW id
  PROVE  /\ RecurrencesIn(records, id) \in Nat
         /\ RecurrencesIn(Append(records, r), id)
              = RecurrencesIn(records, id) + (IF Recurs(r, id) THEN 1 ELSE 0)
<1> DEFINE n == Len(records)
           more == Append(records, r)
           old == {i \in 1..n : Recurs(records[i], id)}
           new == {i \in 1..Len(more) : Recurs(more[i], id)}
<1>1. n \in Nat /\ Len(more) = n + 1 /\ more[n + 1] = r
      /\ \A i \in 1..n : records[i] = more[i]
  OBVIOUS
<1>2. IsFiniteSet(old)
  <2>1. IsFiniteSet(1..n)
    BY <1>1, FS_Interval
  <2>2. old \subseteq 1..n
    OBVIOUS
  <2> HIDE DEF old, n
  <2> QED
    BY <2>1, <2>2, FS_Subset
<1>3. Cardinality(old) \in Nat
  <2> HIDE DEF old
  <2> QED
    BY <1>2, FS_CardinalityType
<1>4. CASE Recurs(r, id)
  <2>1. new = old \cup {n + 1} /\ n + 1 \notin old
    BY <1>1, <1>4
  <2>2. Cardinality(old \cup {n + 1}) = Cardinality(old) + 1
    <3> HIDE DEF old
    <3> QED
      BY <1>2, <2>1, FS_AddElement
  <2> QED
    BY <1>3, <1>4, <2>1, <2>2 DEF RecurrencesIn
<1>5. CASE ~ Recurs(r, id)
  <2>1. new = old
    BY <1>1, <1>5
  <2>2. /\ RecurrencesIn(records, id) = Cardinality(old)
        /\ RecurrencesIn(more, id) = Cardinality(new)
    BY DEF RecurrencesIn
  <2> HIDE DEF old, new
  <2> QED
    BY <1>3, <1>5, <2>1, <2>2
<1> QED
  BY <1>4, <1>5

LEMMA EntryKinds ==
  ASSUME NEW r \in Entry
  PROVE  /\ r.kind \in {"new", "recur", "update"} /\ r.id \in Nat /\ r.now \in Times
         /\ r.kind = "new" => r.query \in Queries /\ r.status \in Statuses
         /\ r.kind = "recur" => r.count \in Nat
         /\ r.kind = "update" => r.status \in Statuses
BY DEF Entry

\* What r makes of a finding.
Made(f, r) ==
  IF r.kind = "new" THEN Started(r) ELSE IF r.kind = "recur" THEN Recurred(f, r) ELSE Moved(f, r)

LEMMA MadeFinding ==
  ASSUME NEW r \in Entry, NEW f, r.kind # "new" => f \in Finding
  PROVE  /\ Made(f, r) \in Finding
         /\ Made(f, r).last = r.now
         /\ Made(f, r).count = IF r.kind = "new" THEN 0
                               ELSE IF r.kind = "recur" THEN r.count ELSE f.count
         /\ Made(f, r).query = IF r.kind = "new" THEN r.query ELSE f.query
         /\ Made(f, r).status = IF r.kind = "recur" THEN f.status ELSE r.status
<1>1. CASE r.kind = "new"
  BY <1>1, EntryKinds DEF Made, Started, Finding
<1>2. CASE r.kind = "recur"
  BY <1>2, EntryKinds DEF Made, Recurred, Finding
<1>3. CASE r.kind = "update"
  BY <1>3, EntryKinds DEF Made, Moved, Finding
<1> QED
  BY <1>1, <1>2, <1>3, EntryKinds

LEMMA AppliedTable ==
  ASSUME NEW found, IsTable(found), NEW r \in Entry
  PROVE  /\ IsTable(Applied(found, r))
         /\ DOMAIN Applied(found, r)
              = IF r.kind = "new" THEN DOMAIN found \cup {r.id} ELSE DOMAIN found
         /\ \A id \in DOMAIN Applied(found, r) :
              Applied(found, r)[id] = IF id = r.id THEN Made(found[id], r) ELSE found[id]
<1> DEFINE D == IF r.kind = "new" THEN DOMAIN found \cup {r.id} ELSE DOMAIN found
           next == [id \in D |-> IF id = r.id THEN Made(found[id], r) ELSE found[id]]
<1>1. found = [id \in DOMAIN found |-> found[id]]
      /\ \A id \in DOMAIN found : found[id] \in Finding
  BY DEF IsTable
<1>2. Applied(found, r) = next
  <2>1. CASE r.kind = "new"
    BY <2>1 DEF Applied, Made
  <2>2. CASE r.kind = "recur"
    <3>1. CASE r.id \in DOMAIN found
      <4>1. Applied(found, r) = [found EXCEPT ![r.id] = Recurred(@, r)]
        BY <2>2, <3>1 DEF Applied
      <4>2. \A f : Made(f, r) = Recurred(f, r)
        BY <2>2 DEF Made
      <4> QED
        BY <1>1, <2>2, <4>1, <4>2
    <3>2. CASE r.id \notin DOMAIN found
      BY <1>1, <2>2, <3>2 DEF Applied
    <3> QED
      BY <3>1, <3>2
  <2>3. CASE r.kind = "update"
    <3>1. CASE r.id \in DOMAIN found
      <4>1. Applied(found, r) = [found EXCEPT ![r.id] = Moved(@, r)]
        BY <2>3, <3>1 DEF Applied
      <4>2. \A f : Made(f, r) = Moved(f, r)
        BY <2>3 DEF Made
      <4> QED
        BY <1>1, <2>3, <4>1, <4>2
    <3>2. CASE r.id \notin DOMAIN found
      BY <1>1, <2>3, <3>2 DEF Applied
    <3> QED
      BY <3>1, <3>2
  <2> QED
    BY <2>1, <2>2, <2>3, EntryKinds
<1>3. \A id \in D : next[id] \in Finding
  <2> TAKE id \in D
  <2>1. CASE id = r.id
    BY <1>1, <2>1, MadeFinding
  <2>2. CASE id # r.id
    BY <1>1, <2>2
  <2> QED
    BY <2>1, <2>2
<1>4. next \in [D -> Finding] /\ DOMAIN next = D
  BY <1>3
<1> QED
  BY <1>2, <1>4 DEF IsTable

(***************************************************************************)
(* What the three kinds of steps do to the file.                           *)
(***************************************************************************)
LEMMA RecordsTyped == StoreTyped => Records \in Seq(Entry)
BY RecordsJoined DEF StoreTyped, Records

LEMMA TextStored ==
  ASSUME StoreTyped, NEW p \in Procs, WriteText(p), pending[p] \in Entry
  PROVE  /\ Records' = Append(Records, pending[p])
         /\ Findings' = Applied(Findings, pending[p])
         /\ \A id : Recurrences(id)'
                      = Recurrences(id) + (IF Recurs(pending[p], id) THEN 1 ELSE 0)
         /\ \A id : Recurrences(id) \in Nat
         /\ lines' \in Seq(Seq(Entry)) /\ lines' # <<>>
<1>1. PICK r \in Entry : r = pending[p]
  OBVIOUS
<1>2. lines' = [lines EXCEPT ![Len(lines)] = Append(@, r)]
  BY <1>1 DEF WriteText
<1>3. /\ FlattenSeq(lines') = Append(FlattenSeq(lines), r)
      /\ lines' \in Seq(Seq(Entry))
  BY <1>2, TextWritten DEF StoreTyped
<1>4. lines' # <<>>
  <2>1. Len(lines') = Len(lines) /\ Len(lines) # 0
    BY <1>2 DEF StoreTyped
  <2> QED
    BY <2>1
<1>5. Records' = Append(Records, r)
  BY <1>3 DEF Records
<1>6. PICK records \in Seq(Entry) : records = Records
  BY RecordsTyped
<1>7. Findings' = Applied(Findings, r)
  <2>1. FindingsIn(Append(records, r)) = Applied(FindingsIn(records), r)
    BY OneRecordMore
  <2> QED
    BY <1>5, <1>6, <2>1 DEF Findings
<1>8. ASSUME NEW id
      PROVE  /\ Recurrences(id) \in Nat
             /\ Recurrences(id)' = Recurrences(id) + (IF Recurs(r, id) THEN 1 ELSE 0)
  <2>1. /\ RecurrencesIn(records, id) \in Nat
        /\ RecurrencesIn(Append(records, r), id)
             = RecurrencesIn(records, id) + (IF Recurs(r, id) THEN 1 ELSE 0)
    BY RecurrenceAdded
  <2>2. /\ Recurrences(id) = RecurrencesIn(records, id)
        /\ Recurrences(id)' = RecurrencesIn(Append(records, r), id)
    BY <1>5, <1>6 DEF Recurrences, RecurrencesIn
  <2> QED
    BY <2>1, <2>2
<1> QED
  BY <1>1, <1>3, <1>4, <1>5, <1>7, <1>8

LEMMA RecurrencesCount == StoreTyped => \A id : Recurrences(id) \in Nat
<1> SUFFICES ASSUME StoreTyped, NEW id PROVE Recurrences(id) \in Nat
  OBVIOUS
<1>1. PICK n \in Nat : n = Len(Records)
  BY RecordsTyped
<1> DEFINE S == {i \in 1..n : Recurs(Records[i], id)}
<1>2. IsFiniteSet(1..n) /\ S \subseteq 1..n
  BY FS_Interval
<1>3. Cardinality(S) \in Nat
  <2> HIDE DEF S
  <2> QED
    BY <1>2, FS_Subset, FS_CardinalityType
<1> QED
  BY <1>1, <1>3 DEF Recurrences

LEMMA SameRecords ==
  ASSUME StoreTyped, UNCHANGED lines \/ lines' = Append(lines, <<>>)
  PROVE  /\ UNCHANGED <<Records, Findings>>
         /\ \A id : Recurrences(id)' = Recurrences(id)
         /\ lines' \in Seq(Seq(Entry)) /\ lines' # <<>>
<1>1. FlattenSeq(lines') = FlattenSeq(lines)
  BY LineBegun DEF StoreTyped
<1>2. Records' = Records
  BY <1>1 DEF Records
<1>3. Findings' = Findings
  BY <1>2 DEF Findings
<1>4. \A id : Recurrences(id)' = Recurrences(id)
  BY <1>2 DEF Recurrences
<1>5. lines' \in Seq(Seq(Entry)) /\ lines' # <<>>
  <2>1. CASE UNCHANGED lines
    BY <2>1 DEF StoreTyped
  <2>2. CASE lines' = Append(lines, <<>>)
    <3>1. <<>> \in Seq(Entry) /\ lines \in Seq(Seq(Entry))
      BY DEF StoreTyped
    <3>2. lines' \in Seq(Seq(Entry)) /\ Len(lines') = Len(lines) + 1 /\ Len(lines) \in Nat
      BY <2>2, <3>1
    <3> QED
      BY <3>2
  <2> QED
    BY <2>1, <2>2
<1> QED
  BY <1>2, <1>3, <1>4, <1>5

Keeps(p) ==
  \A r \in Procs \ {p} : pc'[r] = pc[r] /\ pending'[r] = pending[r] /\ target'[r] = target[r]

LEMMA ProcessSteps ==
  ASSUME StoreOK, NEW p \in Procs, Keeps(p), Grown, ProcOK(p)', StoreTyped', TableOK'
  PROVE  StoreOK'
<1>1. ASSUME NEW r \in Procs, r # p PROVE ProcOK(r)'
  <2>1. pc'[r] = pc[r] /\ pending'[r] = pending[r] /\ target'[r] = target[r] /\ ProcOK(r)
    BY <1>1 DEF Keeps, StoreOK
  <2>2. Writing(r)' = Writing(r)
    BY <2>1 DEF Writing
  <2>3. ASSUME Writing(r)
        PROVE  pending[r] \in Entry /\ pending[r].id \in 1..minted /\ pending[r].id \in 1..minted'
    <3>1. pending[r] \in Entry /\ pending[r].id \in 1..minted
      BY <2>1, <2>3 DEF ProcOK
    <3>2. minted \in Nat /\ minted' \in Nat /\ minted <= minted'
      BY DEF StoreOK, StoreTyped, Grown
    <3> QED
      BY <3>1, <3>2
  <2>4. ASSUME Writing(r), pc[r] = "text", pending[r].kind = "recur"
        PROVE  pending[r].count <= Recurrences(pending[r].id)' + 1
    <3>1. /\ pending[r].count \in Nat /\ pending[r].id \in Nat
          /\ pending[r].count <= Recurrences(pending[r].id) + 1
      BY <2>1, <2>3, <2>4, EntryKinds DEF ProcOK
    <3>2. /\ Recurrences(pending[r].id) \in Nat /\ Recurrences(pending[r].id)' \in Nat
      <4>1. \A id : Recurrences(id)' \in Nat
        <5>1. Records' \in Seq(Entry)
          BY RecordsJoined DEF StoreTyped, Records
        <5>2. PICK records \in Seq(Entry) : records = Records'
          BY <5>1
        <5>3. ASSUME NEW id PROVE RecurrencesIn(records, id) \in Nat
          BY <2>3, <2>4, RecurrenceAdded
        <5> QED
          BY <5>2, <5>3 DEF Recurrences, RecurrencesIn
      <4>2. \A id : Recurrences(id) \in Nat
        BY RecurrencesCount DEF StoreOK
      <4>3. PICK id \in Nat : id = pending[r].id
        BY <3>1
      <4> QED
        BY <4>1, <4>2, <4>3
    <3>3. Recurrences(pending[r].id) <= Recurrences(pending[r].id)'
      <4>1. \A id \in Nat : Recurrences(id) <= Recurrences(id)'
        BY DEF Grown
      <4>2. PICK id \in Nat : id = pending[r].id
        BY <3>1
      <4>3. id = pending[r].id /\ UNCHANGED pending[r]
        BY <2>1, <4>2
      <4> QED
        BY <4>1, <4>2, <4>3
    <3> QED
      BY <3>1, <3>2, <3>3
  <2>5. DOMAIN Findings \subseteq DOMAIN Findings'
    BY DEF Grown
  <2> QED
    BY <2>1, <2>2, <2>3, <2>4, <2>5 DEF ProcOK
<1> QED
  BY <1>1 DEF StoreOK

LEMMA FileKept ==
  ASSUME StoreOK, NEW p \in Procs, Keeps(p), ProcOK(p)',
         UNCHANGED lines \/ lines' = Append(lines, <<>>), UNCHANGED clock,
         minted' \in Nat, minted <= minted',
         now' \in [Procs -> Times], target' = [r \in Procs |-> target'[r]]
  PROVE  StoreOK'
<1>1. /\ UNCHANGED <<Records, Findings>>
      /\ \A id : Recurrences(id)' = Recurrences(id)
      /\ lines' \in Seq(Seq(Entry)) /\ lines' # <<>>
  BY SameRecords DEF StoreOK
<1>2. \A id : Recurrences(id) \in Nat
  BY RecurrencesCount DEF StoreOK
<1>3. Grown
  BY <1>1, <1>2 DEF Grown
<1>4. StoreTyped'
  BY <1>1 DEF StoreOK, StoreTyped
<1>5. TableOK'
  <2>1. minted \in Nat /\ DOMAIN Findings \subseteq 1..minted
    BY DEF StoreOK, StoreTyped, TableOK
  <2>2. DOMAIN Findings' \subseteq 1..minted'
    BY <1>1, <2>1
  <2>3. NeverOvercounted'
    BY <1>1 DEF StoreOK, TableOK, NeverOvercounted
  <2> QED
    BY <1>1, <2>2, <2>3 DEF StoreOK, TableOK, IsTable
<1> QED
  BY <1>3, <1>4, <1>5, ProcessSteps

LEMMA TextInductive ==
  ASSUME IInv, StoreOK, NEW p \in Procs, WriteText(p) PROVE StoreOK'
<1>1. /\ pc[p] = "text" /\ pc' = [pc EXCEPT ![p] = "newline"] /\ pc'[p] = "newline"
      /\ UNCHANGED <<minted, clock, now, target, pending>>
  BY DEF WriteText, IInv, Typed
<1>2. PICK r \in Entry :
        /\ r = pending[p] /\ r.id \in 1..minted
        /\ r.kind # "new" => r.id \in DOMAIN Findings
        /\ r.kind = "recur" => r.count <= Recurrences(r.id) + 1
  BY <1>1 DEF StoreOK, ProcOK, Writing
<1>3. /\ Findings' = Applied(Findings, r)
      /\ \A id : Recurrences(id)' = Recurrences(id) + (IF Recurs(r, id) THEN 1 ELSE 0)
      /\ \A id : Recurrences(id) \in Nat
      /\ lines' \in Seq(Seq(Entry)) /\ lines' # <<>>
  BY <1>2, TextStored DEF StoreOK
<1>4. PICK found : found = Findings
  OBVIOUS
<1>5. /\ IsTable(found) /\ DOMAIN found \subseteq 1..minted
      /\ \A id \in DOMAIN found : found[id] \in Finding /\ found[id].count <= Recurrences(id)
  BY <1>4 DEF StoreOK, TableOK, IsTable, NeverOvercounted
<1>6. PICK after : after = Applied(found, r)
  OBVIOUS
<1>7. /\ IsTable(after)
      /\ DOMAIN after = IF r.kind = "new" THEN DOMAIN found \cup {r.id} ELSE DOMAIN found
      /\ \A id \in DOMAIN after :
           after[id] = IF id = r.id THEN Made(found[id], r) ELSE found[id]
  BY <1>5, <1>6, AppliedTable
<1>8. ASSUME NEW id \in DOMAIN after PROVE after[id].count <= Recurrences(id)'
  <2>1. Recurrences(id) \in Nat /\ Recurrences(id)' = Recurrences(id) + (IF Recurs(r, id) THEN 1 ELSE 0)
    BY <1>3
  <2>2. CASE id # r.id
    <3>1. id \in DOMAIN found /\ after[id] = found[id]
      BY <1>7, <2>2
    <3>2. found[id].count \in Nat /\ found[id].count <= Recurrences(id)
      BY <1>5, <3>1 DEF Finding
    <3> QED
      BY <2>1, <3>1, <3>2
  <2>3. CASE id = r.id
    <3>1. after[id] = Made(found[id], r)
      BY <1>7, <2>3
    <3>2. CASE r.kind = "new"
      <4>1. after[id].count = 0
        BY <3>1, <3>2, MadeFinding
      <4> QED
        BY <2>1, <4>1
    <3>3. CASE r.kind = "recur"
      <4>1. found[id] \in Finding
        BY <1>2, <1>4, <1>5, <2>3, <3>3
      <4>2. after[id].count = r.count /\ r.count \in Nat
        BY <3>1, <3>3, <4>1, MadeFinding, EntryKinds
      <4>3. Recurrences(id)' = Recurrences(id) + 1
        BY <2>1, <2>3, <3>3 DEF Recurs
      <4> QED
        BY <1>2, <2>1, <2>3, <3>3, <4>2, <4>3
    <3>4. CASE r.kind = "update"
      <4>1. found[id] \in Finding /\ found[id].count \in Nat
        BY <1>2, <1>4, <1>5, <2>3, <3>4 DEF Finding
      <4>2. after[id].count = found[id].count
        BY <3>1, <3>4, <4>1, MadeFinding
      <4>3. found[id].count <= Recurrences(id)
        BY <1>2, <1>4, <1>5, <2>3, <3>4
      <4> QED
        BY <2>1, <4>1, <4>2, <4>3
    <3> QED
      BY <3>2, <3>3, <3>4, EntryKinds
  <2> QED
    BY <2>2, <2>3
<1>9. Findings' = after
  BY <1>3, <1>4, <1>6
<1>10. TableOK'
  <2>1. DOMAIN after \subseteq 1..minted'
    BY <1>1, <1>2, <1>5, <1>7
  <2>2. NeverOvercounted'
    BY <1>8, <1>9 DEF NeverOvercounted
  <2> QED
    BY <1>7, <1>9, <2>1, <2>2 DEF TableOK
<1>11. Grown
  <2>1. minted \in Nat /\ minted' = minted
    BY <1>1 DEF StoreOK, StoreTyped
  <2>2. DOMAIN found \subseteq DOMAIN after
    BY <1>7
  <2>3. ASSUME NEW id \in Nat PROVE Recurrences(id) <= Recurrences(id)'
    BY <1>3
  <2> QED
    BY <1>4, <1>9, <2>1, <2>2, <2>3 DEF Grown
<1>12. StoreTyped'
  BY <1>1, <1>3 DEF StoreOK, StoreTyped
<1>13. r.id \in DOMAIN Findings'
  BY <1>2, <1>4, <1>7, <1>9
<1>14. ProcOK(p)'
  BY <1>1, <1>2, <1>13 DEF ProcOK
<1>15. Keeps(p)
  BY <1>1 DEF Keeps, IInv, Typed
<1> QED
  BY <1>10, <1>11, <1>12, <1>14, <1>15, ProcessSteps

LEMMA BeginKept ==
  ASSUME IInv, StoreOK, NEW p \in Procs,
         \/ \E q \in Queries : BeginRecord(p, q)
         \/ \E id \in 1..minted : BeginSetStatus(p, id)
  PROVE  StoreOK'
<1>1. PICK op, what :
        /\ Begin(p, op, what)
        /\ \/ op = "record" /\ what \in Queries
           \/ op = "set_status" /\ what \in Nat
  <2>1. CASE \E q \in Queries : BeginRecord(p, q)
    BY <2>1 DEF BeginRecord
  <2>2. CASE \E id \in 1..minted : BeginSetStatus(p, id)
    BY <2>2 DEF BeginSetStatus, StoreOK, StoreTyped
  <2> QED
    BY <2>1, <2>2
<1>2. /\ pc' = [pc EXCEPT ![p] = op] /\ now' = [now EXCEPT ![p] = clock]
      /\ target' = [target EXCEPT ![p] = {what}]
      /\ UNCHANGED <<lines, minted, clock, pending>>
  BY <1>1 DEF Begin
<1>3. pc'[p] = op /\ target'[p] = {what} /\ op \in {"record", "set_status"}
  BY <1>1, <1>2 DEF IInv, Typed, StoreOK, StoreTyped
<1>4. ProcOK(p)'
  BY <1>1, <1>3 DEF ProcOK, Writing
<1>5. /\ Keeps(p) /\ now' \in [Procs -> Times] /\ target' = [r \in Procs |-> target'[r]]
      /\ minted' \in Nat /\ minted <= minted'
  <2>1. pc = [r \in Procs |-> pc[r]] /\ target = [r \in Procs |-> target[r]]
    BY DEF IInv, Typed, StoreOK, StoreTyped
  <2>2. Keeps(p) /\ target' = [r \in Procs |-> target'[r]]
    BY <1>2, <2>1 DEF Keeps
  <2>3. now' \in [Procs -> Times] /\ minted' \in Nat /\ minted <= minted'
    BY <1>2 DEF StoreOK, StoreTyped
  <2> QED
    BY <2>2, <2>3
<1> QED
  BY <1>2, <1>4, <1>5, FileKept

LEMMA EndKept ==
  ASSUME IInv, StoreOK, NEW p \in Procs, End(p),
         UNCHANGED lines \/ lines' = Append(lines, <<>>),
         UNCHANGED <<minted, clock, now, target>>
  PROVE  StoreOK'
<1>1. pc' = [pc EXCEPT ![p] = "idle"] /\ pending' = [pending EXCEPT ![p] = NoRecord]
  BY DEF End
<1>2. pc'[p] = "idle"
  BY <1>1 DEF IInv, Typed
<1>3. ProcOK(p)'
  BY <1>2 DEF ProcOK, Writing
<1>4. /\ Keeps(p) /\ now' \in [Procs -> Times] /\ target' = [r \in Procs |-> target'[r]]
      /\ minted' \in Nat /\ minted <= minted'
  BY <1>1 DEF Keeps, IInv, Typed, StoreOK, StoreTyped
<1> QED
  BY <1>3, <1>4, FileKept

\* The record that is about to be appended is justified by the file as it is.
LEMMA AppendKept ==
  ASSUME IInv, StoreOK, NEW p \in Procs, NEW r \in Entry, BeginAppend(p, r),
         UNCHANGED <<lines, clock, now, target>>,
         minted' \in Nat, minted <= minted', r.id \in 1..minted',
         r.kind # "new" => r.id \in DOMAIN Findings,
         r.kind = "recur" => r.count <= Recurrences(r.id) + 1
  PROVE  StoreOK'
<1>1. pc' = [pc EXCEPT ![p] = "text"] /\ pending' = [pending EXCEPT ![p] = r]
  BY DEF BeginAppend
<1>2. pc'[p] = "text" /\ pending'[p] = r
  BY <1>1 DEF IInv, Typed
<1>3. UNCHANGED <<Records, Findings>> /\ Recurrences(r.id)' = Recurrences(r.id)
  BY SameRecords DEF StoreOK
<1>4. Recurrences(pending[p].id)' = Recurrences(r.id)
  BY <1>2, <1>3 DEF Recurrences
<1>5. ProcOK(p)'
  BY <1>2, <1>3, <1>4 DEF ProcOK
<1>6. /\ Keeps(p) /\ now' \in [Procs -> Times] /\ target' = [q \in Procs |-> target'[q]]
  BY <1>1 DEF Keeps, IInv, Typed, StoreOK, StoreTyped
<1> QED
  BY <1>5, <1>6, FileKept

LEMMA LoadKept ==
  ASSUME IInv, StoreOK, NEW p \in Procs, NEW status \in Statuses,
         LoadToRecord(p, status) \/ LoadToSetStatus(p, status)
  PROVE  StoreOK'
<1>1. /\ minted \in Nat /\ now[p] \in Times /\ ProcOK(p)
      /\ \A id \in DOMAIN Findings : /\ Findings[id] \in Finding /\ id \in 1..minted
                                     /\ Findings[id].count <= Recurrences(id)
  BY DEF StoreOK, StoreTyped, TableOK, IsTable, NeverOvercounted
<1>2. CASE LoadToRecord(p, status)
  <2>1. PICK q \in target[p] :
          \/ \E id \in ActiveFor(q) :
               /\ BeginAppend(p, Recur(id, NextCount(Findings[id]), now[p]))
               /\ UNCHANGED minted
          \/ /\ minted' = FreshId
             /\ BeginAppend(p, New(minted', q, status, now[p]))
    BY <1>2 DEF LoadToRecord
  <2>2. q \in Queries /\ UNCHANGED <<lines, clock, now, target>>
    BY <1>1, <1>2 DEF LoadToRecord, ProcOK
  <2>3. ASSUME NEW id \in ActiveFor(q), UNCHANGED minted,
               BeginAppend(p, Recur(id, NextCount(Findings[id]), now[p]))
        PROVE  StoreOK'
    <3>1. id \in DOMAIN Findings
      BY DEF ActiveFor
    <3>2. PICK r : r = Recur(id, NextCount(Findings[id]), now[p])
      OBVIOUS
    <3>3. Findings[id].count \in Nat /\ Recurrences(id) \in Nat
      BY <1>1, <3>1, RecurrencesCount DEF Finding, StoreOK
    <3>4. /\ r \in Entry /\ r.kind = "recur" /\ r.id = id
          /\ r.count = Findings[id].count + 1
      BY <1>1, <3>1, <3>2, <3>3 DEF Recur, NextCount, Entry
    <3>5. r.count <= Recurrences(r.id) + 1
      BY <1>1, <3>1, <3>3, <3>4
    <3>6. r.id \in 1..minted' /\ minted' \in Nat /\ minted <= minted'
      BY <1>1, <2>3, <3>1, <3>4
    <3> QED
      BY <2>2, <2>3, <3>1, <3>2, <3>4, <3>5, <3>6, AppendKept
  <2>4. ASSUME minted' = FreshId, BeginAppend(p, New(minted', q, status, now[p]))
        PROVE  StoreOK'
    <3>1. PICK r : r = New(minted', q, status, now[p])
      OBVIOUS
    <3>2. minted' = minted + 1 /\ minted' \in Nat /\ minted <= minted'
      BY <1>1, <2>4 DEF FreshId
    <3>3. r \in Entry /\ r.kind = "new" /\ r.id = minted'
      BY <1>1, <2>2, <3>1, <3>2 DEF New, Entry
    <3>4. r.id \in 1..minted'
      BY <1>1, <3>2, <3>3
    <3> QED
      BY <2>2, <2>4, <3>1, <3>2, <3>3, <3>4, AppendKept
  <2> QED
    BY <2>1, <2>3, <2>4
<1>3. CASE LoadToSetStatus(p, status)
  <2>1. PICK id \in target[p] :
          \/ id \in DOMAIN Findings /\ BeginAppend(p, Update(id, status, now[p]))
          \/ End(p)
    BY <1>3 DEF LoadToSetStatus
  <2>2. UNCHANGED <<lines, minted, clock, now, target>>
    BY <1>3 DEF LoadToSetStatus
  <2>3. ASSUME id \in DOMAIN Findings, BeginAppend(p, Update(id, status, now[p]))
        PROVE  StoreOK'
    <3>1. PICK r : r = Update(id, status, now[p])
      OBVIOUS
    <3>2. id \in 1..minted
      BY <1>1, <2>3
    <3>3. r \in Entry /\ r.kind = "update" /\ r.id = id
      BY <1>1, <3>1, <3>2 DEF Update, Entry
    <3>4. r.id \in 1..minted' /\ minted' \in Nat /\ minted <= minted'
      BY <1>1, <2>2, <3>2, <3>3
    <3> QED
      BY <2>2, <2>3, <3>1, <3>3, <3>4, AppendKept
  <2> QED
    BY <2>1, <2>2, <2>3, EndKept
<1> QED
  BY <1>2, <1>3

LEMMA NewlineKept ==
  ASSUME IInv, StoreOK, NEW p \in Procs, WriteNewline(p) PROVE StoreOK'
<1>1. /\ pc[p] = "newline" /\ lines' = Append(lines, <<>>)
      /\ UNCHANGED <<minted, clock, now, target>>
  BY DEF WriteNewline
<1>2. CASE End(p)
  BY <1>1, <1>2, EndKept
<1>3. CASE pc' = [pc EXCEPT ![p] = "read_back"] /\ UNCHANGED pending
  <2>1. pc'[p] = "read_back" /\ ProcOK(p)
    BY <1>3 DEF StoreOK, IInv, Typed
  <2>2. UNCHANGED Findings
    BY <1>1, SameRecords DEF StoreOK
  <2>3. ProcOK(p)'
    BY <1>1, <1>3, <2>1, <2>2 DEF ProcOK, Writing
  <2>4. /\ Keeps(p) /\ now' \in [Procs -> Times] /\ target' = [q \in Procs |-> target'[q]]
        /\ minted' \in Nat /\ minted <= minted'
    BY <1>1, <1>3 DEF Keeps, IInv, Typed, StoreOK, StoreTyped
  <2> QED
    BY <1>1, <2>3, <2>4, FileKept
<1> QED
  BY <1>2, <1>3 DEF WriteNewline

LEMMA FileEmpty ==
  ASSUME InvInit
  PROVE  lines \in Seq(Seq(Entry)) /\ lines # <<>> /\ Len(lines) = 1 /\ lines[1] = <<>>
<1>1. <<>> \in Seq(Entry)
  OBVIOUS
<1>2. lines = << <<>> >>
  BY DEF InvInit, Init
<1> QED
  BY <1>1, <1>2

LEMMA NothingFound ==
  ASSUME InvInit PROVE Findings = NoFindings
<1>1. Records = <<>>
  <2>1. PICK f : Joins(f, lines, 1) /\ FlattenSeq(lines) = f[1]
    BY FileEmpty, FileJoined
  <2>2. f[1] = lines[1]
    BY <2>1 DEF Joins
  <2> QED
    BY FileEmpty, <2>1, <2>2 DEF Records
<1>2. Len(Records) = 0
  BY <1>1
<1>3. PICK records : records = Records
  OBVIOUS
<1>4. PICK f : Folds(f, records, 0) /\ FindingsIn(records) = f[0]
  BY <1>2, <1>3, FindingsFolded
<1>5. f[0] = NoFindings
  BY <1>4 DEF Folds
<1> QED
  BY <1>3, <1>4, <1>5 DEF Findings

LEMMA StoreInit == InvInit => StoreOK
<1> SUFFICES ASSUME InvInit PROVE StoreOK
  OBVIOUS
<1>1. Findings = NoFindings /\ DOMAIN Findings = {}
  BY NothingFound DEF NoFindings
<1>2. TableOK
  BY <1>1 DEF TableOK, IsTable, NeverOvercounted
<1>3. StoreTyped
  BY FileEmpty, FindingConstantsOK DEF InvInit, Init, StoreTyped, Times
<1>4. \A p \in Procs : ProcOK(p)
  BY DEF InvInit, Init, ProcOK, Writing
<1> QED
  BY <1>2, <1>3, <1>4 DEF StoreOK

LEMMA StoreInductive ==
  ASSUME IInv, StoreOK, [InvNext]_invVars PROVE StoreOK'
<1>1. ASSUME NEW p \in Procs, NEW q \in Queries, Start(p, q) PROVE StoreOK'
  BY <1>1, BeginKept DEF Start
<1>2. ASSUME UNCHANGED vars PROVE StoreOK'
  BY <1>2 DEF vars, procVars, StoreOK, StoreTyped, TableOK, IsTable, NeverOvercounted,
     ProcOK, Writing, Findings, Records, Recurrences
<1>3. ASSUME NEW p \in Procs, Probe(p) \/ Halt(p) PROVE StoreOK'
  BY <1>2, <1>3 DEF Probe, Halt
<1>4. ASSUME NEW p \in Procs, ProbeFails(p) PROVE StoreOK'
  BY <1>4, EndKept DEF ProbeFails
<1>5. ASSUME NEW p \in Procs, LoadFails(p) PROVE StoreOK'
  BY <1>5, EndKept DEF LoadFails
<1>6. ASSUME NEW p \in Procs, Record(p) PROVE StoreOK'
  <2>1. StatusFor(pass[p].found) \in Statuses
    BY DEF StatusFor, Statuses
  <2> QED
    BY <1>5, <1>6, <2>1, LoadKept DEF Record
<1>7. ASSUME NEW p \in Procs, InStore(p) PROVE StoreOK'
  <2>1. SetStatuses \subseteq Statuses
    BY FindingConstantsOK DEF Statuses
  <2> QED
    BY <1>5, <1>7, <2>1, BeginKept, LoadKept, TextInductive, NewlineKept DEF InStore
<1>8. ASSUME NEW p \in Procs, Over(p) PROVE StoreOK'
  BY <1>8, EndKept DEF Over, ReadBack, Die
<1>9. ASSUME Tick PROVE StoreOK'
  <2>1. UNCHANGED <<lines, minted, procVars>> /\ clock' \in Times
    BY <1>9, FindingConstantsOK DEF Tick, StoreOK, StoreTyped, Times
  <2> QED
    BY <2>1 DEF procVars, StoreOK, StoreTyped, TableOK, IsTable, NeverOvercounted,
       ProcOK, Writing, Findings, Records, Recurrences
<1> QED
  BY <1>1, <1>2, <1>3, <1>4, <1>6, <1>7, <1>8, <1>9 DEF InvNext, invVars

LEMMA StoreHolds == InvSpec => [](IInv /\ StoreOK)
<1>1. InvInit => StoreOK
  BY StoreInit
<1>2. IInv /\ StoreOK /\ [InvNext]_invVars => StoreOK'
  BY StoreInductive
<1> QED
  BY <1>1, <1>2, Inductive, PTL DEF InvSpec

(***************************************************************************)
(* No finding claims more recurrences than are on file, for any number of  *)
(* passes that load and append at the same time and die at any step: a     *)
(* count is taken from a file that can only have grown since.              *)
(***************************************************************************)
THEOREM NothingIsOvercounted == InvSpec => []NeverOvercounted
<1>1. StoreOK => NeverOvercounted
  BY DEF StoreOK, TableOK
<1> QED
  BY <1>1, StoreHolds, PTL

(***************************************************************************)
(* A pass that can read the file finds in it what it appended, whoever     *)
(* appended or died in between.                                            *)
(***************************************************************************)
THEOREM WhatIsRecordedIsFound == InvSpec => []ReadBackFinds
<1>1. StoreOK => ReadBackFinds
  BY DEF StoreOK, ProcOK, Writing, ReadBackFinds
<1> QED
  BY <1>1, StoreHolds, PTL

-----------------------------------------------------------------------------
(***************************************************************************)
(* Passes one at a time.  The file is then as it was loaded until the      *)
(* record is appended: what the load found still justifies the record.     *)
(***************************************************************************)
ActiveIds(found, q) == {id \in DOMAIN found : found[id].query = q /\ IsActive(found[id])}

Justified(found, r) ==
  /\ r.kind = "new" =>
       r.id \notin DOMAIN found /\ ActiveIds(found, r.query) = {}
         /\ r.status \in {"Open", "Confirmed", "Refuted"}
  /\ r.kind = "recur" =>
       /\ r.id \in DOMAIN found /\ IsActive(found[r.id])
       /\ \A other \in ActiveIds(found, found[r.id].query) : found[other].last <= found[r.id].last
       /\ r.count = found[r.id].count + 1
  /\ r.kind = "update" => r.id \in DOMAIN found /\ r.status \in Closing

NoneAfter(found, time) == \A id \in DOMAIN found : found[id].last <= time

AloneOK ==
  alone =>
    /\ \A p \in Procs \ {First} : pc[p] = "idle"
    /\ OneActivePerQuery
    /\ NoneAfter(Findings, clock) /\ now[First] <= clock
    /\ ops \in 0..MaxOps /\ minted <= ops /\ (pc[First] = "record" => minted < ops)
    /\ pc[First] \in {"record", "set_status", "text"} => NoneAfter(Findings, now[First])
    /\ pc[First] = "text" =>
         pending[First].now = now[First] /\ Justified(Findings, pending[First])

LEMMA AloneKept ==
  ASSUME StoreOK, StoreOK', AloneOK, alone, UNCHANGED lines \/ lines' = Append(lines, <<>>),
         \A p \in Procs \ {First} : pc'[p] = "idle",
         clock <= clock', now'[First] <= clock', ops' \in 0..MaxOps, minted' <= ops',
         pc'[First] = "record" => minted' < ops',
         pc'[First] \in {"record", "set_status", "text"} => NoneAfter(Findings, now'[First]),
         pc'[First] = "text" => /\ pending'[First].now = now'[First]
                                /\ Justified(Findings, pending'[First])
  PROVE  AloneOK'
<1>1. UNCHANGED Findings
  BY SameRecords DEF StoreOK
<1>2. OneActivePerQuery'
  BY <1>1 DEF AloneOK, OneActivePerQuery
<1>3. NoneAfter(Findings, clock)'
  <2>1. /\ \A id \in DOMAIN Findings : Findings[id].last \in Times /\ Findings[id].last <= clock
        /\ clock \in Times /\ clock' \in Times
    BY DEF AloneOK, NoneAfter, StoreOK, StoreTyped, TableOK, IsTable, Finding
  <2>2. \A id \in DOMAIN Findings : Findings[id].last <= clock'
    BY <2>1, FindingConstantsOK DEF Times
  <2> QED
    BY <1>1, <2>2 DEF NoneAfter
<1>4. /\ NoneAfter(Findings, now[First])' <=> NoneAfter(Findings, now'[First])
      /\ Justified(Findings, pending[First])' <=> Justified(Findings, pending'[First])
  BY <1>1 DEF NoneAfter, Justified, ActiveIds
<1> QED
  BY <1>2, <1>3, <1>4 DEF AloneOK

\* Whoever takes a step is First.
Acts(p) ==
  \/ \E q \in Queries : Start(p, q)
  \/ Probe(p) \/ Halt(p) \/ ProbeFails(p) \/ Record(p) \/ InStore(p) \/ Over(p)

LEMMA OneActor ==
  ASSUME IInv, AloneOK, alone, OneAtATime, NEW p \in Procs, Acts(p)
  PROVE  p = First
<1> SUFFICES ASSUME p # First PROVE FALSE
  OBVIOUS
<1>1. pc[p] = "idle" /\ pc'[p] = "idle" /\ pc = [r \in Procs |-> pc[r]]
  BY DEF AloneOK, OneAtATime, IInv, Typed
<1>2. ASSUME NEW op, NEW what, Begin(p, op, what), op \in {"record", "set_status"} PROVE FALSE
  BY <1>1, <1>2 DEF Begin
<1>3. ASSUME NEW q \in Queries, Start(p, q) PROVE FALSE
  BY <1>2, <1>3 DEF Start, BeginRecord
<1>4. ~ (Probe(p) \/ Halt(p) \/ ProbeFails(p) \/ Record(p) \/ Over(p))
  BY <1>1 DEF Probe, Halt, ProbeFails, Probing, Record, Over, ReadBack, Die
<1>5. ASSUME InStore(p) PROVE FALSE
  <2>1. ASSUME NEW id \in 1..minted, BeginSetStatus(p, id) PROVE FALSE
    BY <1>2, <2>1 DEF BeginSetStatus
  <2>2. ~ (LoadFails(p) \/ WriteText(p) \/ WriteNewline(p))
    BY <1>1 DEF LoadFails, WriteText, WriteNewline
  <2>3. ~ \E status \in SetStatuses : LoadToSetStatus(p, status)
    BY <1>1 DEF LoadToSetStatus
  <2> QED
    BY <1>5, <2>1, <2>2, <2>3 DEF InStore
<1> QED
  BY <1>3, <1>4, <1>5 DEF Acts

\* A query with active findings has one that was seen last.
LEMMA LatestExists ==
  ASSUME StoreOK, NEW q, ActiveIds(Findings, q) # {}
  PROVE  ActiveFor(q) # {}
<1> DEFINE active == ActiveIds(Findings, q)
           ages == {MaxTime - Findings[id].last : id \in active}
<1>1. \A id \in active : Findings[id].last \in 0..MaxTime
  BY DEF ActiveIds, StoreOK, TableOK, IsTable, Finding, Times
<1>2. MaxTime \in Nat
  BY FindingConstantsOK
<1>3. ages \in SUBSET Nat /\ ages # {}
  BY <1>1, <1>2
<1>4. PICK youngest \in ages : \A age \in ages : youngest <= age
  <2> HIDE DEF ages
  <2> QED
    BY <1>3, LeastNumber
<1>5. PICK id \in active : youngest = MaxTime - Findings[id].last
  OBVIOUS
<1>6. ASSUME NEW other \in active PROVE Findings[other].last <= Findings[id].last
  <2>1. MaxTime - Findings[id].last <= MaxTime - Findings[other].last
    BY <1>4, <1>5
  <2> QED
    BY <1>1, <1>2, <1>5, <2>1
<1>7. id \in ActiveFor(q)
  BY <1>5, <1>6 DEF ActiveFor, ActiveIds
<1> QED
  BY <1>7

LEMMA BeginAlone ==
  ASSUME IInv, StoreOK, StoreOK', AloneOK, alone, OneAtATime, UNCHANGED alone,
         NEW op \in {"record", "set_status"}, NEW what, Begin(First, op, what)
  PROVE  AloneOK' /\ UNCHANGED Findings
<1>1. /\ pc' = [pc EXCEPT ![First] = op] /\ now' = [now EXCEPT ![First] = clock]
      /\ ops < MaxOps /\ ops' = ops + 1
      /\ UNCHANGED <<lines, minted, clock, pending>>
  BY DEF Begin
<1>2. pc'[First] = op /\ now'[First] = clock
  BY <1>1, AloneConstantsOK DEF IInv, Typed, StoreOK, StoreTyped
<1>3. /\ ops' \in 0..MaxOps /\ minted' < ops' /\ minted' <= ops'
      /\ clock <= clock' /\ now'[First] <= clock'
  BY <1>1, <1>2, FindingConstantsOK DEF AloneOK, StoreOK, StoreTyped, Times
<1>4. NoneAfter(Findings, now'[First])
  BY <1>2 DEF AloneOK
<1>5. UNCHANGED Findings
  BY <1>1, SameRecords DEF StoreOK
<1> QED
  BY <1>1, <1>2, <1>3, <1>4, <1>5, AloneKept DEF OneAtATime

LEMMA EndAlone ==
  ASSUME IInv, StoreOK, StoreOK', AloneOK, alone, OneAtATime, UNCHANGED alone,
         UNCHANGED lines \/ lines' = Append(lines, <<>>), UNCHANGED <<minted, clock, now, ops>>,
         pc'[First] \in {"idle", "read_back"} \/ UNCHANGED <<lines, pc, pending>>
  PROVE  AloneOK' /\ UNCHANGED Findings
<1>1. /\ ops' \in 0..MaxOps /\ minted' <= ops' /\ clock <= clock' /\ now'[First] <= clock'
      /\ pc'[First] = "record" => minted' < ops'
  BY FindingConstantsOK DEF AloneOK, StoreOK, StoreTyped, Times
<1>2. UNCHANGED Findings
  BY SameRecords DEF StoreOK
<1>3. /\ pc'[First] \in {"record", "set_status", "text"} => NoneAfter(Findings, now'[First])
      /\ pc'[First] = "text" => /\ pending'[First].now = now'[First]
                                /\ Justified(Findings, pending'[First])
  BY DEF AloneOK
<1> QED
  BY <1>1, <1>2, <1>3, AloneKept DEF OneAtATime

LEMMA LoadAlone ==
  ASSUME IInv, StoreOK, StoreOK', AloneOK, alone, OneAtATime, UNCHANGED alone,
         \/ LoadToRecord(First, StatusFor(pass[First].found))
         \/ \E status \in SetStatuses : LoadToSetStatus(First, status)
  PROVE  AloneOK' /\ UNCHANGED Findings
<1>1. UNCHANGED <<lines, clock, now, target, ops>> /\ pc[First] \in {"record", "set_status"}
  BY DEF LoadToRecord, LoadToSetStatus
<1>2. UNCHANGED Findings
  BY <1>1, SameRecords DEF StoreOK
<1>3. CASE End(First) /\ UNCHANGED minted
  <2>1. pc'[First] = "idle"
    BY <1>3, AloneConstantsOK DEF End, IInv, Typed
  <2> QED
    BY <1>1, <1>3, <2>1, EndAlone
<1>4. ASSUME NEW r, BeginAppend(First, r), minted' <= ops', r.now = now[First],
             r.kind = "update" /\ r.status \in Closing => Justified(Findings, r),
             r.kind # "update" => Justified(Findings, r)
      PROVE  AloneOK'
  <2>1. pc'[First] = "text" /\ pending'[First] = r
    BY <1>4, AloneConstantsOK DEF BeginAppend, IInv, Typed
  <2>2. Justified(Findings, r)
    BY <1>4, <2>1 DEF OneAtATime
  <2>3. /\ ops' \in 0..MaxOps /\ clock <= clock' /\ now'[First] <= clock'
        /\ NoneAfter(Findings, now'[First])
    BY <1>1, FindingConstantsOK DEF AloneOK, StoreOK, StoreTyped, Times
  <2> QED
    BY <1>1, <1>4, <2>1, <2>2, <2>3, AloneKept DEF OneAtATime
<1>5. ASSUME LoadToRecord(First, StatusFor(pass[First].found)) PROVE AloneOK'
  <2>1. pc[First] = "record" /\ minted < ops /\ minted \in Nat /\ ops \in Nat
    BY <1>5, FindingConstantsOK DEF LoadToRecord, AloneOK, StoreOK, StoreTyped
  <2>2. PICK q \in target[First] :
          \/ \E id \in ActiveFor(q) :
               /\ BeginAppend(First, Recur(id, NextCount(Findings[id]), now[First]))
               /\ UNCHANGED minted
          \/ /\ ActiveFor(q) = {}
             /\ minted' = FreshId
             /\ BeginAppend(First, New(minted', q, StatusFor(pass[First].found), now[First]))
    BY <1>5 DEF LoadToRecord
  <2>3. ASSUME NEW id \in ActiveFor(q), UNCHANGED minted,
               BeginAppend(First, Recur(id, NextCount(Findings[id]), now[First]))
        PROVE  AloneOK'
    <3>1. PICK r : r = Recur(id, NextCount(Findings[id]), now[First])
      OBVIOUS
    <3>2. /\ r.kind = "recur" /\ r.id = id /\ r.now = now[First]
          /\ r.count = Findings[id].count + 1
      BY <3>1 DEF Recur, NextCount
    <3>3. /\ id \in ActiveIds(Findings, q) /\ Findings[id].query = q
          /\ \A other \in ActiveIds(Findings, q) : Findings[other].last <= Findings[id].last
      BY DEF ActiveFor, ActiveIds
    <3>4. Justified(Findings, r)
      BY <3>2, <3>3 DEF Justified, ActiveIds
    <3> QED
      BY <1>1, <1>4, <2>1, <2>3, <3>1, <3>2, <3>4
  <2>4. ASSUME ActiveFor(q) = {}, minted' = FreshId,
               BeginAppend(First, New(minted', q, StatusFor(pass[First].found), now[First]))
        PROVE  AloneOK'
    <3>1. PICK r : r = New(minted', q, StatusFor(pass[First].found), now[First])
      OBVIOUS
    <3>2. /\ r.kind = "new" /\ r.id = minted + 1 /\ r.now = now[First] /\ r.query = q
          /\ r.status \in {"Open", "Confirmed", "Refuted"}
      BY <2>4, <3>1 DEF New, FreshId, StatusFor
    <3>3. r.id \notin DOMAIN Findings
      BY <2>1, <3>2 DEF StoreOK, TableOK
    <3>4. ActiveIds(Findings, q) = {}
      BY <2>4, LatestExists DEF ActiveFor
    <3>5. Justified(Findings, r)
      BY <3>2, <3>3, <3>4 DEF Justified
    <3>6. minted' <= ops'
      BY <1>1, <2>1, <2>4 DEF FreshId
    <3> QED
      BY <1>4, <2>4, <3>1, <3>2, <3>5, <3>6
  <2> QED
    BY <2>2, <2>3, <2>4
<1>6. ASSUME NEW status \in SetStatuses, LoadToSetStatus(First, status) PROVE AloneOK'
  <2>1. PICK id \in target[First] :
          \/ id \in DOMAIN Findings /\ BeginAppend(First, Update(id, status, now[First]))
          \/ End(First)
    BY <1>6 DEF LoadToSetStatus
  <2>2. UNCHANGED minted
    BY <1>6 DEF LoadToSetStatus
  <2>3. ASSUME id \in DOMAIN Findings, BeginAppend(First, Update(id, status, now[First]))
        PROVE  AloneOK'
    <3>1. PICK r : r = Update(id, status, now[First])
      OBVIOUS
    <3>2. r.kind = "update" /\ r.id = id /\ r.now = now[First]
      BY <3>1 DEF Update
    <3>3. r.status \in Closing => Justified(Findings, r)
      BY <2>3, <3>2 DEF Justified
    <3>4. minted' <= ops'
      BY <1>1, <2>2 DEF AloneOK
    <3> QED
      BY <1>4, <2>3, <3>1, <3>2, <3>3, <3>4
  <2> QED
    BY <1>3, <2>1, <2>2, <2>3
<1> QED
  BY <1>2, <1>5, <1>6

(***************************************************************************)
(* The step of the table a written record stands for.                      *)
(***************************************************************************)
TableStep(found, after, r) ==
  /\ r.kind = "new" =>
       after = [i \in DOMAIN found \cup {r.id} |-> IF i = r.id THEN Started(r) ELSE found[i]]
  /\ r.kind = "recur" => after = [found EXCEPT ![r.id].count = r.count, ![r.id].last = r.now]
  /\ r.kind = "update" => after = [found EXCEPT ![r.id].status = r.status, ![r.id].last = r.now]

LEMMA AppliedStep ==
  ASSUME NEW found, IsTable(found), NEW r \in Entry, r.kind # "new" => r.id \in DOMAIN found
  PROVE  TableStep(found, Applied(found, r), r)
<1>1. CASE r.kind = "new"
  BY <1>1 DEF Applied, TableStep
<1>2. CASE r.kind = "recur"
  <2>1. Applied(found, r) = [found EXCEPT ![r.id] = Recurred(@, r)]
    BY <1>2 DEF Applied
  <2>2. \A f : Recurred(f, r) = [f EXCEPT !.count = r.count, !.last = r.now]
    BY DEF Recurred
  <2>3. Applied(found, r) = [found EXCEPT ![r.id].count = r.count, ![r.id].last = r.now]
    BY <2>1, <2>2 DEF IsTable
  <2> QED
    BY <1>2, <2>3 DEF TableStep
<1>3. CASE r.kind = "update"
  <2>1. Applied(found, r) = [found EXCEPT ![r.id] = Moved(@, r)]
    BY <1>3 DEF Applied
  <2>2. \A f : Moved(f, r) = [f EXCEPT !.status = r.status, !.last = r.now]
    BY DEF Moved
  <2>3. Applied(found, r) = [found EXCEPT ![r.id].status = r.status, ![r.id].last = r.now]
    BY <2>1, <2>2 DEF IsTable
  <2> QED
    BY <1>3, <2>3 DEF TableStep
<1> QED
  BY <1>1, <1>2, <1>3, EntryKinds

\* What writing the record r of First makes of the table.
Writes(r, found, after) ==
  /\ r \in Entry /\ r = pending[First] /\ r.now = now[First] /\ r.id \in 1..minted
  /\ found = Findings /\ after = Findings'
  /\ IsTable(found) /\ NoneAfter(found, r.now) /\ Justified(found, r)
  /\ IsTable(after) /\ TableStep(found, after, r)
  /\ DOMAIN after = IF r.kind = "new" THEN DOMAIN found \cup {r.id} ELSE DOMAIN found
  /\ \A id \in DOMAIN after :
       after[id] = IF id = r.id THEN Made(found[id], r) ELSE found[id]

LEMMA TextAloneFacts ==
  ASSUME StoreOK, AloneOK, alone, WriteText(First)
  PROVE  \E r, found, after : Writes(r, found, after)
<1>1. pc[First] = "text"
  BY DEF WriteText
<1>2. PICK r \in Entry : r = pending[First]
  BY <1>1, AloneConstantsOK DEF StoreOK, ProcOK, Writing
<1>3. /\ r.now = now[First] /\ r.id \in 1..minted
      /\ NoneAfter(Findings, r.now) /\ Justified(Findings, r)
      /\ r.kind # "new" => r.id \in DOMAIN Findings
  BY <1>1, <1>2, AloneConstantsOK DEF AloneOK, StoreOK, ProcOK, Writing
<1>4. PICK found : found = Findings /\ IsTable(found)
  BY DEF StoreOK, TableOK
<1>5. PICK after : after = Applied(found, r)
  OBVIOUS
<1>6. Findings' = after
  BY <1>2, <1>4, <1>5, TextStored, AloneConstantsOK DEF StoreOK
<1>7. /\ IsTable(after)
      /\ DOMAIN after = IF r.kind = "new" THEN DOMAIN found \cup {r.id} ELSE DOMAIN found
      /\ \A id \in DOMAIN after :
           after[id] = IF id = r.id THEN Made(found[id], r) ELSE found[id]
  BY <1>4, <1>5, AppliedTable
<1>8. TableStep(found, after, r)
  BY <1>3, <1>4, <1>5, AppliedStep
<1>9. Writes(r, found, after)
  BY <1>2, <1>3, <1>4, <1>6, <1>7, <1>8 DEF Writes
<1> QED
  BY <1>9

OneActiveIn(found) ==
  \A i, j \in DOMAIN found :
    IsActive(found[i]) /\ IsActive(found[j]) /\ found[i].query = found[j].query => i = j

LEMMA OneActiveByQuery == OneActivePerQuery <=> OneActiveIn(Findings)
BY DEF OneActivePerQuery, OneActiveIn, IsActive

LEMMA OneActiveStep ==
  ASSUME NEW found, NEW after, NEW r \in Entry, IsTable(found), Justified(found, r), OneActiveIn(found),
         DOMAIN after = IF r.kind = "new" THEN DOMAIN found \cup {r.id} ELSE DOMAIN found,
         \A id \in DOMAIN after :
           after[id] = IF id = r.id THEN Made(found[id], r) ELSE found[id]
  PROVE  OneActiveIn(after)
<1>1. \A id \in DOMAIN found : found[id] \in Finding
  BY DEF IsTable
<1>2. ASSUME NEW id \in DOMAIN after, IsActive(after[id])
      PROVE  \/ /\ id \in DOMAIN found /\ IsActive(found[id]) /\ after[id].query = found[id].query
                /\ r.kind = "new" => id # r.id
             \/ r.kind = "new" /\ id = r.id /\ after[id].query = r.query
  <2>1. CASE id # r.id
    BY <1>2, <2>1
  <2>2. CASE id = r.id
    <3>1. after[id] = Made(found[id], r)
      BY <2>2
    <3>2. CASE r.kind = "new"
      BY <2>2, <3>1, <3>2, MadeFinding
    <3>3. CASE r.kind # "new"
      <4>1. id \in DOMAIN found /\ found[id] \in Finding
        BY <1>1, <3>3
      <4>2. after[id].query = found[id].query
        BY <3>1, <3>3, <4>1, MadeFinding
      <4>3. r.kind = "recur" => after[id].status = found[id].status
        BY <3>1, <3>3, <4>1, MadeFinding
      <4>4. r.kind = "update" => after[id].status = r.status /\ r.status \in Closing
        BY <3>1, <3>3, <4>1, MadeFinding DEF Justified
      <4>5. r.kind # "update"
        BY <1>2, <4>4 DEF IsActive, Closing
      <4> QED
        BY <1>2, <3>3, <4>1, <4>2, <4>3, <4>5, EntryKinds DEF IsActive
    <3> QED
      BY <3>2, <3>3
  <2> QED
    BY <2>1, <2>2
<1>3. r.kind = "new" => \A id \in DOMAIN found : IsActive(found[id]) => found[id].query # r.query
  BY DEF Justified, ActiveIds
<1>4. ASSUME NEW i \in DOMAIN after, NEW j \in DOMAIN after, IsActive(after[i]), IsActive(after[j]),
             after[i].query = after[j].query
      PROVE  i = j
  BY <1>2, <1>3, <1>4 DEF OneActiveIn
<1> QED
  BY <1>4 DEF OneActiveIn

LEMMA TextAlone ==
  ASSUME IInv, StoreOK, AloneOK, alone, OneAtATime, UNCHANGED alone, WriteText(First)
  PROVE  AloneOK' /\ Table!Next
<1>0. PICK r, found, after : Writes(r, found, after)
  BY TextAloneFacts
<1>1. /\ r \in Entry /\ r = pending[First] /\ r.now = now[First] /\ r.id \in 1..minted
      /\ found = Findings /\ after = Findings'
      /\ IsTable(found) /\ NoneAfter(found, r.now) /\ Justified(found, r)
      /\ IsTable(after) /\ TableStep(found, after, r)
      /\ DOMAIN after = IF r.kind = "new" THEN DOMAIN found \cup {r.id} ELSE DOMAIN found
      /\ \A id \in DOMAIN after :
           after[id] = IF id = r.id THEN Made(found[id], r) ELSE found[id]
  BY <1>0 DEF Writes
<1>2. /\ pc'[First] = "newline" /\ UNCHANGED <<minted, clock, now, ops>>
  BY AloneConstantsOK DEF WriteText, IInv, Typed
<1>3. OneActivePerQuery'
  <2>1. OneActiveIn(found)
    BY <1>1, OneActiveByQuery DEF AloneOK
  <2>2. OneActiveIn(after)
    BY <1>1, <2>1, OneActiveStep
  <2> QED
    BY <1>1, <2>2 DEF OneActivePerQuery, OneActiveIn, IsActive
<1>4. NoneAfter(Findings, clock)'
  <2>1. r.now <= clock /\ NoneAfter(found, clock)
    BY <1>1 DEF AloneOK
  <2>2. ASSUME NEW id \in DOMAIN after PROVE after[id].last <= clock
    <3>1. CASE id = r.id
      <4>1. r.kind # "new" => found[id] \in Finding
        BY <1>1, <3>1 DEF IsTable
      <4>2. Made(found[id], r).last = r.now
        BY <1>1, <4>1, MadeFinding
      <4> QED
        BY <1>1, <2>1, <3>1, <4>2
    <3>2. CASE id # r.id
      BY <1>1, <2>1, <3>2 DEF NoneAfter
    <3> QED
      BY <3>1, <3>2
  <2> QED
    BY <1>1, <1>2, <2>2 DEF NoneAfter
<1>5. AloneOK'
  BY <1>2, <1>3, <1>4 DEF AloneOK, OneAtATime
<1>6. CASE r.kind = "new"
  <2>1. r.query \in Queries /\ r.status \in Table!Active /\ r.now \in 0..MaxTime
    BY <1>1, <1>6, EntryKinds DEF Justified, Table!Active, Times
  <2>2. Table!ActiveOf(r.query) = {}
    BY <1>1, <1>6 DEF Justified, ActiveIds, IsActive, Table!ActiveOf, Table!Active
  <2>3. r.id \in (1..MaxOps) \ DOMAIN Findings
    <3>1. minted <= ops /\ ops <= MaxOps /\ minted \in Nat /\ ops \in Nat /\ MaxOps \in Nat
      BY FindingConstantsOK DEF AloneOK, StoreOK, StoreTyped
    <3> QED
      BY <1>1, <1>6, <3>1 DEF Justified
  <2>4. Findings' = [i \in DOMAIN Findings \cup {r.id} |->
                       IF i = r.id
                       THEN [query |-> r.query, status |-> r.status, count |-> 0,
                             first |-> r.now, last |-> r.now]
                       ELSE Findings[i]]
    BY <1>1, <1>6 DEF TableStep, Started
  <2>5. Table!Start(r.query, r.status, r.now)
    BY <2>2, <2>3, <2>4 DEF Table!Start
  <2> QED
    BY <1>5, <2>1, <2>5 DEF Table!Next
<1>7. CASE r.kind = "recur"
  <2>1. /\ r.id \in DOMAIN found /\ IsActive(found[r.id])
        /\ \A other \in ActiveIds(found, found[r.id].query) : found[other].last <= found[r.id].last
        /\ r.count = found[r.id].count + 1 /\ found[r.id].last <= r.now
        /\ found[r.id].query \in Queries /\ r.now \in 0..MaxTime
    BY <1>1, <1>7, EntryKinds DEF Justified, NoneAfter, IsTable, Finding, Times
  <2>2. \A q : Table!ActiveOf(q) = ActiveIds(found, q)
    BY <1>1 DEF ActiveIds, IsActive, Table!ActiveOf, Table!Active
  <2>3. r.id \in ActiveIds(found, found[r.id].query)
    BY <2>1 DEF ActiveIds
  <2>4. Findings' = [Findings EXCEPT ![r.id].count = @ + 1, ![r.id].last = r.now]
    BY <1>1, <1>7, <2>1 DEF TableStep
  <2>5. Table!Supersede(found[r.id].query, r.now)
    BY <1>1, <2>1, <2>2, <2>3, <2>4 DEF Table!Supersede
  <2> QED
    BY <1>5, <2>1, <2>5 DEF Table!Next
<1>8. CASE r.kind = "update"
  <2>1. /\ r.id \in DOMAIN Findings /\ r.status \in Table!Statuses /\ Findings[r.id].last <= r.now
        /\ r.now \in 0..MaxTime
    BY <1>1, <1>8, EntryKinds
       DEF Justified, NoneAfter, Statuses, Table!Statuses, Table!Active, Times
  <2>2. Findings' = [Findings EXCEPT ![r.id].status = r.status, ![r.id].last = r.now]
    BY <1>1, <1>8 DEF TableStep
  <2>3. Table!SetStatus(r.id, r.status, r.now)
    BY <2>1, <2>2 DEF Table!SetStatus
  <2> QED
    BY <1>5, <2>1, <2>3 DEF Table!Next
<1> QED
  BY <1>1, <1>6, <1>7, <1>8, EntryKinds

LEMMA AloneInit == MCInit => AloneOK /\ Table!Init
<1> SUFFICES ASSUME MCInit PROVE AloneOK /\ Table!Init
  OBVIOUS
<1>1. InvInit
  BY DEF MCInit
<1>2. Findings = NoFindings
  BY <1>1, NothingFound
<1>3. Table!Init
  BY <1>2 DEF Table!Init, NoFindings
<1>4. DOMAIN Findings = {}
  BY <1>2 DEF NoFindings
<1>5. /\ \A p \in Procs : pc[p] = "idle" /\ now[p] = 0
      /\ clock = 0 /\ minted = 0 /\ ops = 0
  BY <1>1 DEF InvInit, Init
<1>6. OneActivePerQuery /\ NoneAfter(Findings, clock)
  BY <1>4 DEF OneActivePerQuery, NoneAfter
<1> QED
  BY <1>3, <1>5, <1>6, AloneConstantsOK, FindingConstantsOK DEF AloneOK

LEMMA AloneStep ==
  ASSUME IInv, IInv', StoreOK, StoreOK', AloneOK, MCNext, alone
  PROVE  AloneOK' /\ (Table!Next \/ UNCHANGED Findings)
<1>1. OneAtATime /\ UNCHANGED alone /\ InvNext
  BY DEF MCNext, Overlapping
<1>2. ASSUME NEW p \in Procs, Acts(p) PROVE p = First
  BY <1>1, <1>2, OneActor
<1>3. ASSUME NEW q \in Queries, Start(First, q) PROVE AloneOK' /\ UNCHANGED Findings
  BY <1>1, <1>3, BeginAlone DEF Start, BeginRecord
<1>4. ASSUME End(First) PROVE pc'[First] = "idle"
  BY <1>4, AloneConstantsOK DEF End, IInv, Typed
<1>5. ASSUME Probe(First) \/ Halt(First) PROVE AloneOK' /\ UNCHANGED Findings
  <2>1. UNCHANGED <<lines, minted, clock, pc, now, pending, ops>>
    BY <1>5 DEF Probe, Halt, vars, procVars
  <2> QED
    BY <1>1, <2>1, EndAlone
<1>6. ASSUME ProbeFails(First) \/ LoadFails(First) PROVE AloneOK' /\ UNCHANGED Findings
  BY <1>1, <1>4, <1>6, EndAlone DEF ProbeFails, LoadFails
<1>7. ASSUME Record(First) PROVE AloneOK' /\ UNCHANGED Findings
  BY <1>1, <1>6, <1>7, LoadAlone DEF Record
<1>8. ASSUME InStore(First) PROVE AloneOK' /\ (Table!Next \/ UNCHANGED Findings)
  <2>1. ASSUME NEW id \in 1..minted, BeginSetStatus(First, id)
        PROVE  AloneOK' /\ UNCHANGED Findings
    BY <1>1, <2>1, BeginAlone DEF BeginSetStatus
  <2>2. ASSUME NEW status \in SetStatuses, LoadToSetStatus(First, status)
        PROVE  AloneOK' /\ UNCHANGED Findings
    BY <1>1, <2>2, LoadAlone
  <2>3. ASSUME WriteText(First) PROVE AloneOK' /\ Table!Next
    BY <1>1, <2>3, TextAlone
  <2>4. ASSUME WriteNewline(First) PROVE AloneOK' /\ UNCHANGED Findings
    <3>1. pc'[First] \in {"idle", "read_back"}
      <4>1. CASE End(First)
        BY <1>4, <4>1
      <4>2. CASE pc' = [pc EXCEPT ![First] = "read_back"]
        BY <4>2, AloneConstantsOK DEF IInv, Typed
      <4> QED
        BY <2>4, <4>1, <4>2 DEF WriteNewline
    <3>2. lines' = Append(lines, <<>>) /\ UNCHANGED <<minted, clock, now, ops>>
      BY <2>4 DEF WriteNewline
    <3> QED
      BY <1>1, <3>1, <3>2, EndAlone
  <2> QED
    BY <1>6, <1>8, <2>1, <2>2, <2>3, <2>4 DEF InStore
<1>9. ASSUME Over(First) PROVE AloneOK' /\ UNCHANGED Findings
  BY <1>1, <1>4, <1>9, EndAlone DEF Over, ReadBack, Die
<1>10. ASSUME Tick PROVE AloneOK' /\ UNCHANGED Findings
  <2>1. UNCHANGED <<lines, minted, pc, now, pending, ops>> /\ clock' = clock + 1
    BY <1>10 DEF Tick, procVars
  <2>2. UNCHANGED Findings
    BY <2>1, SameRecords DEF StoreOK
  <2>3. /\ ops' \in 0..MaxOps /\ minted' <= ops' /\ clock <= clock' /\ now'[First] <= clock'
        /\ pc'[First] = "record" => minted' < ops'
    BY <2>1, AloneConstantsOK, FindingConstantsOK DEF AloneOK, StoreOK, StoreTyped, Times
  <2>4. /\ pc'[First] \in {"record", "set_status", "text"} => NoneAfter(Findings, now'[First])
        /\ pc'[First] = "text" => /\ pending'[First].now = now'[First]
                                  /\ Justified(Findings, pending'[First])
    BY <2>1 DEF AloneOK
  <2> QED
    BY <1>1, <2>1, <2>2, <2>3, <2>4, AloneKept DEF OneAtATime
<1> QED
  BY <1>1, <1>2, <1>3, <1>5, <1>6, <1>7, <1>8, <1>9, <1>10 DEF InvNext, Acts

LEMMA AloneStutter ==
  ASSUME AloneOK, UNCHANGED <<invVars, alone>> PROVE AloneOK' /\ UNCHANGED Findings
BY DEF invVars, vars, procVars, AloneOK, OneActivePerQuery, NoneAfter, Justified, ActiveIds,
   Findings, Records

LEMMA AloneHolds == MCSpec => [](IInv /\ StoreOK /\ AloneOK)
<1>1. MCInit => InvInit /\ AloneOK
  BY AloneInit DEF MCInit
<1>2. [MCNext]_<<invVars, alone>> => [InvNext]_invVars
  BY DEF MCNext
<1>3. MCSpec => InvSpec
  BY <1>1, <1>2, PTL DEF MCSpec, InvSpec
<1>4. IInv /\ IInv' /\ StoreOK /\ StoreOK' /\ AloneOK /\ [MCNext]_<<invVars, alone>>
        => AloneOK'
  <2> SUFFICES ASSUME IInv, IInv', StoreOK, StoreOK', AloneOK, [MCNext]_<<invVars, alone>>
               PROVE  AloneOK'
    OBVIOUS
  <2>1. CASE MCNext /\ alone
    BY <2>1, AloneStep
  <2>2. CASE MCNext /\ ~ alone
    BY <2>2 DEF MCNext, AloneOK
  <2>3. CASE UNCHANGED <<invVars, alone>>
    BY <2>3, AloneStutter
  <2> QED
    BY <2>1, <2>2, <2>3
<1> QED
  BY <1>1, <1>3, <1>4, StoreHolds, PTL DEF MCSpec

(***************************************************************************)
(* When passes do not overlap, no query ever has two active findings,      *)
(* whatever its earlier findings went through and wherever passes died.    *)
(***************************************************************************)
THEOREM OneFindingIsActive == MCSpec => []OneActiveAlone
<1>1. AloneOK => OneActiveAlone
  BY DEF AloneOK, OneActiveAlone
<1> QED
  BY <1>1, AloneHolds, PTL

(***************************************************************************)
(* When passes do not overlap, what a load of the file finds is a table on *)
(* which every operation takes effect at once: when the text of its record *)
(* is written.                                                             *)
(***************************************************************************)
THEOREM StoreImplementsTable == MCSpec => ImplementsAlone
<1>1. MCInit => Table!Init
  BY AloneInit
<1>2. IInv /\ IInv' /\ StoreOK /\ StoreOK' /\ AloneOK /\ [MCNext]_<<invVars, alone>>
        => [alone => Table!Next]_Findings
  <2> SUFFICES ASSUME IInv, IInv', StoreOK, StoreOK', AloneOK, [MCNext]_<<invVars, alone>>, alone
               PROVE  Table!Next \/ UNCHANGED Findings
    OBVIOUS
  <2>1. CASE MCNext
    BY <2>1, AloneStep
  <2>2. CASE UNCHANGED <<invVars, alone>>
    BY <2>2, AloneStutter
  <2> QED
    BY <2>1, <2>2
<1> QED
  BY <1>1, <1>2, AloneHolds, PTL DEF MCSpec, ImplementsAlone
=============================================================================
